------------------------------ MODULE DataSync ------------------------------
(***************************************************************************)
(* scripts/data_sync.py: the operator's `data/` and `reports/` trees are   *)
(* mirrored to a bucket by `pull` and `push`.  The bucket holds one object *)
(* per key and one `manifest.json`, whose overwrite is the commit point of *)
(* a push; the manifest's generation counter is the only guard against     *)
(* concurrent writers.                                                     *)
(*                                                                         *)
(* Contents are abstracted to what sha256 tells apart: the content of a    *)
(* file is the set of edits made to it since it was created, and `Absent`  *)
(* (no edit at all) stands for a missing file.  Two contents have the same *)
(* digest exactly when they are the same set.  Edits come from the daily   *)
(* pipeline, or from an operator, and are the model's environment.         *)
(*                                                                         *)
(* Keys are numbered in the order in which `sorted()` visits them.  Every  *)
(* PUT, GET and DELETE of an object is one step, the manifest's PUT is     *)
(* one, `write_state` (an atomic rename) is one, and so is each local file *)
(* replaced or unlinked.  What a command reads of its own working copy     *)
(* when it starts is read in its first step: nobody edits a working copy   *)
(* while a command runs on it.                                             *)
(***************************************************************************)
EXTENDS Integers, FiniteSets

CONSTANTS
    Machines,       \* the working copies
    Runners,        \* those of CI: wiped between sessions, push append-only
    DataKeys,       \* keys under data/
    ReportKeys,     \* keys under reports/
    UnshapedKeys,   \* reports/ keys that are not run archives: never scanned
    RunDate,        \* the run date of a reports/ key
    PullWindows,    \* the --reports-window values each machine pulls with
    CrashSteps,     \* the steps at which a command may die
    Exclusive,      \* TRUE: commands never overlap (sessions still may)
    Discardable,    \* keys a user may delete from a working copy
    Seed,           \* the keys generation 1 starts with; {}: an empty bucket
    MaxEdits,       \* bound: edits made in a behaviour
    MaxGeneration   \* bound: the last generation pushed

Keys == DataKeys \cup ReportKeys
Edits == 0..MaxEdits
Full == 0                 \* reports_window is None: the whole tree
Absent == {}              \* the content of a key that has no file or object
Contents == SUBSET Edits
Trees == [Keys -> Contents]
Empty == [k \in Keys |-> Absent]

Steps == {"idle", "fetch", "prune", "upload", "record", "list", "delete"}

ASSUME KeysAssumption ==
    /\ DataKeys \subseteq Nat
    /\ ReportKeys \subseteq Nat
    /\ DataKeys \cap ReportKeys = {}
    /\ \A d \in DataKeys, r \in ReportKeys : d < r
    /\ UnshapedKeys \subseteq ReportKeys
    /\ Seed \subseteq Keys \ UnshapedKeys
    /\ Discardable \subseteq Keys
    /\ RunDate \in [ReportKeys -> Nat]

ASSUME MachinesAssumption ==
    /\ Runners \subseteq Machines
    /\ PullWindows \in [Machines -> SUBSET Nat]
    /\ CrashSteps \subseteq Steps \ {"idle"}
    /\ Exclusive \in BOOLEAN

ASSUME BoundsAssumption ==
    /\ MaxEdits \in Nat
    /\ MaxGeneration \in Nat \ {0}

VARIABLES
    manifest,   \* the bucket's manifest.json; generation 0: there is none
    objects,    \* the bucket's objects
    local,      \* each machine's data/ and reports/ trees
    synced,     \* each machine's .r2_sync_state.json; generation 0: none
    pc,         \* the step each machine's command is at
    job,        \* what each machine's command has read and has left to do
    edits,      \* how many edits were made so far
    discarded   \* ghost: keys some user deleted from a working copy

vars == <<manifest, objects, local, synced, pc, job, edits, discarded>>

NoJob == [seen |-> [generation |-> 0, files |-> Empty], window |-> Full, todo |-> {}]

----------------------------------------------------------------------------
(* Trees, windows and the files a push publishes. *)

Present(tree) == {k \in Keys : tree[k] # Absent}

RunDates(files) == {RunDate[k] : k \in ReportKeys \cap Present(files)}

(* The reports/ keys of the `window` newest run dates: run dates are       *)
(* counted, not calendar days.                                             *)
WindowedReportsKeys(files, window) ==
    {k \in ReportKeys \cap Present(files) :
        Cardinality({d \in RunDates(files) : d > RunDate[k]}) < window}

(* The reports/ keys a windowed working copy is not expected to hold. *)
OutOfWindow(files, window) ==
    IF window = Full
    THEN {}
    ELSE (ReportKeys \cap Present(files)) \ WindowedReportsKeys(files, window)

KeysToFetch(files, window) == Present(files) \ OutOfWindow(files, window)

PreservedReportsDates(files, window) ==
    {RunDate[k] : k \in OutOfWindow(files, window)}

(* A bug: the manifest lists only what the working copy holds. *)
ManifestFilesDroppingOutOfWindow(files, tree, window) == tree

ManifestFilesForPush(files, tree, window) ==
    [k \in Keys |->
        IF tree[k] # Absent THEN tree[k]
        ELSE IF k \in OutOfWindow(files, window) THEN files[k]
        ELSE Absent]

(* Whether the collector may delete a key the new manifest does not list.  *)
Reclaimable(k, files, window) ==
    (window # Full /\ k \in ReportKeys) =>
        /\ files[k] = Absent
        /\ k \notin UnshapedKeys
        /\ RunDate[k] \notin PreservedReportsDates(files, window)

(* The first key of `todo` in the order sorted() visits it. *)
IsNext(k, todo) == k \in todo /\ \A j \in todo : k <= j

----------------------------------------------------------------------------
(* The guards of a push. *)

(* A bug: the recorded generation is not compared with the remote's. *)
GenerationUnchecked(m) == TRUE

(* _next_generation: an empty bucket accepts any working copy. *)
GenerationMatches(m) ==
    \/ manifest.generation = 0
    \/ synced[m].generation = manifest.generation

(* The guard against a push that empties a root the bucket has content in. *)
EmptiesPopulatedRoot(files, tree) ==
    \E root \in {DataKeys, ReportKeys} :
        /\ root \cap Present(files) # {}
        /\ root \cap Present(tree) = {}

(* A bug: a key outside the window is excused, present or not. *)
AppendOnlyExcusingOutOfWindow(files, tree, window) ==
    \E k \in (ReportKeys \cap Present(files)) \ OutOfWindow(files, window) :
        tree[k] # files[k]

(* --reports-append-only: a published archive is missing or rewritten.  One *)
(* outside the window may be missing, but not rewritten.                    *)
BreaksAppendOnly(files, tree, window) ==
    \E k \in ReportKeys \cap Present(files) :
        IF tree[k] = Absent
        THEN k \notin OutOfWindow(files, window)
        ELSE tree[k] # files[k]

----------------------------------------------------------------------------
(* status. *)

(* A bug: what lies outside the window is excused, present or not. *)
LocalChangesInWindow(m) ==
    {k \in Keys \ OutOfWindow(manifest.files, synced[m].window) :
        local[m][k] # manifest.files[k]}

LocalChanges(m) ==
    {k \in Keys :
        /\ local[m][k] # manifest.files[k]
        /\ ~ /\ local[m][k] = Absent
             /\ k \in OutOfWindow(manifest.files, synced[m].window)}

(* The classification `status` prints. *)
Status(m) ==
    LET changed == LocalChanges(m) # {} IN
    IF manifest.generation = 0 THEN "remote-empty"
    ELSE IF synced[m].generation = 0 THEN "no-local-state"
    ELSE IF synced[m].generation = manifest.generation
         THEN IF changed THEN "local-changed" ELSE "in-sync"
    ELSE IF synced[m].generation < manifest.generation /\ ~changed
         THEN "remote-ahead"
    ELSE "diverged"

----------------------------------------------------------------------------
(* Commands.  A command that ends goes back to "idle" and forgets its job. *)

MayStart(m) ==
    /\ pc[m] = "idle"
    /\ Exclusive => \A n \in Machines : pc[n] = "idle"

Done(m) ==
    /\ pc' = [pc EXCEPT ![m] = "idle"]
    /\ job' = [job EXCEPT ![m] = NoJob]

(* pull: read the manifest, scan the working copy, choose what to fetch.   *)
(* Without a manifest the command fails at once.                           *)
PullBegin(m, window) ==
    /\ MayStart(m)
    /\ manifest.generation # 0
    /\ job' = [job EXCEPT ![m] =
           [seen   |-> manifest,
            window |-> window,
            todo   |-> {k \in KeysToFetch(manifest.files, window) :
                           local[m][k] # manifest.files[k]}]]
    /\ pc' = [pc EXCEPT ![m] = "fetch"]
    /\ UNCHANGED <<manifest, objects, local, synced, edits, discarded>>

(* A bug: the download replaces the local file before it is verified. *)
FetchUnverified(m) ==
    \E k \in Keys :
        /\ pc[m] = "fetch"
        /\ IsNext(k, job[m].todo)
        /\ local' = [local EXCEPT ![m][k] = objects[k]]
        /\ job' = [job EXCEPT ![m].todo = @ \ {k}]
        /\ UNCHANGED <<manifest, objects, synced, pc, edits, discarded>>

(* _download_verified: the file replaces the local one only if it has the  *)
(* manifest's digest.                                                      *)
Fetch(m) ==
    \E k \in Keys :
        /\ pc[m] = "fetch"
        /\ IsNext(k, job[m].todo)
        /\ objects[k] = job[m].seen.files[k]
        /\ local' = [local EXCEPT ![m][k] = objects[k]]
        /\ job' = [job EXCEPT ![m].todo = @ \ {k}]
        /\ UNCHANGED <<manifest, objects, synced, pc, edits, discarded>>

(* The object is missing or its bytes are not the manifest's: the command  *)
(* fails, and keeps what it already fetched.                               *)
FetchMismatch(m) ==
    \E k \in Keys :
        /\ pc[m] = "fetch"
        /\ IsNext(k, job[m].todo)
        /\ objects[k] # job[m].seen.files[k]
        /\ Done(m)
        /\ UNCHANGED <<manifest, objects, local, synced, edits, discarded>>

(* The local keys the full manifest does not list, unless it lists no key  *)
(* at all under their root (_retainable_prefixes).                         *)
Doomed(m) ==
    LET files == job[m].seen.files IN
    {k \in Present(local[m]) \ Present(files) :
        \E root \in {DataKeys, ReportKeys} :
            k \in root /\ root \cap Present(files) # {}}

StartPrune(m) ==
    /\ pc[m] = "fetch"
    /\ job[m].todo = {}
    /\ job' = [job EXCEPT ![m].todo = Doomed(m)]
    /\ pc' = [pc EXCEPT ![m] = "prune"]
    /\ UNCHANGED <<manifest, objects, local, synced, edits, discarded>>

Prune(m) ==
    \E k \in Keys :
        /\ pc[m] = "prune"
        /\ IsNext(k, job[m].todo)
        /\ local' = [local EXCEPT ![m][k] = Absent]
        /\ job' = [job EXCEPT ![m].todo = @ \ {k}]
        /\ UNCHANGED <<manifest, objects, synced, pc, edits, discarded>>

(* write_state ends the pull. *)
PullEnd(m) ==
    /\ pc[m] = "prune"
    /\ job[m].todo = {}
    /\ synced' = [synced EXCEPT ![m] =
           [generation |-> job[m].seen.generation, window |-> job[m].window]]
    /\ Done(m)
    /\ UNCHANGED <<manifest, objects, local, edits, discarded>>

(* A bug: an upload is skipped for every key the manifest already lists. *)
UploadsOfNewKeysOnly(files, tree) == Present(tree) \ Present(files)

Uploads(files, tree) == {k \in Present(tree) : tree[k] # files[k]}

(* push: read the manifest and the recorded state, scan the working copy,  *)
(* run every guard.  A refused push has sent nothing, so it is no step.    *)
PushBegin(m) ==
    LET window == synced[m].window IN
    /\ MayStart(m)
    /\ manifest.generation < MaxGeneration
    /\ GenerationMatches(m)
    /\ Present(local[m]) # {}
    /\ ~EmptiesPopulatedRoot(manifest.files, local[m])
    /\ m \in Runners => ~BreaksAppendOnly(manifest.files, local[m], window)
    /\ job' = [job EXCEPT ![m] =
           [seen   |-> manifest,
            window |-> window,
            todo   |-> Uploads(manifest.files, local[m])]]
    /\ pc' = [pc EXCEPT ![m] = "upload"]
    /\ UNCHANGED <<manifest, objects, local, synced, edits, discarded>>

Upload(m) ==
    \E k \in Keys :
        /\ pc[m] = "upload"
        /\ IsNext(k, job[m].todo)
        /\ objects' = [objects EXCEPT ![k] = local[m][k]]
        /\ job' = [job EXCEPT ![m].todo = @ \ {k}]
        /\ UNCHANGED <<manifest, local, synced, pc, edits, discarded>>

(* A bug: the manifest is written before the uploads. *)
CommitFirst(m) ==
    /\ pc[m] = "upload"
    /\ manifest' =
           [generation |-> job[m].seen.generation + 1,
            files      |-> ManifestFilesForPush(job[m].seen.files, local[m],
                                                job[m].window)]
    /\ pc' = [pc EXCEPT ![m] = "record"]
    /\ UNCHANGED <<objects, local, synced, job, edits, discarded>>

(* The commit point: an unconditional PUT of manifest.json. *)
Commit(m) ==
    /\ pc[m] = "upload"
    /\ job[m].todo = {}
    /\ manifest' =
           [generation |-> job[m].seen.generation + 1,
            files      |-> ManifestFilesForPush(job[m].seen.files, local[m],
                                                job[m].window)]
    /\ pc' = [pc EXCEPT ![m] = "record"]
    /\ UNCHANGED <<objects, local, synced, job, edits, discarded>>

(* A bug: the recorded generation is counted from the new manifest. *)
RecordTwoAhead(m) ==
    /\ pc[m] = "record"
    /\ synced' = [synced EXCEPT ![m] =
           [generation |-> manifest.generation + 1, window |-> job[m].window]]
    /\ pc' = [pc EXCEPT ![m] = "list"]
    /\ UNCHANGED <<manifest, objects, local, job, edits, discarded>>

(* write_state, after the commit. *)
Record(m) ==
    /\ pc[m] = "record"
    /\ synced' = [synced EXCEPT ![m] =
           [generation |-> job[m].seen.generation + 1, window |-> job[m].window]]
    /\ pc' = [pc EXCEPT ![m] = "list"]
    /\ UNCHANGED <<manifest, objects, local, job, edits, discarded>>

(* A bug: the garbage is what the previous manifest listed. *)
GarbageFromManifest(files, listed) == Present(files) \ Present(listed)

(* The garbage is every live object the new manifest does not list. *)
Garbage(files, listed) == Present(objects) \ Present(listed)

(* The garbage is listed live.  `data/` and `reports/` are listed by two   *)
(* requests; the model lists both in one step.                             *)
ListGarbage(m) ==
    LET files == ManifestFilesForPush(job[m].seen.files, local[m], job[m].window)
    IN
    /\ pc[m] = "list"
    /\ job' = [job EXCEPT ![m].todo =
           {k \in Garbage(job[m].seen.files, files) :
               Reclaimable(k, job[m].seen.files, job[m].window)}]
    /\ pc' = [pc EXCEPT ![m] = "delete"]
    /\ UNCHANGED <<manifest, objects, local, synced, edits, discarded>>

Delete(m) ==
    \E k \in Keys :
        /\ pc[m] = "delete"
        /\ IsNext(k, job[m].todo)
        /\ objects' = [objects EXCEPT ![k] = Absent]
        /\ job' = [job EXCEPT ![m].todo = @ \ {k}]
        /\ UNCHANGED <<manifest, local, synced, pc, edits, discarded>>

PushEnd(m) ==
    /\ pc[m] = "delete"
    /\ job[m].todo = {}
    /\ Done(m)
    /\ UNCHANGED <<manifest, objects, local, synced, edits, discarded>>

----------------------------------------------------------------------------
(* The environment. *)

(* A command dies, or an I/O error ends it: what it did so far stays. *)
Crash(m) ==
    /\ pc[m] \in CrashSteps
    /\ Done(m)
    /\ UNCHANGED <<manifest, objects, local, synced, edits, discarded>>

(* A CI job starts on an empty disk. *)
Reprovision(m) ==
    /\ m \in Runners
    /\ pc[m] = "idle"
    /\ local' = [local EXCEPT ![m] = Empty]
    /\ synced' = [synced EXCEPT ![m] = [generation |-> 0, window |-> Full]]
    /\ UNCHANGED <<manifest, objects, pc, job, edits, discarded>>

(* The pipeline or a user creates or rewrites a file. *)
Edit(m, k) ==
    /\ pc[m] = "idle"
    /\ k \notin UnshapedKeys
    /\ edits < MaxEdits
    /\ edits' = edits + 1
    /\ local' = [local EXCEPT ![m][k] = @ \cup {edits + 1}]
    /\ UNCHANGED <<manifest, objects, synced, pc, job, discarded>>

(* A user deletes a file. *)
Discard(m, k) ==
    /\ pc[m] = "idle"
    /\ k \in Discardable
    /\ local[m][k] # Absent
    /\ local' = [local EXCEPT ![m][k] = Absent]
    /\ discarded' = discarded \cup {k}
    /\ UNCHANGED <<manifest, objects, synced, pc, job, edits>>

Init ==
    /\ manifest = [generation |-> IF Seed = {} THEN 0 ELSE 1,
                   files      |-> [k \in Keys |-> IF k \in Seed THEN {0} ELSE Absent]]
    /\ objects = [k \in Keys |-> IF k \in Seed \cup UnshapedKeys THEN {0} ELSE Absent]
    /\ local = [m \in Machines |-> Empty]
    /\ synced = [m \in Machines |-> [generation |-> 0, window |-> Full]]
    /\ pc = [m \in Machines |-> "idle"]
    /\ job = [m \in Machines |-> NoJob]
    /\ edits = 0
    /\ discarded = {}

Pull(m) ==
    \/ \E window \in PullWindows[m] : PullBegin(m, window)
    \/ Fetch(m)
    \/ FetchMismatch(m)
    \/ StartPrune(m)
    \/ Prune(m)
    \/ PullEnd(m)

Push(m) ==
    \/ PushBegin(m)
    \/ Upload(m)
    \/ Commit(m)
    \/ Record(m)
    \/ ListGarbage(m)
    \/ Delete(m)
    \/ PushEnd(m)

Environment(m) ==
    \/ Crash(m)
    \/ Reprovision(m)
    \/ \E k \in Keys : Edit(m, k) \/ Discard(m, k)

Next == \E m \in Machines : Pull(m) \/ Push(m) \/ Environment(m)

Spec == Init /\ [][Next]_vars

----------------------------------------------------------------------------
(* Properties. *)

TypeOK ==
    /\ manifest \in [generation : 0..MaxGeneration, files : Trees]
    /\ objects \in Trees
    /\ local \in [Machines -> Trees]
    /\ synced \in [Machines -> [generation : 0..MaxGeneration, window : Nat]]
    /\ pc \in [Machines -> Steps]
    /\ job \in [Machines ->
           [seen   : [generation : 0..MaxGeneration, files : Trees],
            window : Nat,
            todo   : SUBSET Keys]]
    /\ edits \in Edits
    /\ discarded \subseteq Discardable

(* Whatever command dies wherever, every key the current manifest lists    *)
(* has an object: a push deletes only after its commit, and only what the  *)
(* new manifest does not list.                                             *)
ReferencedExist == Present(manifest.files) \subseteq Present(objects)

(* If commands die only after their commit point, every object the         *)
(* manifest lists holds exactly the listed bytes, except while some push   *)
(* is uploading: a crash after the manifest's PUT leaves a complete        *)
(* generation.                                                             *)
GenerationComplete ==
    (\A m \in Machines : pc[m] # "upload") =>
        \A k \in Present(manifest.files) : objects[k] = manifest.files[k]

(* When a pull is about to record its generation, the working copy is that *)
(* generation: every key the window selected holds the listed bytes and    *)
(* nothing unlisted is left, save under a root the bucket does not carry.  *)
(* Earlier pulls may have died half-way, and other machines may be writing *)
(* the bucket meanwhile.                                                   *)
PulledTreeIsOneGeneration ==
    \A m \in Machines : pc[m] = "prune" /\ job[m].todo = {} =>
        LET files == job[m].seen.files IN
        /\ \A k \in KeysToFetch(files, job[m].window) : local[m][k] = files[k]
        /\ \A k \in Present(local[m]) \ Present(files) :
               \E root \in {DataKeys, ReportKeys} :
                   k \in root /\ root \cap Present(files) = {}

(* No push makes an edit that some earlier push published disappear,       *)
(* unless a user deleted the file: "a write from elsewhere is detected     *)
(* rather than silently overwritten".                                      *)
NoEditLost ==
    [][\A k \in Keys \ discarded' : manifest.files[k] \subseteq manifest'.files[k]]_vars

(* No push puts an older content of a file back in the place of a newer    *)
(* one that some push published: "a write from elsewhere is detected        *)
(* rather than silently overwritten".  A file only gains edits, so what     *)
(* lacks some of a content's edits, and has no other, is an older content.  *)
NoWriteReverted ==
    [][\A k \in Keys :
          manifest'.files[k] \subseteq manifest.files[k] =>
              manifest'.files[k] \in {Absent, manifest.files[k]}]_vars

(* The commit of a CI run neither rewrites nor drops a published archive,  *)
(* whatever the session did to the working copy, and whether or not the    *)
(* window fetched that archive.                                            *)
RunnersAppendOnly ==
    [][\A m \in Runners : (pc[m] = "upload" /\ pc'[m] = "record") =>
          \A k \in ReportKeys \cap Present(manifest.files) :
              manifest'.files[k] = manifest.files[k]]_vars

(* A push that ran to its end without a window leaves no object that the   *)
(* manifest does not list, so the orphans of earlier crashed pushes are    *)
(* collected.                                                              *)
GarbageCollected ==
    \A m \in Machines :
        pc[m] = "delete" /\ job[m].todo = {} /\ job[m].window = Full =>
            Present(objects) = Present(manifest.files)

(* A working copy that `status` calls in-sync has nothing to publish: a    *)
(* push would upload no object and write the same file list.  This relates *)
(* two separate computations of what a window excuses.                     *)
InSyncHasNothingToPush ==
    \A m \in Machines : Status(m) = "in-sync" =>
        /\ Uploads(manifest.files, local[m]) = {}
        /\ ManifestFilesForPush(manifest.files, local[m], synced[m].window)
              = manifest.files

(* A push that has just committed has published a complete generation,     *)
(* also when an earlier push died before its commit: "the fix is to re-run *)
(* `push` from the machine holding the full local tree".                   *)
CommitIsComplete ==
    \A m \in Machines : pc[m] = "record" =>
        \A k \in Present(manifest.files) : objects[k] = manifest.files[k]

(* A published archive that no user deleted stays listed: a windowed push  *)
(* carries forward what its window did not fetch.                          *)
ArchivesStayListed ==
    [][\A k \in ReportKeys \ discarded' :
          manifest.files[k] # Absent => manifest'.files[k] # Absent]_vars

(* An archive that was published is never deleted by a windowed push, even *)
(* if it is locally absent: it is no orphan.  (The seed is published.)     *)
PublishedArchivesStay ==
    [][\A k \in ReportKeys \cap Seed : objects'[k] # Absent]_vars

(* The mirror implements the snapshot register. *)
Register == INSTANCE SnapshotRegister WITH
    generation <- manifest.generation,
    snapshot   <- manifest.files,
    base       <- [m \in Machines |-> synced[m].generation]

ImplementsRegister == Register!RSpec

=============================================================================
