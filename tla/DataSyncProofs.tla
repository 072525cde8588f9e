--------------------------- MODULE DataSyncProofs ---------------------------
(* Theorems about DataSync, for every set of machines, keys and bounds. *)
EXTENDS DataSync, TLAPS

----------------------------------------------------------------------------
(* Type correctness. *)

(* A push that has not recorded its generation yet still has room for one: *)
(* what makes TypeOK inductive, since Commit and Record write the          *)
(* successor of a generation read earlier.                                 *)
RoomToCommit ==
    \A m \in Machines :
        pc[m] \in {"upload", "record"} => job[m].seen.generation < MaxGeneration

TypeInv == TypeOK /\ RoomToCommit

(* Replacing one file of a tree, or one field of a job, keeps its type. *)
LEMMA JobType ==
    ASSUME NEW m \in Machines, NEW g \in 0..MaxGeneration, NEW t \in Trees,
           NEW w \in Nat, NEW S \in SUBSET Keys, TypeOK
    PROVE  [job EXCEPT ![m] = [seen |-> [generation |-> g, files |-> t],
                               window |-> w, todo |-> S]]
              \in [Machines -> [seen   : [generation : 0..MaxGeneration, files : Trees],
                                window : Nat, todo : SUBSET Keys]]
  BY DEF TypeOK

(* The empty tree, and so the job of an idle machine, is well-typed. *)
LEMMA EmptyTypes ==
    /\ Empty \in Trees
    /\ NoJob \in [seen   : [generation : 0..MaxGeneration, files : Trees],
                  window : Nat, todo : SUBSET Keys]
  BY BoundsAssumption DEF Empty, Trees, Contents, Absent, NoJob, Full

(* Replacing or removing one file of a tree gives a tree. *)
LEMMA UpdateType ==
    ASSUME NEW tree \in Trees, NEW k \in Keys, NEW c \in Contents
    PROVE  [tree EXCEPT ![k] = c] \in Trees
  BY DEF Trees

LEMMA AbsentType == Absent \in Contents
  BY DEF Absent, Contents

(* What a push lists is a tree. *)
LEMMA PushFilesType ==
    ASSUME NEW files \in Trees, NEW tree \in Trees, NEW window \in Nat
    PROVE  ManifestFilesForPush(files, tree, window) \in Trees
  BY DEF ManifestFilesForPush, Trees, Contents, Absent

(* The initial state is well-typed. *)
LEMMA InitTypeInv == Init => TypeInv
  <1> SUFFICES ASSUME Init PROVE TypeInv
    OBVIOUS
  <1>1. [k \in Keys |-> IF k \in Seed THEN {0} ELSE Absent] \in Trees
    BY BoundsAssumption DEF Trees, Contents, Edits, Absent
  <1>2. [k \in Keys |-> IF k \in Seed \cup UnshapedKeys THEN {0} ELSE Absent] \in Trees
    BY BoundsAssumption DEF Trees, Contents, Edits, Absent
  <1>3. manifest \in [generation : 0..MaxGeneration, files : Trees]
    BY <1>1, BoundsAssumption DEF Init
  <1>4. objects \in Trees
    BY <1>2 DEF Init
  <1>5. local \in [Machines -> Trees]
    BY EmptyTypes DEF Init
  <1>6. synced \in [Machines -> [generation : 0..MaxGeneration, window : Nat]]
    BY BoundsAssumption DEF Init, Full
  <1>7. pc \in [Machines -> Steps]
    BY DEF Init, Steps
  <1>8. job \in [Machines ->
           [seen   : [generation : 0..MaxGeneration, files : Trees],
            window : Nat,
            todo   : SUBSET Keys]]
    BY EmptyTypes DEF Init
  <1>9. edits \in Edits /\ discarded \subseteq Discardable
    BY BoundsAssumption DEF Init, Edits
  <1>10. RoomToCommit
    BY DEF Init, RoomToCommit
  <1> QED
    BY <1>3, <1>4, <1>5, <1>6, <1>7, <1>8, <1>9, <1>10 DEF TypeInv, TypeOK

(* Every step keeps the types: one step of the proof per action. *)
LEMMA NextTypeInv == TypeInv /\ [Next]_vars => TypeInv'
  <1> SUFFICES ASSUME TypeInv, [Next]_vars PROVE TypeInv'
    OBVIOUS
  <1> USE DEF TypeInv
  <1>1. ASSUME NEW m \in Machines, NEW window \in PullWindows[m], PullBegin(m, window)
        PROVE  TypeInv'
    <2>1. window \in Nat
      BY MachinesAssumption
    <2> QED
      BY <1>1, <2>1 DEF PullBegin, TypeOK, RoomToCommit, Steps, KeysToFetch, Present
  <1>2. ASSUME NEW m \in Machines, Fetch(m) PROVE TypeInv'
    <2>1. local' \in [Machines -> Trees]
      BY <1>2 DEF Fetch, TypeOK, Trees
    <2> QED
      BY <1>2, <2>1 DEF Fetch, TypeOK, RoomToCommit
  <1>3. ASSUME NEW m \in Machines, Done(m),
               UNCHANGED <<manifest, objects, edits, discarded>>,
               local' \in [Machines -> Trees],
               synced' \in [Machines -> [generation : 0..MaxGeneration, window : Nat]]
        PROVE  TypeInv'
    BY <1>3, EmptyTypes DEF Done, TypeOK, RoomToCommit, Steps
  <1>4. ASSUME NEW m \in Machines, FetchMismatch(m) PROVE TypeInv'
    BY <1>3, <1>4 DEF FetchMismatch, TypeOK
  <1>5. ASSUME NEW m \in Machines, StartPrune(m) PROVE TypeInv'
    BY <1>5 DEF StartPrune, Doomed, Present, TypeOK, RoomToCommit, Steps
  <1>6. ASSUME NEW m \in Machines, Prune(m) PROVE TypeInv'
    <2>1. local' \in [Machines -> Trees]
      <3> PICK k \in Keys : local' = [local EXCEPT ![m][k] = Absent]
        BY <1>6 DEF Prune
      <3>1. [local[m] EXCEPT ![k] = Absent] \in Trees
        BY UpdateType, AbsentType DEF TypeOK
      <3>2. local' = [local EXCEPT ![m] = [local[m] EXCEPT ![k] = Absent]]
        BY Zenon DEF TypeOK
      <3> QED
        BY <3>1, <3>2 DEF TypeOK
    <2> QED
      BY <1>6, <2>1 DEF Prune, TypeOK, RoomToCommit
  <1>7. ASSUME NEW m \in Machines, PullEnd(m) PROVE TypeInv'
    BY <1>3, <1>7 DEF PullEnd, TypeOK
  <1>8. ASSUME NEW m \in Machines, PushBegin(m) PROVE TypeInv'
    BY <1>8, BoundsAssumption
       DEF PushBegin, Uploads, Present, TypeOK, RoomToCommit, Steps
  <1>9. ASSUME NEW m \in Machines, Upload(m) PROVE TypeInv'
    <2>1. objects' \in Trees
      BY <1>9 DEF Upload, TypeOK, Trees
    <2> QED
      BY <1>9, <2>1 DEF Upload, TypeOK, RoomToCommit
  <1>10. ASSUME NEW m \in Machines, Commit(m) PROVE TypeInv'
    <2>1. ManifestFilesForPush(job[m].seen.files, local[m], job[m].window) \in Trees
      BY PushFilesType DEF TypeOK
    <2>2. job[m].seen.generation + 1 \in 0..MaxGeneration
      BY <1>10, BoundsAssumption DEF Commit, RoomToCommit, TypeOK
    <2> QED
      BY <1>10, <2>1, <2>2 DEF Commit, TypeOK, RoomToCommit, Steps
  <1>11. ASSUME NEW m \in Machines, Record(m) PROVE TypeInv'
    <2>1. job[m].seen.generation + 1 \in 0..MaxGeneration
      BY <1>11, BoundsAssumption DEF Record, RoomToCommit, TypeOK
    <2> QED
      BY <1>11, <2>1 DEF Record, TypeOK, RoomToCommit, Steps
  <1>12. ASSUME NEW m \in Machines, ListGarbage(m) PROVE TypeInv'
    BY <1>12 DEF ListGarbage, Garbage, Present, TypeOK, RoomToCommit, Steps
  <1>13. ASSUME NEW m \in Machines, Delete(m) PROVE TypeInv'
    <2>1. objects' \in Trees
      <3> PICK k \in Keys : objects' = [objects EXCEPT ![k] = Absent]
        BY <1>13 DEF Delete
      <3> QED
        BY UpdateType, AbsentType DEF TypeOK
    <2> QED
      BY <1>13, <2>1 DEF Delete, TypeOK, RoomToCommit
  <1>14. ASSUME NEW m \in Machines, PushEnd(m) PROVE TypeInv'
    BY <1>3, <1>14 DEF PushEnd, TypeOK
  <1>15. ASSUME NEW m \in Machines, Crash(m) PROVE TypeInv'
    BY <1>3, <1>15 DEF Crash, TypeOK
  <1>16. ASSUME NEW m \in Machines, Reprovision(m) PROVE TypeInv'
    BY <1>16, EmptyTypes, BoundsAssumption
       DEF Reprovision, TypeOK, RoomToCommit, Full
  <1>17. ASSUME NEW m \in Machines, NEW k \in Keys, Edit(m, k) PROVE TypeInv'
    <2>1. edits + 1 \in Edits
      BY <1>17, BoundsAssumption DEF Edit, TypeOK, Edits
    <2>2. local' \in [Machines -> Trees]
      BY <1>17, <2>1 DEF Edit, TypeOK, Trees, Contents
    <2> QED
      BY <1>17, <2>1, <2>2 DEF Edit, TypeOK, RoomToCommit
  <1>18. ASSUME NEW m \in Machines, NEW k \in Keys, Discard(m, k) PROVE TypeInv'
    <2>1. local' \in [Machines -> Trees]
      <3>1. [local[m] EXCEPT ![k] = Absent] \in Trees
        BY UpdateType, AbsentType DEF TypeOK
      <3> QED
        BY <1>18, <3>1 DEF Discard, TypeOK
    <2> QED
      BY <1>18, <2>1 DEF Discard, TypeOK, RoomToCommit
  <1>19. CASE UNCHANGED vars
    BY <1>19 DEF vars, TypeOK, RoomToCommit
  <1> QED
    BY <1>1, <1>2, <1>4, <1>5, <1>6, <1>7, <1>8, <1>9, <1>10, <1>11, <1>12,
       <1>13, <1>14, <1>15, <1>16, <1>17, <1>18, <1>19
       DEF Next, Pull, Push, Environment

(* Every reachable state is well-typed; in particular no generation ever   *)
(* exceeds the bound the guards name.                                      *)
THEOREM TypeCorrect == Spec => []TypeOK
  <1>1. TypeInv => TypeOK
    BY DEF TypeInv
  <1> QED
    BY <1>1, InitTypeInv, NextTypeInv, PTL DEF Spec

----------------------------------------------------------------------------
(* ReferencedExist.  It is not inductive: Commit lists keys whose uploads  *)
(* are earlier steps, and Delete removes keys chosen in an earlier step.   *)
(* The strengthening says what a push in progress has established; it      *)
(* holds because commands do not overlap.                                  *)

OneCommand ==
    \A m, n \in Machines : pc[m] # "idle" /\ pc[n] # "idle" => m = n

(* Until its commit a push works on the current manifest, and what it no   *)
(* longer has to upload is in the bucket.                                  *)
UploadInv ==
    \A m \in Machines : pc[m] = "upload" =>
        /\ job[m].seen = manifest
        /\ job[m].todo \subseteq Present(local[m])
        /\ Present(local[m]) \ job[m].todo \subseteq Present(objects)

(* From its commit to its end, the manifest is the one the push wrote. *)
CommittedInv ==
    \A m \in Machines : pc[m] \in {"record", "list", "delete"} =>
        manifest.files =
            ManifestFilesForPush(job[m].seen.files, local[m], job[m].window)

(* What a push is about to delete is not listed. *)
DeleteInv ==
    \A m \in Machines : pc[m] = "delete" =>
        job[m].todo \cap Present(manifest.files) = {}

ReferencedInv ==
    TypeOK /\ OneCommand /\ UploadInv /\ CommittedInv /\ DeleteInv /\ ReferencedExist

(* A push lists nothing that neither the working copy nor the previous     *)
(* manifest holds.                                                         *)
LEMMA PushListsHeldKeys ==
    ASSUME NEW files \in Trees, NEW tree \in Trees, NEW window \in Nat
    PROVE  Present(ManifestFilesForPush(files, tree, window))
              \subseteq Present(tree) \cup Present(files)
  BY DEF Present, ManifestFilesForPush

LEMMA InitReferencedInv == Init => ReferencedInv
  <1> SUFFICES ASSUME Init PROVE ReferencedInv
    OBVIOUS
  <1>1. TypeOK
    BY InitTypeInv DEF TypeInv
  <1>2. OneCommand /\ UploadInv /\ CommittedInv /\ DeleteInv
    BY DEF Init, OneCommand, UploadInv, CommittedInv, DeleteInv
  <1>3. ReferencedExist
    BY DEF Init, ReferencedExist, Present, Absent
  <1> QED
    BY <1>1, <1>2, <1>3 DEF ReferencedInv

(* A command that starts is alone; one that goes on was alone already. *)
LEMMA NextOneCommand ==
    ASSUME Exclusive, TypeOK, OneCommand, [Next]_vars
    PROVE  OneCommand'
  <1>1. ASSUME NEW m \in Machines, NEW step \in Steps,
               pc' = [pc EXCEPT ![m] = step],
               pc[m] # "idle" \/ \A n \in Machines : pc[n] = "idle"
        PROVE  OneCommand'
    BY <1>1 DEF OneCommand, TypeOK
  <1>2. ASSUME NEW m \in Machines, Pull(m) PROVE OneCommand'
    <2>1. ASSUME UNCHANGED pc PROVE OneCommand'
      BY <2>1 DEF OneCommand
    <2> QED
      BY <1>1, <1>2, <2>1
         DEF Pull, PullBegin, MayStart, Fetch, FetchMismatch, StartPrune, Prune,
             PullEnd, Done, Steps
  <1>3. ASSUME NEW m \in Machines, Push(m) PROVE OneCommand'
    <2>1. ASSUME UNCHANGED pc PROVE OneCommand'
      BY <2>1 DEF OneCommand
    <2> QED
      BY <1>1, <1>3, <2>1
         DEF Push, PushBegin, MayStart, Upload, Commit, Record, ListGarbage, Delete,
             PushEnd, Done, Steps
  <1>4. ASSUME NEW m \in Machines, Environment(m) PROVE OneCommand'
    <2>1. CASE Crash(m)
      <3>1. pc[m] # "idle"
        BY <2>1, MachinesAssumption DEF Crash
      <3> QED
        BY <1>1, <2>1, <3>1 DEF Crash, Done, Steps
    <2>2. ASSUME UNCHANGED pc PROVE OneCommand'
      BY <2>2 DEF OneCommand
    <2> QED
      BY <1>4, <2>1, <2>2 DEF Environment, Reprovision, Edit, Discard
  <1>5. CASE UNCHANGED vars
    BY <1>5 DEF vars, OneCommand
  <1> QED
    BY <1>2, <1>3, <1>4, <1>5 DEF Next

PushSteps == {"upload", "record", "list", "delete"}

(* A step of a machine that is not pushing, before or after, and leaves    *)
(* the bucket alone disturbs nothing.                                      *)
LEMMA OffPushKeepsReferencedInv ==
    ASSUME NEW m \in Machines, TypeOK, TypeOK', OneCommand', ReferencedInv,
           UNCHANGED <<manifest, objects>>,
           pc'[m] \notin PushSteps,
           \A n \in Machines \ {m} :
               pc'[n] = pc[n] /\ local'[n] = local[n] /\ job'[n] = job[n]
    PROVE  ReferencedInv'
  <1> USE DEF PushSteps
  <1>1. UploadInv'
    BY DEF UploadInv, ReferencedInv, Present
  <1>2. CommittedInv'
    BY DEF CommittedInv, ReferencedInv
  <1>3. DeleteInv'
    BY DEF DeleteInv, ReferencedInv, Present
  <1>4. ReferencedExist'
    BY DEF ReferencedExist, ReferencedInv, Present
  <1> QED
    BY <1>1, <1>2, <1>3, <1>4 DEF ReferencedInv

(* One step of the proof per action of a push; every other action is a     *)
(* step off push.                                                          *)
LEMMA NextReferencedInv ==
    ASSUME Exclusive, TypeInv, ReferencedInv, [Next]_vars
    PROVE  ReferencedInv'
  <1>1. TypeOK /\ TypeOK' /\ OneCommand /\ OneCommand'
    BY NextTypeInv, NextOneCommand DEF TypeInv, ReferencedInv
  <1>2. ASSUME NEW m \in Machines, Pull(m) PROVE ReferencedInv'
    BY <1>1, <1>2, OffPushKeepsReferencedInv
       DEF Pull, PullBegin, MayStart, Fetch, FetchMismatch, StartPrune, Prune,
           PullEnd, Done, PushSteps, TypeOK
  <1>3. ASSUME NEW m \in Machines, Environment(m) PROVE ReferencedInv'
    BY <1>1, <1>3, OffPushKeepsReferencedInv
       DEF Environment, Crash, Reprovision, Edit, Discard, Done, PushSteps, TypeOK
  <1>4. ASSUME NEW m \in Machines, PushEnd(m) PROVE ReferencedInv'
    BY <1>1, <1>4, OffPushKeepsReferencedInv DEF PushEnd, Done, PushSteps, TypeOK
  <1>5. ASSUME NEW m \in Machines, PushBegin(m) PROVE ReferencedInv'
    <2>1. /\ pc' = [pc EXCEPT ![m] = "upload"]
          /\ job'[m].seen = manifest
          /\ job'[m].todo = Uploads(manifest.files, local[m])
          /\ UNCHANGED <<manifest, objects, local>>
      BY <1>1, <1>5 DEF PushBegin, TypeOK
    <2>2. \A n \in Machines : pc'[n] # "idle" => n = m
      BY <1>1, <2>1 DEF OneCommand, TypeOK
    <2>3. /\ Uploads(manifest.files, local[m]) \subseteq Present(local[m])
          /\ Present(local[m]) \ Uploads(manifest.files, local[m])
                \subseteq Present(objects)
      BY DEF ReferencedInv, ReferencedExist, Uploads, Present
    <2>4. UploadInv'
      BY <2>1, <2>2, <2>3 DEF UploadInv, Present
    <2>5. CommittedInv' /\ DeleteInv'
      BY <1>1, <2>1, <2>2 DEF CommittedInv, DeleteInv, TypeOK
    <2>6. ReferencedExist'
      BY <2>1 DEF ReferencedInv, ReferencedExist, Present
    <2> QED
      BY <1>1, <2>4, <2>5, <2>6 DEF ReferencedInv
  <1>6. ASSUME NEW m \in Machines, Upload(m) PROVE ReferencedInv'
    <2> PICK k \in Keys :
          /\ k \in job[m].todo
          /\ objects' = [objects EXCEPT ![k] = local[m][k]]
          /\ job' = [job EXCEPT ![m].todo = @ \ {k}]
      BY <1>6 DEF Upload, IsNext
    <2>1. pc[m] = "upload" /\ UNCHANGED <<manifest, local, synced, pc>>
      BY <1>6 DEF Upload
    <2>2. \A n \in Machines : pc[n] # "idle" => n = m
      BY <1>1, <2>1 DEF OneCommand
    <2>3. job'[m].seen = job[m].seen /\ job'[m].todo = job[m].todo \ {k}
      BY <1>1 DEF TypeOK
    <2>4. local[m][k] # Absent
      BY <2>1 DEF ReferencedInv, UploadInv, Present
    <2>5. Present(objects) \subseteq Present(objects') /\ k \in Present(objects')
      BY <1>1, <2>4 DEF Present, TypeOK, Trees
    <2>6. UploadInv'
      BY <2>1, <2>2, <2>3, <2>5 DEF ReferencedInv, UploadInv, Present
    <2>7. CommittedInv' /\ DeleteInv'
      BY <2>1, <2>2 DEF CommittedInv, DeleteInv
    <2>8. ReferencedExist'
      BY <2>1, <2>5 DEF ReferencedInv, ReferencedExist, Present
    <2> QED
      BY <1>1, <2>6, <2>7, <2>8 DEF ReferencedInv
  <1>7. ASSUME NEW m \in Machines, Commit(m) PROVE ReferencedInv'
    <2> DEFINE files == ManifestFilesForPush(job[m].seen.files, local[m], job[m].window)
    <2>1. /\ pc[m] = "upload"
          /\ pc' = [pc EXCEPT ![m] = "record"]
          /\ manifest'.files = files
          /\ UNCHANGED <<objects, local, job>>
      BY <1>7 DEF Commit
    <2>2. \A n \in Machines : pc'[n] # "idle" => n = m /\ pc'[n] = "record"
      BY <1>1, <2>1 DEF OneCommand, TypeOK
    <2>3. UploadInv' /\ DeleteInv'
      BY <2>2 DEF UploadInv, DeleteInv
    <2>4. CommittedInv'
      BY <2>1, <2>2 DEF CommittedInv
    <2>5. Present(files) \subseteq Present(local[m]) \cup Present(manifest.files)
      BY <1>1, <2>1, PushListsHeldKeys DEF ReferencedInv, UploadInv, TypeOK
    <2>6. Present(local[m]) \subseteq Present(objects)
      BY <1>7, <2>1 DEF Commit, ReferencedInv, UploadInv
    <2>7. ReferencedExist'
      BY <2>1, <2>5, <2>6 DEF ReferencedInv, ReferencedExist, Present
    <2> QED
      BY <1>1, <2>3, <2>4, <2>7 DEF ReferencedInv
  <1>8. ASSUME NEW m \in Machines, Record(m) PROVE ReferencedInv'
    <2>1. /\ pc[m] = "record"
          /\ pc' = [pc EXCEPT ![m] = "list"]
          /\ UNCHANGED <<manifest, objects, local, job>>
      BY <1>8 DEF Record
    <2>2. \A n \in Machines : pc'[n] # "idle" => n = m /\ pc'[n] = "list"
      BY <1>1, <2>1 DEF OneCommand, TypeOK
    <2>3. UploadInv' /\ DeleteInv'
      BY <2>2 DEF UploadInv, DeleteInv
    <2>4. CommittedInv'
      BY <2>1, <2>2 DEF ReferencedInv, CommittedInv
    <2>5. ReferencedExist'
      BY <2>1 DEF ReferencedInv, ReferencedExist, Present
    <2> QED
      BY <1>1, <2>3, <2>4, <2>5 DEF ReferencedInv
  <1>9. ASSUME NEW m \in Machines, ListGarbage(m) PROVE ReferencedInv'
    <2>1. /\ pc[m] = "list"
          /\ pc' = [pc EXCEPT ![m] = "delete"]
          /\ UNCHANGED <<manifest, objects, local>>
          /\ job'[m].seen = job[m].seen /\ job'[m].window = job[m].window
      BY <1>1, <1>9 DEF ListGarbage, TypeOK
    <2>2. \A n \in Machines : pc'[n] # "idle" => n = m /\ pc'[n] = "delete"
      BY <1>1, <2>1 DEF OneCommand, TypeOK
    <2>3. manifest.files =
             ManifestFilesForPush(job[m].seen.files, local[m], job[m].window)
      BY <2>1 DEF ReferencedInv, CommittedInv
    <2>4. job'[m].todo \cap Present(manifest.files) = {}
      BY <1>1, <1>9, <2>3 DEF ListGarbage, Garbage, TypeOK
    <2>5. UploadInv'
      BY <2>2 DEF UploadInv
    <2>6. CommittedInv'
      BY <2>1, <2>2, <2>3 DEF CommittedInv
    <2>7. DeleteInv'
      BY <2>1, <2>2, <2>4 DEF DeleteInv, Present
    <2>8. ReferencedExist'
      BY <2>1 DEF ReferencedInv, ReferencedExist, Present
    <2> QED
      BY <1>1, <2>5, <2>6, <2>7, <2>8 DEF ReferencedInv
  <1>10. ASSUME NEW m \in Machines, Delete(m) PROVE ReferencedInv'
    <2> PICK k \in Keys :
          /\ k \in job[m].todo
          /\ objects' = [objects EXCEPT ![k] = Absent]
          /\ job' = [job EXCEPT ![m].todo = @ \ {k}]
      BY <1>10 DEF Delete, IsNext
    <2>1. pc[m] = "delete" /\ UNCHANGED <<manifest, local, synced, pc>>
      BY <1>10 DEF Delete
    <2>2. \A n \in Machines : pc[n] # "idle" => n = m
      BY <1>1, <2>1 DEF OneCommand
    <2>3. /\ job'[m].seen = job[m].seen
          /\ job'[m].window = job[m].window
          /\ job'[m].todo = job[m].todo \ {k}
      BY <1>1 DEF TypeOK
    <2>4. k \notin Present(manifest.files)
      BY <2>1 DEF ReferencedInv, DeleteInv
    <2>5. UploadInv'
      BY <2>1, <2>2 DEF UploadInv
    <2>6. CommittedInv'
      BY <2>1, <2>2, <2>3 DEF ReferencedInv, CommittedInv
    <2>7. DeleteInv'
      BY <2>1, <2>2, <2>3 DEF ReferencedInv, DeleteInv, Present
    <2>8. Present(objects) \ {k} \subseteq Present(objects')
      BY <1>1 DEF Present, TypeOK, Trees
    <2>9. ReferencedExist'
      BY <2>1, <2>4, <2>8 DEF ReferencedInv, ReferencedExist, Present
    <2> QED
      BY <1>1, <2>5, <2>6, <2>7, <2>9 DEF ReferencedInv
  <1>11. CASE UNCHANGED vars
    BY <1>1, <1>11
       DEF vars, ReferencedInv, UploadInv, CommittedInv, DeleteInv, ReferencedExist,
           Present
  <1> QED
    BY <1>2, <1>3, <1>4, <1>5, <1>6, <1>7, <1>8, <1>9, <1>10, <1>11 DEF Next, Push

(* Whatever command dies wherever: every key the manifest lists has an     *)
(* object, provided commands do not overlap.                               *)
THEOREM ReferencedAlwaysExist ==
    ASSUME Exclusive
    PROVE  Spec => []ReferencedExist
  <1>1. Init => TypeInv /\ ReferencedInv
    BY InitTypeInv, InitReferencedInv
  <1>2. TypeInv /\ ReferencedInv /\ [Next]_vars => TypeInv' /\ ReferencedInv'
    BY NextTypeInv, NextReferencedInv
  <1>3. ReferencedInv => ReferencedExist
    BY DEF ReferencedInv
  <1> QED
    BY <1>1, <1>2, <1>3, PTL DEF Spec

----------------------------------------------------------------------------
(* What a pull leaves in the working copy.  Nothing is assumed of other    *)
(* machines: the pull compares everything with the manifest it read.       *)

Pulling(m) ==
    LET files == job[m].seen.files  wanted == KeysToFetch(files, job[m].window) IN
    /\ pc[m] = "fetch" =>
          \A k \in wanted \ job[m].todo : local[m][k] = files[k]
    /\ pc[m] = "prune" =>
          /\ \A k \in wanted : local[m][k] = files[k]
          /\ job[m].todo \cap Present(files) = {}
          /\ Doomed(m) \subseteq job[m].todo

PullInv == \A m \in Machines : Pulling(m)

LEMMA WantedKeys ==
    \A files, window : KeysToFetch(files, window) \subseteq Present(files)
  BY DEF KeysToFetch

LEMMA NextPullInv == TypeInv /\ PullInv /\ [Next]_vars => PullInv'
  <1> SUFFICES ASSUME TypeInv, PullInv, [Next]_vars PROVE PullInv'
    OBVIOUS
  <1>0. TypeOK
    BY DEF TypeInv
  <1>1. ASSUME NEW m \in Machines, pc'[m] = pc[m], job'[m] = job[m], local'[m] = local[m]
        PROVE  Pulling(m)'
    <2>1. Pulling(m)
      BY DEF PullInv
    <2>2. /\ KeysToFetch(job[m].seen.files, job[m].window)'
                = KeysToFetch(job[m].seen.files, job[m].window)
          /\ Doomed(m)' = Doomed(m) /\ Present(job[m].seen.files)' = Present(job[m].seen.files)
      BY <1>1 DEF Doomed, KeysToFetch, Present, OutOfWindow, WindowedReportsKeys, RunDates
    <2> QED BY <1>1, <2>1, <2>2 DEF Pulling
  <1>2. ASSUME NEW m \in Machines, pc'[m] \notin {"fetch", "prune"}
        PROVE  Pulling(m)'
    BY <1>2 DEF Pulling
  <1>3. ASSUME NEW m \in Machines, Pulling(m)',
               \A n \in Machines \ {m} :
                   pc'[n] = pc[n] /\ job'[n] = job[n] /\ local'[n] = local[n]
        PROVE  PullInv'
    BY <1>1, <1>3 DEF PullInv
  <1>4. ASSUME NEW m \in Machines, NEW window \in PullWindows[m], PullBegin(m, window)
        PROVE  PullInv'
    <2>1. /\ pc'[m] = "fetch" /\ job'[m].seen = manifest /\ job'[m].window = window
          /\ job'[m].todo = {k \in KeysToFetch(manifest.files, window) :
                                local[m][k] # manifest.files[k]}
          /\ local' = local
          /\ \A n \in Machines \ {m} : pc'[n] = pc[n] /\ job'[n] = job[n]
      BY <1>0, <1>4 DEF PullBegin, TypeOK
    <2>2. Pulling(m)'
      BY <2>1 DEF Pulling, KeysToFetch, Present, OutOfWindow, WindowedReportsKeys, RunDates
    <2> QED BY <1>3, <2>1, <2>2
  <1>5. ASSUME NEW m \in Machines, Fetch(m)
        PROVE  PullInv'
    <2>1. PICK k \in Keys :
             /\ pc[m] = "fetch" /\ objects[k] = job[m].seen.files[k]
             /\ local' = [local EXCEPT ![m][k] = objects[k]]
             /\ job' = [job EXCEPT ![m].todo = @ \ {k}] /\ pc' = pc
      BY <1>5 DEF Fetch
    <2>2. /\ local'[m] = [local[m] EXCEPT ![k] = objects[k]]
          /\ job'[m].seen = job[m].seen /\ job'[m].window = job[m].window
          /\ job'[m].todo = job[m].todo \ {k}
          /\ \A n \in Machines \ {m} : local'[n] = local[n] /\ job'[n] = job[n]
      BY <1>0, <2>1 DEF TypeOK
    <2>3. local'[m][k] = job[m].seen.files[k] /\ \A j \in Keys \ {k} : local'[m][j] = local[m][j]
      BY <1>0, <2>1, <2>2 DEF TypeOK, Trees
    <2> DEFINE files == job[m].seen.files
               wanted == KeysToFetch(files, job[m].window)
    <2>4. \A j \in wanted \ job'[m].todo : local'[m][j] = files[j]
      <3>1. \A j \in wanted \ job[m].todo : local[m][j] = files[j]
        BY <2>1 DEF PullInv, Pulling
      <3>2. wanted \subseteq Keys
        BY WantedKeys DEF Present
      <3> HIDE DEF files, wanted
      <3> QED BY <2>2, <2>3, <3>1, <3>2 DEF files
    <2>5. Pulling(m)'
      <3>1. KeysToFetch(job[m].seen.files, job[m].window)'
               = KeysToFetch(job[m].seen.files, job[m].window)
        BY <2>2 DEF KeysToFetch, Present, OutOfWindow, WindowedReportsKeys, RunDates
      <3> QED BY <2>1, <2>2, <2>4, <3>1 DEF Pulling
    <2> QED BY <1>3, <2>1, <2>2, <2>5
  <1>6. ASSUME NEW m \in Machines, StartPrune(m)
        PROVE  PullInv'
    <2>1. /\ pc[m] = "fetch" /\ job[m].todo = {} /\ pc'[m] = "prune" /\ local' = local
          /\ job'[m].seen = job[m].seen /\ job'[m].window = job[m].window
          /\ job'[m].todo = Doomed(m)
          /\ \A n \in Machines \ {m} : pc'[n] = pc[n] /\ job'[n] = job[n]
      BY <1>0, <1>6 DEF StartPrune, TypeOK
    <2>2. \A k \in KeysToFetch(job[m].seen.files, job[m].window) :
             local[m][k] = job[m].seen.files[k]
      BY <2>1 DEF PullInv, Pulling
    <2>3. /\ KeysToFetch(job[m].seen.files, job[m].window)'
                = KeysToFetch(job[m].seen.files, job[m].window)
          /\ Doomed(m)' = Doomed(m) /\ Present(job[m].seen.files)' = Present(job[m].seen.files)
      BY <2>1 DEF Doomed, KeysToFetch, Present, OutOfWindow, WindowedReportsKeys, RunDates
    <2>4. Doomed(m) \cap Present(job[m].seen.files) = {}
      BY DEF Doomed
    <2>5. Pulling(m)'
      BY <2>1, <2>2, <2>3, <2>4 DEF Pulling
    <2> QED BY <1>3, <2>1, <2>5
  <1>7. ASSUME NEW m \in Machines, Prune(m)
        PROVE  PullInv'
    <2>1. PICK k \in Keys :
             /\ pc[m] = "prune" /\ k \in job[m].todo
             /\ local' = [local EXCEPT ![m][k] = Absent]
             /\ job' = [job EXCEPT ![m].todo = @ \ {k}] /\ pc' = pc
      BY <1>7 DEF Prune, IsNext
    <2>2. /\ local'[m] = [local[m] EXCEPT ![k] = Absent]
          /\ job'[m].seen = job[m].seen /\ job'[m].window = job[m].window
          /\ job'[m].todo = job[m].todo \ {k}
          /\ \A n \in Machines \ {m} : local'[n] = local[n] /\ job'[n] = job[n]
      BY <1>0, <2>1 DEF TypeOK
    <2>3. local'[m][k] = Absent /\ \A j \in Keys \ {k} : local'[m][j] = local[m][j]
      BY <1>0, <2>1, <2>2 DEF TypeOK, Trees
    <2>4. /\ \A j \in KeysToFetch(job[m].seen.files, job[m].window) :
                local[m][j] = job[m].seen.files[j]
          /\ job[m].todo \cap Present(job[m].seen.files) = {}
          /\ Doomed(m) \subseteq job[m].todo
      BY <2>1 DEF PullInv, Pulling
    <2>5. /\ KeysToFetch(job[m].seen.files, job[m].window)'
                = KeysToFetch(job[m].seen.files, job[m].window)
          /\ Present(job[m].seen.files)' = Present(job[m].seen.files)
      BY <2>2 DEF KeysToFetch, Present, OutOfWindow, WindowedReportsKeys, RunDates
    <2>6. Doomed(m)' \subseteq Doomed(m) \ {k}
      BY <2>2, <2>3 DEF Doomed, Present
    <2>7. \A j \in KeysToFetch(job[m].seen.files, job[m].window) :
             local'[m][j] = job[m].seen.files[j]
      BY <2>1, <2>3, <2>4, WantedKeys DEF Present
    <2>8. Pulling(m)'
      BY <2>1, <2>2, <2>4, <2>5, <2>6, <2>7 DEF Pulling
    <2> QED BY <1>3, <2>1, <2>2, <2>8
  <1>8. ASSUME NEW m \in Machines,
               FetchMismatch(m) \/ PullEnd(m) \/ Push(m) \/ Environment(m)
        PROVE  PullInv'
    <2>1. /\ pc'[m] \notin {"fetch", "prune"}
          /\ \A n \in Machines \ {m} :
                pc'[n] = pc[n] /\ job'[n] = job[n] /\ local'[n] = local[n]
      BY <1>0, <1>8
         DEF FetchMismatch, PullEnd, Push, PushBegin, Upload, Commit, Record, ListGarbage,
             Delete, PushEnd, Environment, Crash, Reprovision, Edit, Discard, Done, TypeOK
    <2> QED BY <1>2, <1>3, <2>1
  <1>9. CASE UNCHANGED vars
    BY <1>1, <1>9 DEF vars, PullInv
  <1> QED BY <1>4, <1>5, <1>6, <1>7, <1>8, <1>9 DEF Next, Pull

(* When a pull is about to record its generation, the working copy is that *)
(* generation, whatever earlier pulls left behind and whatever other       *)
(* machines do to the bucket meanwhile.                                    *)
THEOREM PullYieldsOneGeneration == Spec => []PulledTreeIsOneGeneration
  <1>1. Init => PullInv
    BY DEF Init, PullInv, Pulling
  <1>2. PullInv => PulledTreeIsOneGeneration
    <2> SUFFICES ASSUME PullInv, NEW m \in Machines, pc[m] = "prune", job[m].todo = {}
                 PROVE  LET files == job[m].seen.files IN
                        /\ \A k \in KeysToFetch(files, job[m].window) : local[m][k] = files[k]
                        /\ \A k \in Present(local[m]) \ Present(files) :
                               \E root \in {DataKeys, ReportKeys} :
                                   k \in root /\ root \cap Present(files) = {}
      BY DEF PulledTreeIsOneGeneration
    <2>1. Pulling(m)
      BY DEF PullInv
    <2> QED BY <2>1 DEF Pulling, Doomed, Present, Keys
  <1> QED BY <1>1, <1>2, InitTypeInv, NextTypeInv, NextPullInv, PTL DEF Spec

(* What `status` calls in-sync is what a push finds nothing to do for.     *)
THEOREM InSyncIsPublished == Spec => []InSyncHasNothingToPush
  <1>1. TypeOK => InSyncHasNothingToPush
    <2> SUFFICES ASSUME TypeOK, NEW m \in Machines, Status(m) = "in-sync"
                 PROVE  /\ Uploads(manifest.files, local[m]) = {}
                        /\ ManifestFilesForPush(manifest.files, local[m], synced[m].window)
                              = manifest.files
      BY DEF InSyncHasNothingToPush
    <2>1. LocalChanges(m) = {}
      BY DEF Status
    <2>2. \A k \in Keys : \/ local[m][k] = manifest.files[k]
                          \/ /\ local[m][k] = Absent
                             /\ k \in OutOfWindow(manifest.files, synced[m].window)
      BY <2>1 DEF LocalChanges
    <2>3. manifest.files = [k \in Keys |-> manifest.files[k]]
      BY DEF TypeOK, Trees
    <2> QED BY <2>2, <2>3 DEF Uploads, ManifestFilesForPush, Present
  <1> QED BY <1>1, TypeCorrect, PTL

----------------------------------------------------------------------------
(* What a push without a window leaves in the bucket.                      *)

(* What the manifest does not list is still to be deleted.                 *)
GarbageInv ==
    \A m \in Machines :
        pc[m] = "delete" /\ job[m].window = Full =>
            Present(objects) \ Present(manifest.files) \subseteq job[m].todo

LEMMA NextGarbageInv ==
    ASSUME Exclusive, TypeInv, ReferencedInv, GarbageInv, [Next]_vars
    PROVE  GarbageInv'
  <1>1. TypeOK /\ OneCommand /\ OneCommand'
    BY NextTypeInv, NextReferencedInv DEF TypeInv, ReferencedInv
  <1>2. ASSUME \A m \in Machines : pc'[m] # "delete"
        PROVE  GarbageInv'
    BY <1>2 DEF GarbageInv
  <1>3. ASSUME NEW m \in Machines, pc'[m] \notin {"idle", "delete"}
        PROVE  GarbageInv'
    BY <1>1, <1>2, <1>3 DEF OneCommand
  <1>4. ASSUME UNCHANGED <<manifest, objects, pc, job>>
        PROVE  GarbageInv'
    BY <1>4 DEF GarbageInv, Present
  <1>5. ASSUME NEW m \in Machines, Done(m), pc[m] # "idle"
        PROVE  GarbageInv'
    <2>1. \A n \in Machines : pc'[n] = "idle"
      BY <1>1, <1>5 DEF Done, OneCommand, TypeOK
    <2> QED BY <1>2, <2>1
  <1>6. ASSUME NEW m \in Machines, Pull(m)
        PROVE  GarbageInv'
    BY <1>1, <1>3, <1>5, <1>6
       DEF Pull, PullBegin, Fetch, FetchMismatch, StartPrune, Prune, PullEnd, TypeOK
  <1>7. ASSUME NEW m \in Machines, Environment(m)
        PROVE  GarbageInv'
    <2>1. CASE Crash(m)
      BY <1>5, <2>1, MachinesAssumption DEF Crash
    <2>2. CASE Reprovision(m) \/ \E k \in Keys : Edit(m, k) \/ Discard(m, k)
      BY <1>4, <2>2 DEF Reprovision, Edit, Discard
    <2> QED BY <1>7, <2>1, <2>2 DEF Environment
  <1>8. ASSUME NEW m \in Machines, PushBegin(m) \/ Upload(m) \/ Commit(m) \/ Record(m)
        PROVE  GarbageInv'
    BY <1>1, <1>3, <1>8 DEF PushBegin, Upload, Commit, Record, TypeOK
  <1>9. ASSUME NEW m \in Machines, ListGarbage(m)
        PROVE  GarbageInv'
    <2>1. /\ pc[m] = "list" /\ pc' = [pc EXCEPT ![m] = "delete"]
          /\ UNCHANGED <<manifest, objects>> /\ job'[m].window = job[m].window
          /\ job'[m].todo =
                {k \in Garbage(job[m].seen.files,
                               ManifestFilesForPush(job[m].seen.files, local[m], job[m].window)) :
                    Reclaimable(k, job[m].seen.files, job[m].window)}
      BY <1>1, <1>9 DEF ListGarbage, TypeOK
    <2>2. manifest.files = ManifestFilesForPush(job[m].seen.files, local[m], job[m].window)
      BY <2>1 DEF ReferencedInv, CommittedInv
    <2>3. job[m].window = Full => Present(objects) \ Present(manifest.files) \subseteq job'[m].todo
      BY <2>1, <2>2 DEF Garbage, Reclaimable
    <2>4. \A n \in Machines : pc'[n] = "delete" => n = m
      BY <1>1, <2>1 DEF OneCommand, TypeOK
    <2> QED BY <2>1, <2>3, <2>4 DEF GarbageInv, Present
  <1>10. ASSUME NEW m \in Machines, Delete(m)
         PROVE  GarbageInv'
    <2>1. PICK k \in Keys :
             /\ objects' = [objects EXCEPT ![k] = Absent]
             /\ job' = [job EXCEPT ![m].todo = @ \ {k}]
             /\ pc[m] = "delete" /\ UNCHANGED <<manifest, pc>>
      BY <1>10 DEF Delete
    <2>2. /\ job'[m].window = job[m].window /\ job'[m].todo = job[m].todo \ {k}
          /\ \A n \in Machines : pc'[n] = "delete" => n = m
      BY <1>1, <2>1 DEF OneCommand, TypeOK
    <2>3. Present(objects') = Present(objects) \ {k}
      BY <1>1, <2>1 DEF Present, TypeOK, Trees
    <2>4. job[m].window = Full => Present(objects) \ Present(manifest.files) \subseteq job[m].todo
      BY <2>1 DEF GarbageInv
    <2> QED BY <2>1, <2>2, <2>3, <2>4 DEF GarbageInv, Present
  <1>11. ASSUME NEW m \in Machines, PushEnd(m)
         PROVE  GarbageInv'
    BY <1>5, <1>11 DEF PushEnd
  <1>12. CASE UNCHANGED vars
    BY <1>4, <1>12 DEF vars
  <1> QED BY <1>6, <1>7, <1>8, <1>9, <1>10, <1>11, <1>12 DEF Next, Push

(* A push of the whole tree that runs to its end leaves exactly the        *)
(* objects the manifest lists: it collects what crashed pushes uploaded    *)
(* and never committed.                                                    *)
THEOREM OrphansAreCollected ==
    ASSUME Exclusive
    PROVE  Spec => []GarbageCollected
  <1>1. Init => GarbageInv
    BY DEF Init, GarbageInv
  <1>2. ReferencedInv /\ GarbageInv => GarbageCollected
    <2> SUFFICES ASSUME ReferencedInv, GarbageInv, NEW m \in Machines,
                        pc[m] = "delete", job[m].todo = {}, job[m].window = Full
                 PROVE  Present(objects) = Present(manifest.files)
      BY DEF GarbageCollected
    <2>1. Present(objects) \ Present(manifest.files) \subseteq {}
      BY DEF GarbageInv
    <2>2. Present(manifest.files) \subseteq Present(objects)
      BY DEF ReferencedInv, ReferencedExist
    <2> QED BY <2>1, <2>2
  <1>3. TypeInv /\ ReferencedInv /\ GarbageInv /\ [Next]_vars =>
           TypeInv' /\ ReferencedInv' /\ GarbageInv'
    BY NextTypeInv, NextReferencedInv, NextGarbageInv
  <1> QED BY <1>1, <1>2, <1>3, InitTypeInv, InitReferencedInv, PTL DEF Spec

----------------------------------------------------------------------------
(* Complete generations, when no push dies while it uploads.               *)

(* What a push in progress has uploaded, and what it will carry over, is   *)
(* in the bucket as it will be listed.                                     *)
UploadedInv ==
    \A m \in Machines : pc[m] = "upload" =>
        \A k \in Keys \ job[m].todo :
            IF local[m][k] # Absent
            THEN objects[k] = local[m][k]
            ELSE manifest.files[k] # Absent => objects[k] = manifest.files[k]

LEMMA PushListsContents ==
    ASSUME NEW files \in Trees, NEW tree, NEW window, NEW k \in Keys,
           ManifestFilesForPush(files, tree, window)[k] # Absent
    PROVE  ManifestFilesForPush(files, tree, window)[k] =
              IF tree[k] # Absent THEN tree[k] ELSE files[k]
  BY DEF ManifestFilesForPush

LEMMA NextUploadedInv ==
    ASSUME Exclusive, "upload" \notin CrashSteps,
           TypeInv, ReferencedInv, UploadedInv, GenerationComplete, [Next]_vars
    PROVE  UploadedInv' /\ GenerationComplete'
  <1>1. TypeOK /\ OneCommand /\ OneCommand'
    BY NextTypeInv, NextReferencedInv DEF TypeInv, ReferencedInv
  <1>2. ASSUME UNCHANGED <<manifest, objects>>, \A m \in Machines : pc[m] # "upload",
               \A m \in Machines : pc'[m] # "upload"
        PROVE  UploadedInv' /\ GenerationComplete'
    BY <1>2 DEF UploadedInv, GenerationComplete, Present
  <1>3. ASSUME NEW m \in Machines, pc[m] \notin {"idle", "upload"}, pc'[m] # "upload",
               \A n \in Machines \ {m} : pc'[n] = pc[n]
        PROVE  /\ \A n \in Machines : pc[n] # "upload"
               /\ \A n \in Machines : pc'[n] # "upload"
    BY <1>1, <1>3 DEF OneCommand
  <1>4. ASSUME NEW m \in Machines, Pull(m)
        PROVE  UploadedInv' /\ GenerationComplete'
    <2>1. UNCHANGED <<manifest, objects>>
      BY <1>4 DEF Pull, PullBegin, Fetch, FetchMismatch, StartPrune, Prune, PullEnd
    <2>2. CASE \E window \in PullWindows[m] : PullBegin(m, window)
      <3>1. \A n \in Machines : pc[n] = "idle" /\ pc'[n] # "upload"
        BY <1>1, <2>2 DEF PullBegin, MayStart, TypeOK
      <3> QED BY <1>2, <2>1, <3>1
    <2>3. CASE Fetch(m) \/ FetchMismatch(m) \/ StartPrune(m) \/ Prune(m) \/ PullEnd(m)
      <3>1. /\ pc[m] \notin {"idle", "upload"} /\ pc'[m] # "upload"
            /\ \A n \in Machines \ {m} : pc'[n] = pc[n]
        BY <1>1, <2>3 DEF Fetch, FetchMismatch, StartPrune, Prune, PullEnd, Done, TypeOK
      <3> QED BY <1>2, <1>3, <2>1, <3>1
    <2> QED BY <1>4, <2>2, <2>3 DEF Pull
  <1>5. ASSUME NEW m \in Machines, Environment(m)
        PROVE  UploadedInv' /\ GenerationComplete'
    <2>1. CASE Crash(m)
      <3>1. /\ pc[m] \notin {"idle", "upload"} /\ pc'[m] # "upload"
            /\ \A n \in Machines \ {m} : pc'[n] = pc[n]
            /\ UNCHANGED <<manifest, objects>>
        BY <1>1, <2>1, MachinesAssumption DEF Crash, Done, TypeOK
      <3> QED BY <1>2, <1>3, <3>1
    <2>2. CASE Reprovision(m) \/ \E k \in Keys : Edit(m, k) \/ Discard(m, k)
      <3>1. /\ pc[m] = "idle" /\ UNCHANGED <<manifest, objects, pc, job>>
            /\ \A n \in Machines \ {m} : local'[n] = local[n]
        BY <1>1, <2>2 DEF Reprovision, Edit, Discard, TypeOK
      <3>2. UploadedInv'
        BY <3>1 DEF UploadedInv
      <3> QED BY <3>1, <3>2 DEF GenerationComplete, Present
    <2> QED BY <1>5, <2>1, <2>2 DEF Environment
  <1>6. ASSUME NEW m \in Machines, PushBegin(m)
        PROVE  UploadedInv' /\ GenerationComplete'
    <2>1. /\ pc' = [pc EXCEPT ![m] = "upload"]
          /\ job'[m].todo = Uploads(manifest.files, local[m])
          /\ UNCHANGED <<manifest, objects, local>>
          /\ \A n \in Machines : pc[n] = "idle"
      BY <1>1, <1>6 DEF PushBegin, MayStart, TypeOK
    <2>2. \A n \in Machines : pc'[n] = "upload" <=> n = m
      BY <1>1, <2>1 DEF TypeOK
    <2>3. \A k \in Keys : manifest.files[k] # Absent => objects[k] = manifest.files[k]
      BY <2>1 DEF GenerationComplete, Present
    <2>4. UploadedInv'
      BY <2>1, <2>2, <2>3 DEF UploadedInv, Uploads, Present
    <2> QED BY <2>2, <2>4 DEF GenerationComplete
  <1>7. ASSUME NEW m \in Machines, Upload(m)
        PROVE  UploadedInv' /\ GenerationComplete'
    <2>1. PICK k \in Keys :
             /\ objects' = [objects EXCEPT ![k] = local[m][k]]
             /\ job' = [job EXCEPT ![m].todo = @ \ {k}] /\ k \in job[m].todo
             /\ pc[m] = "upload" /\ UNCHANGED <<manifest, local, pc>>
      BY <1>7 DEF Upload, IsNext
    <2>2. /\ job'[m].todo = job[m].todo \ {k} /\ local[m][k] # Absent
          /\ objects'[k] = local[m][k] /\ \A j \in Keys \ {k} : objects'[j] = objects[j]
          /\ \A n \in Machines : pc[n] = "upload" <=> n = m
      BY <1>1, <2>1 DEF ReferencedInv, UploadInv, Present, OneCommand, TypeOK, Trees
    <2>3. UploadedInv'
      BY <2>1, <2>2 DEF UploadedInv
    <2> QED BY <2>1, <2>2, <2>3 DEF GenerationComplete
  <1>8. ASSUME NEW m \in Machines, Commit(m)
        PROVE  UploadedInv' /\ GenerationComplete'
    <2> DEFINE files == ManifestFilesForPush(job[m].seen.files, local[m], job[m].window)
    <2>1. /\ pc[m] = "upload" /\ job[m].todo = {} /\ manifest'.files = files
          /\ pc' = [pc EXCEPT ![m] = "record"] /\ UNCHANGED objects
      BY <1>8 DEF Commit
    <2>2. \A n \in Machines : pc'[n] # "upload"
      BY <1>1, <2>1 DEF OneCommand, TypeOK
    <2>3. job[m].seen = manifest
      BY <2>1 DEF ReferencedInv, UploadInv
    <2>4. \A k \in Keys : files[k] # Absent => objects[k] = files[k]
      <3> SUFFICES ASSUME NEW k \in Keys, files[k] # Absent
                   PROVE  objects[k] = files[k]
        OBVIOUS
      <3>1. files[k] = IF local[m][k] # Absent THEN local[m][k] ELSE manifest.files[k]
        BY <1>1, <2>3, PushListsContents DEF TypeOK
      <3>2. IF local[m][k] # Absent
            THEN objects[k] = local[m][k]
            ELSE manifest.files[k] # Absent => objects[k] = manifest.files[k]
        BY <2>1 DEF UploadedInv
      <3> HIDE DEF files
      <3> QED BY <3>1, <3>2
    <2> HIDE DEF files
    <2> QED BY <2>1, <2>2, <2>4 DEF UploadedInv, GenerationComplete, Present
  <1>9. ASSUME NEW m \in Machines, Record(m) \/ ListGarbage(m) \/ PushEnd(m)
        PROVE  UploadedInv' /\ GenerationComplete'
    <2>1. /\ pc[m] \notin {"idle", "upload"} /\ pc'[m] # "upload"
          /\ \A n \in Machines \ {m} : pc'[n] = pc[n]
          /\ UNCHANGED <<manifest, objects>>
      BY <1>1, <1>9 DEF Record, ListGarbage, PushEnd, Done, TypeOK
    <2> QED BY <1>2, <1>3, <2>1
  <1>10. ASSUME NEW m \in Machines, Delete(m)
         PROVE  UploadedInv' /\ GenerationComplete'
    <2>1. PICK k \in Keys :
             /\ objects' = [objects EXCEPT ![k] = Absent] /\ k \in job[m].todo
             /\ pc[m] = "delete" /\ UNCHANGED <<manifest, pc>>
      BY <1>10 DEF Delete, IsNext
    <2>2. /\ k \notin Present(manifest.files)
          /\ \A j \in Keys \ {k} : objects'[j] = objects[j]
          /\ \A n \in Machines : pc[n] # "upload"
      BY <1>1, <2>1 DEF ReferencedInv, DeleteInv, OneCommand, TypeOK, Trees
    <2> QED BY <2>1, <2>2 DEF UploadedInv, GenerationComplete, Present
  <1>11. CASE UNCHANGED vars
    BY <1>11 DEF vars, UploadedInv, GenerationComplete, Present
  <1> QED BY <1>4, <1>5, <1>6, <1>7, <1>8, <1>9, <1>10, <1>11 DEF Next, Push

(* If pushes die only after their commit point, whatever else dies, every  *)
(* object the manifest lists holds the listed bytes.                       *)
THEOREM GenerationsAreComplete ==
    ASSUME Exclusive, "upload" \notin CrashSteps
    PROVE  Spec => []GenerationComplete
  <1>1. Init => UploadedInv /\ GenerationComplete
    BY DEF Init, UploadedInv, GenerationComplete, Present, Absent
  <1>2. /\ TypeInv /\ ReferencedInv
        /\ UploadedInv /\ GenerationComplete
        /\ [Next]_vars
        => TypeInv' /\ ReferencedInv' /\ UploadedInv' /\ GenerationComplete'
    BY NextTypeInv, NextReferencedInv, NextUploadedInv
  <1> QED BY <1>1, <1>2, InitTypeInv, InitReferencedInv, PTL DEF Spec

----------------------------------------------------------------------------
(* No published edit is lost.  An operator's working copy is refused       *)
(* unless it recorded the current generation, and then it must still hold  *)
(* that generation: it does if it was pulled as a whole.  A runner pulls   *)
(* the archives through a window; for those it is the append-only check    *)
(* that keeps what is published.                                           *)

OperatorsPullAll == \A m \in Machines \ Runners : PullWindows[m] \subseteq {Full}

(* m holds every edit of the current manifest that its pull brings.        *)
HoldsManifest(m) ==
    \A k \in Keys \ discarded :
        m \notin Runners \/ k \in DataKeys => manifest.files[k] \subseteq local[m][k]

EditsOf(m) ==
    /\ synced[m].generation <= manifest.generation
    /\ synced[m].generation = manifest.generation => HoldsManifest(m)
    /\ m \notin Runners =>
          /\ synced[m].window = Full
          /\ pc[m] # "idle" => job[m].window = Full
    /\ pc[m] \in {"fetch", "prune"} => job[m].seen = manifest
    /\ pc[m] = "upload" =>
          /\ manifest.generation = 0 \/ synced[m].generation = manifest.generation
          /\ m \in Runners => ~BreaksAppendOnly(manifest.files, local[m], job[m].window)
    /\ pc[m] = "record" =>
          manifest.generation = job[m].seen.generation + 1 /\ HoldsManifest(m)

EditInv ==
    /\ manifest.generation = 0 => \A k \in Keys : manifest.files[k] = Absent
    /\ \A m \in Machines : EditsOf(m)

(* An idle machine is disturbed only through its own working copy, and by  *)
(* a commit, which leaves it behind.                                       *)
LEMMA EditsOfOthers ==
    ASSUME TypeOK, NEW n \in Machines, EditsOf(n), manifest' = manifest,
           discarded \subseteq discarded', local'[n] = local[n], synced'[n] = synced[n],
           pc'[n] = pc[n], job'[n] = job[n]
    PROVE  EditsOf(n)'
  <1>1. HoldsManifest(n) => HoldsManifest(n)'
    BY DEF HoldsManifest
  <1>2. BreaksAppendOnly(manifest.files, local[n], job[n].window)'
           <=> BreaksAppendOnly(manifest.files, local[n], job[n].window)
    BY DEF BreaksAppendOnly, Present, OutOfWindow, WindowedReportsKeys, RunDates
  <1> QED BY <1>1, <1>2 DEF EditsOf

LEMMA EditsOfBehind ==
    ASSUME TypeOK, NEW n \in Machines, EditsOf(n), pc[n] = "idle",
           manifest'.generation = manifest.generation + 1,
           synced'[n] = synced[n], pc'[n] = pc[n]
    PROVE  EditsOf(n)'
  <1>1. synced[n].generation \in Int /\ manifest.generation \in Int
    BY BoundsAssumption DEF TypeOK
  <1> QED BY <1>1 DEF EditsOf

(* The bucket's manifest is left alone and so are the other machines.      *)
LEMMA EditsAt ==
    ASSUME TypeOK, EditInv, NEW m \in Machines, EditsOf(m)', manifest' = manifest,
           discarded \subseteq discarded',
           \A n \in Machines \ {m} :
               /\ local'[n] = local[n] /\ synced'[n] = synced[n]
               /\ pc'[n] = pc[n] /\ job'[n] = job[n]
    PROVE  EditInv'
  <1>1. \A n \in Machines \ {m} : EditsOf(n)'
    BY EditsOfOthers DEF EditInv
  <1> QED BY <1>1 DEF EditInv

(* A tree of which nothing is out of the window is listed as it is, and    *)
(* data/ never is out of it.                                               *)
LEMMA PushListsTree ==
    ASSUME NEW files, NEW tree, NEW window, NEW k \in Keys,
           window = Full \/ k \in DataKeys
    PROVE  ManifestFilesForPush(files, tree, window)[k] = tree[k]
  BY KeysAssumption DEF ManifestFilesForPush, OutOfWindow, Absent

LEMMA PushKeepsEdits ==
    ASSUME Exclusive, TypeInv, ReferencedInv, EditInv, NEW m \in Machines, Commit(m)
    PROVE  /\ \A k \in Keys \ discarded : manifest.files[k] \subseteq manifest'.files[k]
           /\ manifest'.generation = manifest.generation + 1
           /\ GenerationMatches(m)
           /\ EditInv'
  <1> DEFINE window == job[m].window
             files == ManifestFilesForPush(manifest.files, local[m], window)
  <1>1. /\ TypeOK /\ OneCommand /\ pc[m] = "upload" /\ job[m].seen = manifest
        /\ EditsOf(m)
    BY DEF TypeInv, ReferencedInv, UploadInv, EditInv, Commit
  <1>2. /\ manifest'.files = files /\ manifest'.generation = manifest.generation + 1
        /\ pc' = [pc EXCEPT ![m] = "record"]
        /\ UNCHANGED <<local, synced, job, discarded>>
    BY <1>1 DEF Commit
  <1>3. GenerationMatches(m)
    BY <1>1 DEF EditsOf, GenerationMatches
  <1>4. ASSUME NEW k \in Keys \ discarded
        PROVE  manifest.files[k] \subseteq files[k]
    <2>1. CASE manifest.generation = 0
      BY <2>1 DEF EditInv, Absent
    <2>2. CASE manifest.generation # 0 /\ (m \notin Runners \/ k \in DataKeys)
      <3>1. manifest.files[k] \subseteq local[m][k]
        BY <1>1, <2>2 DEF EditsOf, HoldsManifest
      <3>2. window = Full \/ k \in DataKeys
        BY <1>1, <2>2 DEF EditsOf
      <3> QED BY <3>1, <3>2, PushListsTree
    <2>3. CASE m \in Runners /\ k \in ReportKeys
      <3>1. manifest.files[k] # Absent =>
               IF local[m][k] = Absent
               THEN k \in OutOfWindow(manifest.files, window)
               ELSE local[m][k] = manifest.files[k]
        BY <1>1, <2>3 DEF EditsOf, BreaksAppendOnly, Present
      <3> QED BY <3>1 DEF ManifestFilesForPush, Absent
    <2> QED BY <2>1, <2>2, <2>3 DEF Keys
  <1>5. HoldsManifest(m)'
    <2> SUFFICES ASSUME NEW k \in Keys \ discarded, m \notin Runners \/ k \in DataKeys
                 PROVE  files[k] \subseteq local[m][k]
      BY <1>2 DEF HoldsManifest
    <2>1. window = Full \/ k \in DataKeys
      BY <1>1 DEF EditsOf
    <2> QED BY <2>1, PushListsTree
  <1> HIDE DEF files, window
  <1>6. EditsOf(m)'
    <2>1. synced[m].generation \in Int /\ manifest.generation \in Nat
      BY <1>1, BoundsAssumption DEF TypeOK
    <2>2. pc'[m] = "record" /\ synced[m].generation <= manifest.generation
      BY <1>1, <1>2 DEF TypeOK, EditsOf
    <2>3. m \notin Runners => synced[m].window = Full /\ job[m].window = Full
      BY <1>1 DEF EditsOf
    <2> QED BY <1>1, <1>2, <1>5, <2>1, <2>2, <2>3 DEF EditsOf
  <1>7. \A n \in Machines \ {m} : EditsOf(n)'
    <2> SUFFICES ASSUME NEW n \in Machines \ {m} PROVE EditsOf(n)'
      OBVIOUS
    <2>1. pc[n] = "idle" /\ pc'[n] = pc[n] /\ synced'[n] = synced[n] /\ EditsOf(n)
      BY <1>1, <1>2 DEF OneCommand, TypeOK, EditInv
    <2> QED BY <1>1, <1>2, <2>1, EditsOfBehind
  <1>8. manifest'.generation # 0
    BY <1>1, <1>2, BoundsAssumption DEF TypeOK
  <1> QED BY <1>2, <1>3, <1>4, <1>6, <1>7, <1>8 DEF EditInv

(* What PullEnd records: the pull of an operator, or of data/, brought all *)
(* of the manifest.                                                        *)
LEMMA PulledHoldsManifest ==
    ASSUME TypeOK, PullInv, EditInv, NEW m \in Machines, pc[m] = "prune"
    PROVE  HoldsManifest(m)
  <1>1. /\ EditsOf(m) /\ job[m].seen = manifest
        /\ \A k \in KeysToFetch(manifest.files, job[m].window) : local[m][k] = manifest.files[k]
    BY DEF EditInv, EditsOf, PullInv, Pulling
  <1>2. SUFFICES ASSUME NEW k \in Keys, m \notin Runners \/ k \in DataKeys,
                        manifest.files[k] # Absent
                 PROVE  local[m][k] = manifest.files[k]
    BY DEF HoldsManifest, Absent
  <1>3. k \notin OutOfWindow(manifest.files, job[m].window)
    BY <1>1, <1>2, KeysAssumption DEF EditsOf, OutOfWindow
  <1> QED BY <1>1, <1>2, <1>3 DEF KeysToFetch, Present

LEMMA NextEditInv ==
    ASSUME Exclusive, OperatorsPullAll
    PROVE  TypeInv /\ ReferencedInv /\ PullInv /\ EditInv /\ [Next]_vars => EditInv'
  <1> SUFFICES ASSUME TypeInv, ReferencedInv, PullInv, EditInv, [Next]_vars
               PROVE  EditInv'
    OBVIOUS
  <1>1. TypeOK /\ OneCommand /\ \A m \in Machines : EditsOf(m)
    BY DEF TypeInv, ReferencedInv, EditInv
  <1>2. ASSUME NEW m \in Machines, Done(m), UNCHANGED <<manifest, local, synced, discarded>>
        PROVE  EditInv'
    <2>1. /\ pc'[m] = "idle"
          /\ \A n \in Machines \ {m} : pc'[n] = pc[n] /\ job'[n] = job[n]
      BY <1>1, <1>2 DEF Done, TypeOK
    <2>2. EditsOf(m)'
      BY <1>1, <1>2, <2>1 DEF EditsOf, HoldsManifest
    <2> QED BY <1>1, <1>2, <2>1, <2>2, EditsAt
  <1>3. ASSUME NEW m \in Machines, NEW window \in PullWindows[m], PullBegin(m, window)
        PROVE  EditInv'
    <2>1. /\ pc'[m] = "fetch" /\ job'[m].seen = manifest /\ job'[m].window = window
          /\ UNCHANGED <<manifest, local, synced, discarded>>
          /\ \A n \in Machines \ {m} : pc'[n] = pc[n] /\ job'[n] = job[n]
      BY <1>1, <1>3 DEF PullBegin, TypeOK
    <2>2. m \notin Runners => window = Full
      BY DEF OperatorsPullAll
    <2>3. EditsOf(m)'
      BY <1>1, <2>1, <2>2 DEF EditsOf, HoldsManifest
    <2> QED BY <1>1, <2>1, <2>3, EditsAt
  <1>4. ASSUME NEW m \in Machines, Fetch(m)
        PROVE  EditInv'
    <2>1. PICK k \in Keys :
             /\ pc[m] = "fetch" /\ objects[k] = job[m].seen.files[k]
             /\ local' = [local EXCEPT ![m][k] = objects[k]]
             /\ job' = [job EXCEPT ![m].todo = @ \ {k}]
             /\ UNCHANGED <<manifest, synced, pc, discarded>>
      BY <1>4 DEF Fetch
    <2>2. /\ local'[m] = [local[m] EXCEPT ![k] = objects[k]]
          /\ job'[m].seen = job[m].seen /\ job'[m].window = job[m].window
          /\ \A n \in Machines \ {m} : local'[n] = local[n] /\ job'[n] = job[n]
      BY <1>1, <2>1 DEF TypeOK
    <2>3. job[m].seen = manifest
      BY <1>1, <2>1 DEF EditsOf
    <2>4. local'[m][k] = manifest.files[k] /\ \A j \in Keys \ {k} : local'[m][j] = local[m][j]
      BY <1>1, <2>1, <2>2, <2>3 DEF TypeOK, Trees
    <2>5. HoldsManifest(m) => HoldsManifest(m)'
      BY <2>1, <2>4 DEF HoldsManifest
    <2>6. EditsOf(m)'
      BY <1>1, <2>1, <2>2, <2>5 DEF EditsOf
    <2> QED BY <1>1, <2>1, <2>2, <2>6, EditsAt
  <1>5. ASSUME NEW m \in Machines, StartPrune(m)
        PROVE  EditInv'
    <2>1. /\ pc[m] = "fetch" /\ pc'[m] = "prune"
          /\ job'[m].seen = job[m].seen /\ job'[m].window = job[m].window
          /\ UNCHANGED <<manifest, local, synced, discarded>>
          /\ \A n \in Machines \ {m} : pc'[n] = pc[n] /\ job'[n] = job[n]
      BY <1>1, <1>5 DEF StartPrune, TypeOK
    <2>2. EditsOf(m)'
      BY <1>1, <2>1 DEF EditsOf, HoldsManifest
    <2> QED BY <1>1, <2>1, <2>2, EditsAt
  <1>6. ASSUME NEW m \in Machines, Prune(m)
        PROVE  EditInv'
    <2>1. PICK k \in Keys :
             /\ pc[m] = "prune" /\ k \in job[m].todo
             /\ local' = [local EXCEPT ![m][k] = Absent]
             /\ job' = [job EXCEPT ![m].todo = @ \ {k}]
             /\ UNCHANGED <<manifest, synced, pc, discarded>>
      BY <1>6 DEF Prune, IsNext
    <2>2. /\ local'[m] = [local[m] EXCEPT ![k] = Absent]
          /\ job'[m].seen = job[m].seen /\ job'[m].window = job[m].window
          /\ \A n \in Machines \ {m} : local'[n] = local[n] /\ job'[n] = job[n]
      BY <1>1, <2>1 DEF TypeOK
    <2>3. manifest.files[k] = Absent
      BY <1>1, <2>1 DEF EditsOf, PullInv, Pulling, Present
    <2>4. \A j \in Keys \ {k} : local'[m][j] = local[m][j]
      BY <1>1, <2>2 DEF TypeOK, Trees
    <2>5. HoldsManifest(m) => HoldsManifest(m)'
      BY <2>1, <2>3, <2>4 DEF HoldsManifest, Absent
    <2>6. EditsOf(m)'
      BY <1>1, <2>1, <2>2, <2>5 DEF EditsOf
    <2> QED BY <1>1, <2>1, <2>2, <2>6, EditsAt
  <1>7. ASSUME NEW m \in Machines, PullEnd(m)
        PROVE  EditInv'
    <2>1. /\ pc[m] = "prune" /\ pc'[m] = "idle"
          /\ synced'[m] = [generation |-> job[m].seen.generation, window |-> job[m].window]
          /\ UNCHANGED <<manifest, local, discarded>>
          /\ \A n \in Machines \ {m} :
                pc'[n] = pc[n] /\ job'[n] = job[n] /\ synced'[n] = synced[n]
      BY <1>1, <1>7 DEF PullEnd, Done, TypeOK
    <2>2. HoldsManifest(m) /\ job[m].seen = manifest /\ manifest.generation \in Int
      BY <1>1, <2>1, PulledHoldsManifest, BoundsAssumption DEF EditsOf, TypeOK
    <2>3. m \notin Runners => job[m].window = Full
      BY <1>1, <2>1 DEF EditsOf
    <2>4. EditsOf(m)'
      BY <2>1, <2>2, <2>3 DEF EditsOf, HoldsManifest
    <2> QED BY <1>1, <2>1, <2>4, EditsAt
  <1>8. ASSUME NEW m \in Machines, PushBegin(m)
        PROVE  EditInv'
    <2>1. /\ pc'[m] = "upload" /\ job'[m].window = synced[m].window
          /\ UNCHANGED <<manifest, local, synced, discarded>>
          /\ GenerationMatches(m)
          /\ m \in Runners => ~BreaksAppendOnly(manifest.files, local[m], synced[m].window)
          /\ \A n \in Machines \ {m} : pc'[n] = pc[n] /\ job'[n] = job[n]
      BY <1>1, <1>8 DEF PushBegin, TypeOK
    <2>2. BreaksAppendOnly(manifest.files, local[m], job[m].window)'
             <=> BreaksAppendOnly(manifest.files, local[m], synced[m].window)
      BY <2>1 DEF BreaksAppendOnly, Present, OutOfWindow, WindowedReportsKeys, RunDates
    <2>3. EditsOf(m)'
      BY <1>1, <2>1, <2>2 DEF EditsOf, HoldsManifest, GenerationMatches
    <2> QED BY <1>1, <2>1, <2>3, EditsAt
  <1>9. ASSUME NEW m \in Machines, Upload(m) \/ ListGarbage(m) \/ Delete(m)
        PROVE  EditInv'
    <2>1. /\ pc[m] \in PushSteps \ {"record"} /\ pc'[m] \in PushSteps \ {"record"}
          /\ pc'[m] = "upload" => pc[m] = "upload"
          /\ job'[m].window = job[m].window
          /\ UNCHANGED <<manifest, local, synced, discarded>>
          /\ \A n \in Machines \ {m} : pc'[n] = pc[n] /\ job'[n] = job[n]
      BY <1>1, <1>9 DEF Upload, ListGarbage, Delete, PushSteps, TypeOK
    <2>2. BreaksAppendOnly(manifest.files, local[m], job[m].window)'
             <=> BreaksAppendOnly(manifest.files, local[m], job[m].window)
      BY <2>1 DEF BreaksAppendOnly, Present, OutOfWindow, WindowedReportsKeys, RunDates
    <2>3. EditsOf(m)'
      BY <1>1, <2>1, <2>2 DEF EditsOf, HoldsManifest, PushSteps
    <2> QED BY <1>1, <2>1, <2>3, EditsAt
  <1>10. ASSUME NEW m \in Machines, Record(m)
         PROVE  EditInv'
    <2>1. /\ pc[m] = "record" /\ pc'[m] = "list" /\ job' = job
          /\ synced'[m] = [generation |-> job[m].seen.generation + 1, window |-> job[m].window]
          /\ UNCHANGED <<manifest, local, discarded>>
          /\ \A n \in Machines \ {m} : pc'[n] = pc[n] /\ synced'[n] = synced[n]
      BY <1>1, <1>10 DEF Record, TypeOK
    <2>2. /\ manifest.generation = job[m].seen.generation + 1 /\ HoldsManifest(m)
          /\ manifest.generation \in Int
      BY <1>1, <2>1, BoundsAssumption DEF EditsOf, TypeOK
    <2>3. m \notin Runners => job[m].window = Full
      BY <1>1, <2>1 DEF EditsOf
    <2>4. EditsOf(m)'
      BY <2>1, <2>2, <2>3 DEF EditsOf, HoldsManifest
    <2> QED BY <1>1, <2>1, <2>4, EditsAt
  <1>11. ASSUME NEW m \in Machines, Reprovision(m)
         PROVE  EditInv'
    <2>1. /\ m \in Runners /\ pc[m] = "idle"
          /\ synced'[m].generation = 0 /\ UNCHANGED <<manifest, pc, job, discarded>>
          /\ \A n \in Machines \ {m} : local'[n] = local[n] /\ synced'[n] = synced[n]
      BY <1>1, <1>11 DEF Reprovision, TypeOK
    <2>2. manifest.generation \in Nat
      BY <1>1, BoundsAssumption DEF TypeOK
    <2>3. manifest.generation = 0 => HoldsManifest(m)'
      BY <2>1 DEF EditInv, HoldsManifest, Absent
    <2>4. EditsOf(m)'
      BY <2>1, <2>2, <2>3 DEF EditsOf
    <2> QED BY <1>1, <2>1, <2>4, EditsAt
  <1>12. ASSUME NEW m \in Machines, NEW k \in Keys, Edit(m, k) \/ Discard(m, k)
         PROVE  EditInv'
    <2>1. /\ pc[m] = "idle" /\ UNCHANGED <<manifest, synced, pc, job>>
          /\ discarded \subseteq discarded'
          /\ \A n \in Machines \ {m} : local'[n] = local[n]
          /\ \A j \in Keys \ discarded' : local[m][j] \subseteq local'[m][j]
      <3>1. PICK c : local' = [local EXCEPT ![m][k] = c] /\ (k \in discarded' \/ local[m][k] \subseteq c)
        BY <1>12 DEF Edit, Discard
      <3>2. /\ local'[m] = [local[m] EXCEPT ![k] = c]
            /\ \A n \in Machines \ {m} : local'[n] = local[n]
        BY <1>1, <3>1 DEF TypeOK
      <3>3. \A j \in Keys : local'[m][j] = IF j = k THEN c ELSE local[m][j]
        BY <1>1, <3>2 DEF TypeOK, Trees
      <3>4. /\ pc[m] = "idle" /\ UNCHANGED <<manifest, synced, pc, job>>
            /\ discarded \subseteq discarded'
        BY <1>12 DEF Edit, Discard
      <3> QED BY <3>1, <3>2, <3>3, <3>4
    <2>2. HoldsManifest(m) => HoldsManifest(m)'
      BY <2>1 DEF HoldsManifest
    <2>3. EditsOf(m)'
      BY <1>1, <2>1, <2>2 DEF EditsOf
    <2> QED BY <1>1, <2>1, <2>3, EditsAt
  <1>13. CASE UNCHANGED vars
    <2>1. \A n \in Machines : EditsOf(n)'
      BY <1>1, <1>13, EditsOfOthers DEF vars
    <2> QED BY <1>13, <2>1 DEF vars, EditInv
  <1>14. ASSUME NEW m \in Machines, FetchMismatch(m) \/ PushEnd(m) \/ Crash(m)
         PROVE  EditInv'
    BY <1>2, <1>14 DEF FetchMismatch, PushEnd, Crash
  <1>15. ASSUME NEW m \in Machines, Commit(m)
         PROVE  EditInv'
    BY <1>15, PushKeepsEdits
  <1> QED BY <1>3, <1>4, <1>5, <1>6, <1>7, <1>8, <1>9, <1>10, <1>11, <1>12, <1>13, <1>14, <1>15
          DEF Next, Pull, Push, Environment

MirrorInv == TypeInv /\ ReferencedInv /\ PullInv /\ EditInv

LEMMA InitMirrorInv == Init => MirrorInv
  <1> SUFFICES ASSUME Init PROVE MirrorInv
    OBVIOUS
  <1>1. PullInv
    BY DEF Init, PullInv, Pulling
  <1>2. manifest.generation \in {0, 1} /\ (manifest.generation = 0 =>
           \A k \in Keys : manifest.files[k] = Absent)
    BY DEF Init
  <1>3. ASSUME NEW m \in Machines
        PROVE  EditsOf(m)
    <2>1. synced[m] = [generation |-> 0, window |-> Full] /\ pc[m] = "idle"
      BY DEF Init
    <2>2. manifest.generation = 0 => HoldsManifest(m)
      BY <1>2 DEF HoldsManifest, Absent
    <2> QED BY <1>2, <2>1, <2>2 DEF EditsOf
  <1> QED BY <1>1, <1>2, <1>3, InitTypeInv, InitReferencedInv DEF MirrorInv, EditInv

LEMMA NextMirrorInv ==
    ASSUME Exclusive, OperatorsPullAll
    PROVE  MirrorInv /\ [Next]_vars => MirrorInv'
  BY NextTypeInv, NextReferencedInv, NextPullInv, NextEditInv DEF MirrorInv

(* No push makes an edit disappear that somebody published, unless a user  *)
(* deleted the file, for any machines, windows of the runners and crashes, *)
(* if commands do not overlap and operators pull everything.               *)
THEOREM PublishedEditsStay ==
    ASSUME Exclusive, OperatorsPullAll
    PROVE  Spec => NoEditLost
  <1>1. MirrorInv /\ [Next]_vars =>
           \A k \in Keys \ discarded' : manifest.files[k] \subseteq manifest'.files[k]
    <2> SUFFICES ASSUME MirrorInv, [Next]_vars
                 PROVE  \A k \in Keys \ discarded' : manifest.files[k] \subseteq manifest'.files[k]
      OBVIOUS
    <2>1. CASE \E m \in Machines : Commit(m)
      BY <2>1, PushKeepsEdits DEF MirrorInv, Commit
    <2>2. CASE manifest' = manifest
      BY <2>2
    <2> QED BY <2>1, <2>2
        DEF Next, Pull, PullBegin, Fetch, FetchMismatch, StartPrune, Prune, PullEnd,
            Push, PushBegin, Upload, Record, ListGarbage, Delete, PushEnd,
            Environment, Crash, Reprovision, Edit, Discard, vars
  <1> QED BY <1>1, InitMirrorInv, NextMirrorInv, PTL DEF Spec, NoEditLost

(* The commit of a runner neither rewrites nor drops an archive that is    *)
(* published, whether or not its window fetched it.                        *)
THEOREM RunnersOnlyAppend ==
    ASSUME Exclusive, OperatorsPullAll
    PROVE  Spec => RunnersAppendOnly
  <1>1. ASSUME MirrorInv, NEW m \in Machines, m \in Runners, Commit(m),
               NEW k \in ReportKeys \cap Present(manifest.files)
        PROVE  manifest'.files[k] = manifest.files[k]
    <2>1. /\ pc[m] = "upload" /\ EditsOf(m) /\ job[m].seen = manifest
          /\ manifest'.files = ManifestFilesForPush(manifest.files, local[m], job[m].window)
      BY <1>1 DEF MirrorInv, EditInv, ReferencedInv, UploadInv, Commit
    <2>2. IF local[m][k] = Absent
          THEN k \in OutOfWindow(manifest.files, job[m].window)
          ELSE local[m][k] = manifest.files[k]
      BY <1>1, <2>1 DEF EditsOf, BreaksAppendOnly
    <2> QED BY <2>1, <2>2 DEF ManifestFilesForPush, Present
  <1>2. ASSUME MirrorInv, [Next]_vars, NEW m \in Machines, pc[m] = "upload", pc'[m] = "record"
        PROVE  Commit(m)
    <2>1. TypeOK
      BY <1>2 DEF MirrorInv, TypeInv
    <2>2. PICK n \in Machines : Pull(n) \/ Push(n) \/ Environment(n)
      BY <1>2 DEF Next, vars
    <2>3. n = m
      BY <1>2, <2>1, <2>2
         DEF Pull, PullBegin, Fetch, FetchMismatch, StartPrune, Prune, PullEnd,
             Push, PushBegin, Upload, Commit, Record, ListGarbage, Delete, PushEnd,
             Environment, Crash, Reprovision, Edit, Discard, Done, TypeOK
    <2> QED BY <1>2, <2>1, <2>2, <2>3
         DEF Pull, PullBegin, Fetch, FetchMismatch, StartPrune, Prune, PullEnd,
             Push, PushBegin, Upload, Record, ListGarbage, Delete, PushEnd,
             Environment, Crash, Reprovision, Edit, Discard, Done, TypeOK
  <1>3. MirrorInv /\ [Next]_vars =>
           \A m \in Machines : m \in Runners /\ pc[m] = "upload" /\ pc'[m] = "record" =>
              \A k \in ReportKeys \cap Present(manifest.files) :
                 manifest'.files[k] = manifest.files[k]
    BY <1>1, <1>2
  <1>4. MirrorInv /\ [Next]_vars =>
           \A m \in Runners : (pc[m] = "upload" /\ pc'[m] = "record") =>
              \A k \in ReportKeys \cap Present(manifest.files) :
                 manifest'.files[k] = manifest.files[k]
    BY <1>3, MachinesAssumption
  <1> QED BY <1>4, InitMirrorInv, NextMirrorInv, PTL DEF Spec, RunnersAppendOnly

----------------------------------------------------------------------------
(* The mirror is a snapshot register: a commit publishes on top of the     *)
(* generation the machine holds, the end of a pull and the record of a     *)
(* push adopt the current generation, a fresh runner forgets its own, and  *)
(* no other step shows.                                                    *)
THEOREM MirrorIsARegister ==
    ASSUME Exclusive, OperatorsPullAll
    PROVE  Spec => ImplementsRegister
  <1> DEFINE holds == [m \in Machines |-> synced[m].generation]
  <1>1. Init => Register!RInit
    <2> SUFFICES ASSUME Init PROVE Register!RInit
      OBVIOUS
    <2>1. manifest.generation \in {0, 1} /\ \A m \in Machines : synced[m].generation = 0
      BY DEF Init
    <2>2. manifest.files \in [Keys -> Contents]
      BY InitTypeInv DEF TypeInv, TypeOK, Trees
    <2> QED BY <2>1, <2>2 DEF Register!RInit
  <1>2. ASSUME MirrorInv, NEW m \in Machines, Commit(m)
        PROVE  Register!Publish(m)
    <2>1. /\ \A k \in Keys \ discarded : manifest.files[k] \subseteq manifest'.files[k]
          /\ manifest'.generation = manifest.generation + 1
          /\ manifest.generation = 0 \/ synced[m].generation = manifest.generation
          /\ TypeOK' /\ discarded \subseteq Discardable /\ synced' = synced
      BY <1>2, PushKeepsEdits, NextTypeInv
         DEF MirrorInv, TypeInv, TypeOK, GenerationMatches, Commit, Next, Push
    <2>2. /\ holds[m] = synced[m].generation /\ holds' = holds
          /\ manifest'.files \in [Keys -> Contents]
          /\ \A k \in Keys \ Discardable : manifest.files[k] \subseteq manifest'.files[k]
      BY <2>1 DEF TypeOK, Trees
    <2> QED BY <2>1, <2>2 DEF Register!Publish, Register!Keeps
  <1>3. ASSUME MirrorInv, NEW m \in Machines, PullEnd(m) \/ Record(m)
        PROVE  Register!Adopt(m)
    <2>1. TypeOK /\ EditsOf(m) /\ UNCHANGED manifest
      BY <1>3 DEF MirrorInv, TypeInv, EditInv, PullEnd, Record
    <2>2. PICK w : synced' = [synced EXCEPT ![m] =
                                 [generation |-> manifest.generation, window |-> w]]
      BY <1>3, <2>1 DEF PullEnd, Record, EditsOf
    <2>3. holds' = [holds EXCEPT ![m] = manifest.generation]
      BY <2>1, <2>2 DEF TypeOK
    <2> QED BY <2>1, <2>3 DEF Register!Adopt
  <1>4. ASSUME MirrorInv, NEW m \in Machines, Reprovision(m)
        PROVE  Register!Forget(m)
    <2>1. TypeOK /\ UNCHANGED manifest
          /\ synced' = [synced EXCEPT ![m] = [generation |-> 0, window |-> Full]]
      BY <1>4 DEF MirrorInv, TypeInv, Reprovision
    <2>2. holds' = [holds EXCEPT ![m] = 0]
      BY <2>1 DEF TypeOK
    <2> QED BY <2>1, <2>2 DEF Register!Forget
  <1>5. ASSUME UNCHANGED <<manifest, synced>>
        PROVE  UNCHANGED Register!rvars
    BY <1>5 DEF Register!rvars
  <1>6. MirrorInv /\ [Next]_vars => [Register!RNext]_(Register!rvars)
    <2> SUFFICES ASSUME MirrorInv, [Next]_vars
                 PROVE  Register!RNext \/ UNCHANGED Register!rvars
      OBVIOUS
    <2>1. CASE \E m \in Machines : Commit(m) \/ PullEnd(m) \/ Record(m) \/ Reprovision(m)
      BY <1>2, <1>3, <1>4, <2>1 DEF Register!RNext
    <2>2. CASE UNCHANGED <<manifest, synced>>
      BY <1>5, <2>2
    <2> QED BY <2>1, <2>2
        DEF Next, Pull, PullBegin, Fetch, FetchMismatch, StartPrune, Prune,
            Push, PushBegin, Upload, ListGarbage, Delete, PushEnd,
            Environment, Crash, Edit, Discard, vars
  <1> QED BY <1>1, <1>6, InitMirrorInv, NextMirrorInv, PTL
          DEF Spec, ImplementsRegister, Register!RSpec
=============================================================================
