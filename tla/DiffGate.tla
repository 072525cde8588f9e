------------------------------ MODULE DiffGate ------------------------------
(* The local gate that runs only the tests a diff can affect                *)
(* (scripts/diff_gate.py), over the clone it reads: what the fork point,    *)
(* the upstream branch, HEAD, the index and the work tree hold of each path *)
(* while a developer edits, stages, commits, fetches and merges. Running    *)
(* the gate changes nothing, so its answer is an operator of the state.     *)
(*                                                                          *)
(* A path is of a kind of the rule table; a content is a version, and the   *)
(* modules a test imports depend on its version. A directory target is the  *)
(* set of the files under it.                                               *)
EXTENDS Naturals, FiniteSets, FiniteSetsExt

CONSTANTS
    Paths,               \* the paths of the repository
    Kind,                \* [path -> its row of the rule table]
    Package,             \* [path -> the package it is in, or its tests directory's]
    Dedicated,           \* [path -> the test file named after it, or itself]
    ImportedBy,          \* ImportedBy[t][v]: what test file t imports at version v
    Uses,                \* [module -> the other modules its import loads]
    Committed,           \* [path -> its version at the fork point]
    Versions,            \* the contents an edit may give a path
    Broken,              \* the versions of a module its importers fail on
    Gone,                \* no such file
    Seconds,             \* [test -> its recorded duration, 0 when it has none]
    FallbackSeconds, Budget,
    ContractTests, SmokeTests, SanityTests,
    Branches,            \* the branches the developer may be on
    HasRemote,           \* whether origin/main resolves
    MaxEdits, MaxFetches

VARIABLES
    branch, fork, upstream, head, index, worktree, workLeft

gateVars == <<branch, fork, upstream, head, index, worktree, workLeft>>

(****************************** What changed ********************************)

Exists(p) == worktree[p] # Gone
Differs(a, b) == {p \in Paths : a[p] # b[p]}

\* On main the ref is compared directly; without a remote it is the local main.
ResolvedRef == IF HasRemote THEN upstream ELSE IF branch = "main" THEN head ELSE fork
MergeBase == IF branch = "main" /\ ~HasRemote THEN head ELSE fork
DiffBase == IF branch = "main" THEN ResolvedRef ELSE MergeBase

IndexOnly == {p \in Differs(DiffBase, head) \cup Differs(head, index) : Exists(p)}
    \* a plausible bug: what is not staged yet is not a change
ChangedPaths ==
    LET untracked == {p \in Paths : index[p] = Gone /\ Exists(p)}
    IN  {p \in Differs(DiffBase, head) \cup Differs(head, index)
               \cup Differs(index, worktree) \cup untracked : Exists(p)}

(**************************** Which tests to run ****************************)

Tests == {p \in Paths : Kind[p] = "test" /\ Exists(p)}
Importers(p) == {t \in Tests : p \in ImportedBy[t][worktree[t]]}
TestsOfPackage(p) == {t \in Tests : Package[t] = Package[p]}
Everything == [all |-> TRUE, tests |-> Tests]
Only(tests) == [all |-> FALSE, tests |-> tests]
OrEverything(tests) == IF tests = {} THEN Everything ELSE Only(tests)

Classify(p) ==
    CASE Kind[p] = "test"        -> Only({p})
      [] Kind[p] = "test helper" -> Only(TestsOfPackage(p))
      [] Kind[p] = "package"     -> OrEverything(TestsOfPackage(p) \cup Importers(p))
      [] Kind[p] = "module"      -> OrEverything((Tests \cap {Dedicated[p]}) \cup Importers(p))
      [] Kind[p] = "script"      -> OrEverything(Tests \cap {Dedicated[p]})
      [] Kind[p] = "workflow"    -> Only(Tests \cap ContractTests)
      [] Kind[p] \in {"shell", "docs"} -> Only({})
      [] OTHER                   -> Everything   \* shared, build or unrecognized

Source == {p \in Paths : Kind[p] \in {"package", "module"}}
Known == {t \in Paths : Kind[t] = "test" /\ Seconds[t] # 0}
MeanSeconds ==
    IF Known = {} THEN FallbackSeconds
    ELSE MapThenSumSet(LAMBDA t : Seconds[t], Known) \div Cardinality(Known)
Estimate(tests) ==
    MapThenSumSet(LAMBDA t : IF Seconds[t] = 0 THEN MeanSeconds ELSE Seconds[t], tests)

Select(changed) ==
    LET rules == {Classify(p) : p \in changed}
        tests == (UNION {r.tests : r \in rules}) \cup (Tests \cap ContractTests)
                 \cup (IF changed \cap Source # {} THEN Tests \cap SmokeTests ELSE {})
    IN  IF changed = {} THEN Only(Tests \cap SanityTests)
        ELSE IF (\E r \in rules : r.all) \/ Estimate(tests) > Budget THEN Everything
        ELSE Only(tests)

(****************************** Running them ********************************)

\* What a test run loads goes beyond the imports that select it.
Loaded(t) ==
    LET imported == ImportedBy[t][worktree[t]]
    IN  imported \cup UNION {Uses[p] : p \in imported}
Fails(t) == \E p \in Loaded(t) : worktree[p] \in Broken \cup {Gone}

\* At the least, what no test of the run loads is below the coverage floor.
Exercised(p, tests) == \E t \in tests : p \in Loaded(t)

\* A coverage report that cannot be read is not held against the change.
Green(reportRead) ==
    LET changed == ChangedPaths
        selection == Select(changed)
    IN  /\ \A t \in selection.tests : ~Fails(t)
        /\ reportRead => \A p \in changed \cap Source : Exercised(p, selection.tests)

(******************************* The developer ******************************)

GateInit ==
    /\ branch \in Branches
    /\ fork = Committed /\ upstream = fork /\ head = fork
    /\ index = fork /\ worktree = fork
    /\ workLeft = [edits |-> 0, fetches |-> 0]

Edit(p) ==
    /\ workLeft.edits < MaxEdits
    /\ workLeft' = [workLeft EXCEPT !.edits = @ + 1]
    /\ \E v \in (Versions \cup {Gone}) \ {worktree[p]} : worktree' = [worktree EXCEPT ![p] = v]
    /\ UNCHANGED <<branch, fork, upstream, head, index>>

Stage(p) ==
    /\ index[p] # worktree[p]
    /\ index' = [index EXCEPT ![p] = worktree[p]]
    /\ UNCHANGED <<branch, fork, upstream, head, worktree, workLeft>>

Commit ==
    /\ head # index
    /\ head' = index
    /\ UNCHANGED <<branch, fork, upstream, index, worktree, workLeft>>

\* Somebody else's change reaches origin/main and is fetched.
Fetch(p) ==
    /\ HasRemote
    /\ workLeft.fetches < MaxFetches
    /\ workLeft' = [workLeft EXCEPT !.fetches = @ + 1]
    /\ \E v \in Versions \ {upstream[p]} : upstream' = [upstream EXCEPT ![p] = v]
    /\ UNCHANGED <<branch, fork, head, index, worktree>>

\* A merge without conflicts, from a clean tree: upstream becomes the fork point.
MergeIntoMain ==
    /\ upstream # fork
    /\ head = index /\ index = worktree
    /\ Differs(fork, head) \cap Differs(fork, upstream) = {}
    /\ head' = [p \in Paths |-> IF p \in Differs(fork, upstream) THEN upstream[p] ELSE head[p]]
    /\ index' = head' /\ worktree' = head'
    /\ fork' = upstream
    /\ UNCHANGED <<branch, upstream, workLeft>>

GateNext ==
    \/ \E p \in Paths : Edit(p) \/ Stage(p) \/ Fetch(p)
    \/ Commit \/ MergeIntoMain

GateSpec == GateInit /\ [][GateNext]_gateVars

(******************************** Properties ********************************)

\* What the developer made: neither the fork point nor upstream has it so.
Made(p) == worktree[p] \notin {Gone, fork[p], upstream[p]}

(* A green gate has run every test that imports a module the developer      *)
(* wrote, however much of the work is edited, staged or committed, on main  *)
(* or on a branch, before and after a fetch or a merge: none of those tests *)
(* fails.  If it could read the coverage report, too, each of those modules *)
(* is loaded by a test that passes (diff_base, changed_paths, select,       *)
(* evaluate_changed_coverage).                                              *)
GreenTestsTheWork ==
    \A reportRead \in BOOLEAN : Green(reportRead) =>
        \A p \in {q \in Source : Made(q)} :
            /\ \A t \in Importers(p) : ~Fails(t)
            /\ reportRead => \E t \in Tests : p \in Loaded(t) /\ ~Fails(t)

\* Not so of a module the developer deleted: its importers are not selected.
GreenTestsTheDeletions ==
    Green(TRUE) => \A p \in Source : ~Exists(p) => \A t \in Importers(p) : ~Fails(t)
=============================================================================
