--------------------------- MODULE DailyJobProofs ---------------------------
(***************************************************************************)
(* Theorems about DailyJob, for any number of machines, sessions and runs, *)
(* kills, replays, reruns and operators' sessions.                         *)
(***************************************************************************)
EXTENDS DailyJob, OrderFacts

-----------------------------------------------------------------------------
(* What a working copy holds.                                              *)

LEMMA RowTypes ==
    /\ NoRow \notin Rows
    /\ \A row \in Rows :
          /\ row.date \in Dates /\ row.replay \in BOOLEAN /\ row.picked \in BOOLEAN
          /\ row.gaps \subseteq RunIds /\ row.status \in Statuses
          /\ \A s \in Statuses : /\ [row EXCEPT !.status = s] \in Rows
                                 /\ [row EXCEPT !.status = s].status = s
                                 /\ [row EXCEPT !.status = s].date = row.date
                                 /\ [row EXCEPT !.status = s].replay = row.replay
                                 /\ [row EXCEPT !.status = s].picked = row.picked
                                 /\ [row EXCEPT !.status = s].gaps = row.gaps
          /\ \A p \in BOOLEAN : /\ [row EXCEPT !.picked = p] \in Rows
                                /\ [row EXCEPT !.picked = p].status = row.status
                                /\ [row EXCEPT !.picked = p].date = row.date
                                /\ [row EXCEPT !.picked = p].replay = row.replay
                                /\ [row EXCEPT !.picked = p].gaps = row.gaps
    /\ \A row \in Rows \cup {NoRow} : row # NoRow => row \in Rows
    /\ NoRow.status = "none" /\ "none" \notin Statuses
  <1>1. NoRow.status = "none" /\ "none" \notin Statuses
    BY DEF NoRow, Statuses, Finished
  <1>2. NoRow \notin Rows
    BY <1>1 DEF Rows
  <1> QED BY <1>1, <1>2 DEF Rows

LEMMA TreeTypes ==
    \A t \in Trees :
       /\ t.row \in [RunIds -> Rows \cup {NoRow}]
       /\ t.input \subseteq RunIds /\ t.result \subseteq RunIds /\ t.stamp \subseteq RunIds
       /\ t = [row |-> t.row, input |-> t.input, result |-> t.result, stamp |-> t.stamp]
       /\ Known(t) \subseteq RunIds
       /\ \A r \in Known(t) : t.row[r] \in Rows
  BY RowTypes DEF Trees, Known

(* A tree with other rows. *)
LEMMA WithRows ==
    ASSUME NEW t \in Trees, NEW f
    PROVE  [t EXCEPT !.row = f] = [row |-> f, input |-> t.input, result |-> t.result,
                                   stamp |-> t.stamp]
  BY DEF Trees

(* What a step of run r, on the tree t, may do to it: its own row and      *)
(* files, and the rows of runs that were left running.                     *)
StepOf(r, t, u) ==
    /\ u \in Trees /\ u.row[r] \in Rows
    /\ u.row[r].date = t.row[r].date /\ u.row[r].replay = t.row[r].replay
    /\ u.row[r].gaps = t.row[r].gaps
    /\ \A s \in RunIds \ {r} :
          \/ u.row[s] = t.row[s]
          \/ /\ t.row[s].status = "running"
             /\ u.row[s] = [t.row[s] EXCEPT !.status = "failed"]
    /\ t.input \subseteq u.input /\ u.input \subseteq t.input \cup {r}
    /\ t.stamp \subseteq u.stamp /\ u.stamp \subseteq t.stamp \cup {r}
    /\ u.result = t.result

LEMMA KeptTree ==
    ASSUME NEW t \in Trees, NEW r \in Known(t)
    PROVE  StepOf(r, t, t)
  BY TreeTypes DEF StepOf

LEMMA RowStep ==
    ASSUME NEW t \in Trees, NEW r \in Known(t), NEW row \in Rows,
           row.date = t.row[r].date, row.replay = t.row[r].replay, row.gaps = t.row[r].gaps,
           NEW u, u = [t EXCEPT !.row = [t.row EXCEPT ![r] = row]]
    PROVE  StepOf(r, t, u) /\ u.row[r] = row /\ u.input = t.input /\ u.stamp = t.stamp
  <1>1. /\ u = [row |-> [t.row EXCEPT ![r] = row],
                input |-> t.input, result |-> t.result, stamp |-> t.stamp]
        /\ [t.row EXCEPT ![r] = row] \in [RunIds -> Rows \cup {NoRow}] /\ r \in RunIds
    BY TreeTypes
  <1>2. u \in Trees
    BY <1>1, TreeTypes DEF Trees
  <1>3. u.row[r] = row /\ \A s \in RunIds \ {r} : u.row[s] = t.row[s]
    BY <1>1, TreeTypes
  <1> QED BY <1>1, <1>2, <1>3 DEF StepOf

(* The steps keep the runs a tree knows.                                   *)
LEMMA StepKeepsRuns ==
    ASSUME NEW t \in Trees, NEW r \in Known(t), NEW u, StepOf(r, t, u)
    PROVE  /\ Known(u) = Known(t)
           /\ \A s \in Known(t) :
                 /\ u.row[s].date = t.row[s].date /\ u.row[s].replay = t.row[s].replay
                 /\ u.row[s].gaps = t.row[s].gaps
                 /\ s # r => /\ u.row[s].picked = t.row[s].picked
                             /\ u.row[s].status # "failed" => u.row[s] = t.row[s]
                             /\ t.row[s].status \in Finished => u.row[s] = t.row[s]
  <1>1. ASSUME NEW s \in Known(t) \ {r}
        PROVE  /\ u.row[s] \in Rows
               /\ u.row[s].date = t.row[s].date /\ u.row[s].replay = t.row[s].replay
               /\ u.row[s].gaps = t.row[s].gaps /\ u.row[s].picked = t.row[s].picked
               /\ u.row[s].status # "failed" => u.row[s] = t.row[s]
               /\ t.row[s].status \in Finished => u.row[s] = t.row[s]
    <2>1. t.row[s] \in Rows /\ "failed" \in Statuses
      BY TreeTypes DEF Statuses, Finished
    <2>2. CASE u.row[s] = t.row[s]
      BY <2>1, <2>2
    <2>3. CASE t.row[s].status = "running" /\ u.row[s] = [t.row[s] EXCEPT !.status = "failed"]
      BY <2>1, <2>3, RowTypes DEF Finished
    <2> QED BY <2>2, <2>3, TreeTypes DEF StepOf
  <1>2. ASSUME NEW s \in RunIds \ Known(t)
        PROVE  u.row[s] = NoRow
    BY <1>2, RowTypes DEF StepOf, Known, Statuses
  <1>3. Known(u) = Known(t)
    BY <1>1, <1>2, TreeTypes, RowTypes DEF Known, StepOf
  <1> QED BY <1>1, <1>3 DEF StepOf

-----------------------------------------------------------------------------
(* The run under way on a machine is the last one its working copy knows,  *)
(* no other copy knows it, and it is `running` until it is completed; a    *)
(* replay is stamped before it can succeed.                                *)
Stamped(t, r) == r \in t.input \ t.stamp => ~t.row[r].replay

OwnRun(m) ==
    LET r == proc[m].run  t == tree[m] IN
    /\ r \in Known(t) /\ \A s \in Known(t) : s <= r
    /\ r \notin Known(remote.tree) /\ \A n \in Machines \ {m} : r \notin Known(tree[n])
    /\ IF proc[m].at = "completed" THEN t.row[r].status \in Finished
                                   ELSE t.row[r].status = "running"
    /\ proc[m].at = "stamped" => Stamped(t, r)
    /\ t.row[r].status \in {"success", "degraded"} => Stamped(t, r)

RunInv ==
    /\ TypeOK
    /\ Known(remote.tree) \subseteq 1..lastRun
    /\ \A m \in Machines : /\ Known(tree[m]) \subseteq 1..lastRun
                           /\ job[m] # "work" => proc[m] = Idle
                           /\ proc[m].at = "idle" => proc[m] = Idle
                           /\ proc[m].at # "idle" => OwnRun(m)

(* What a run in progress does to its machine.                             *)
RunMoves(m) ==
    LET r == proc[m].run IN
    /\ tree' \in [Machines -> Trees] /\ proc' \in [Machines -> Procs]
    /\ outcome' \in [Machines -> Outcomes]
    /\ \A n \in Machines \ {m} : tree'[n] = tree[n] /\ proc'[n] = proc[n]
    /\ UNCHANGED <<closed, lastRun, aged>>
    /\ StepOf(r, tree[m], tree'[m])
    /\ proc[m].at = "completed" => tree' = tree
    /\ \/ proc'[m] = Idle /\ tree' = tree
       \/ /\ proc'[m].run = r /\ proc'[m].at # "idle"
          /\ IF proc'[m].at = "completed" THEN tree'[m].row[r].status \in Finished
                                          ELSE tree'[m].row[r].status = "running"
          /\ proc'[m].at = "stamped" => Stamped(tree'[m], r)
          /\ tree'[m].row[r].status \in {"success", "degraded"} => Stamped(tree'[m], r)

Progress(m) ==
    \/ MarkStale(m) \/ FatalStepFails(m) \/ RecordScreening(m) \/ RiskAndText(m) \/ Export(m)
    \/ Stamp(m) \/ FinalizeOutput(m) \/ WriteOutcome(m) \/ Kill(m)

Goes(m, p) ==
    /\ proc' \in [Machines -> Procs] /\ proc'[m] = p
    /\ \A n \in Machines \ {m} : proc'[n] = proc[n]

LEMMA ProgressMoves ==
    ASSUME RunInv, NEW m \in Machines, proc[m].at # "idle", Progress(m)
    PROVE  RunMoves(m)
  <1> DEFINE r == proc[m].run
             t == tree[m]
  <1>1. /\ t \in Trees /\ tree \in [Machines -> Trees] /\ r \in Known(t) /\ r \in RunIds
        /\ t.row[r] \in Rows /\ proc[m] \in Procs /\ proc \in [Machines -> Procs]
        /\ outcome \in [Machines -> Outcomes] /\ OwnRun(m)
        /\ t = [row |-> t.row, input |-> t.input, result |-> t.result, stamp |-> t.stamp]
        /\ t.row \in [RunIds -> Rows \cup {NoRow}]
    <2>1. tree[m] \in Trees /\ OwnRun(m)
      BY DEF RunInv, TypeOK, RunTypeOK
    <2> QED BY <2>1, TreeTypes DEF RunInv, TypeOK, RunTypeOK, OwnRun
  <1>3. proc[m] = [at |-> proc[m].at, run |-> r, degraded |-> proc[m].degraded]
        /\ proc[m].degraded \in BOOLEAN
    BY <1>1 DEF Procs
  <1>6. ASSUME NEW p \in Procs, p.run = r, p.at # "idle", proc' = [proc EXCEPT ![m] = p]
        PROVE  Goes(m, p)
    BY <1>1, <1>6 DEF Goes
  <1>4. ASSUME NEW row \in Rows, row.date = t.row[r].date, row.replay = t.row[r].replay,
               row.gaps = t.row[r].gaps, tree' = [tree EXCEPT ![m].row[r] = row]
        PROVE  /\ StepOf(r, t, tree'[m]) /\ tree'[m].row[r] = row
               /\ tree'[m].input = t.input /\ tree'[m].stamp = t.stamp
               /\ tree' \in [Machines -> Trees]
               /\ \A n \in Machines \ {m} : tree'[n] = tree[n]
    <2> DEFINE u == [t EXCEPT !.row = [t.row EXCEPT ![r] = row]]
    <2>1. StepOf(r, t, u) /\ u.row[r] = row /\ u.input = t.input /\ u.stamp = t.stamp
      <3> HIDE DEF r, t
      <3> QED BY <1>1, <1>4, RowStep
    <2>2. tree' = [tree EXCEPT ![m] = u]
      BY <1>4
    <2>3. u \in Trees
      BY <2>1 DEF StepOf
    <2> HIDE DEF u, t
    <2>4. tree'[m] = u /\ tree' \in [Machines -> Trees] /\ \A n \in Machines \ {m} : tree'[n] = tree[n]
      BY <1>1, <2>2, <2>3
    <2> QED BY <2>1, <2>4
  <1>5. ASSUME NEW status \in Finished, Complete(m, status), proc[m].at # "completed",
               status # "failed" => Stamped(t, r)
        PROVE  RunMoves(m)
    <2> DEFINE row == [t.row[r] EXCEPT !.status = status]
    <2>1. /\ row \in Rows /\ row.status = status /\ row.date = t.row[r].date
          /\ row.replay = t.row[r].replay /\ row.gaps = t.row[r].gaps
      BY <1>1, RowTypes DEF Statuses
    <2>2. tree' = [tree EXCEPT ![m].row[r] = row]
      BY <1>5 DEF Complete
    <2> HIDE DEF row
    <2>3. /\ StepOf(r, t, tree'[m]) /\ tree'[m].row[r] = row
          /\ tree'[m].input = t.input /\ tree'[m].stamp = t.stamp
          /\ tree' \in [Machines -> Trees]
          /\ \A n \in Machines \ {m} : tree'[n] = tree[n]
      BY <1>4, <2>1, <2>2
    <2> DEFINE p == [proc[m] EXCEPT !.at = "completed"]
    <2>4. p \in Procs /\ p.run = r /\ p.at = "completed"
      BY <1>3, <1>1 DEF Procs, Phases
    <2>5. Goes(m, p) /\ UNCHANGED <<closed, lastRun, aged, outcome>>
      <3>1. proc' = [proc EXCEPT ![m] = p] /\ UNCHANGED <<closed, lastRun, aged, outcome>>
        BY <1>5 DEF Complete
      <3> HIDE DEF p
      <3> QED BY <1>6, <2>4, <3>1
    <2> HIDE DEF p
    <2> QED BY <1>1, <1>5, <2>1, <2>3, <2>4, <2>5 DEF Goes, RunMoves, Stamped
  <1>7. ASSUME proc[m].at # "completed", NEW p \in Procs, p.run = r,
               p.at \notin {"idle", "completed", "stamped"},
               proc' = [proc EXCEPT ![m] = p], NEW u, tree' = [tree EXCEPT ![m] = u],
               StepOf(r, t, u), u.row[r].status = "running",
               UNCHANGED <<closed, lastRun, aged, outcome>>
        PROVE  RunMoves(m)
    <2>1. Goes(m, p)
      BY <1>6, <1>7
    <2>2. u \in Trees
      BY <1>7 DEF StepOf
    <2>3. tree'[m] = u /\ tree' \in [Machines -> Trees] /\ \A n \in Machines \ {m} : tree'[n] = tree[n]
      BY <1>1, <1>7, <2>2
    <2> QED BY <1>1, <1>7, <2>1, <2>3 DEF Goes, RunMoves
  <1>8. CASE MarkStale(m)
    <2>1. PICK cutoff \in aged..lastRun :
             tree' = [tree EXCEPT ![m].row =
                [s \in RunIds |-> IF s \in Abandoned(t, r, cutoff)
                                  THEN [@[s] EXCEPT !.status = "failed"] ELSE @[s]]]
      BY <1>8 DEF MarkStale
    <2> DEFINE row == [s \in RunIds |-> IF s \in Abandoned(t, r, cutoff)
                                        THEN [t.row[s] EXCEPT !.status = "failed"] ELSE t.row[s]]
               u == [t EXCEPT !.row = row]
               p == [proc[m] EXCEPT !.at = "marked"]
    <2>2. tree' = [tree EXCEPT ![m] = u]
      BY <2>1
    <2>3. \A s \in RunIds : /\ row[s] \in Rows \cup {NoRow}
                            /\ s # r => \/ row[s] = t.row[s]
                                        \/ /\ t.row[s].status = "running"
                                           /\ row[s] = [t.row[s] EXCEPT !.status = "failed"]
                            /\ s = r => row[s] = t.row[s]
      BY <1>1, RowTypes DEF Abandoned, Statuses, Finished
    <2>4. row \in [RunIds -> Rows \cup {NoRow}]
      BY <2>3
    <2> HIDE DEF row
    <2>5. /\ u = [row |-> row, input |-> t.input, result |-> t.result, stamp |-> t.stamp]
          /\ u \in Trees
      BY <1>1, <2>4, TreeTypes DEF Trees
    <2>6. StepOf(r, t, u) /\ u.row[r] = t.row[r]
      BY <1>1, <2>3, <2>5 DEF StepOf
    <2>7. /\ p \in Procs /\ p.run = r /\ p.at = "marked"
          /\ proc' = [proc EXCEPT ![m] = p]
          /\ proc[m].at # "completed" /\ UNCHANGED <<closed, lastRun, aged, outcome>>
      BY <1>1, <1>3, <1>8 DEF MarkStale, Procs, Phases
    <2>8. t.row[r].status = "running"
      BY <1>1, <2>7 DEF OwnRun
    <2> HIDE DEF u, p
    <2> QED BY <1>7, <2>2, <2>6, <2>7, <2>8
  <1>9. CASE FatalStepFails(m)
    BY <1>5, <1>9 DEF FatalStepFails, Finished
  <1>10. CASE RecordScreening(m)
    <2>1. PICK some \in BOOLEAN : tree' = [tree EXCEPT ![m].row[r].picked = some]
      BY <1>10 DEF RecordScreening
    <2> DEFINE row == [t.row[r] EXCEPT !.picked = some]
               p == [proc[m] EXCEPT !.at = "screened"]
    <2>2. /\ row \in Rows /\ row.status = t.row[r].status /\ row.date = t.row[r].date
          /\ row.replay = t.row[r].replay /\ row.gaps = t.row[r].gaps
      BY <1>1, RowTypes
    <2>3. tree' = [tree EXCEPT ![m].row[r] = row]
      BY <2>1
    <2>4. /\ p \in Procs /\ p.run = r /\ p.at = "screened"
          /\ proc' = [proc EXCEPT ![m] = p]
          /\ proc[m].at # "completed" /\ UNCHANGED <<closed, lastRun, aged, outcome>>
      BY <1>1, <1>3, <1>10 DEF RecordScreening, Procs, Phases
    <2>5. t.row[r].status = "running"
      BY <1>1, <2>4 DEF OwnRun
    <2> HIDE DEF row, p
    <2>6. /\ StepOf(r, t, tree'[m]) /\ tree'[m].row[r] = row
          /\ tree' \in [Machines -> Trees]
          /\ \A n \in Machines \ {m} : tree'[n] = tree[n]
      BY <1>4, <2>2, <2>3
    <2>7. Goes(m, p)
      BY <1>6, <2>4
    <2> QED BY <1>1, <2>2, <2>4, <2>5, <2>6, <2>7 DEF RunMoves, Goes
  <1>11. CASE RiskAndText(m)
    <2>1. PICK soft \in BOOLEAN :
             proc' = [proc EXCEPT ![m].at = "checked", ![m].degraded = @ \/ soft]
      BY <1>11 DEF RiskAndText
    <2> DEFINE p == [proc[m] EXCEPT !.at = "checked", !.degraded = @ \/ soft]
    <2>2. /\ p \in Procs /\ p.run = r /\ p.at = "checked"
          /\ proc[m].at # "completed" /\ UNCHANGED <<closed, lastRun, aged, tree, outcome>>
      BY <1>1, <1>3, <1>11 DEF RiskAndText, Procs, Phases
    <2>3. proc' = [proc EXCEPT ![m] = p] /\ tree' = [tree EXCEPT ![m] = t]
      BY <1>1, <2>1, <2>2
    <2>4. StepOf(r, t, t) /\ t.row[r].status = "running"
      BY <1>1, <2>2, KeptTree DEF OwnRun
    <2> HIDE DEF p
    <2> QED BY <1>7, <2>2, <2>3, <2>4
  <1>12. CASE Export(m)
    <2>1. PICK degraded \in BOOLEAN, input \in {t.input, t.input \cup {r}} :
             /\ tree' = [tree EXCEPT ![m].input = input]
             /\ proc' = [proc EXCEPT ![m].at = "exported", ![m].degraded = degraded]
      <3>1. CASE /\ tree' = [tree EXCEPT ![m].input = @ \cup {r}]
                 /\ proc' = [proc EXCEPT ![m].at = "exported"]
        BY <1>1, <1>3, <3>1
      <3>2. CASE /\ UNCHANGED tree
                 /\ \E failed \in BOOLEAN :
                       proc' = [proc EXCEPT ![m].at = "exported", ![m].degraded = @ \/ failed]
        BY <1>1, <1>3, <3>2
      <3> QED BY <1>12, <3>1, <3>2 DEF Export
    <2> DEFINE p == [proc[m] EXCEPT !.at = "exported", !.degraded = degraded]
               u == [t EXCEPT !.input = input]
    <2>2. /\ p \in Procs /\ p.run = r /\ p.at = "exported"
          /\ proc[m].at # "completed" /\ UNCHANGED <<closed, lastRun, aged, outcome>>
      BY <1>1, <1>3, <1>12 DEF Export, Procs, Phases
    <2>3. proc' = [proc EXCEPT ![m] = p] /\ tree' = [tree EXCEPT ![m] = u]
      BY <2>1
    <2>4. /\ u = [row |-> t.row, input |-> input, result |-> t.result, stamp |-> t.stamp]
          /\ u \in Trees
      <3>1. u = [row |-> t.row, input |-> input, result |-> t.result, stamp |-> t.stamp]
        BY <1>1
      <3>2. input \subseteq RunIds /\ t.result \subseteq RunIds /\ t.stamp \subseteq RunIds
        BY <1>1, TreeTypes
      <3> QED BY <1>1, <3>1, <3>2 DEF Trees
    <2>5. StepOf(r, t, u) /\ u.row[r].status = "running"
      BY <1>1, <2>2, <2>4 DEF OwnRun, StepOf
    <2> HIDE DEF p, u
    <2> QED BY <1>7, <2>2, <2>3, <2>5
  <1>13. CASE Stamp(m)
    <2> DEFINE stamp == IF t.row[r].replay /\ r \in t.input THEN t.stamp \cup {r} ELSE t.stamp
               u == [t EXCEPT !.stamp = stamp]
               p == [proc[m] EXCEPT !.at = "stamped"]
    <2>1. /\ tree' = [tree EXCEPT ![m] = u] /\ proc' = [proc EXCEPT ![m] = p]
          /\ UNCHANGED <<closed, lastRun, aged, outcome>> /\ proc[m].at # "completed"
      BY <1>13 DEF Stamp
    <2>2. p \in Procs /\ p.run = r /\ p.at = "stamped"
      BY <1>1, <1>3 DEF Procs, Phases
    <2>3. /\ u = [row |-> t.row, input |-> t.input, result |-> t.result, stamp |-> stamp]
          /\ u \in Trees
      <3>1. u = [row |-> t.row, input |-> t.input, result |-> t.result, stamp |-> stamp]
        <4> HIDE DEF stamp
        <4> QED BY <1>1
      <3>2. t.input \subseteq RunIds /\ t.result \subseteq RunIds /\ stamp \subseteq RunIds
        BY <1>1, TreeTypes
      <3> HIDE DEF stamp
      <3> QED BY <1>1, <3>1, <3>2 DEF Trees
    <2>4. StepOf(r, t, u) /\ u.row[r].status = "running"
      BY <1>1, <2>1, <2>3 DEF OwnRun, StepOf
    <2>5. Stamped(u, r)
      BY <2>3 DEF Stamped
    <2>6. Goes(m, p)
      <3> HIDE DEF p
      <3> QED BY <1>6, <2>1, <2>2
    <2>7. tree'[m] = u /\ tree' \in [Machines -> Trees] /\ \A n \in Machines \ {m} : tree'[n] = tree[n]
      <3> HIDE DEF u
      <3> QED BY <1>1, <2>1, <2>3
    <2> HIDE DEF p, u
    <2> QED BY <1>1, <2>1, <2>2, <2>4, <2>5, <2>6, <2>7 DEF RunMoves, Goes
  <1>14. CASE FinalizeOutput(m)
    BY <1>1, <1>5, <1>14 DEF FinalizeOutput, OwnRun
  <1>15. CASE WriteOutcome(m) \/ Kill(m)
    <2>1. /\ proc' = [proc EXCEPT ![m] = Idle] /\ UNCHANGED <<closed, lastRun, aged, tree>>
      BY <1>15 DEF WriteOutcome, Kill
    <2>2. Idle \in Procs
      BY DEF Idle, Procs, Phases
    <2>3. outcome' \in [Machines -> Outcomes]
      <3>1. CASE Kill(m)
        BY <1>1, <3>1 DEF Kill
      <3>2. CASE WriteOutcome(m)
        BY <1>1, <3>2 DEF WriteOutcome, RecordOutcome, OwnRun, Outcomes
      <3> QED BY <1>15, <3>1, <3>2
    <2>4. StepOf(r, t, t)
      BY <1>1, KeptTree
    <2> QED BY <1>1, <2>1, <2>2, <2>3, <2>4 DEF RunMoves
  <1> QED BY <1>8, <1>9, <1>10, <1>11, <1>12, <1>13, <1>14, <1>15 DEF Progress

(* A new run: the copy learns of it, and of nothing else.                  *)
NewRow(m, d, replay) ==
    [date |-> d, replay |-> replay, status |-> "running", picked |-> FALSE,
     gaps |-> PriorAnalysisGaps(tree[m], d, replay)]

StartMoves(m, r, row) ==
    /\ r \in RunIds /\ r = lastRun + 1 /\ lastRun' = r /\ row \in Rows
    /\ tree' \in [Machines -> Trees] /\ proc' \in [Machines -> Procs]
    /\ \A n \in Machines \ {m} : tree'[n] = tree[n] /\ proc'[n] = proc[n]
    /\ tree'[m].row[r] = row
    /\ \A s \in RunIds \ {r} : tree'[m].row[s] = tree[m].row[s]
    /\ Known(tree'[m]) = Known(tree[m]) \cup {r}
    /\ tree'[m].input = tree[m].input /\ tree'[m].result = tree[m].result
    /\ tree'[m].stamp = tree[m].stamp
    /\ proc'[m].at = "started" /\ proc'[m].run = r
    /\ UNCHANGED <<closed, aged, outcome>>

LEMMA StartRunMoves ==
    ASSUME RunInv, NEW m \in Machines, NEW d \in Dates, NEW replay \in BOOLEAN,
           NEW allow \in AllowRerun, StartRun(m, d, replay, allow)
    PROVE  StartMoves(m, lastRun + 1, NewRow(m, d, replay))
  <1> DEFINE r == lastRun + 1
             t == tree[m]
             row == NewRow(m, d, replay)
             u == [t EXCEPT !.row = [t.row EXCEPT ![r] = row]]
             p == [at |-> "started", run |-> r, degraded |-> FALSE]
  <1>1. /\ t \in Trees /\ tree \in [Machines -> Trees] /\ proc \in [Machines -> Procs]
        /\ lastRun \in 0..MaxRuns
    BY DEF RunInv, TypeOK, RunTypeOK
  <1>2. r \in RunIds /\ r # NoRun
    BY <1>1, BoundsAssumption DEF StartRun, RunIds, NoRun
  <1>3. row \in Rows /\ row # NoRow
    <2>1. PriorAnalysisGaps(t, d, replay) \subseteq RunIds
      BY <1>1, TreeTypes DEF PriorAnalysisGaps, IncompleteRuns
    <2>2. row \in Rows
      BY <2>1 DEF Rows, Statuses, NewRow
    <2> QED BY <2>2, RowTypes
  <1>4. tree' = [tree EXCEPT ![m] = u] /\ proc' = [proc EXCEPT ![m] = p]
    BY DEF StartRun, NewRow
  <1>5. p \in Procs
    BY <1>2 DEF Procs, Phases
  <1> HIDE DEF row, r, p
  <1>6. /\ u = [row |-> [t.row EXCEPT ![r] = row],
                input |-> t.input, result |-> t.result, stamp |-> t.stamp]
        /\ u \in Trees
    <2>1. u = [row |-> [t.row EXCEPT ![r] = row],
               input |-> t.input, result |-> t.result, stamp |-> t.stamp]
      BY <1>1, WithRows
    <2>2. /\ [t.row EXCEPT ![r] = row] \in [RunIds -> Rows \cup {NoRow}]
          /\ t.input \subseteq RunIds /\ t.result \subseteq RunIds /\ t.stamp \subseteq RunIds
      BY <1>1, <1>2, <1>3, TreeTypes
    <2> QED BY <2>1, <2>2 DEF Trees
  <1>7. u.row[r] = row /\ \A s \in RunIds \ {r} : u.row[s] = t.row[s]
    BY <1>1, <1>2, <1>6, TreeTypes
  <1>8. Known(u) = Known(t) \cup {r}
    BY <1>2, <1>3, <1>7 DEF Known
  <1>9. /\ u.input = t.input /\ u.result = t.result /\ u.stamp = t.stamp
    BY <1>6
  <1>10. /\ tree'[m] = u /\ tree' \in [Machines -> Trees]
         /\ \A n \in Machines \ {m} : tree'[n] = tree[n]
    <2> HIDE DEF u
    <2> QED BY <1>1, <1>4, <1>6
  <1>11. /\ proc'[m] = p /\ proc' \in [Machines -> Procs]
         /\ \A n \in Machines \ {m} : proc'[n] = proc[n]
    BY <1>1, <1>4, <1>5
  <1>12. lastRun' = r /\ r = lastRun + 1 /\ UNCHANGED <<closed, aged, outcome>>
    BY DEF StartRun, r
  <1>13. p.at = "started" /\ p.run = r
    BY DEF p
  <1> HIDE DEF u
  <1>14. StartMoves(m, r, row)
    BY <1>2, <1>3, <1>7, <1>8, <1>9, <1>10, <1>11, <1>12, <1>13 DEF StartMoves
  <1> QED BY <1>14 DEF r, row

(* Other machines' runs are their own still.                               *)
LEMMA OwnRunKept ==
    ASSUME NEW n \in Machines, OwnRun(n), proc'[n] = proc[n], tree'[n] = tree[n],
           proc[n].run \notin Known(remote.tree)',
           \A k \in Machines \ {n} : proc[n].run \notin Known(tree[k])'
    PROVE  OwnRun(n)'
  BY DEF OwnRun, Stamped, Known

LEMMA EmptyTreeType == EmptyTree \in Trees /\ Known(EmptyTree) = {}
  BY DEF EmptyTree, Trees, Known

LEMMA InitRun == Init => RunInv
  <1> SUFFICES ASSUME Init PROVE RunInv
    OBVIOUS
  <1>1. EmptyTree \in Trees /\ Known(EmptyTree) = {} /\ Idle \in Procs /\ Idle.at = "idle"
    BY EmptyTreeType DEF Idle, Procs, Phases
  <1>2. TypeOK
    <2>1. closed \in Dates /\ lastRun \in 0..MaxRuns /\ aged \in 0..lastRun
      BY BoundsAssumption DEF Init, RunInit, Dates
    <2>2. remote \in [gen : 1..MaxGeneration, tree : Trees]
      BY <1>1, JobAssumption DEF Init
    <2> QED BY <1>1, <2>1, <2>2, JobAssumption, BoundsAssumption
            DEF Init, RunInit, TypeOK, RunTypeOK, Outcomes, Places, NoBase
  <1> QED BY <1>1, <1>2 DEF Init, RunInit, RunInv

LEMMA RunStep == RunInv /\ [Next]_vars => RunInv'
  <1> SUFFICES ASSUME RunInv, [Next]_vars PROVE RunInv'
    OBVIOUS
  <1>0. /\ closed \in Dates /\ lastRun \in 0..MaxRuns /\ aged \in 0..lastRun
        /\ tree \in [Machines -> Trees] /\ proc \in [Machines -> Procs]
        /\ outcome \in [Machines -> Outcomes]
        /\ remote \in [gen : 1..MaxGeneration, tree : Trees]
        /\ remote.gen \in 1..MaxGeneration /\ remote.tree \in Trees
        /\ job \in [Machines -> Places] /\ base \in [Machines -> 0..MaxGeneration]
        /\ since \in [Machines -> 0..MaxRuns] /\ lost \subseteq Dates
    BY DEF RunInv, TypeOK, RunTypeOK
  <1>1. CASE World
    <2>1. closed' \in Dates /\ aged' \in 0..lastRun
      BY <1>0, <1>1, BoundsAssumption DEF World, CloseSession, Dates
    <2>2. UNCHANGED <<lastRun, tree, proc, outcome, jobVars>>
      BY <1>1 DEF World, CloseSession
    <2>3. \A m \in Machines : OwnRun(m)' <=> OwnRun(m)
      BY <2>2 DEF OwnRun, jobVars, Stamped, Known
    <2> QED BY <2>1, <2>2, <2>3 DEF RunInv, TypeOK, RunTypeOK, jobVars, Known
  <1>2. ASSUME NEW m \in Machines, Pull(m)
        PROVE  RunInv'
    <2>1. /\ tree' = [tree EXCEPT ![m] = remote.tree] /\ proc[m] = Idle
          /\ job' = [job EXCEPT ![m] = "work"]
          /\ base' = [base EXCEPT ![m] = remote.gen]
          /\ since' = [since EXCEPT ![m] = lastRun]
          /\ outcome' = [outcome EXCEPT ![m] = NoFile]
          /\ UNCHANGED <<closed, lastRun, aged, proc, remote, lost>>
      BY <1>2 DEF Pull, RunInv
    <2>2. TypeOK'
      <3>1. tree' \in [Machines -> Trees]
        BY <1>0, <2>1
      <3>2. job' \in [Machines -> Places] /\ base' \in [Machines -> 0..MaxGeneration]
        BY <1>0, <2>1 DEF Places
      <3>3. since' \in [Machines -> 0..MaxRuns] /\ outcome' \in [Machines -> Outcomes]
        BY <1>0, <2>1 DEF Outcomes
      <3> QED BY <1>0, <2>1, <3>1, <3>2, <3>3 DEF TypeOK, RunTypeOK
    <2>3. \A n \in Machines : tree'[n] = IF n = m THEN remote.tree ELSE tree[n]
      BY <1>0, <2>1
    <2>4. ASSUME NEW n \in Machines, proc'[n].at # "idle"
          PROVE  OwnRun(n)'
      <3>1. n # m /\ OwnRun(n)
        BY <2>1, <2>4 DEF Idle, RunInv
      <3>2. /\ proc[n].run \notin Known(remote.tree)
            /\ \A k \in Machines \ {n} : proc[n].run \notin Known(tree[k])
        BY <3>1 DEF OwnRun
      <3>3. /\ proc'[n] = proc[n] /\ tree'[n] = tree[n] /\ remote' = remote
            /\ \A k \in Machines : tree'[k] = IF k = m THEN remote.tree ELSE tree[k]
        BY <2>1, <2>3, <3>1
      <3>4. /\ proc[n].run \notin Known(remote.tree)'
            /\ \A k \in Machines \ {n} : proc[n].run \notin Known(tree[k])'
        BY <3>2, <3>3 DEF Known
      <3> QED BY <3>1, <3>3, <3>4, OwnRunKept
    <2> QED BY <1>0, <2>1, <2>2, <2>3, <2>4 DEF RunInv, Known
  <1>3. ASSUME NEW m \in Machines, Run(m), UNCHANGED <<closed, lastRun, aged, tree, proc>>,
               outcome' \in [Machines -> Outcomes]
        PROVE  RunInv'
    <2>1. UNCHANGED jobVars
      BY <1>3 DEF Run
    <2>2. \A n \in Machines : OwnRun(n)' <=> OwnRun(n)
      BY <1>3, <2>1 DEF OwnRun, jobVars, Stamped, Known
    <2> QED BY <1>3, <2>1, <2>2 DEF RunInv, TypeOK, RunTypeOK, jobVars, Known
  <1>4. ASSUME NEW m \in Machines, Run(m),
               \/ PriceFetchFailed(m) \/ NoTradingDay(m)
               \/ \E d \in Dates, replay \in BOOLEAN : SameDayRerun(m, d, replay)
        PROVE  RunInv'
    <2>1. PICK reason \in Aborts : Abort(m, reason)
      BY <1>4 DEF PriceFetchFailed, NoTradingDay, SameDayRerun, Aborts
    <2>2. UNCHANGED <<closed, lastRun, aged, tree, proc>>
      BY <2>1 DEF Abort
    <2>3. outcome' \in [Machines -> Outcomes]
      BY <1>0, <2>1 DEF Abort, RecordOutcome, Outcomes
    <2> QED BY <1>3, <1>4, <2>2, <2>3
  <1>5. ASSUME NEW m \in Machines, Run(m), NEW d \in Dates, NEW replay \in BOOLEAN,
               NEW allow \in AllowRerun, StartRun(m, d, replay, allow)
        PROVE  RunInv'
    <2> DEFINE r == lastRun + 1
               row == NewRow(m, d, replay)
    <2>1. StartMoves(m, r, row) /\ row.status = "running" /\ UNCHANGED jobVars /\ job[m] = "work"
      BY <1>5, StartRunMoves DEF NewRow, Run
    <2> HIDE DEF r, row
    <2>2. /\ r \in RunIds /\ r = lastRun + 1 /\ lastRun' = r
          /\ Known(tree[m])' = Known(tree[m]) \cup {r}
          /\ \A n \in Machines \ {m} : Known(tree[n])' = Known(tree[n])
          /\ Known(remote.tree)' = Known(remote.tree)
      BY <2>1 DEF StartMoves, jobVars, Known
    <2>3. TypeOK'
      <3>1. lastRun' \in 0..MaxRuns /\ aged' \in 0..lastRun'
        BY <1>0, <2>1, <2>2, BoundsAssumption DEF RunIds, StartMoves
      <3> QED BY <1>0, <2>1, <3>1 DEF TypeOK, RunTypeOK, StartMoves, jobVars
    <2>4. \A n \in Machines : Known(tree[n])' \subseteq 1..lastRun'
      BY <1>0, <2>2 DEF RunInv
    <2>5. OwnRun(m)'
      <3>1. \A s \in Known(tree[m])' : s <= r
        BY <1>0, <2>2, <2>4
      <3>2. r \notin Known(remote.tree)' /\ \A n \in Machines \ {m} : r \notin Known(tree[n])'
        BY <1>0, <2>2 DEF RunInv
      <3>3. r \in Known(tree[m])'
        BY <2>2
      <3> QED BY <2>1, <3>1, <3>2, <3>3 DEF OwnRun, StartMoves, Stamped
    <2>6. ASSUME NEW n \in Machines \ {m}, proc'[n].at # "idle"
          PROVE  OwnRun(n)'
      <3>1. OwnRun(n) /\ proc'[n] = proc[n] /\ tree'[n] = tree[n]
        BY <2>1, <2>6 DEF StartMoves, RunInv
      <3>2. proc[n].run \in Known(tree[n]) /\ proc[n].run # r
        BY <1>0, <2>2, <3>1 DEF OwnRun, RunInv
      <3>3. /\ proc[n].run \notin Known(remote.tree)'
            /\ \A k \in Machines \ {n} : proc[n].run \notin Known(tree[k])'
        BY <2>2, <3>1, <3>2 DEF OwnRun
      <3> QED BY <3>1, <3>3, OwnRunKept
    <2>7. \A n \in Machines : /\ job'[n] # "work" => proc'[n] = Idle
                              /\ proc'[n].at = "idle" => proc'[n] = Idle
      BY <2>1 DEF RunInv, StartMoves, jobVars
    <2>8. Known(remote.tree)' \subseteq 1..lastRun'
      BY <1>0, <2>2 DEF RunInv
    <2> QED BY <2>3, <2>4, <2>5, <2>6, <2>7, <2>8 DEF RunInv
  <1>6. ASSUME NEW m \in Machines, Run(m), Progress(m)
        PROVE  RunInv'
    <2>1. proc[m].at # "idle" /\ job[m] = "work" /\ UNCHANGED jobVars
      <3>1. proc[m].at = "idle" => proc[m] = Idle
        BY DEF RunInv
      <3> QED BY <1>6, <3>1 DEF Run, Progress, MarkStale, FatalStepFails, RecordScreening,
                  RiskAndText, Export, Stamp, FinalizeOutput, WriteOutcome, Kill, Idle
    <2> DEFINE r == proc[m].run
               t == tree[m]
    <2>2. RunMoves(m) /\ OwnRun(m)
      BY <1>6, <2>1, ProgressMoves DEF RunInv
    <2>3. /\ t \in Trees /\ r \in Known(t) /\ StepOf(r, t, tree'[m])
      BY <1>0, <2>2 DEF RunMoves, OwnRun
    <2>4. /\ Known(tree'[m]) = Known(t)
          /\ \A n \in Machines \ {m} : tree'[n] = tree[n]
      BY <2>2, <2>3, StepKeepsRuns DEF RunMoves
    <2>5. /\ \A n \in Machines : Known(tree[n])' = Known(tree[n])
          /\ Known(remote.tree)' = Known(remote.tree)
      BY <2>1, <2>4 DEF jobVars, Known
    <2>6. TypeOK'
      BY <1>0, <2>1, <2>2 DEF TypeOK, RunTypeOK, RunMoves, jobVars
    <2>7. ASSUME NEW n \in Machines, proc'[n].at # "idle"
          PROVE  OwnRun(n)'
      <3>1. CASE n = m
        <4>1. /\ proc'[m].run = r /\ proc'[m].at # "idle"
              /\ IF proc'[m].at = "completed" THEN tree'[m].row[r].status \in Finished
                                              ELSE tree'[m].row[r].status = "running"
              /\ proc'[m].at = "stamped" => Stamped(tree'[m], r)
              /\ tree'[m].row[r].status \in {"success", "degraded"} => Stamped(tree'[m], r)
          BY <2>2, <2>7, <3>1 DEF RunMoves, Idle
        <4>2. /\ r \in Known(tree[m])' /\ \A s \in Known(tree[m])' : s <= r
              /\ r \notin Known(remote.tree)'
              /\ \A k \in Machines \ {m} : r \notin Known(tree[k])'
          BY <2>2, <2>5 DEF OwnRun
        <4>3. OwnRun(m)'
          BY <4>1, <4>2 DEF OwnRun, Stamped
        <4> QED BY <3>1, <4>3
      <3>2. CASE n # m
        <4>1. proc'[n] = proc[n] /\ tree'[n] = tree[n] /\ OwnRun(n)
          BY <2>2, <2>7, <3>2 DEF RunMoves, RunInv
        <4>2. /\ proc[n].run \notin Known(remote.tree)'
              /\ \A k \in Machines \ {n} : proc[n].run \notin Known(tree[k])'
          BY <2>5, <4>1 DEF OwnRun
        <4> QED BY <4>1, <4>2, OwnRunKept
      <3> QED BY <3>1, <3>2
    <2>8. \A n \in Machines : /\ job'[n] # "work" => proc'[n] = Idle
                              /\ proc'[n].at = "idle" => proc'[n] = Idle
      BY <2>1, <2>2 DEF RunInv, RunMoves, jobVars
    <2>9. lastRun' = lastRun
      BY <2>2 DEF RunMoves
    <2> QED BY <2>5, <2>6, <2>7, <2>8, <2>9 DEF RunInv
  <1>7. ASSUME NEW m \in Machines, Analyse(m)
        PROVE  RunInv'
    <2>1. PICK q \in RunIds :
             /\ tree' = [tree EXCEPT ![m].result = @ \cup {q}] /\ proc[m] = Idle
             /\ UNCHANGED <<closed, lastRun, aged, proc, outcome, jobVars>>
      BY <1>7 DEF Analyse, Answer
    <2>2. /\ \A n \in Machines \ {m} : tree'[n] = tree[n]
          /\ tree'[m].row = tree[m].row /\ tree' \in [Machines -> Trees]
      <3>1. tree[m] \in Trees /\ tree[m].result \cup {q} \subseteq RunIds
        BY <1>0, TreeTypes
      <3> DEFINE u == [tree[m] EXCEPT !.result = tree[m].result \cup {q}]
      <3>2. u \in Trees /\ u.row = tree[m].row
        BY <3>1 DEF Trees
      <3>3. tree' = [tree EXCEPT ![m] = u]
        BY <2>1
      <3> HIDE DEF u
      <3> QED BY <1>0, <3>2, <3>3
    <2>3. /\ \A n \in Machines : Known(tree[n])' = Known(tree[n])
          /\ Known(remote.tree)' = Known(remote.tree)
      BY <2>1, <2>2 DEF Known, jobVars
    <2>4. ASSUME NEW n \in Machines, proc'[n].at # "idle"
          PROVE  OwnRun(n)'
      <3>1. n # m /\ OwnRun(n) /\ proc'[n] = proc[n] /\ tree'[n] = tree[n]
        BY <2>1, <2>2, <2>4 DEF Idle, RunInv
      <3>2. /\ proc[n].run \notin Known(remote.tree)'
            /\ \A k \in Machines \ {n} : proc[n].run \notin Known(tree[k])'
        BY <2>3, <3>1 DEF OwnRun
      <3> QED BY <3>1, <3>2, OwnRunKept
    <2>5. TypeOK'
      BY <1>0, <2>1, <2>2 DEF TypeOK, RunTypeOK, jobVars
    <2> QED BY <2>1, <2>3, <2>4, <2>5 DEF RunInv, jobVars
  <1>8. ASSUME NEW m \in Machines, StepFails(m) \/ PushFails(m) \/ EndJob(m)
        PROVE  RunInv'
    <2>1. Discard(m) /\ lost' \subseteq Dates
      BY <1>0, <1>8 DEF StepFails, PushFails, EndJob
    <2>2. /\ \A n \in Machines : /\ tree'[n] = IF n = m THEN EmptyTree ELSE tree[n]
                                 /\ proc'[n] = IF n = m THEN Idle ELSE proc[n]
                                 /\ job'[n] = IF n = m THEN "off" ELSE job[n]
          /\ UNCHANGED <<closed, lastRun, aged, remote>>
      BY <1>0, <2>1 DEF Discard
    <2>3. TypeOK'
      <3>1. Idle \in Procs /\ EmptyTree \in Trees /\ NoFile \in Outcomes /\ "off" \in Places
            /\ NoBase \in 0..MaxGeneration /\ 0 \in 0..MaxRuns
        BY EmptyTreeType, BoundsAssumption, JobAssumption
           DEF Idle, Procs, Phases, Outcomes, Places, NoBase
      <3> QED BY <1>0, <2>1, <3>1 DEF Discard, TypeOK, RunTypeOK
    <2>4. /\ \A n \in Machines : Known(tree[n])' \subseteq Known(tree[n])
          /\ Known(remote.tree)' = Known(remote.tree)
      BY <2>2, EmptyTreeType DEF Known
    <2>5. ASSUME NEW n \in Machines, proc'[n].at # "idle"
          PROVE  OwnRun(n)'
      <3>1. n # m /\ OwnRun(n) /\ proc'[n] = proc[n] /\ tree'[n] = tree[n]
        BY <2>2, <2>5 DEF Idle, RunInv
      <3>2. /\ proc[n].run \notin Known(remote.tree)'
            /\ \A k \in Machines \ {n} : proc[n].run \notin Known(tree[k])'
        BY <2>4, <3>1 DEF OwnRun
      <3> QED BY <3>1, <3>2, OwnRunKept
    <2>6. /\ \A n \in Machines : Known(tree[n])' \subseteq 1..lastRun
          /\ Known(remote.tree)' \subseteq 1..lastRun
      BY <2>4 DEF RunInv
    <2> QED BY <2>2, <2>3, <2>5, <2>6 DEF RunInv
  <1>9. ASSUME NEW m \in Machines, Push(m)
        PROVE  RunInv'
    <2>1. /\ remote' = [gen |-> remote.gen + 1, tree |-> tree[m]] /\ proc[m] = Idle
          /\ remote.gen < MaxGeneration
          /\ job' = [job EXCEPT ![m] = IF m \in Runners THEN "pushed" ELSE @]
          /\ base' = [base EXCEPT ![m] = remote.gen + 1]
          /\ UNCHANGED <<runVars, since, lost>>
      BY <1>9 DEF Push
    <2>2. TypeOK'
      <3>1. remote' \in [gen : 1..MaxGeneration, tree : Trees]
        BY <1>0, <2>1, JobAssumption
      <3>2. base' \in [Machines -> 0..MaxGeneration]
        BY <1>0, <2>1, JobAssumption
      <3>3. job' \in [Machines -> Places]
        BY <1>0, <2>1 DEF Places
      <3> QED BY <1>0, <2>1, <3>1, <3>2, <3>3 DEF TypeOK, RunTypeOK, runVars
    <2>3. /\ \A n \in Machines : Known(tree[n])' = Known(tree[n])
          /\ Known(remote.tree)' = Known(tree[m])
      BY <2>1 DEF Known, runVars
    <2>4. ASSUME NEW n \in Machines, proc'[n].at # "idle"
          PROVE  OwnRun(n)'
      <3>1. n # m /\ OwnRun(n) /\ proc'[n] = proc[n] /\ tree'[n] = tree[n]
        BY <2>1, <2>4 DEF Idle, RunInv, runVars
      <3>2. /\ proc[n].run \notin Known(remote.tree)'
            /\ \A k \in Machines \ {n} : proc[n].run \notin Known(tree[k])'
        BY <2>3, <3>1 DEF OwnRun
      <3> QED BY <3>1, <3>2, OwnRunKept
    <2>5. \A n \in Machines : job'[n] # "work" => proc'[n] = Idle
      BY <1>0, <2>1 DEF RunInv, runVars
    <2> QED BY <2>1, <2>2, <2>3, <2>4, <2>5 DEF RunInv, runVars
  <1>10. ASSUME NEW m \in Machines, Verify(m)
         PROVE  RunInv'
    <2>1. /\ job[m] = "pushed" /\ UNCHANGED <<runVars, remote, base, since, lost>>
          /\ job' \in [Machines -> Places]
          /\ \A n \in Machines : job'[n] # "work" => job[n] # "work"
      BY <1>0, <1>10 DEF Verify, Places
    <2>2. \A n \in Machines : OwnRun(n)' <=> OwnRun(n)
      BY <2>1 DEF OwnRun, runVars, Stamped, Known
    <2> QED BY <1>0, <2>1, <2>2 DEF RunInv, TypeOK, RunTypeOK, runVars, Known
  <1>11. CASE UNCHANGED vars
    <2>1. \A n \in Machines : OwnRun(n)' <=> OwnRun(n)
      BY <1>11 DEF OwnRun, vars, runVars, jobVars, Stamped, Known
    <2> QED BY <1>11, <2>1 DEF RunInv, TypeOK, RunTypeOK, vars, runVars, jobVars, Known
  <1>12. ASSUME NEW m \in Machines, Run(m)
         PROVE  RunInv'
    BY <1>4, <1>5, <1>6, <1>12 DEF Run, CopilotDaily, Progress
  <1> QED BY <1>1, <1>2, <1>7, <1>8, <1>9, <1>10, <1>11, <1>12 DEF Next

(* Every variable has its type, for any machines, sessions and bounds; no  *)
(* row is changed but of a run that was started.                           *)
THEOREM JobTypeCorrect == Spec => []TypeOK
  <1>1. RunInv => TypeOK
    BY DEF RunInv
  <1> QED BY <1>1, InitRun, RunStep, PTL DEF Spec

-----------------------------------------------------------------------------
(* What a step does to a working copy and to the mirror.                   *)
Starts(n) ==
    \E d \in Dates, replay \in BOOLEAN, allow \in AllowRerun :
        /\ StartMoves(n, lastRun + 1, NewRow(n, d, replay))
        /\ allow \/ SuccessfulRuns(tree[n], d) = {}

Answered(n) ==
    /\ tree'[n].row = tree[n].row /\ tree'[n].input = tree[n].input
    /\ tree'[n].stamp = tree[n].stamp /\ tree[n].result \subseteq tree'[n].result
    /\ proc'[n] = Idle

CopyStep(n) ==
    \/ tree'[n] = tree[n] /\ proc'[n] \in {proc[n], Idle}
    \/ tree'[n] \in {remote.tree, EmptyTree} /\ proc'[n] = Idle
    \/ Starts(n)
    \/ proc[n].at # "idle" /\ RunMoves(n)
    \/ Answered(n)

MirrorStep == remote'.tree = remote.tree \/ \E m \in Machines : remote'.tree = tree[m]

LEMMA CopySteps ==
    ASSUME RunInv, [Next]_vars
    PROVE  MirrorStep /\ \A n \in Machines : CopyStep(n)
  <1>0. /\ tree \in [Machines -> Trees] /\ proc \in [Machines -> Procs]
        /\ \A n \in Machines : /\ tree[n] \in Trees
                               /\ proc[n].at = "idle" => proc[n] = Idle
                               /\ job[n] # "work" => proc[n] = Idle
    BY DEF RunInv, TypeOK, RunTypeOK
  <1>1. ASSUME UNCHANGED <<tree, proc, remote>>
        PROVE  MirrorStep /\ \A n \in Machines : CopyStep(n)
    BY <1>1 DEF MirrorStep, CopyStep
  <1>2. CASE World \/ UNCHANGED vars \/ \E m \in Machines : Verify(m)
    BY <1>1, <1>2 DEF World, CloseSession, vars, runVars, jobVars, Verify
  <1>3. ASSUME NEW m \in Machines, Pull(m)
        PROVE  MirrorStep /\ \A n \in Machines : CopyStep(n)
    BY <1>0, <1>3 DEF Pull, MirrorStep, CopyStep
  <1>4. ASSUME NEW m \in Machines, Analyse(m)
        PROVE  MirrorStep /\ \A n \in Machines : CopyStep(n)
    <2>1. PICK q \in RunIds :
             /\ tree' = [tree EXCEPT ![m].result = @ \cup {q}] /\ proc[m] = Idle
             /\ UNCHANGED <<proc, jobVars>>
      BY <1>4 DEF Analyse, Answer
    <2> DEFINE u == [tree[m] EXCEPT !.result = tree[m].result \cup {q}]
    <2>2. /\ u.row = tree[m].row /\ u.input = tree[m].input /\ u.stamp = tree[m].stamp
          /\ tree[m].result \subseteq u.result
      BY <1>0, TreeTypes
    <2>3. tree' = [tree EXCEPT ![m] = u]
      BY <2>1
    <2> HIDE DEF u
    <2>4. Answered(m) /\ \A n \in Machines \ {m} : tree'[n] = tree[n]
      BY <1>0, <2>1, <2>2, <2>3 DEF Answered
    <2> QED BY <2>1, <2>4 DEF CopyStep, MirrorStep, jobVars
  <1>5. ASSUME NEW m \in Machines, StepFails(m) \/ PushFails(m) \/ EndJob(m)
        PROVE  MirrorStep /\ \A n \in Machines : CopyStep(n)
    <2>1. Discard(m)
      BY <1>5 DEF StepFails, PushFails, EndJob
    <2> QED BY <1>0, <2>1 DEF Discard, CopyStep, MirrorStep
  <1>6. ASSUME NEW m \in Machines, Push(m)
        PROVE  MirrorStep /\ \A n \in Machines : CopyStep(n)
    BY <1>6 DEF Push, runVars, CopyStep, MirrorStep
  <1>7. ASSUME NEW m \in Machines, Run(m)
        PROVE  MirrorStep /\ \A n \in Machines : CopyStep(n)
    <2>1. UNCHANGED jobVars
      BY <1>7 DEF Run
    <2>2. CASE \/ PriceFetchFailed(m) \/ NoTradingDay(m)
               \/ \E d \in Dates, replay \in BOOLEAN : SameDayRerun(m, d, replay)
      BY <1>1, <2>1, <2>2 DEF PriceFetchFailed, NoTradingDay, SameDayRerun, Abort, jobVars
    <2>3. ASSUME NEW d \in Dates, NEW replay \in BOOLEAN, NEW allow \in AllowRerun,
                 StartRun(m, d, replay, allow)
          PROVE  MirrorStep /\ \A n \in Machines : CopyStep(n)
      <3>1. StartMoves(m, lastRun + 1, NewRow(m, d, replay))
        BY <2>3, StartRunMoves
      <3>2. Starts(m)
        BY <2>3, <3>1 DEF Starts, StartRun
      <3>3. \A n \in Machines \ {m} : tree'[n] = tree[n] /\ proc'[n] = proc[n]
        BY <3>1 DEF StartMoves
      <3> QED BY <2>1, <3>2, <3>3 DEF CopyStep, MirrorStep, jobVars
    <2>4. CASE Progress(m)
      <3>1. proc[m].at # "idle"
        BY <1>0, <2>4 DEF Progress, MarkStale, FatalStepFails, RecordScreening,
              RiskAndText, Export, Stamp, FinalizeOutput, WriteOutcome, Kill
      <3>2. RunMoves(m)
        BY <2>4, <3>1, ProgressMoves
      <3> QED BY <2>1, <3>1, <3>2 DEF RunMoves, CopyStep, MirrorStep, jobVars
    <2> QED BY <1>7, <2>2, <2>3, <2>4 DEF Run, CopilotDaily, Progress
  <1> QED BY <1>2, <1>3, <1>4, <1>5, <1>6, <1>7 DEF Next

-----------------------------------------------------------------------------
(* One success per session.                                                *)
OneRun(t) ==
    \A r, s \in Known(t) :
        /\ t.row[r].status = "success" /\ t.row[s].status = "success"
        /\ t.row[r].date = t.row[s].date
        => r = s

SuccessInv ==
    /\ OneRun(remote.tree)
    /\ \A m \in Machines :
          /\ OneRun(tree[m])
          /\ proc[m].at \notin {"idle", "completed"} =>
                SuccessfulRuns(tree[m], tree[m].row[proc[m].run].date) = {}

LEMMA SuccessStep ==
    ASSUME TRUE \notin AllowRerun
    PROVE  RunInv /\ SuccessInv /\ [Next]_vars => SuccessInv'
  <1> SUFFICES ASSUME RunInv, SuccessInv, [Next]_vars
               PROVE  SuccessInv'
    OBVIOUS
  <1>1. MirrorStep /\ \A n \in Machines : CopyStep(n)
    BY CopySteps
  <1>2. OneRun(remote.tree)'
    BY <1>1 DEF MirrorStep, SuccessInv, OneRun, Known
  <1>3. ASSUME NEW n \in Machines
        PROVE  /\ OneRun(tree[n])'
               /\ proc'[n].at \notin {"idle", "completed"} =>
                     SuccessfulRuns(tree'[n], tree'[n].row[proc'[n].run].date) = {}
    <2>0. /\ tree[n] \in Trees /\ OneRun(tree[n]) /\ Known(tree[n]) \subseteq 1..lastRun
          /\ lastRun \in Nat
          /\ proc[n].at \notin {"idle", "completed"} =>
                SuccessfulRuns(tree[n], tree[n].row[proc[n].run].date) = {}
          /\ Idle.at = "idle"
      <3>1. tree[n] \in Trees /\ Known(tree[n]) \subseteq 1..lastRun /\ lastRun \in Nat
        BY BoundsAssumption DEF RunInv, TypeOK, RunTypeOK
      <3>2. OneRun(tree[n])
        BY DEF SuccessInv
      <3>3. proc[n].at \notin {"idle", "completed"} =>
               SuccessfulRuns(tree[n], tree[n].row[proc[n].run].date) = {}
        BY DEF SuccessInv
      <3> QED BY <3>1, <3>2, <3>3 DEF Idle
    <2>1. CASE tree'[n] = tree[n] /\ proc'[n] \in {proc[n], Idle}
      BY <2>0, <2>1 DEF OneRun, Known
    <2>2. CASE tree'[n] \in {remote.tree, EmptyTree} /\ proc'[n] = Idle
      BY <2>0, <2>2, EmptyTreeType DEF SuccessInv, OneRun, Known
    <2>3. CASE Starts(n)
      <3>1. PICK d \in Dates, replay \in BOOLEAN :
               /\ StartMoves(n, lastRun + 1, NewRow(n, d, replay))
               /\ SuccessfulRuns(tree[n], d) = {}
        BY <2>3 DEF Starts
      <3> DEFINE r == lastRun + 1
                 row == NewRow(n, d, replay)
      <3>2. /\ row.status = "running" /\ row.date = d
            /\ r \notin Known(tree[n])
        BY <2>0 DEF NewRow
      <3> HIDE DEF r, row
      <3>3. /\ tree'[n].row[r] = row /\ \A s \in Known(tree[n]) : tree'[n].row[s] = tree[n].row[s]
            /\ Known(tree'[n]) = Known(tree[n]) \cup {r} /\ proc'[n].run = r
        BY <2>0, <3>1, <3>2, TreeTypes DEF StartMoves, r, row
      <3>4. OneRun(tree[n])'
        <4>1. OneRun(tree'[n])
          BY <2>0, <3>2, <3>3 DEF OneRun
        <4> QED BY <4>1 DEF OneRun, Known
      <3>5. SuccessfulRuns(tree'[n], d) = {}
        BY <3>1, <3>2, <3>3 DEF SuccessfulRuns, On
      <3> QED BY <3>2, <3>3, <3>4, <3>5
    <2>4. CASE proc[n].at # "idle" /\ RunMoves(n)
      <3> DEFINE r == proc[n].run
                 t == tree[n]
                 u == tree'[n]
      <3>1. /\ r \in Known(t) /\ StepOf(r, t, u) /\ OwnRun(n)
            /\ proc[n].at = "completed" => u = t
            /\ proc'[n] = Idle \/ proc'[n].run = r
        BY <2>4 DEF RunInv, OwnRun, RunMoves
      <3>2. /\ Known(u) = Known(t)
            /\ \A s \in Known(t) : /\ u.row[s].date = t.row[s].date
                                   /\ s # r /\ u.row[s].status # "failed" => u.row[s] = t.row[s]
        BY <2>0, <3>1, StepKeepsRuns
      <3>3. OneRun(u)
        <4>1. CASE proc[n].at = "completed"
          BY <2>0, <3>1, <4>1
        <4>2. CASE proc[n].at # "completed"
          <5>1. \A s \in Known(t) : t.row[s].status = "success" => t.row[s].date # t.row[r].date
            BY <2>0, <2>4, <4>2 DEF SuccessfulRuns, On
          <5> HIDE DEF u, t, r
          <5> QED BY <2>0, <3>1, <3>2, <5>1 DEF OneRun, t
        <4> QED BY <4>1, <4>2
      <3>4. ASSUME proc'[n].at \notin {"idle", "completed"}
            PROVE  SuccessfulRuns(u, u.row[proc'[n].run].date) = {}
        <4>1. /\ proc'[n].run = r /\ u.row[r].status = "running"
              /\ proc[n].at # "completed"
          BY <2>4, <3>1, <3>4 DEF RunMoves, OwnRun, Idle, Finished
        <4>2. SuccessfulRuns(t, t.row[r].date) = {}
          BY <2>0, <2>4, <4>1
        <4> HIDE DEF u, t, r
        <4> QED BY <3>1, <3>2, <4>1, <4>2 DEF SuccessfulRuns, On
      <3> QED BY <3>3, <3>4 DEF OneRun, Known
    <2>5. CASE Answered(n)
      BY <2>0, <2>5 DEF Answered, OneRun, Known
    <2> QED BY <1>1, <2>1, <2>2, <2>3, <2>4, <2>5 DEF CopyStep
  <1> QED BY <1>2, <1>3 DEF SuccessInv

(* Without --allow-same-day-rerun two runs never stand for one session,    *)
(* on the mirror or in a working copy, although run_daily only ever looks  *)
(* at the copy its machine pulled.                                         *)
THEOREM OneRunStandsForASession ==
    ASSUME TRUE \notin AllowRerun
    PROVE  Spec => []OneSuccessPerSession
  <1>1. Init => SuccessInv
    <2> SUFFICES ASSUME Init PROVE SuccessInv
      OBVIOUS
    <2>1. remote.tree = EmptyTree /\ \A m \in Machines : tree[m] = EmptyTree /\ proc[m] = Idle
      BY DEF Init, RunInit
    <2> QED BY <2>1, EmptyTreeType DEF SuccessInv, OneRun, Idle
  <1>2. RunInv /\ SuccessInv => OneSuccessPerSession
    <2> SUFFICES ASSUME RunInv, SuccessInv, NEW t \in Copies, NEW d \in Dates
                 PROVE  Cardinality(Successes(t, d)) <= 1
      BY DEF OneSuccessPerSession, OneSuccess
    <2>1. OneRun(t)
      BY DEF Copies, SuccessInv
    <2>2. CASE Successes(t, d) = {}
      BY <2>2, FS_EmptySet
    <2>3. CASE \E r : r \in Successes(t, d)
      <3>1. PICK r : r \in Successes(t, d)
        BY <2>3
      <3>2. Successes(t, d) = {r}
        BY <2>1, <3>1 DEF Successes, On, OneRun
      <3> QED BY <3>2, FS_Singleton
    <2> QED BY <2>2, <2>3
  <1> QED BY <1>1, <1>2, InitRun, RunStep, SuccessStep, PTL DEF Spec

-----------------------------------------------------------------------------
(* The analyses still owed.                                                *)
GapsHold(t) ==
    /\ \A r \in Known(t) : /\ t.row[r].gaps \subseteq Known(t)
                           /\ t.row[r].status \in {"success", "degraded"} => Stamped(t, r)
    /\ GapsComplete(t)
    /\ GapsAreLive(t)

GapsInv == GapsHold(remote.tree) /\ \A m \in Machines : GapsHold(tree[m])

(* What keeps the gaps: rows that keep their dates and lists, and no run   *)
(* before the last one newly owed.                                         *)
LEMMA GapsKept ==
    ASSUME NEW t, NEW u, GapsHold(t), Known(u) = Known(t),
           \A s \in Known(t) : /\ u.row[s].date = t.row[s].date
                               /\ u.row[s].replay = t.row[s].replay
                               /\ u.row[s].gaps = t.row[s].gaps
                               /\ u.row[s].status \in {"success", "degraded"} => Stamped(u, s),
           \A q, s \in Known(t) : q < s /\ Unanswered(u, q) => Unanswered(t, q)
    PROVE  GapsHold(u)
  BY DEF GapsHold, GapsComplete, GapsAreLive

LEMMA GapsAtStart ==
    ASSUME RunInv, NEW n \in Machines, NEW d \in Dates, NEW replay \in BOOLEAN,
           GapsHold(tree[n]), StartMoves(n, lastRun + 1, NewRow(n, d, replay))
    PROVE  GapsHold(tree'[n])
  <1> DEFINE r == lastRun + 1
             t == tree[n]
             u == tree'[n]
             row == NewRow(n, d, replay)
  <1>1. /\ t \in Trees /\ Known(t) \subseteq 1..lastRun /\ lastRun \in Nat
        /\ Known(t) \subseteq RunIds
    <2>1. tree[n] \in Trees /\ Known(tree[n]) \subseteq 1..lastRun
      BY DEF RunInv, TypeOK, RunTypeOK
    <2> QED BY <2>1, TreeTypes, BoundsAssumption DEF RunInv, TypeOK, RunTypeOK
  <1>2. /\ u.row[r] = row /\ \A s \in Known(t) : u.row[s] = t.row[s]
        /\ Known(u) = Known(t) \cup {r} /\ r \notin Known(t)
        /\ u.input = t.input /\ u.result = t.result /\ u.stamp = t.stamp
        /\ \A s \in Known(t) : s < r
    BY <1>1 DEF StartMoves
  <1>3. /\ row.date = d /\ row.replay = replay /\ row.status = "running"
        /\ row.gaps = PriorAnalysisGaps(t, d, replay)
    BY DEF NewRow
  <1>4. ASSUME NEW q \in row.gaps
        PROVE  q \in Known(t) /\ ~t.row[q].replay
    <2>1. q \in t.input \ t.result /\ Kind(t, q) = "analysis_missing"
      BY <1>3, <1>4 DEF PriorAnalysisGaps, IncompleteRuns
    <2>2. q \notin t.stamp /\ t.row[q].status \in {"success", "degraded"}
      BY <2>1 DEF Kind
    <2>3. q \in Known(t)
      BY <1>1, <2>1, <2>2, TreeTypes, RowTypes DEF Known
    <2> QED BY <2>1, <2>2, <2>3 DEF GapsHold, Stamped
  <1>5. ASSUME NEW q \in Known(t), Unanswered(u, q)
        PROVE  Unanswered(t, q)
    BY <1>2, <1>5 DEF Unanswered, AnsweredDate, On
  <1>6. ASSUME NEW q \in Known(t), Unanswered(t, q), ~replay,
               t.row[q].date < d, t.row[q].date >= d - Lookback
        PROVE  q \in row.gaps
    <2>1. Kind(t, q) = "analysis_missing"
      BY <1>6 DEF Unanswered, Kind
    <2>2. q \in t.input \ t.result
      BY <1>6 DEF Unanswered, AnsweredDate, On
    <2> QED BY <1>3, <1>6, <2>1, <2>2 DEF PriorAnalysisGaps, IncompleteRuns
  <1> HIDE DEF row, t, u, r
  <1>7. GapsComplete(u)
    <2> SUFFICES ASSUME NEW q \in Known(u), NEW s \in Known(u), q < s, ~u.row[s].replay,
                        u.row[q].date < u.row[s].date,
                        u.row[q].date >= u.row[s].date - Lookback, Unanswered(u, q)
                 PROVE  q \in u.row[s].gaps
      BY DEF GapsComplete
    <2>1. q \in Known(t)
      BY <1>1, <1>2 DEF r
    <2>2. Unanswered(t, q)
      BY <1>5, <2>1
    <2>3. CASE s = r
      BY <1>2, <1>3, <1>6, <2>1, <2>2, <2>3
    <2>4. CASE s \in Known(t)
      BY <1>2, <2>1, <2>2, <2>4 DEF GapsHold, GapsComplete, t
    <2> QED BY <1>2, <2>3, <2>4
  <1>8. GapsAreLive(u)
    BY <1>2, <1>4 DEF GapsHold, GapsAreLive, t
  <1>9. ASSUME NEW s \in Known(u)
        PROVE  /\ u.row[s].gaps \subseteq Known(u)
               /\ u.row[s].status \in {"success", "degraded"} => Stamped(u, s)
    BY <1>2, <1>3, <1>4, <1>9 DEF GapsHold, Stamped, t
  <1> QED BY <1>7, <1>8, <1>9 DEF GapsHold, u

LEMMA GapsAtMove ==
    ASSUME RunInv, NEW n \in Machines, GapsHold(tree[n]), proc[n].at # "idle", RunMoves(n)
    PROVE  GapsHold(tree'[n])
  <1> DEFINE r == proc[n].run
             t == tree[n]
             u == tree'[n]
  <1>1. /\ r \in Known(t) /\ StepOf(r, t, u) /\ \A s \in Known(t) : s <= r
        /\ t \in Trees /\ Known(t) \subseteq RunIds
    <2>1. OwnRun(n) /\ tree[n] \in Trees
      BY DEF RunInv, TypeOK, RunTypeOK
    <2> QED BY <2>1, TreeTypes DEF OwnRun, RunMoves
  <1>2. CASE tree' = tree
    BY <1>2
  <1>3. CASE u.row[r].status \in {"success", "degraded"} => Stamped(u, r)
    <2>1. /\ Known(u) = Known(t)
          /\ \A s \in Known(t) :
                /\ u.row[s].date = t.row[s].date /\ u.row[s].replay = t.row[s].replay
                /\ u.row[s].gaps = t.row[s].gaps
                /\ s # r /\ u.row[s].status # "failed" => u.row[s] = t.row[s]
      BY <1>1, StepKeepsRuns
    <2>2. /\ t.input \subseteq u.input /\ u.input \subseteq t.input \cup {r}
          /\ t.stamp \subseteq u.stamp /\ u.result = t.result
      BY <1>1 DEF StepOf
    <2>3. ASSUME NEW s \in Known(t), u.row[s].status \in {"success", "degraded"}
          PROVE  Stamped(u, s)
      BY <1>3, <2>1, <2>2, <2>3 DEF GapsHold, Stamped
    <2>4. ASSUME NEW q \in Known(t), NEW s \in Known(t), q < s, Unanswered(u, q)
          PROVE  Unanswered(t, q)
      <3>1. q # r
        BY <1>1, <2>4 DEF RunIds
      <3>2. t.row[q] = u.row[q] /\ On(u, u.row[q].date) = On(t, t.row[q].date)
        BY <2>1, <2>4, <3>1 DEF Unanswered, On
      <3> QED BY <2>2, <2>4, <3>1, <3>2 DEF Unanswered, AnsweredDate
    <2> HIDE DEF t, u, r
    <2>5. GapsHold(u)
      BY <2>1, <2>3, <2>4, GapsKept DEF t
    <2> QED BY <2>5 DEF u
  <1> QED BY <1>2, <1>3 DEF RunMoves

LEMMA GapsStep == RunInv /\ GapsInv /\ [Next]_vars => GapsInv'
  <1> SUFFICES ASSUME RunInv, GapsInv, [Next]_vars
               PROVE  GapsInv'
    OBVIOUS
  <1>1. MirrorStep /\ \A n \in Machines : CopyStep(n)
    BY CopySteps
  <1>2. GapsHold(remote'.tree)
    BY <1>1 DEF MirrorStep, GapsInv
  <1>3. ASSUME NEW n \in Machines
        PROVE  GapsHold(tree'[n])
    <2>1. GapsHold(tree[n]) /\ GapsHold(remote.tree) /\ GapsHold(EmptyTree)
      BY EmptyTreeType DEF GapsInv, GapsHold, GapsComplete, GapsAreLive
    <2>2. CASE Starts(n)
      BY <2>1, <2>2, GapsAtStart DEF Starts
    <2>3. CASE proc[n].at # "idle" /\ RunMoves(n)
      BY <2>1, <2>3, GapsAtMove
    <2>4. CASE Answered(n)
      <3> DEFINE t == tree[n]
                 u == tree'[n]
      <3>1. /\ Known(u) = Known(t) /\ u.row = t.row /\ u.input = t.input
            /\ u.stamp = t.stamp /\ t.result \subseteq u.result
        BY <2>4 DEF Answered, Known
      <3>2. \A s \in Known(t) : t.row[s].status \in {"success", "degraded"} => Stamped(u, s)
        BY <2>1, <3>1 DEF GapsHold, Stamped
      <3>3. \A q \in Known(t) : Unanswered(u, q) => Unanswered(t, q)
        BY <3>1 DEF Unanswered, AnsweredDate, On
      <3> HIDE DEF t, u
      <3>4. GapsHold(u)
        BY <2>1, <3>1, <3>2, <3>3, GapsKept DEF t
      <3> QED BY <3>4 DEF u
    <2> QED BY <1>1, <2>1, <2>2, <2>3, <2>4 DEF CopyStep
  <1>4. /\ GapsHold(remote.tree)' <=> GapsHold(remote'.tree)
        /\ \A n \in Machines : GapsHold(tree[n])' <=> GapsHold(tree'[n])
    BY DEF GapsHold, GapsComplete, GapsAreLive, Known, Stamped, Unanswered, AnsweredDate, On
  <1> QED BY <1>2, <1>3, <1>4 DEF GapsInv

(* A live run lists exactly the earlier sessions whose analysis is owed:   *)
(* none is missing, and no replay is among them, wherever runs were killed *)
(* and whichever copies were pushed.                                       *)
THEOREM OwedDaysAreListed == Spec => []GapsAreExact
  <1>1. Init => GapsInv
    <2> SUFFICES ASSUME Init PROVE GapsInv
      OBVIOUS
    <2>1. remote.tree = EmptyTree /\ \A m \in Machines : tree[m] = EmptyTree
      BY DEF Init, RunInit
    <2> QED BY <2>1, EmptyTreeType DEF GapsInv, GapsHold, GapsComplete, GapsAreLive
  <1>2. GapsInv => GapsAreExact
    BY DEF GapsInv, GapsHold, GapsAreExact, GapsReported, NoReplayReported, Copies
  <1> QED BY <1>1, <1>2, InitRun, RunStep, GapsStep, PTL DEF Spec

-----------------------------------------------------------------------------
(* What is published.                                                      *)

(* Finitely many runs have a last one.                                     *)
LEMMA LastOfRuns ==
    ASSUME NEW S \in SUBSET RunIds, S # {}
    PROVE  \E r \in S : \A s \in S : s <= r
  <1>1. S \in SUBSET Nat /\ \A s \in S : s <= MaxRuns
    BY BoundsAssumption DEF RunIds
  <1> QED BY <1>1, GreatestNatural, BoundsAssumption

LEMMA LatestIsKnown ==
    ASSUME NEW t \in Trees, LatestRun(t) # NoRun
    PROVE  LatestRun(t) \in Known(t)
  BY TreeTypes, LastOfRuns DEF LatestRun

(* u holds what t holds: its analyses, its runs and whether they picked    *)
(* anything, and its finished rows as they are.                            *)
Extends(t, u) ==
    /\ t.result \subseteq u.result
    /\ \A r \in Known(t) : /\ r \in Known(u) /\ u.row[r].picked = t.row[r].picked
                           /\ t.row[r].status \in Finished => u.row[r] = t.row[r]

LEMMA ExtendsOrder ==
    /\ \A t : Extends(t, t)
    /\ \A t, u, v : Extends(t, u) /\ Extends(u, v) => Extends(t, v)
  BY DEF Extends

(* A working copy whose generation is still the mirror's extends it; a job *)
(* past its push is extended by the mirror; and a green one still passes.  *)
MirrorInv ==
    \A m \in Machines :
        /\ base[m] <= remote.gen
        /\ job[m] = "work" /\ base[m] = remote.gen => Extends(remote.tree, tree[m])
        /\ job[m] \in {"pushed", "green", "red"} => Extends(tree[m], remote.tree)
        /\ job[m] = "green" => Passes(m)

LEMMA PassesKept ==
    ASSUME NEW n \in Machines, tree'[n] = tree[n], outcome'[n] = outcome[n],
           since'[n] = since[n]
    PROVE  Passes(n)' <=> Passes(n)
  <1>1. Known(tree[n])' = Known(tree[n])
    BY DEF Known
  <1>2. LatestRun(tree[n])' = LatestRun(tree[n])
    BY <1>1 DEF LatestRun
  <1> QED BY <1>2 DEF Passes, AnalysisThere

LEMMA MirrorNext ==
    ASSUME \A n \in Machines :
              /\ base'[n] <= remote'.gen
              /\ job'[n] = "work" /\ base'[n] = remote'.gen => Extends(remote'.tree, tree'[n])
              /\ job'[n] \in {"pushed", "green", "red"} => Extends(tree'[n], remote'.tree)
              /\ job'[n] = "green" => Passes(n)'
    PROVE  MirrorInv'
  <1>1. \A n \in Machines :
           /\ Extends(remote.tree, tree[n])' <=> Extends(remote'.tree, tree'[n])
           /\ Extends(tree[n], remote.tree)' <=> Extends(tree'[n], remote'.tree)
    BY DEF Extends, Known
  <1> QED BY <1>1 DEF MirrorInv

(* Working on a copy keeps what is published.                              *)
LEMMA WorkKeepsMirror ==
    ASSUME RunInv, MirrorInv, NEW m \in Machines, job[m] = "work", UNCHANGED jobVars,
           \A n \in Machines \ {m} : tree'[n] = tree[n] /\ outcome'[n] = outcome[n],
           base[m] = remote.gen => Extends(tree[m], tree'[m]) \/ Extends(remote.tree, tree'[m])
    PROVE  MirrorInv'
  <1>1. base[m] = remote.gen => Extends(remote.tree, tree'[m])
    BY ExtendsOrder DEF MirrorInv
  <1>2. ASSUME NEW n \in Machines
        PROVE  /\ base'[n] <= remote'.gen
               /\ job'[n] = "work" /\ base'[n] = remote'.gen => Extends(remote'.tree, tree'[n])
               /\ job'[n] \in {"pushed", "green", "red"} => Extends(tree'[n], remote'.tree)
               /\ job'[n] = "green" => Passes(n)'
    <2>1. CASE n = m
      BY <1>1, <2>1 DEF MirrorInv, jobVars
    <2>2. CASE n # m
      BY <2>2, PassesKept DEF MirrorInv, jobVars
    <2> QED BY <2>1, <2>2
  <1> QED BY <1>2, MirrorNext

LEMMA RunKeepsMirror ==
    ASSUME RunInv, MirrorInv, NEW m \in Machines, Run(m)
    PROVE  MirrorInv'
  <1>1. /\ job[m] = "work" /\ UNCHANGED jobVars /\ CopilotDaily(m)
        /\ tree[m] \in Trees /\ Known(tree[m]) \subseteq 1..lastRun
        /\ Known(tree[m]) \subseteq RunIds /\ lastRun \in Nat
    <2>1. tree[m] \in Trees /\ Known(tree[m]) \subseteq 1..lastRun
      BY DEF RunInv, TypeOK, RunTypeOK
    <2> QED BY <2>1, TreeTypes, BoundsAssumption DEF Run, RunInv, TypeOK, RunTypeOK
  <1>2. \A n \in Machines \ {m} : outcome'[n] = outcome[n]
    <2>1. outcome \in [Machines -> Outcomes]
      BY DEF RunInv, TypeOK, RunTypeOK
    <2> QED BY <1>1, <2>1
        DEF CopilotDaily, PriceFetchFailed, NoTradingDay, SameDayRerun, Abort, RecordOutcome,
            StartRun, MarkStale, FatalStepFails, RecordScreening, RiskAndText, Export, Stamp,
            FinalizeOutput, Complete, WriteOutcome, Kill
  <1>3. CASE \/ PriceFetchFailed(m) \/ NoTradingDay(m)
             \/ \E d \in Dates, replay \in BOOLEAN : SameDayRerun(m, d, replay)
    <2>1. tree' = tree
      BY <1>3 DEF PriceFetchFailed, NoTradingDay, SameDayRerun, Abort
    <2> QED BY <1>1, <1>2, <2>1, ExtendsOrder, WorkKeepsMirror
  <1>4. ASSUME NEW d \in Dates, NEW replay \in BOOLEAN, NEW allow \in AllowRerun,
               StartRun(m, d, replay, allow)
        PROVE  MirrorInv'
    <2> DEFINE row == NewRow(m, d, replay)
    <2>1. StartMoves(m, lastRun + 1, row)
      BY <1>4, StartRunMoves
    <2> HIDE DEF row
    <2>2. Extends(tree[m], tree'[m]) /\ \A n \in Machines \ {m} : tree'[n] = tree[n]
      BY <1>1, <2>1 DEF StartMoves, Extends
    <2> QED BY <1>1, <1>2, <2>2, WorkKeepsMirror
  <1>5. CASE Progress(m)
    <2>1. proc[m].at # "idle"
      <3>1. proc[m].at = "idle" => proc[m] = Idle
        BY DEF RunInv
      <3> QED BY <1>5, <3>1 DEF Progress, MarkStale, FatalStepFails, RecordScreening,
              RiskAndText, Export, Stamp, FinalizeOutput, WriteOutcome, Kill
    <2>2. RunMoves(m) /\ OwnRun(m)
      BY <1>5, <2>1, ProgressMoves DEF RunInv
    <2> DEFINE r == proc[m].run
               t == tree[m]
               u == tree'[m]
    <2>3. /\ r \in Known(t) /\ r \notin Known(remote.tree) /\ StepOf(r, t, u)
          /\ \A n \in Machines \ {m} : tree'[n] = tree[n]
      BY <2>2 DEF RunMoves, OwnRun
    <2>4. /\ Known(u) = Known(t) /\ u.result = t.result
          /\ \A s \in Known(t) : s # r => /\ u.row[s].picked = t.row[s].picked
                                          /\ t.row[s].status \in Finished => u.row[s] = t.row[s]
      <3>1. /\ Known(u) = Known(t)
            /\ \A s \in Known(t) :
                  s # r => /\ u.row[s].picked = t.row[s].picked
                           /\ t.row[s].status \in Finished => u.row[s] = t.row[s]
        BY <1>1, <2>3, StepKeepsRuns
      <3>2. u.result = t.result
        BY <2>3 DEF StepOf
      <3> QED BY <3>1, <3>2
    <2>5. Extends(remote.tree, t) => Extends(remote.tree, u)
      <3> HIDE DEF t, u, r
      <3> QED BY <2>3, <2>4 DEF Extends
    <2> QED BY <1>1, <1>2, <2>3, <2>5, WorkKeepsMirror DEF MirrorInv
  <1> QED BY <1>1, <1>3, <1>4, <1>5 DEF CopilotDaily, Progress

LEMMA JobKeepsMirror ==
    ASSUME RunInv, MirrorInv, NEW m \in Machines,
           Pull(m) \/ StepFails(m) \/ PushFails(m) \/ EndJob(m) \/ Verify(m)
    PROVE  MirrorInv'
  <1>0. /\ tree \in [Machines -> Trees] /\ job \in [Machines -> Places] /\ remote.gen \in Nat
        /\ base \in [Machines -> 0..MaxGeneration] /\ outcome \in [Machines -> Outcomes]
        /\ since \in [Machines -> 0..MaxRuns]
    BY JobAssumption DEF RunInv, TypeOK, RunTypeOK
  <1>1. CASE Pull(m)
    <2>1. /\ job'[m] = "work" /\ tree'[m] = remote.tree /\ base'[m] = remote.gen
          /\ remote' = remote
          /\ \A n \in Machines \ {m} :
                /\ job'[n] = job[n] /\ base'[n] = base[n] /\ tree'[n] = tree[n]
                /\ outcome'[n] = outcome[n] /\ since'[n] = since[n]
      BY <1>0, <1>1 DEF Pull
    <2> QED BY <1>0, <2>1, ExtendsOrder, PassesKept, MirrorNext DEF MirrorInv
  <1>2. CASE StepFails(m) \/ PushFails(m) \/ EndJob(m)
    <2>1. Discard(m)
      BY <1>2 DEF StepFails, PushFails, EndJob
    <2>2. /\ job'[m] = "off" /\ base'[m] = 0 /\ remote' = remote
          /\ \A n \in Machines \ {m} :
                /\ job'[n] = job[n] /\ base'[n] = base[n] /\ tree'[n] = tree[n]
                /\ outcome'[n] = outcome[n] /\ since'[n] = since[n]
      BY <1>0, <2>1 DEF Discard, NoBase
    <2> QED BY <1>0, <2>2, PassesKept, MirrorNext DEF MirrorInv
  <1>3. CASE Verify(m)
    <2>1. /\ job[m] = "pushed" /\ tree' = tree /\ base' = base /\ remote' = remote
          /\ outcome' = outcome /\ since' = since
          /\ job'[m] \in {"green", "red"}
          /\ job'[m] = "green" => Passes(m)
          /\ \A n \in Machines \ {m} : job'[n] = job[n]
      BY <1>0, <1>3 DEF Verify, runVars
    <2>2. \A n \in Machines : Passes(n)' <=> Passes(n)
      BY <2>1, PassesKept
    <2> QED BY <2>1, <2>2, MirrorNext DEF MirrorInv
  <1> QED BY <1>1, <1>2, <1>3

LEMMA PushKeepsMirror ==
    ASSUME RunInv, MirrorInv, NEW m \in Machines, Push(m)
    PROVE  MirrorInv' /\ Extends(remote.tree, remote'.tree)
  <1>1. /\ base \in [Machines -> 0..MaxGeneration] /\ job \in [Machines -> Places]
        /\ remote.gen \in Nat
    BY JobAssumption DEF RunInv, TypeOK
  <1>2. /\ remote'.gen = remote.gen + 1 /\ remote'.tree = tree[m]
        /\ job[m] = "work" /\ job'[m] \in {"work", "pushed"} /\ base[m] = remote.gen
        /\ base'[m] = remote.gen + 1 /\ tree' = tree /\ outcome' = outcome /\ since' = since
        /\ \A n \in Machines \ {m} : job'[n] = job[n] /\ base'[n] = base[n]
    BY <1>1 DEF Push, GenerationMatches, runVars
  <1>3. Extends(remote.tree, tree[m])
    BY <1>2 DEF MirrorInv
  <1>4. \A n \in Machines : Passes(n)' <=> Passes(n)
    BY <1>2, PassesKept
  <1>5. ASSUME NEW n \in Machines
        PROVE  /\ base'[n] <= remote'.gen
               /\ job'[n] = "work" /\ base'[n] = remote'.gen => Extends(remote'.tree, tree'[n])
               /\ job'[n] \in {"pushed", "green", "red"} => Extends(tree'[n], remote'.tree)
               /\ job'[n] = "green" => Passes(n)'
    <2>1. CASE n = m
      BY <1>1, <1>2, <2>1, ExtendsOrder
    <2>2. CASE n # m
      <3>1. /\ base[n] <= remote.gen /\ base[n] \in Nat
            /\ job[n] \in {"pushed", "green", "red"} => Extends(tree[n], remote.tree)
            /\ job[n] = "green" => Passes(n)
        BY <1>1 DEF MirrorInv
      <3> QED BY <1>1, <1>2, <1>3, <1>4, <2>2, <3>1, ExtendsOrder
    <2> QED BY <2>1, <2>2
  <1> QED BY <1>2, <1>3, <1>5, MirrorNext

LEMMA MirrorKept ==
    RunInv /\ MirrorInv /\ [Next]_vars => MirrorInv' /\ Extends(remote.tree, remote'.tree)
  <1> SUFFICES ASSUME RunInv, MirrorInv, [Next]_vars
               PROVE  MirrorInv' /\ Extends(remote.tree, remote'.tree)
    OBVIOUS
  <1>1. CASE World \/ UNCHANGED vars
    <2>1. UNCHANGED <<tree, outcome, since, job, base, remote>>
      BY <1>1 DEF World, CloseSession, vars, runVars, jobVars
    <2> QED BY <2>1, ExtendsOrder, PassesKept, MirrorNext DEF MirrorInv
  <1>2. ASSUME NEW m \in Machines, Analyse(m)
        PROVE  MirrorInv' /\ Extends(remote.tree, remote'.tree)
    <2>1. PICK q \in RunIds :
             /\ tree' = [tree EXCEPT ![m].result = @ \cup {q}] /\ job[m] = "work"
             /\ UNCHANGED <<outcome, jobVars>>
      BY <1>2 DEF Analyse, Answer
    <2> DEFINE u == [tree[m] EXCEPT !.result = tree[m].result \cup {q}]
    <2>2. tree[m] \in Trees /\ tree \in [Machines -> Trees]
      BY DEF RunInv, TypeOK, RunTypeOK
    <2>3. u.row = tree[m].row /\ tree[m].result \subseteq u.result
      BY <2>2, TreeTypes
    <2>4. tree' = [tree EXCEPT ![m] = u]
      BY <2>1
    <2>5. Extends(tree[m], u)
      BY <2>3 DEF Extends, Known
    <2> HIDE DEF u
    <2>6. Extends(tree[m], tree'[m]) /\ \A n \in Machines \ {m} : tree'[n] = tree[n]
      BY <2>2, <2>4, <2>5
    <2>7. MirrorInv'
      BY <2>1, <2>6, WorkKeepsMirror
    <2> QED BY <2>1, <2>7, ExtendsOrder DEF jobVars
  <1>3. ASSUME NEW m \in Machines, Run(m)
        PROVE  MirrorInv' /\ Extends(remote.tree, remote'.tree)
    BY <1>3, RunKeepsMirror, ExtendsOrder DEF Run, jobVars
  <1>4. ASSUME NEW m \in Machines,
               Pull(m) \/ StepFails(m) \/ PushFails(m) \/ EndJob(m) \/ Verify(m)
        PROVE  MirrorInv' /\ Extends(remote.tree, remote'.tree)
    <2>1. remote' = remote
      BY <1>4 DEF Pull, StepFails, PushFails, EndJob, Verify, Discard
    <2> QED BY <1>4, <2>1, JobKeepsMirror, ExtendsOrder
  <1>5. ASSUME NEW m \in Machines, Push(m)
        PROVE  MirrorInv' /\ Extends(remote.tree, remote'.tree)
    BY <1>5, PushKeepsMirror
  <1> QED BY <1>1, <1>2, <1>3, <1>4, <1>5 DEF Next

LEMMA InitMirror == Init => MirrorInv
  <1> SUFFICES ASSUME Init PROVE MirrorInv
    OBVIOUS
  <1>1. remote.gen = 1 /\ \A m \in Machines : job[m] = "off" /\ base[m] = 0
    BY DEF Init, NoBase
  <1> QED BY <1>1 DEF MirrorInv

(* No push, of any working copy, loses a run, an analysis or a finished    *)
(* row that was on the mirror.                                             *)
THEOREM PublicationIsKept == Spec => PublishedStays
  <1>1. Extends(remote.tree, remote'.tree) =>
           /\ remote.tree.result \subseteq remote'.tree.result
           /\ \A r \in Known(remote.tree) :
                 /\ r \in Known(remote'.tree)
                 /\ remote.tree.row[r].status \in Finished =>
                       remote'.tree.row[r] = remote.tree.row[r]
    BY DEF Extends
  <1> QED BY <1>1, InitRun, RunStep, InitMirror, MirrorKept, PTL DEF Spec, PublishedStays

(* A green day has published its own analysis: the last run its job knows  *)
(* was started in the job, is on the mirror, and is answered there or had  *)
(* nothing to answer.                                                      *)
THEOREM GreenDayIsPublished == Spec => []GreenIsPublished
  <1>1. RunInv /\ MirrorInv => GreenIsPublished
    <2> SUFFICES ASSUME RunInv, MirrorInv, NEW m \in Machines,
                        job[m] = "green", outcome[m] \notin Aborts
                 PROVE  /\ LatestRun(tree[m]) > since[m]
                        /\ LatestRun(tree[m]) \in Known(remote.tree)
                        /\ \/ ~remote.tree.row[LatestRun(tree[m])].picked
                           \/ LatestRun(tree[m]) \in remote.tree.result
      BY DEF GreenIsPublished
    <2> DEFINE r == LatestRun(tree[m])
    <2>1. /\ Extends(tree[m], remote.tree) /\ Passes(m)
          /\ tree[m] \in Trees /\ since[m] \in Nat
      BY DEF MirrorInv, RunInv, TypeOK, RunTypeOK
    <2>2. r > since[m] /\ AnalysisThere(tree[m], r)
      BY <2>1 DEF Passes, LegitimateStops, Aborts
    <2>3. r \in Known(tree[m])
      BY <2>1, <2>2, LatestIsKnown DEF NoRun
    <2> QED BY <2>1, <2>2, <2>3 DEF Extends, AnalysisThere
  <1> QED BY <1>1, InitRun, RunStep, InitMirror, MirrorKept, PTL DEF Spec
=============================================================================
