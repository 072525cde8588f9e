------------------------------ MODULE DailyJob ------------------------------
(***************************************************************************)
(* .github/workflows/swing-daily.yml and scripts/check_daily_complete.py:  *)
(* a job pulls the mirror onto a fresh runner, lets a session of the       *)
(* analysis skill call `copilot-daily` and answer its export, pushes, and  *)
(* then verifies that the day was analysed.  Operators pull, work and push *)
(* on the same mirror, whose generation check is the only guard between    *)
(* them (module DataSync refines this step by step; here a pull and a push *)
(* are one step each, and what a push carries is the whole working copy).  *)
(***************************************************************************)
EXTENDS DailyRun

CONSTANT
    MaxGeneration    \* bound: the generations pushed

ASSUME JobAssumption == MaxGeneration \in Nat \ {0}

NoBase == 0
Places == {"off", "work", "pushed", "green", "red"}

VARIABLES
    remote,     \* the mirror: its generation and the tree it holds
    job,        \* where each machine is in its job
    base,       \* the generation each machine pulled
    since,      \* the runs started before each job, by --started-after
    lost        \* the sessions on which a job ended without a push

jobVars == <<remote, job, base, since, lost>>
vars == <<runVars, jobVars>>

(* The workflow's concurrency group runs one job at a time. *)
Pull(m) ==
    /\ job[m] = "off"
    /\ m \in Runners => \A n \in Runners : job[n] = "off"
    /\ job' = [job EXCEPT ![m] = "work"]
    /\ base' = [base EXCEPT ![m] = remote.gen]
    /\ since' = [since EXCEPT ![m] = lastRun]
    /\ tree' = [tree EXCEPT ![m] = remote.tree]
    /\ outcome' = [outcome EXCEPT ![m] = NoFile]
    /\ UNCHANGED <<closed, lastRun, aged, proc, remote, lost>>

Run(m) ==
    /\ job[m] = "work"
    /\ CopilotDaily(m)
    /\ UNCHANGED jobVars

(* On a runner the skill answers the run of its own job; an operator also  *)
(* goes back to an earlier day.                                            *)
Analyse(m) ==
    /\ job[m] = "work"
    /\ \E r \in RunIds : (m \in Runners => r > since[m]) /\ Answer(m, r)
    /\ UNCHANGED jobVars

(* The runner is discarded with what it did not push; an operator's next   *)
(* pull mirrors the remote over the working copy.                          *)
Discard(m) ==
    /\ job' = [job EXCEPT ![m] = "off"]
    /\ base' = [base EXCEPT ![m] = NoBase]
    /\ since' = [since EXCEPT ![m] = 0]
    /\ tree' = [tree EXCEPT ![m] = EmptyTree]
    /\ proc' = [proc EXCEPT ![m] = Idle]
    /\ outcome' = [outcome EXCEPT ![m] = NoFile]
    /\ UNCHANGED <<closed, lastRun, aged, remote>>

(* A step before the push fails, or the job runs into its timeout: the job *)
(* is red and every later step but the notification is skipped.  An        *)
(* operator may stop at any time.                                          *)
StepFails(m) ==
    /\ job[m] = "work"
    /\ lost' = IF m \in Runners THEN lost \cup {closed} ELSE lost
    /\ Discard(m)

(* A bug: the pulled generation is not compared. *)
GenerationUnchecked(m) == base[m] \in Nat

(* _next_generation. *)
GenerationMatches(m) == base[m] = remote.gen

PushFails(m) ==
    /\ proc[m] = Idle
    /\ ~GenerationMatches(m)
    /\ StepFails(m)

(* What a push carries is the working copy; an operator may go on working. *)
Push(m) ==
    /\ job[m] = "work"
    /\ proc[m] = Idle
    /\ GenerationMatches(m)
    /\ remote.gen < MaxGeneration
    /\ remote' = [gen |-> remote.gen + 1, tree |-> tree[m]]
    /\ job' = [job EXCEPT ![m] = IF m \in Runners THEN "pushed" ELSE @]
    /\ base' = [base EXCEPT ![m] = remote.gen + 1]
    /\ UNCHANGED <<runVars, since, lost>>

(***************************************************************************)
(* scripts/check_daily_complete.py                                         *)
(***************************************************************************)

LegitimateStops == {"same_day_rerun", "no_trading_day"}

LatestRun(t) ==
    IF Known(t) = {} THEN NoRun
    ELSE CHOOSE r \in Known(t) : \A s \in Known(t) : s <= r

(* A run that recorded no candidate owes no analysis. *)
AnalysisThere(t, r) == ~t.row[r].picked \/ r \in t.result

(* A bug: any run of the archive vouches for the day. *)
PassesAnyRun(m) ==
    \/ outcome[m] \in LegitimateStops
    \/ /\ outcome[m] \notin Aborts \cup {NoFile}
       /\ \E r \in Known(tree[m]) : AnalysisThere(tree[m], r)

(* check(): an abort on the whitelist passes, any other one fails, and     *)
(* otherwise the run started last, in this job, must have its analysis.    *)
Passes(m) ==
    LET latest == LatestRun(tree[m]) IN
    \/ outcome[m] \in LegitimateStops
    \/ /\ outcome[m] \notin Aborts \cup {NoFile}
       /\ latest > since[m]
       /\ AnalysisThere(tree[m], latest)
Verify(m) ==
    /\ job[m] = "pushed"
    /\ job' = [job EXCEPT ![m] = IF Passes(m) THEN "green" ELSE "red"]
    /\ UNCHANGED <<runVars, remote, base, since, lost>>

EndJob(m) ==
    /\ job[m] \in {"green", "red"}
    /\ UNCHANGED lost
    /\ Discard(m)

Init ==
    /\ RunInit
    /\ remote = [gen |-> 1, tree |-> EmptyTree]
    /\ job = [m \in Machines |-> "off"]
    /\ base = [m \in Machines |-> NoBase]
    /\ since = [m \in Machines |-> 0]
    /\ lost = {}

World == CloseSession /\ UNCHANGED jobVars

Next ==
    \/ World
    \/ \E m \in Machines :
          \/ Pull(m)
          \/ Run(m)
          \/ Analyse(m)
          \/ StepFails(m)
          \/ PushFails(m)
          \/ Push(m)
          \/ Verify(m)
          \/ EndJob(m)

Spec == Init /\ [][Next]_vars

(***************************************************************************)
(* Properties                                                              *)
(***************************************************************************)

(* Every variable has its type. *)
TypeOK ==
    /\ RunTypeOK
    /\ remote \in [gen : 1..MaxGeneration, tree : Trees]
    /\ job \in [Machines -> Places]
    /\ base \in [Machines -> 0..MaxGeneration]
    /\ since \in [Machines -> 0..MaxRuns]
    /\ lost \subseteq Dates

Copies == {remote.tree} \cup {tree[m] : m \in Machines}

(* Without --allow-same-day-rerun no two runs succeed on one session, for  *)
(* every order of jobs, replays, kills and operators' sessions: the guard  *)
(* of run_daily only reads a working copy, and the mirror's generation     *)
(* keeps two working copies from being merged.                             *)
OneSuccessPerSession == \A t \in Copies : OneSuccess(t)

(* Whatever was killed, pushed or answered in between, a live run lists    *)
(* every finished, exported and unanswered live run of an earlier session  *)
(* within the lookback (_prior_analysis_gaps, Issue #254).                 *)
GapsReported == \A t \in Copies : GapsComplete(t)

(* A replay is never reported as a gap, wherever its run was killed: the   *)
(* stamp is on disk before the row leaves `running`.                       *)
NoReplayReported == \A t \in Copies : GapsAreLive(t)

(* A live run reports exactly the days that are owed.                       *)
GapsAreExact ==
    /\ GapsReported
    /\ NoReplayReported

(* Once the mirror holds a run it keeps it, a finished row never changes,  *)
(* and no analysis disappears, although every push replaces the database   *)
(* file as a whole.                                                        *)
PublishedStays ==
    [][/\ remote.tree.result \subseteq remote'.tree.result
       /\ \A r \in Known(remote.tree) :
             /\ r \in Known(remote'.tree)
             /\ remote.tree.row[r].status \in Finished =>
                    remote'.tree.row[r] = remote.tree.row[r]]_vars

(* A green job whose last run finished has published, in this job, either  *)
(* an analysis of that run or a screening that picked nothing: an older    *)
(* day's result in the pulled archive never vouches for it.                *)
GreenIsPublished ==
    \A m \in Machines :
        LET r == LatestRun(tree[m]) IN
        /\ job[m] = "green"
        /\ outcome[m] \notin Aborts
        => /\ r > since[m]
           /\ r \in Known(remote.tree)
           /\ ~remote.tree.row[r].picked \/ r \in remote.tree.result

(* The check's docstring: the day of a pipeline that failed must not pass  *)
(* for complete.                                                           *)
FailedDayIsRed ==
    \A m \in Machines :
        /\ job[m] = "green"
        /\ outcome[m] \notin Aborts
        => outcome[m] # "failed"

(* _LEGITIMATE_STOP_REASONS: a same_day_rerun abort means that the session *)
(* has no analysis left to produce.                                        *)
StopIsLegitimate ==
    \A m \in Machines :
        /\ job[m] = "green"
        /\ outcome[m] = "same_day_rerun"
        => \E d \in Dates : \E r \in SuccessfulRuns(tree[m], d) :
              AnalysisThere(tree[m], r) \/ AnsweredDate(tree[m], d)

(* And it means that a live run stands for that session: a replay has none *)
(* of its analysis to offer.                                               *)
StopHasLiveRun ==
    \A m \in Machines :
        /\ job[m] = "green"
        /\ outcome[m] = "same_day_rerun"
        => \E r \in Known(tree[m]) :
              tree[m].row[r].status = "success" /\ ~tree[m].row[r].replay

(* docs/03_basic_design.md: a day whose job failed is not pushed, and the  *)
(* preflight of the next run detects that it is missing.                   *)
LostDayIsReported ==
    \A s \in Known(remote.tree) : \A d \in lost :
        LET row == remote.tree.row[s] IN
        /\ ~row.replay
        /\ row.date - Lookback <= d
        /\ d < row.date
        /\ On(remote.tree, d) = {}
        => \E r \in row.gaps : remote.tree.row[r].date = d
=============================================================================
