------------------------------ MODULE DailyRun ------------------------------
(***************************************************************************)
(* pipeline/daily_runner.py and daily_composition.py: one `copilot-daily`  *)
(* on the working copy of a machine, from its preflight to the outcome     *)
(* file, and report/incomplete_runs.py, by which the next run finds the    *)
(* days whose qualitative analysis never landed.                           *)
(*                                                                         *)
(* A working copy holds the rows of `runs` and, under reports/, one        *)
(* directory per run: `input` are the runs with an analysis_input.json,    *)
(* `result` those with an analysis_result.json and `stamp` those with the  *)
(* stamp of a replay.  Sessions of the exchange are numbered, and runs are *)
(* numbered in the order of their `started_at`.  What a step computes is   *)
(* abstracted to whether it succeeds and whether the screening picked      *)
(* anything.  Commands run one at a time on a machine; a run may be killed *)
(* between any two of its transactions.  Dry runs have a database and a    *)
(* tree of their own and are left out.                                     *)
(***************************************************************************)
EXTENDS Integers, FiniteSets

CONSTANTS
    Machines,        \* the machines with a working copy
    Sessions,        \* bound: the sessions of the exchange, 1..Sessions
    MaxRuns,         \* bound: the runs started in a behaviour
    Lookback,        \* _ANALYSIS_GAP_LOOKBACK_DAYS, counted in sessions
    Runners,         \* those of CI: they keep an outcome file
    Replayers,       \* the machines whose operator also runs --as-of
    AllowRerun       \* the values --allow-same-day-rerun is given

ASSUME BoundsAssumption == /\ Sessions \in Nat \ {0}
                           /\ MaxRuns \in Nat
                           /\ Lookback \in Nat
                           /\ Runners \subseteq Machines
                           /\ Replayers \subseteq Machines
                           /\ AllowRerun \subseteq BOOLEAN

Dates == 1..Sessions
RunIds == 1..MaxRuns
NoRun == 0
NoRow == [date |-> 0, replay |-> FALSE, status |-> "none", picked |-> FALSE,
          gaps |-> {}]
Finished == {"success", "degraded", "failed"}
Statuses == Finished \cup {"running"}
Rows == [date : Dates, replay : BOOLEAN, status : Statuses, picked : BOOLEAN,
         gaps : SUBSET RunIds]
Trees == [row : [RunIds -> Rows \cup {NoRow}], input : SUBSET RunIds,
          result : SUBSET RunIds, stamp : SUBSET RunIds]
EmptyTree == [row |-> [r \in RunIds |-> NoRow],
              input |-> {}, result |-> {}, stamp |-> {}]

Aborts == {"price_fetch_failed", "no_trading_day", "same_day_rerun"}
NoFile == "missing"
Outcomes == Aborts \cup Finished \cup {NoFile}

(* A run's place in run_daily: what it has just committed. *)
Phases == {"idle", "started", "marked", "screened", "checked", "exported",
           "stamped", "completed"}
Idle == [at |-> "idle", run |-> NoRun, degraded |-> FALSE]
Procs == [at : Phases, run : RunIds \cup {NoRun}, degraded : BOOLEAN]

VARIABLES
    closed,     \* the last session that has closed
    lastRun,    \* the runs started so far, on any machine
    aged,       \* the runs 1..aged started before the last session closed
    tree,       \* the working copy of each machine
    proc,       \* the copilot-daily running on each machine
    outcome     \* the outcome file, which only a job of CI asks for

runVars == <<closed, lastRun, aged, tree, proc, outcome>>

(***************************************************************************)
(* Reading a working copy                                                  *)
(***************************************************************************)

Known(t) == {r \in RunIds : t.row[r] # NoRow}
On(t, d) == {r \in Known(t) : t.row[r].date = d}

(* A bug: a run whose analysis is missing does not count. *)
AnalysedRuns(t, d) == {r \in On(t, d) \cap t.result : t.row[r].status = "success"}

(* get_successful_run: neither the mode nor an analysis is asked for. *)
SuccessfulRuns(t, d) == {r \in On(t, d) : t.row[r].status = "success"}

AnsweredDate(t, d) == On(t, d) \cap t.result # {}

(* find_incomplete_runs and _classify: every row and directory travel      *)
(* together here, so the kind RUN_ROW_MISSING does not arise.              *)
Kind(t, r) ==
    CASE r \in t.stamp -> "historical_replay"
      [] r \notin t.stamp /\ AnsweredDate(t, t.row[r].date) -> "same_day_superseded"
      [] r \notin t.stamp /\ ~AnsweredDate(t, t.row[r].date) ->
            IF t.row[r].status \in {"success", "degraded"}
            THEN "analysis_missing" ELSE "pipeline_unfinished"

IncompleteRuns(t, since) ==
    {r \in (t.input \ t.result) : t.row[r].date >= since}

(* A bug: the oldest session of the lookback is left out. *)
PriorAnalysisGapsLate(t, d, replay) ==
    IF replay THEN {}
    ELSE {r \in IncompleteRuns(t, d - Lookback + 1) :
            Kind(t, r) = "analysis_missing" /\ t.row[r].date < d}

(* _prior_analysis_gaps of a run on session d. *)
PriorAnalysisGaps(t, d, replay) ==
    IF replay THEN {}
    ELSE {r \in IncompleteRuns(t, d - Lookback) :
            Kind(t, r) = "analysis_missing" /\ t.row[r].date < d}

(***************************************************************************)
(* The world around a run                                                  *)
(***************************************************************************)

(* The exchange closes the next session, a day after the last one. *)
CloseSession ==
    /\ closed < Sessions
    /\ closed' = closed + 1
    /\ aged' = lastRun
    /\ UNCHANGED <<lastRun, tree, proc, outcome>>

(* A session of the analysis skill writes the result of an exported run; a *)
(* replay is nobody's to answer.                                           *)
Answer(m, r) ==
    /\ proc[m] = Idle
    /\ r \in tree[m].input \ (tree[m].result \cup tree[m].stamp)
    /\ tree[m].row[r].status \in {"success", "degraded"}
    /\ tree' = [tree EXCEPT ![m].result = @ \cup {r}]
    /\ UNCHANGED <<closed, lastRun, aged, proc, outcome>>

(***************************************************************************)
(* The steps of run_daily                                                  *)
(***************************************************************************)

(* _resolve_closed_run_date: the last closed session among the bars; the   *)
(* provider may be a session late, and may offer one still in progress.    *)
RunDates == {d \in {closed - 1, closed} : d >= 1}

RecordOutcome(m, what) ==
    outcome' = [outcome EXCEPT ![m] = IF m \in Runners THEN what ELSE NoFile]

(* A preflight abort writes the outcome file and no row. *)
Abort(m, reason) ==
    /\ proc[m] = Idle
    /\ RecordOutcome(m, reason)
    /\ UNCHANGED <<closed, lastRun, aged, tree, proc>>

PriceFetchFailed(m) == Abort(m, "price_fetch_failed")

(* An empty answer without failures, or no session has closed yet. *)
NoTradingDay(m) == Abort(m, "no_trading_day")

RunDate(m, d, replay) ==
    IF replay THEN m \in Replayers /\ d <= closed ELSE d \in RunDates

SameDayRerun(m, d, replay) ==
    /\ RunDate(m, d, replay)
    /\ SuccessfulRuns(tree[m], d) # {}
    /\ Abort(m, "same_day_rerun")

StartRun(m, d, replay, allow) ==
    /\ proc[m] = Idle
    /\ lastRun < MaxRuns
    /\ RunDate(m, d, replay)
    /\ allow \/ SuccessfulRuns(tree[m], d) = {}
    /\ lastRun' = lastRun + 1
    /\ tree' = [tree EXCEPT ![m].row[lastRun + 1] =
                    [date |-> d, replay |-> replay, status |-> "running",
                     picked |-> FALSE,
                     gaps |-> PriorAnalysisGaps(tree[m], d, replay)]]
    /\ proc' = [proc EXCEPT ![m] = [at |-> "started", run |-> lastRun + 1,
                                    degraded |-> FALSE]]
    /\ UNCHANGED <<closed, aged, outcome>>

(* mark_stale_running_runs: the rows started before the cutoff, never the  *)
(* run that asks.  A run of an earlier day is older than the time budget;  *)
(* one of today may be.                                                    *)
Abandoned(t, self, cutoff) ==
    {r \in 1..cutoff : t.row[r].status = "running" /\ r # self}

MarkStale(m) ==
    /\ proc[m].at = "started"
    /\ \E cutoff \in aged..lastRun :
          LET stale == Abandoned(tree[m], proc[m].run, cutoff) IN
          tree' = [tree EXCEPT ![m].row =
                      [r \in RunIds |-> IF r \in stale
                                        THEN [@[r] EXCEPT !.status = "failed"]
                                        ELSE @[r]]]
    /\ proc' = [proc EXCEPT ![m].at = "marked"]
    /\ UNCHANGED <<closed, lastRun, aged, outcome>>

(* complete_run, and the outcome file is still to be written. *)
Complete(m, status) ==
    /\ tree' = [tree EXCEPT ![m].row[proc[m].run].status = status]
    /\ proc' = [proc EXCEPT ![m].at = "completed"]
    /\ UNCHANGED <<closed, lastRun, aged, outcome>>

(* 1_prices, 2_fundamentals or 3_screening fails before any candidate is   *)
(* recorded; 4_risk fails after.                                           *)
FatalStepFails(m) ==
    /\ proc[m].at \in {"marked", "screened"}
    /\ Complete(m, "failed")

RecordScreening(m) ==
    /\ proc[m].at = "marked"
    /\ \E some \in BOOLEAN :
          tree' = [tree EXCEPT ![m].row[proc[m].run].picked = some]
    /\ proc' = [proc EXCEPT ![m].at = "screened"]
    /\ UNCHANGED <<closed, lastRun, aged, outcome>>

(* 4_risk, the text step, retro_collect and retro_evaluate: any of the     *)
(* soft ones degrades the run, and so do the universe's warning before and *)
(* the soft steps after the export, which this choice stands for.          *)
RiskAndText(m) ==
    /\ proc[m].at = "screened"
    /\ \E soft \in BOOLEAN :
          proc' = [proc EXCEPT ![m].at = "checked", ![m].degraded = @ \/ soft]
    /\ UNCHANGED <<closed, lastRun, aged, tree, outcome>>

(* 6_analysis_export is written only for candidates; it is skipped over    *)
(* budget, without text, or when it fails.                                 *)
Export(m) ==
    LET run == proc[m].run IN
    /\ proc[m].at = "checked"
    /\ \/ /\ tree[m].row[run].picked
          /\ tree' = [tree EXCEPT ![m].input = @ \cup {run}]
          /\ proc' = [proc EXCEPT ![m].at = "exported"]
       \/ /\ UNCHANGED tree
          /\ \E failed \in BOOLEAN :
                proc' = [proc EXCEPT ![m].at = "exported",
                                     ![m].degraded = @ \/ failed]
    /\ UNCHANGED <<closed, lastRun, aged, outcome>>

(* _mark_historical_replay, then postmortem and track_update. *)
Stamp(m) ==
    LET run == proc[m].run IN
    /\ proc[m].at = "exported"
    /\ tree' = [tree EXCEPT ![m].stamp =
                    IF tree[m].row[run].replay /\ run \in tree[m].input
                    THEN @ \cup {run} ELSE @]
    /\ proc' = [proc EXCEPT ![m].at = "stamped"]
    /\ UNCHANGED <<closed, lastRun, aged, outcome>>

(* 8_output and _finalize_output: without a report the run has failed, and *)
(* a report of which a part is missing degrades it.                        *)
FinalizeOutput(m) ==
    /\ proc[m].at = "stamped"
    /\ \E status \in Finished :
          /\ status = "success" => ~proc[m].degraded
          /\ Complete(m, status)

WriteOutcome(m) ==
    /\ proc[m].at = "completed"
    /\ RecordOutcome(m, tree[m].row[proc[m].run].status)
    /\ proc' = [proc EXCEPT ![m] = Idle]
    /\ UNCHANGED <<closed, lastRun, aged, tree>>

(* The process dies: a timebox, a closed laptop, an unexpected exception. *)
Kill(m) ==
    /\ proc[m] # Idle
    /\ proc' = [proc EXCEPT ![m] = Idle]
    /\ UNCHANGED <<closed, lastRun, aged, tree, outcome>>

CopilotDaily(m) ==
    \/ PriceFetchFailed(m)
    \/ NoTradingDay(m)
    \/ \E d \in Dates, replay \in BOOLEAN :
          \/ SameDayRerun(m, d, replay)
          \/ \E allow \in AllowRerun : StartRun(m, d, replay, allow)
    \/ MarkStale(m)
    \/ FatalStepFails(m)
    \/ RecordScreening(m)
    \/ RiskAndText(m)
    \/ Export(m)
    \/ Stamp(m)
    \/ FinalizeOutput(m)
    \/ WriteOutcome(m)
    \/ Kill(m)

RunInit ==
    /\ closed = 1
    /\ lastRun = 0
    /\ aged = 0
    /\ tree = [m \in Machines |-> EmptyTree]
    /\ proc = [m \in Machines |-> Idle]
    /\ outcome = [m \in Machines |-> NoFile]

(***************************************************************************)
(* What a working copy must satisfy                                        *)
(***************************************************************************)

RunTypeOK ==
    /\ closed \in Dates
    /\ lastRun \in 0..MaxRuns
    /\ aged \in 0..lastRun
    /\ tree \in [Machines -> Trees]
    /\ proc \in [Machines -> Procs]
    /\ outcome \in [Machines -> Outcomes]

Successes(t, d) == {r \in On(t, d) : t.row[r].status = "success"}
OneSuccess(t) == \A d \in Dates : Cardinality(Successes(t, d)) <= 1

(* r finished, was exported for the skill, and its session has no answer. *)
Unanswered(t, r) ==
    /\ r \in t.input \ t.stamp
    /\ t.row[r].status \in {"success", "degraded"}
    /\ ~AnsweredDate(t, t.row[r].date)

GapsComplete(t) ==
    \A r, s \in Known(t) :
        /\ r < s
        /\ ~t.row[s].replay
        /\ t.row[r].date < t.row[s].date
        /\ t.row[r].date >= t.row[s].date - Lookback
        /\ Unanswered(t, r)
        => r \in t.row[s].gaps

GapsAreLive(t) == \A s \in Known(t) : \A r \in t.row[s].gaps : ~t.row[r].replay
=============================================================================
