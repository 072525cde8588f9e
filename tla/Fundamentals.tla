---------------------------- MODULE Fundamentals ----------------------------
(***************************************************************************)
(* The incremental fundamentals refresh.  Every run decides per symbol,    *)
(* from the fetch log and two newest filing dates, whether EDGAR is polled *)
(* (staleness in evaluation dates, throttling in wall-clock days), upserts *)
(* what it got and then stamps the log; text collection afterwards learns  *)
(* of new filings.  A run may evaluate a past date, be cut by its time     *)
(* budget, get an empty or no answer, or die between two transactions.     *)
(* `copilot-backfill fundamentals` upserts beside it and stamps nothing.   *)
(***************************************************************************)
EXTENDS Integers, Sequences, FiniteSetsExt, Functions

CONSTANTS
    Universe,       \* the symbols of a run, in the order select_symbols gives
    Held,           \* the open holdings
    RefreshInterval, EmptyBackoff, Lookback,   \* days, gaps in days, days
    LandingDelays,  \* days from a filing to its facts; 0 or more
    Lags,           \* how far as_of may lie behind the wall clock
    LastDay,        \* bound on the clock
    MaxFilings,     \* bound on the filings of a symbol
    MaxFaults       \* bound on failed, empty or interrupted fetches

Symbols == {Universe[i] : i \in DOMAIN Universe}

(* The gaps grow to the interval they converge to, and sum to it.          *)
ASSUME FundamentalsAssumption ==
    /\ RefreshInterval \in Nat \ {0} /\ Lookback \in Nat /\ LastDay \in Nat
    /\ EmptyBackoff \in Seq(1..RefreshInterval)
    /\ \A i, j \in DOMAIN EmptyBackoff : i < j => EmptyBackoff[i] < EmptyBackoff[j]
    /\ EmptyBackoff # <<>>
    /\ LandingDelays \subseteq Nat /\ Lags \subseteq Nat
    /\ MaxFilings \in Nat /\ MaxFaults \in Nat /\ Held \subseteq Symbols
    /\ Universe \in Seq(Symbols)

ASSUME GapsConverge ==
    FoldFunction(LAMBDA gap, sum : gap + sum, 0, EmptyBackoff) = RefreshInterval

VARIABLES
    today,      \* the wall clock's day
    filings,    \* per symbol, what was filed: day, form and when facts land
    collected,  \* filings whose text was collected (text_items)
    ingested,   \* filings with a row in fundamentals
    log,        \* fundamentals_fetch_log
    step,       \* the run in progress
    polls,      \* stamped polls per symbol (history)
    faults      \* per symbol, answers EDGAR owed and did not give (history)

vars == <<today, filings, collected, ingested, log, step, polls, faults>>

None == 0       \* no date; NULL in a column
Never == 0      \* an 8-K: no facts will land
NoRow == [last |-> None, through |-> None, empties |-> 0]

Idle == [pc |-> "idle", asOf |-> None, today |-> None, queue |-> {}, records |-> {},
         fetched |-> {}, empty |-> {}, failed |-> {}, cut |-> FALSE]

NewestDay(s, known, asOf) == Max({f.day : f \in {g \in known[s] : g.day <= asOf}} \cup {None})

(* What fetch_fundamentals returns: the periodic filings whose facts are   *)
(* out, filed by as_of and inside the lookback window.                     *)
Facts(s, asOf, lookback) ==
    {f \in filings[s] : /\ f.lands # Never /\ f.lands <= today
                        /\ f.day <= asOf /\ f.day >= asOf - lookback}

-----------------------------------------------------------------------------
(* _FundamentalsFreshness: is the symbol due, and is a poll allowed.       *)

RefreshIntervalDays(empties) ==
    IF empties \in DOMAIN EmptyBackoff THEN EmptyBackoff[empties] ELSE RefreshInterval

LatestFilingOn(s, asOf) == NewestDay(s, collected, asOf)
LatestIngestedOn(s, asOf) == NewestDay(s, ingested, asOf)

(* A bug: the trigger is an edge, disarmed by the first poll after it.     *)
HasPendingFilingOnce(s, asOf) ==
    LET filing == LatestFilingOn(s, asOf) IN
    /\ filing # None
    /\ asOf - filing < RefreshInterval
    /\ LatestIngestedOn(s, asOf) < filing
    /\ log[s].last <= filing

HasPendingFiling(s, asOf) ==
    LET filing == LatestFilingOn(s, asOf) IN
    /\ filing # None
    /\ asOf - filing < RefreshInterval
    /\ LatestIngestedOn(s, asOf) < filing

IsDue(s, asOf) ==
    \/ log[s].through = None
    \/ asOf - log[s].through >= RefreshInterval
    \/ HasPendingFiling(s, asOf)

(* A bug: an empty answer does not slow the next poll down.                *)
PollAlwaysAllowed(s, day) == TRUE

PollAllowed(s, day) ==
    \/ log[s].empties = 0
    \/ day - log[s].last >= RefreshIntervalDays(log[s].empties)

NeedsFetch(s, asOf, day) ==
    \/ log[s] = NoRow
    \/ /\ log[s].last # day
       /\ IsDue(s, asOf)
       /\ PollAllowed(s, day)

FetchHorizon(day, asOf) == Min({day, asOf})

(* A bug: an empty answer restarts the staleness clock.                    *)
StampRestartingClock(s, asOf) ==
    [last |-> today,
     through |-> FetchHorizon(today, asOf),
     empties |-> IF s \in step.empty THEN log[s].empties + 1 ELSE 0]

(* The row written for a polled symbol; COALESCE keeps the old horizon     *)
(* when the answer was empty.                                              *)
Stamp(s, asOf) ==
    [last |-> today,
     through |-> IF s \in step.empty THEN log[s].through ELSE FetchHorizon(today, asOf),
     empties |-> IF s \in step.empty THEN log[s].empties + 1 ELSE 0]

(* The run works through the universe, the holdings first; a queue is the  *)
(* positions that are left.                                                *)
FetchOrder(queue) ==
    LET held == {i \in queue : Universe[i] \in Held}
    IN  Min(IF held # {} THEN held ELSE queue)

-----------------------------------------------------------------------------
Init ==
    /\ today = 1
    /\ filings \in [Symbols -> {{}, {[day |-> 1, lands |-> 1]}}]
    /\ collected = [s \in Symbols |-> {}]
    /\ ingested = [s \in Symbols |-> {}]
    /\ log = [s \in Symbols |-> NoRow]
    /\ step = Idle
    /\ polls = [s \in Symbols |-> 0]
    /\ faults = [s \in Symbols |-> 0]

(* The outside world: a day passes, at most one during a run; a company    *)
(* files.                                                                  *)
NextDay ==
    /\ today < LastDay
    /\ step.pc # "idle" => step.today = today
    /\ today' = today + 1
    /\ UNCHANGED <<filings, collected, ingested, log, step, polls, faults>>

File(s) ==
    /\ step.pc = "idle"
    /\ Cardinality(filings[s]) < MaxFilings
    /\ \A f \in filings[s] : f.day < today
    /\ \E lands \in {today + d : d \in LandingDelays} \cup {Never} :
           filings' = [filings EXCEPT ![s] = @ \cup {[day |-> today, lands |-> lands]}]
    /\ UNCHANGED <<today, collected, ingested, log, step, polls, faults>>

(* run_step_fundamentals, one network fetch or transaction at a time.      *)
Begin ==
    /\ step.pc = "idle"
    /\ \E lag \in Lags :
          /\ lag < today
          /\ step' = [Idle EXCEPT !.pc = "fetch", !.asOf = today - lag,
                                  !.today = today, !.queue = DOMAIN Universe]
    /\ UNCHANGED <<today, filings, collected, ingested, log, polls, faults>>

Spent == FoldSet(LAMBDA s, n : faults[s] + n, 0, Symbols)
Fault(s) == faults' = [faults EXCEPT ![s] = @ + 1] /\ Spent < MaxFaults

Fetching(s) ==
    step.pc = "fetch" /\ step.queue # {} /\ s = Universe[FetchOrder(step.queue)]
Rest == step.queue \ {FetchOrder(step.queue)}

SkipFresh(s) ==
    /\ Fetching(s)
    /\ ~NeedsFetch(s, step.asOf, step.today)
    /\ step' = [step EXCEPT !.queue = Rest]
    /\ UNCHANGED <<today, filings, collected, ingested, log, polls, faults>>

FetchAnswers(s) ==
    /\ Fetching(s)
    /\ NeedsFetch(s, step.asOf, step.today)
    /\ \E answer \in {Facts(s, step.asOf, Lookback), {}} :
          /\ IF answer = {}
             THEN step' = [step EXCEPT !.queue = Rest, !.empty = @ \cup {s}]
             ELSE step' = [step EXCEPT !.queue = Rest, !.fetched = @ \cup {s},
                                       !.records = @ \cup {<<s, f>> : f \in answer}]
          /\ IF answer = Facts(s, step.asOf, Lookback)
             THEN UNCHANGED faults ELSE Fault(s)
    /\ UNCHANGED <<today, filings, collected, ingested, log, polls>>

FetchFails(s) ==
    /\ Fetching(s)
    /\ NeedsFetch(s, step.asOf, step.today)
    /\ Fault(s)
    /\ step' = [step EXCEPT !.queue = Rest, !.failed = @ \cup {s}]
    /\ UNCHANGED <<today, filings, collected, ingested, log, polls>>

(* The deadline passes with symbols still to be fetched.                   *)
BudgetExceeded ==
    /\ step.pc = "fetch" /\ step.queue # {}
    /\ step' = [step EXCEPT !.queue = {}, !.cut = TRUE]
    /\ UNCHANGED <<today, filings, collected, ingested, log, polls, faults>>

Upsert(records) ==
    ingested' = [s \in Symbols |-> ingested[s] \cup {r[2] : r \in {q \in records : q[1] = s}}]

UpsertFundamentals ==
    /\ step.pc = "fetch" /\ step.queue = {}
    /\ Upsert(step.records)
    /\ step' = [step EXCEPT !.pc = "stamp"]
    /\ UNCHANGED <<today, filings, collected, log, polls, faults>>

RecordFetches ==
    /\ step.pc = "stamp"
    /\ LET polled == step.fetched \cup step.empty IN
       /\ log' = [s \in Symbols |-> IF s \in polled THEN Stamp(s, step.asOf) ELSE log[s]]
       /\ polls' = [s \in Symbols |-> IF s \in polled THEN polls[s] + 1 ELSE polls[s]]
    /\ step' = [step EXCEPT !.pc = "done"]
    /\ UNCHANGED <<today, filings, collected, ingested, faults>>

(* run_step_text, later in the run: the filings of held and candidate      *)
(* symbols that were filed by as_of.                                       *)
CollectText ==
    /\ step.pc = "done"
    /\ \E candidates \in SUBSET (Symbols \ Held) :
          collected' = [s \in Symbols |->
              IF s \in Held \cup candidates
              THEN collected[s] \cup {f \in filings[s] : f.day <= step.asOf}
              ELSE collected[s]]
    /\ step' = Idle
    /\ UNCHANGED <<today, filings, ingested, log, polls, faults>>

Crash ==
    /\ step.pc # "idle"
    /\ step' = Idle
    /\ UNCHANGED <<today, filings, collected, ingested, log, polls, faults>>

(* backfill_fundamentals for one symbol, between two runs.  It does not    *)
(* stamp the log.                                                          *)
BackfillFundamentals(s) ==
    /\ step.pc = "idle"
    /\ Upsert({<<s, f>> : f \in Facts(s, today, Lookback)})
    /\ UNCHANGED <<today, filings, collected, log, step, polls, faults>>

Next ==
    \/ NextDay \/ Begin \/ BudgetExceeded \/ UpsertFundamentals \/ RecordFetches
    \/ CollectText \/ Crash
    \/ \E s \in Symbols : \/ File(s) \/ SkipFresh(s) \/ FetchAnswers(s) \/ FetchFails(s)
                          \/ BackfillFundamentals(s)

Spec == Init /\ [][Next]_vars

-----------------------------------------------------------------------------
Filings == [day : 1..LastDay, lands : Nat]

TypeOK ==
    /\ today \in 1..LastDay
    /\ \A s \in Symbols :
          /\ filings[s] \subseteq Filings
          /\ collected[s] \subseteq filings[s]
          /\ ingested[s] \subseteq {f \in filings[s] : f.lands # Never}
          /\ log[s] \in [last : 0..LastDay, through : 0..LastDay, empties : Nat]
          /\ log[s].through <= log[s].last
    /\ step.pc \in {"idle", "fetch", "stamp", "done"}

Throttled(s) == log[s].empties > 0 /\ step.today - log[s].last < RefreshInterval

(* What a run that completed its fetches was not free to poll: a symbol it *)
(* already polled that day, one EDGAR failed on, one that answers empty.   *)
Excused(s) ==
    \/ s \in step.failed
    \/ Throttled(s)
    \/ s \notin step.fetched /\ log[s].last >= step.today

(* After a run that was not cut short, every filing whose facts have been  *)
(* out for a whole refresh interval of evaluation time is in the store,    *)
(* except for symbols just excused: no replay of a past date, empty answer *)
(* or lag between as_of and the wall clock stretches the weekly backstop.  *)
(* A replay of an earlier day does not ask again for what has left the     *)
(* window of the last answered poll since.                                 *)
NothingOverdue ==
    step.pc = "done" /\ ~step.cut =>
        \A s \in Symbols : \A f \in filings[s] :
            /\ f.lands # Never
            /\ f.lands + RefreshInterval <= step.asOf
            /\ f.day >= Max({step.asOf, log[s].through}) - Lookback
            => f \in ingested[s] \/ Excused(s)

(* The newest collected filing is fetched by the first complete run after  *)
(* its facts are out, however often polling it came back without it, until *)
(* its retry window closes or a newer filing is stored.                    *)
PendingIsRetried ==
    step.pc = "done" /\ ~step.cut =>
        \A s \in Symbols : \A f \in collected[s] :
            /\ f.day = LatestFilingOn(s, step.asOf)
            /\ f.lands # Never /\ f.lands <= step.today
            /\ step.asOf - f.day < RefreshInterval
            /\ f.day >= step.asOf - Lookback
            /\ f.day > LatestIngestedOn(s, step.asOf)
            => Excused(s)

(* A symbol whose filings were never collected is polled once an interval, *)
(* where the shortened gaps of its first empty answers count as the first, *)
(* plus one poll for each filing that ended a row of empty answers and for *)
(* each answer EDGAR failed to give: nothing is retried for ever.          *)
PollsAreBounded ==
    \A s \in Symbols :
        collected[s] = {} =>
            polls[s] <= Len(EmptyBackoff) + (today - 1) \div RefreshInterval
                        + faults[s] + Cardinality({f \in ingested[s] : f.lands > 1})
=============================================================================
