--------------------------- MODULE TrackingLedger ---------------------------
(***************************************************************************)
(* tracking/update.py: the ledger that carries every verdict forward one   *)
(* stored session at a time under the backtest's exit rules, and the       *)
(* storage/tracking_records.py transactions it is made of.  An update is   *)
(* a chain of transactions (delete orphans, follow corrected verdicts,     *)
(* then one upsert per position); `collect`, the price step and a crash    *)
(* can come between any two of them.                                       *)
(*                                                                         *)
(* Prices.  A price of the model is an amount of value, free of splits;    *)
(* every split is Factor-for-1, so the dollars in which that value is      *)
(* quoted on a day are found by `Quote`.  Stored bars are raw (the dollars *)
(* of their own day); what the ledger stores is dollars of some day, and   *)
(* the properties say of which.  0 stands for None: prices are positive.   *)
(*                                                                         *)
(* Dates are trading days.  Verdicts are numbered in the order             *)
(* (as_of, run_id, symbol) of the ledger's queries.                        *)
(***************************************************************************)
EXTENDS Integers, FiniteSets, FiniteSetsExt

CONSTANTS
    Symbols,
    Verdicts,       \* the (run_id, symbol) pairs that may get a verdict
    RunOf,          \* the run of a verdict
    SymbolOf,       \* its symbol
    DateOf,         \* its run's date
    Risk,           \* what risk_assessments holds for it: see RiskKinds
    LastDate,       \* bound: the last trading day
    Histories,      \* the price histories [Symbols -> [Dates -> bars]] explored
    SplitSets,      \* the sets of ex-dates [Symbols -> SUBSET Dates] explored
    FetchOutcomes,  \* what a price step may do for a symbol: see NextSession
    HoldRules,      \* the values trade_plan.max_hold_days takes
    Factor,         \* every split is Factor-for-1
    AtrPeriod,      \* sessions needed before there is an ATR
    TrailGap,       \* exit_atr_multiple x ATR
    StopGap,        \* close - stop_price of a risk assessment
    Par,            \* the close a risk assessment saw when no bar is stored
    Slip,           \* how far off a wrongly frozen entry price is
    MaxCollects,    \* bound: collections of a run's verdicts
    MaxRebuilds,    \* bound: `copilot-track rebuild` commands
    MaxCrashes,     \* bound: updates that die half-way
    AnyAsOf         \* TRUE: operators also run updates with an earlier --as-of

Dates == 1..LastDate
Runs == {RunOf[v] : v \in Verdicts}
Sides == {"proceed", "skip"}

(* "full": entry and stop frozen; "nostop": entry only; "missing": neither *)
(* (CASH_PRIORITY, not_calculable); "wrong": frozen from some other price. *)
RiskKinds == {"full", "nostop", "missing", "wrong"}

NoBar == [open |-> 0, low |-> 0, close |-> 0]
NoMark == [close |-> 0, stop |-> 0]
NoMarks == [d \in Dates |-> NoMark]
NoPosition == [status |-> "none", side |-> "none", entry |-> 0, stop |-> 0,
               held |-> 0, maxHold |-> 0, marked |-> 0,
               exitDate |-> 0, exitPrice |-> 0, reason |-> "none"]

ASSUME VerdictsAssumption ==
    /\ Verdicts \subseteq Nat
    /\ SymbolOf \in [Verdicts -> Symbols]
    /\ DateOf \in [Verdicts -> Dates]
    /\ Risk \in [Verdicts -> RiskKinds]
    /\ \A v, w \in Verdicts :
        /\ RunOf[v] = RunOf[w] => DateOf[v] = DateOf[w]
        /\ v < w => DateOf[v] <= DateOf[w]
        /\ v # w => <<RunOf[v], SymbolOf[v]>> # <<RunOf[w], SymbolOf[w]>>

ASSUME PricesAssumption ==
    /\ LastDate \in Nat \ {0}
    /\ SplitSets \subseteq [Symbols -> SUBSET Dates]
    /\ FetchOutcomes \subseteq {"stored", "failed", "quarantined"}
    /\ {Factor, AtrPeriod, TrailGap, StopGap, Par, Slip} \subseteq Nat \ {0}
    /\ HoldRules \subseteq Nat \ {0}
    /\ {AnyAsOf} \subseteq BOOLEAN

ASSUME BoundsAssumption == {MaxCollects, MaxRebuilds, MaxCrashes} \subseteq Nat

VARIABLES
    bars,       \* each symbol's price history; NoBar: no such session
    splits,     \* each symbol's ex-dates
    today,      \* the newest trading day whose price step ran
    stored,     \* the day through which each symbol's bars are stored
    recorded,   \* the day through which its corporate_actions are recorded
    verdicts,   \* the verdicts table: a side, or "none"
    hold,       \* the configured max_hold_days
    ledger,     \* verdict_positions
    marks,      \* verdict_position_marks
    pc,         \* the next step of the update under way
    plan,       \* what that update has read, and has left to write
    spent       \* how many collections, rebuilds and crashes there were

market == <<bars, splits, today, stored, recorded>>
vars == <<market, verdicts, hold, ledger, marks, pc, plan, spent>>

NoPlan == [asOf |-> 0, hold |-> 0, todo |-> {},
           side |-> [v \in Verdicts |-> "none"],
           sessions |-> [s \in Symbols |-> {}],
           barSplits |-> [s \in Symbols |-> {}],
           splits |-> [s \in Symbols |-> {}]]

Tracked == {v \in Verdicts : ledger[v].status # "none"}
Open == {v \in Verdicts : ledger[v].status = "open"}
Closed == {v \in Verdicts : ledger[v].status = "closed"}
Judged == {v \in Verdicts : verdicts[v] # "none"}

----------------------------------------------------------------------------
(* What the market store gives a reader at a cutoff. *)

(* The product of the ratios of these splits. *)
SplitFactor(events) ==
    LET through[d \in 0..LastDate] ==
            IF d = 0 THEN 1
            ELSE through[d - 1] * (IF d \in events THEN Factor ELSE 1)
    IN  through[LastDate]

(* The value x in the dollars of day d. *)
Quote(s, x, d) == x * SplitFactor({e \in splits[s] : e > d})

(* read_splits: the recorded splits that a reader at `asOf` sees. *)
VisibleSplits(s, asOf) == {e \in splits[s] : e <= recorded[s] /\ e <= asOf}

StoredSessions(s, asOf) ==
    {d \in Dates : d <= stored[s] /\ d <= asOf /\ bars[s][d] # NoBar}

(* What is left of a raw price's splits once read_bars has divided it.     *)
Residue(p, s, d) == SplitFactor({e \in splits[s] \ p.barSplits[s] : e > d})

BarAsRead(p, s, d) ==
    [k \in {"open", "low", "close"} |-> bars[s][d][k] * Residue(p, s, d)]

(* atr_as_of, atr_by_date: there is an ATR once AtrPeriod sessions are in  *)
(* the window; it is quoted on the basis of the bars it was smoothed from. *)
AtrKnown(p, s, d) == Cardinality({j \in p.sessions[s] : j <= d}) >= AtrPeriod
TrailGapAsRead(p, s, d) == TrailGap * Residue(p, s, d)

----------------------------------------------------------------------------
(* backtest/exits.py and backtest/entries.py. *)

NoExit == [price |-> 0, reason |-> "none"]

NextTrailingStop(current, close, gap) ==
    IF current = 0 THEN close - gap ELSE Max({current, close - gap})

InitialStopPrice(close, gap) == NextTrailingStop(0, close, gap)

EvaluateExit(bar, stop, held, maxHold) ==
    IF stop # 0 /\ bar.open <= stop THEN [price |-> bar.open, reason |-> "stop"]
    ELSE IF stop # 0 /\ bar.low <= stop THEN [price |-> stop, reason |-> "stop"]
    ELSE IF held + 1 >= maxHold THEN [price |-> bar.close, reason |-> "max_hold"]
    ELSE NoExit

----------------------------------------------------------------------------
(* The frozen prices of a verdict, as values. *)

RiskEntry(v) ==
    LET stale == bars[SymbolOf[v]][DateOf[v]].close
        close == IF stale = 0 THEN Par ELSE stale
    IN  CASE Risk[v] = "missing" -> 0
          [] Risk[v] = "wrong" -> close + Slip
          [] OTHER -> close

RiskStop(v) == IF Risk[v] \in {"full", "wrong"} THEN RiskEntry(v) - StopGap ELSE 0

(* ENTRY_PRICE_BAR_TOLERANCE is one half of a percent. *)
IsEntryPriceBasisMismatch(entry, close) ==
    /\ close > 0
    /\ 200 * (IF entry > close THEN entry - close ELSE close - entry) > close

----------------------------------------------------------------------------
(* Opening, re-basing and advancing one position. *)

(* A bug: the split of the last marked session is applied a second time.   *)
ApplicableSplitsAgain(p, s, markedThrough) ==
    {e \in p.splits[s] : markedThrough <= e /\ \E d \in p.sessions[s] : e <= d}

ApplicableSplits(p, s, markedThrough) ==
    {e \in p.splits[s] : markedThrough < e /\ \E d \in p.sessions[s] : e <= d}

EntryPrice(p, v) ==
    LET s == SymbolOf[v]
        d == DateOf[v]
        barClose == IF d \in p.sessions[s] THEN BarAsRead(p, s, d).close ELSE 0
        frozen == Quote(s, RiskEntry(v), d) \div SplitFactor(ApplicableSplits(p, s, d))
    IN  IF frozen = 0 \/ (barClose # 0 /\ IsEntryPriceBasisMismatch(frozen, barClose))
        THEN barClose
        ELSE frozen

EntryStop(p, v) ==
    LET s == SymbolOf[v]
        d == DateOf[v]
    IN  IF RiskStop(v) # 0
        THEN Quote(s, RiskStop(v), d) \div SplitFactor(ApplicableSplits(p, s, d))
        ELSE IF AtrKnown(p, s, d)
        THEN InitialStopPrice(EntryPrice(p, v), TrailGapAsRead(p, s, d))
        ELSE 0

SeedPosition(p, v) ==
    LET entry == EntryPrice(p, v)
        stop == EntryStop(p, v)
    IN  [position |-> [NoPosition EXCEPT !.status = "open", !.side = p.side[v],
                           !.entry = entry, !.stop = stop,
                           !.maxHold = p.hold, !.marked = DateOf[v]],
         marks |-> [NoMarks EXCEPT ![DateOf[v]] = [close |-> entry, stop |-> stop]]]

RebasePosition(position, published, factor) ==
    [position |-> [position EXCEPT !.entry = @ \div factor, !.stop = @ \div factor],
     marks |-> [d \in Dates |-> [close |-> published[d].close \div factor,
                                 stop |-> published[d].stop \div factor]]]

(* A bug: an open position takes up a holding rule configured later. *)
RebasedWorkReadingConfig(p, v) ==
    LET events == ApplicableSplits(p, SymbolOf[v], ledger[v].marked)
        position == [ledger[v] EXCEPT !.maxHold = p.hold]
    IN  IF events = {}
        THEN [position |-> position, marks |-> NoMarks]
        ELSE RebasePosition(position, marks[v], SplitFactor(events))

RebasedWork(p, v) ==
    LET events == ApplicableSplits(p, SymbolOf[v], ledger[v].marked)
    IN  IF events = {}
        THEN [position |-> ledger[v], marks |-> NoMarks]
        ELSE RebasePosition(ledger[v], marks[v], SplitFactor(events))

(* One turn of _advance's loop: the stop in force is tested first, and     *)
(* only a day that survives it moves the stop.                             *)
ReplaySession(p, s, d, work) ==
    LET pos == work.position
        bar == BarAsRead(p, s, d)
        exit == EvaluateExit(bar, pos.stop, pos.held, pos.maxHold)
        stop == IF exit = NoExit /\ AtrKnown(p, s, d)
                THEN NextTrailingStop(pos.stop, bar.close, TrailGapAsRead(p, s, d))
                ELSE pos.stop
    IN  [position |->
            IF exit = NoExit
            THEN [pos EXCEPT !.held = @ + 1, !.stop = stop, !.marked = d]
            ELSE [pos EXCEPT !.status = "closed", !.exitDate = d, !.marked = d,
                             !.exitPrice = exit.price, !.reason = exit.reason],
         marks |-> [work.marks EXCEPT ![d] = [close |-> bar.close, stop |-> stop]]]

SessionsToReplay(p, s, resumeAfter) == {d \in p.sessions[s] : d > resumeAfter}

Advance(p, v, work) ==
    LET s == SymbolOf[v]
        sessions == SessionsToReplay(p, s, work.position.marked)
        carried[d \in 0..LastDate] ==
            IF d = 0 THEN work
            ELSE LET before == carried[d - 1]
                 IN  IF d \in sessions /\ before.position.status = "open"
                     THEN ReplaySession(p, s, d, before)
                     ELSE before
    IN  carried[LastDate]

----------------------------------------------------------------------------
(* The environment: the daily price step, `copilot-retro collect`, and the *)
(* operator's configuration. *)

Init ==
    /\ bars \in Histories
    /\ splits \in SplitSets
    /\ today = 0
    /\ stored = [s \in Symbols |-> 0]
    /\ recorded = [s \in Symbols |-> 0]
    /\ verdicts = [v \in Verdicts |-> "none"]
    /\ hold \in HoldRules
    /\ ledger = [v \in Verdicts |-> NoPosition]
    /\ marks = [v \in Verdicts |-> NoMarks]
    /\ pc = "idle"
    /\ plan = NoPlan
    /\ spent = [collects |-> 0, rebuilds |-> 0, crashes |-> 0]

(* run_step_prices: each symbol's fetch succeeds ("stored": its actions,   *)
(* then its whole history), fails ("failed": neither), or its actions are  *)
(* recorded and its bars quarantined, or the process dies in between       *)
(* ("quarantined").                                                        *)
NextSession ==
    /\ today < LastDate
    /\ today' = today + 1
    /\ \E outcome \in [Symbols -> FetchOutcomes] :
        /\ recorded' = [s \in Symbols |->
                IF outcome[s] = "failed" THEN recorded[s] ELSE today + 1]
        /\ stored' = [s \in Symbols |->
                IF outcome[s] = "stored" THEN today + 1 ELSE stored[s]]
    /\ UNCHANGED <<bars, splits, verdicts, hold, ledger, marks, pc, plan, spent>>

(* replace_run_verdicts: one run's rows, wholesale, in one transaction.    *)
Collect ==
    /\ spent.collects < MaxCollects
    /\ \E r \in Runs : \E rows \in [{v \in Verdicts : RunOf[v] = r} -> Sides \cup {"none"}] :
        /\ \A v \in DOMAIN rows : DateOf[v] <= today
        /\ verdicts' = [v \in Verdicts |->
                            IF v \in DOMAIN rows THEN rows[v] ELSE verdicts[v]]
        /\ verdicts' # verdicts
    /\ spent' = [spent EXCEPT !.collects = @ + 1]
    /\ UNCHANGED <<market, hold, ledger, marks, pc, plan>>

Configure ==
    /\ hold' \in HoldRules \ {hold}
    /\ UNCHANGED <<market, verdicts, ledger, marks, pc, plan, spent>>

----------------------------------------------------------------------------
(* update_tracking and rebuild_positions. *)

BeginUpdate(asOf) ==
    /\ pc = "idle"
    /\ pc' = "purge"
    /\ plan' = [NoPlan EXCEPT !.asOf = asOf, !.hold = hold]
    /\ UNCHANGED <<market, verdicts, hold, ledger, marks, spent>>

(* run_step_track_update; and copilot-track update without --as-of. *)
DailyUpdate == today > 0 /\ BeginUpdate(today)

(* copilot-track update --as-of with an earlier date. *)
OperatorUpdate == AnyAsOf /\ \E asOf \in 1..(today - 1) : BeginUpdate(asOf)

DeletePositions(gone) ==
    /\ ledger' = [v \in Verdicts |-> IF v \in gone THEN NoPosition ELSE ledger[v]]
    /\ marks' = [v \in Verdicts |-> IF v \in gone THEN NoMarks ELSE marks[v]]

(* rebuild_positions commits the delete, then runs an ordinary update. *)
BeginRebuild ==
    /\ pc = "idle"
    /\ spent.rebuilds < MaxRebuilds
    /\ \E s \in Symbols, rs \in {Runs} \cup {{r} : r \in Runs} :
        LET targets == {v \in Tracked : SymbolOf[v] = s /\ RunOf[v] \in rs}
        IN  targets # {} /\ DeletePositions(targets)
    /\ \E asOf \in (IF AnyAsOf THEN 1..today ELSE {today}) :
        plan' = [NoPlan EXCEPT !.asOf = asOf, !.hold = hold]
    /\ pc' = "purge"
    /\ spent' = [spent EXCEPT !.rebuilds = @ + 1]
    /\ UNCHANGED <<market, verdicts, hold>>

(* delete_orphaned_verdict_positions *)
PurgeOrphans ==
    /\ pc = "purge"
    /\ DeletePositions(Tracked \ Judged)
    /\ pc' = "sync"
    /\ UNCHANGED <<market, verdicts, hold, plan, spent>>

(* A bug: corrected sides are followed only while the position is open. *)
SyncOpenRecommendations ==
    /\ pc = "sync"
    /\ ledger' = [v \in Verdicts |->
                    IF v \in Open \cap Judged
                    THEN [ledger[v] EXCEPT !.side = verdicts[v]]
                    ELSE ledger[v]]
    /\ pc' = "read"
    /\ UNCHANGED <<market, verdicts, hold, marks, plan, spent>>

SyncRecommendations ==
    /\ pc = "sync"
    /\ ledger' = [v \in Verdicts |->
                    IF v \in Tracked \cap Judged
                    THEN [ledger[v] EXCEPT !.side = verdicts[v]]
                    ELSE ledger[v]]
    /\ pc' = "read"
    /\ UNCHANGED <<market, verdicts, hold, marks, plan, spent>>

(* A bug: get_verdict_positions without its status. *)
EveryPosition == Tracked

PositionsToCarry == Open

(* get_untracked_verdicts, the open positions, and one read of their bars, *)
(* which divides them by the splits it sees.  The ledger's rows need no    *)
(* copy in the plan: only this update writes them.                         *)
ReadLedgerAndBars ==
    /\ pc = "read"
    /\ LET candidates == {v \in Judged \ Tracked : DateOf[v] <= plan.asOf}
           todo == candidates \cup PositionsToCarry
       IN  IF todo = {}
           THEN pc' = "idle" /\ plan' = NoPlan
           ELSE /\ pc' = "splits"
                /\ plan' = [plan EXCEPT
                    !.todo = todo,
                    !.side = verdicts,
                    !.sessions = [s \in Symbols |-> StoredSessions(s, plan.asOf)],
                    !.barSplits = [s \in Symbols |-> VisibleSplits(s, plan.asOf)]]
    /\ UNCHANGED <<market, verdicts, hold, ledger, marks, spent>>

(* read_splits, then _seed_position for every candidate: one whose entry   *)
(* price cannot be resolved is left for the next update.                   *)
ReadSplits ==
    /\ pc = "splits"
    /\ LET p == [plan EXCEPT !.splits =
                    [s \in Symbols |-> VisibleSplits(s, plan.asOf)]]
           todo == {v \in plan.todo : v \in Tracked \/ EntryPrice(p, v) > 0}
       IN  IF todo = {}
           THEN pc' = "idle" /\ plan' = NoPlan
           ELSE pc' = "write" /\ plan' = [p EXCEPT !.todo = todo]
    /\ UNCHANGED <<market, verdicts, hold, ledger, marks, spent>>

(* The pending work in order: the new positions, then the open ones. *)
IsNextWork(v) ==
    \A w \in plan.todo :
        /\ v \in Tracked => w \in Tracked
        /\ (v \in Tracked <=> w \in Tracked) => v <= w

(* _advance and upsert_verdict_position: a position and its marks, in one  *)
(* transaction.                                                            *)
WritePosition ==
    /\ pc = "write"
    /\ \E v \in plan.todo :
        LET work == IF v \in Tracked THEN RebasedWork(plan, v) ELSE SeedPosition(plan, v)
            done == Advance(plan, v, work)
            rest == plan.todo \ {v}
        IN  /\ IsNextWork(v)
            /\ ledger' = [ledger EXCEPT ![v] = done.position]
            /\ marks' = [marks EXCEPT ![v] = [d \in Dates |->
                    IF done.marks[d] # NoMark THEN done.marks[d] ELSE @[d]]]
            /\ IF rest = {}
               THEN pc' = "idle" /\ plan' = NoPlan
               ELSE pc' = pc /\ plan' = [plan EXCEPT !.todo = rest]
    /\ UNCHANGED <<market, verdicts, hold, spent>>

Crash ==
    /\ pc # "idle"
    /\ spent.crashes < MaxCrashes
    /\ spent' = [spent EXCEPT !.crashes = @ + 1]
    /\ pc' = "idle"
    /\ plan' = NoPlan
    /\ UNCHANGED <<market, verdicts, hold, ledger, marks>>

UpdateStep ==
    PurgeOrphans \/ SyncRecommendations \/ ReadLedgerAndBars \/ ReadSplits \/ WritePosition

Next ==
    \/ NextSession \/ Collect \/ Configure
    \/ DailyUpdate \/ OperatorUpdate \/ BeginRebuild
    \/ UpdateStep \/ Crash

Spec == Init /\ [][Next]_vars

(* An update under way takes its steps until it ends or dies (this is what *)
(* WF_vars(UpdateStep) says, each of whose steps is enabled at its pc and  *)
(* leads on to "idle"; stated so, TLC need not replay every position to    *)
(* find out that a step is enabled).  The daily run updates the ledger     *)
(* again and again, whatever else operators run in between.                *)
FairSpec == Spec /\ []<>(pc = "idle") /\ SF_vars(DailyUpdate)

----------------------------------------------------------------------------
(* What a position should be, stated from the history alone: no session    *)
(* by session replay, no bases, no transactions.                           *)

Sessions(s) == {d \in Dates : bars[s][d] # NoBar}
SessionsHeld(v, d) == {j \in Sessions(SymbolOf[v]) : DateOf[v] < j /\ j <= d}
HasAtr(s, d) == Cardinality({j \in Sessions(s) : j <= d}) >= AtrPeriod

(* The close of the run's day; the risk assessment's figure without one.   *)
TrueEntry(v) ==
    LET close == bars[SymbolOf[v]][DateOf[v]].close
    IN  IF close # 0 THEN close ELSE RiskEntry(v)

TrueFirstStop(v) ==
    IF RiskStop(v) # 0 THEN RiskStop(v)
    ELSE IF HasAtr(SymbolOf[v], DateOf[v]) THEN TrueEntry(v) - TrailGap
    ELSE 0

(* The stop in force on day d: the highest set on any earlier day. *)
StopInForce(v, d) ==
    LET s == SymbolOf[v]
    IN  Max({TrueFirstStop(v)} \cup
            {bars[s][j].close - TrailGap : j \in {i \in SessionsHeld(v, d - 1) : HasAtr(s, i)}})

StopHit(v, d) ==
    StopInForce(v, d) # 0 /\ bars[SymbolOf[v]][d].low <= StopInForce(v, d)

EndsUnder(v, d, maxHold) ==
    /\ d \in SessionsHeld(v, LastDate)
    /\ StopHit(v, d) \/ Cardinality(SessionsHeld(v, d)) >= maxHold

EndsOn(v, d) == EndsUnder(v, d, ledger[v].maxHold)

TrueExit(v, d) ==
    LET bar == bars[SymbolOf[v]][d]
    IN  IF ~StopHit(v, d) THEN bar.close
        ELSE Min({bar.open, StopInForce(v, d)})

TrueMark(v, d) ==
    [close |-> IF d = DateOf[v] THEN TrueEntry(v) ELSE bars[SymbolOf[v]][d].close,
     stop |-> StopInForce(v, IF d = ledger[v].exitDate THEN d ELSE d + 1)]

----------------------------------------------------------------------------
(* The circumstances in which the replay is exact.  None restricts what the *)
(* updater does; they say what the data it meets is like.                   *)

(* A bar is whole, and its prices are large against the gaps of the stops:  *)
(* no stop is at or below zero.                                             *)
BarsAreWhole ==
    \A h \in Histories :
        /\ h \in [Symbols -> [Dates -> [open : Nat, low : Nat, close : Nat]]]
        /\ \A s \in Symbols, d \in Dates : h[s][d] # NoBar =>
              h[s][d].low <= h[s][d].open /\ h[s][d].close > Max({TrailGap, StopGap})

(* A symbol trades on the ex-dates of its splits. *)
SplitsTrade ==
    \A h \in Histories, x \in SplitSets, s \in Symbols :
        \A e \in x[s] : h[s][e] # NoBar

(* A price step stores a symbol's actions and bars, or neither.             *)
ActionsComeWithBars == "quarantined" \notin FetchOutcomes

(* What risk checks froze is usable: a price without a stop, or a wrong     *)
(* one, is only frozen where the bar it is checked against will be stored,  *)
(* and what is wrong is wrong by more than the tolerance.                   *)
FrozenPricesAreUsable ==
    /\ Par > Max({TrailGap, StopGap})
    /\ \A v \in Verdicts :
          /\ Risk[v] \in {"nostop", "wrong"} => FetchOutcomes = {"stored"}
          /\ Risk[v] = "wrong" =>
                \A h \in Histories : 200 * Slip > h[SymbolOf[v]][DateOf[v]].close

Replayable ==
    BarsAreWhole /\ SplitsTrade /\ ActionsComeWithBars /\ FrozenPricesAreUsable

----------------------------------------------------------------------------
(* Properties. *)

(* Every variable holds a value of its shape.  Figures are naturals, sets   *)
(* of days are days, and the updater is between two of its transactions.    *)
Position == [status : {"none", "open", "closed"}, side : Sides \cup {"none"},
             entry : Nat, stop : Nat, held : Nat, maxHold : HoldRules \cup {0},
             marked : 0..LastDate, exitDate : 0..LastDate, exitPrice : Nat,
             reason : {"none", "stop", "max_hold"}]
TypeOK ==
    /\ bars \in Histories /\ splits \in SplitSets
    /\ today \in 0..LastDate
    /\ stored \in [Symbols -> 0..today] /\ recorded \in [Symbols -> 0..today]
    /\ \A s \in Symbols : stored[s] <= recorded[s]
    /\ verdicts \in [Verdicts -> Sides \cup {"none"}]
    /\ hold \in HoldRules
    /\ ledger \in [Verdicts -> Position]
    /\ marks \in [Verdicts -> [Dates -> [close : Nat, stop : Nat]]]
    /\ pc \in {"idle", "purge", "sync", "read", "splits", "write"}
    /\ plan.asOf \in 0..today /\ plan.todo \subseteq Verdicts
    /\ (pc = "write") => plan.todo # {}

(* An open position is exactly what its history says it should be, in the   *)
(* dollars of its last marked day, however the updates that carried it were *)
(* cut up: day by day or in one go, with an earlier --as-of, interrupted,   *)
(* opened late, or deleted and rebuilt (update.py's "idempotent by          *)
(* construction" and its re-basing from split events).                      *)
OpenMatchesReplay ==
    \A v \in Open :
        LET p == ledger[v]
            In(x) == Quote(SymbolOf[v], x, p.marked)
        IN  /\ \A d \in 1..p.marked : ~EndsOn(v, d)
            /\ p.entry = In(TrueEntry(v))
            /\ p.stop = In(StopInForce(v, p.marked + 1))
            /\ p.held = Cardinality(SessionsHeld(v, p.marked))

(* A closed position was closed on the first session that ends it, for the  *)
(* reason and at the price of the exit rules, and all its figures are       *)
(* dollars of one day, so that its realized return is the one of the        *)
(* history even when a split fell between the entry and the exit.           *)
ClosedMatchesReplay ==
    \A v \in Closed :
        LET p == ledger[v]
            d == p.exitDate
        IN  /\ EndsOn(v, d) /\ \A j \in 1..(d - 1) : ~EndsOn(v, j)
            /\ p.reason = (IF StopHit(v, d) THEN "stop" ELSE "max_hold")
            /\ \E day \in d..LastDate :
                LET In(x) == Quote(SymbolOf[v], x, day)
                IN  /\ p.entry = In(TrueEntry(v))
                    /\ p.stop = In(StopInForce(v, d))
                    /\ p.exitPrice = In(TrueExit(v, d))

(* A position's published marks are one per session from the entry to the   *)
(* last marked day, none of them missing or left over from a deleted or     *)
(* orphaned position, and all of them in the same dollars as its entry      *)
(* price (list, show and the stats divide one by the other).                *)
MarksMatchReplay ==
    \A v \in Verdicts :
        IF v \notin Tracked
        THEN marks[v] = NoMarks
        ELSE LET p == ledger[v]
                 days == {DateOf[v]} \cup SessionsHeld(v, p.marked)
             IN  \E day \in p.marked..LastDate :
                    LET In(x) == Quote(SymbolOf[v], x, day)
                    IN  /\ p.entry = In(TrueEntry(v))
                        /\ marks[v] = [d \in Dates |->
                                IF d \in days
                                THEN [close |-> In(TrueMark(v, d).close),
                                      stop |-> In(TrueMark(v, d).stop)]
                                ELSE NoMark]

(* The whole ledger is a function of the price history and the verdicts:    *)
(* however the replay was cut up by updates, splits, failed fetches, an     *)
(* earlier --as-of, corrections, rebuilds, crashes or a reconfigured rule,  *)
(* no session is marked twice, skipped or priced in another day's dollars.  *)
LedgerMatchesReplay ==
    /\ OpenMatchesReplay
    /\ ClosedMatchesReplay
    /\ MarksMatchReplay

(* No position is stopped out on a day whose low, as it traded, never       *)
(* reached its stop: "so `_advance` can never test a post-split low against *)
(* a pre-split stop" (_rebase_position), nor the reverse.                   *)
NoPhantomExit ==
    \A v \in Closed : ledger[v].reason = "stop" => StopHit(v, ledger[v].exitDate)

(* A closed position is never advanced, re-priced or reopened: until it is  *)
(* deleted, only its side may still change, following its verdict.          *)
ClosedIsFinal ==
    [][\A v \in Closed :
            \/ ledger'[v] = NoPosition
            \/ /\ marks'[v] = marks[v]
               /\ \/ ledger'[v] = ledger[v]
                  \/ \E side \in Sides : ledger'[v] = [ledger[v] EXCEPT !.side = side]]_vars

(* A position is in step with its verdict and with the stored bars. *)
Settled(v) ==
    IF v \notin Judged THEN v \notin Tracked
    ELSE TrueEntry(v) > 0 /\ stored[SymbolOf[v]] >= DateOf[v] =>
            /\ v \in Tracked
            /\ ledger[v].side = verdicts[v]
            /\ v \in Open => \A d \in Sessions(SymbolOf[v]) :
                                d <= stored[SymbolOf[v]] => d <= ledger[v].marked

(* Once collections, rebuilds and crashes cease, the ledger catches up by   *)
(* itself: a retracted verdict loses its position, a corrected one its old  *)
(* side, and every other verdict is tracked through its newest session,     *)
(* whatever was interrupted ("recoverable ... the next `copilot-track       *)
(* update` reopens them", rebuild_positions).                               *)
LedgerSettles == <>[](\A v \in Verdicts : Settled(v))
=============================================================================
