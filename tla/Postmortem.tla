----------------------------- MODULE Postmortem -----------------------------
(* The signal postmortem of the daily run (pipeline/postmortem.py): every run *)
(* looks back one short and one long horizon of benchmark sessions, takes the *)
(* run of that day, classifies what its candidates' prices did since, and     *)
(* replaces that run's slice of signal_outcomes and then, in a transaction of *)
(* its own, its slice of universe_forward_returns, which also holds the       *)
(* symbols the screen cut or rejected.  The trailing window of the first      *)
(* table is aggregated per signal for the report.                             *)
(* A forward return is kept as its pair of closes.                            *)
EXTENDS Integers, Sequences, FiniteSets, FiniteSetsExt

CONSTANTS Symbols, Signals,
          Screens,     \* what a run can record: its candidates, cut and rejected symbols
          Lags,        \* the horizons, in the order they are evaluated: <<5, 20>> in the code
          HorizonWeight,      \* a horizon's weight in the hit rate
          Prices,      \* closes a bar can have
          Histories,   \* the closes the provider first answers with, 0 for a bar it has not
          NeutralPct, SeverePct, LookbackWindow,
          LastRunDay,
          Absent,      \* sessions whose benchmark bar arrives one session late
          Replays,     \* may a run be asked for a past session (--as-of)?
          MaxSiblings, MaxRequotes, MaxInterrupts   \* bounds: runs of one session, corrected bars, interruptions

ASSUME PostmortemInputs ==
    /\ LastRunDay \in Nat \ {0}
    /\ \A i \in DOMAIN Lags : Lags[i] \in Nat \ {0}
    /\ \A p \in Prices : p \in Nat \ {0}
    /\ Histories \subseteq [Symbols -> [1..LastRunDay -> Prices \cup {0}]]
    /\ \A s \in Screens : \A c \in s.candidates : c.symbol \in Symbols /\ c.names \subseteq Signals

VARIABLES runDay,       \* the day's session
          closes,       \* closes[x][d]: a symbol's close, 0 where it has no bar
          screened,     \* the runs table with what each run recorded, in the order the runs started
          signalOutcomes,     \* signal_outcomes
          universe,     \* universe_forward_returns
          pass,         \* the pass under way: the horizon it is at, what it writes next, its as_of
          torn,         \* slices whose two replacements were cut apart
          requotes, interrupts

postmortemVars == <<runDay, closes, screened, signalOutcomes, universe, pass, torn, requotes, interrupts>>

NoDecision == [candidates |-> {}, cut |-> {}, rejected |-> {}]
NoPass  == [at |-> 0, writes |-> "none", asOf |-> 0]

(* The sessions of the benchmark in the window that ends at d. *)
BenchmarkDays(d) == {e \in 1..d : e \in Absent => e < runDay}

(* The session h sessions back, or 0: fewer than h + 1 are known. *)
TargetTradingDay(d, h) ==
    LET days == BenchmarkDays(d)
    IN  IF Cardinality(days) < h + 1 THEN 0
        ELSE CHOOSE t \in days : Cardinality({e \in days : e > t}) = h

(* get_run_by_date: the most recently started run of the day, whatever became of it. *)
RunByDate(d) == LET of == {r \in DOMAIN screened : screened[r].date = d}
                IN  IF of = {} THEN 0 ELSE Max(of)

(* One class per symbol: a candidate of any strategy, else a near miss, else a rejection. *)
CandidateSymbols(s) == {c.symbol : c \in s.candidates}
Decided(s)          == CandidateSymbols(s) \cup s.cut \cup s.rejected
OutcomeClass(s, x)  == CASE x \in CandidateSymbols(s) -> "candidate"
                         [] x \in s.cut \ CandidateSymbols(s) -> "truncated"
                         [] OTHER -> "rejected"

(* A symbol two strategies made a candidate has two rows of one key: the *)
(* upsert keeps the one of the later strategy.                           *)
SignalNames(s, x) ==
    LET own == {c \in s.candidates : c.symbol = x}
    IN  (CHOOSE c \in own : \A o \in own : o.strategy <= c.strategy).names

HasReturn(x, from, to) == closes[x][from] # 0 /\ closes[x][to] # 0

(* The return is a plain percentage: the thresholds are compared times the base close. *)
ClassifyReturn(base, close) ==
    LET move == 100 * (close - base)
    IN  CASE move <= NeutralPct * base /\ -move <= NeutralPct * base -> "neutral"
          [] move > NeutralPct * base -> "hit"
          [] -move > SeverePct * base -> "severe"
          [] OTHER -> "mild"

OutcomeRows(r, h, to) ==
    LET from == screened[r].date  s == screened[r].screen
    IN  {[run |-> r, symbol |-> x, horizon |-> h, asOf |-> to, names |-> SignalNames(s, x),
          class |-> ClassifyReturn(closes[x][from], closes[x][to])] :
             x \in {y \in CandidateSymbols(s) : HasReturn(y, from, to)}}

ControlRows(r, h, to) ==
    LET from == screened[r].date  s == screened[r].screen
    IN  {[run |-> r, symbol |-> x, horizon |-> h, asOf |-> to, decided |-> OutcomeClass(s, x),
          base |-> closes[x][from], close |-> closes[x][to]] :
             x \in {y \in Decided(s) : HasReturn(y, from, to)}}

(* A transaction that deletes the slice and inserts the rows: none of a    *)
(* symbol that dropped out of the recomputed set is left.                  *)
UpsertSlice(table, r, h, rows) ==
    {o \in table : ~ (o.run = r /\ o.horizon = h /\ \E n \in rows : n.symbol = o.symbol)} \cup rows
ReplaceSlice(table, r, h, rows) == {o \in table : ~ (o.run = r /\ o.horizon = h)} \cup rows

(* The rows whose outcome was observed in the trailing window. *)
Observed(to) == {o \in signalOutcomes : o.asOf <= to /\ o.asOf >= to - LookbackWindow}

(* compute_signal_performance: a row counts for each of its signals. *)
Performance(to) ==
    LET rows == Observed(to)
        Of(g, classes) == {o \in rows : g \in o.names /\ o.class \in classes}
        Weighed(set) == MapThenSumSet(LAMBDA o : HorizonWeight[o.horizon], set)
    IN  [g \in UNION {o.names : o \in rows} |->
           [n |-> Cardinality(Of(g, {"hit", "mild", "severe", "neutral"})),
            hits |-> Weighed(Of(g, {"hit"})),
            counted |-> Weighed(Of(g, {"hit", "mild", "severe"}))]]
-----------------------------------------------------------------------------
(* A session ends; a run reads no bar past its as_of. *)
NextSession ==
    /\ pass = NoPass /\ runDay < LastRunDay
    /\ runDay' = runDay + 1
    /\ UNCHANGED <<closes, screened, signalOutcomes, universe, pass, torn, requotes, interrupts>>

(* A bar is corrected, restored or quarantined between two runs. *)
Requote ==
    /\ pass = NoPass /\ requotes < MaxRequotes
    /\ \E x \in Symbols, d \in 1..runDay, c \in Prices \cup {0} :
          closes[x][d] # c /\ closes' = [closes EXCEPT ![x][d] = c]
    /\ requotes' = requotes + 1
    /\ UNCHANGED <<runDay, screened, signalOutcomes, universe, pass, torn, interrupts>>

Asked == IF Replays THEN 1..runDay ELSE {runDay} \ {0}
MayStart(d) == pass = NoPass /\ Cardinality({r \in DOMAIN screened : screened[r].date = d}) < MaxSiblings

(* A run that completes its fatal steps has recorded its screen; its postmortem follows. *)
Run ==
    \E d \in Asked, s \in Screens :
       /\ MayStart(d)
       /\ screened' = Append(screened, [date |-> d, screen |-> s])
       /\ pass' = [at |-> 1, writes |-> "outcomes", asOf |-> d]
       /\ UNCHANGED <<runDay, closes, signalOutcomes, universe, torn, requotes, interrupts>>

(* A run whose fatal steps fail has its row in runs, and no decision. *)
RunFails ==
    \E d \in Asked :
       /\ MayStart(d)
       /\ screened' = Append(screened, [date |-> d, screen |-> NoDecision])
       /\ UNCHANGED <<runDay, closes, signalOutcomes, universe, pass, torn, requotes, interrupts>>

Lag == Lags[pass.at]
Evaluated == LET d == TargetTradingDay(pass.asOf, Lag) IN IF d = 0 THEN 0 ELSE RunByDate(d)
Onward == pass' = IF pass.at = Len(Lags) THEN NoPass
                  ELSE [pass EXCEPT !.at = @ + 1, !.writes = "outcomes"]

(* Too short a history, or no run of the target day: a note, and the next horizon. *)
SkipHorizon ==
    /\ pass # NoPass /\ pass.writes = "outcomes" /\ Evaluated = 0
    /\ Onward
    /\ UNCHANGED <<runDay, closes, screened, signalOutcomes, universe, torn, requotes, interrupts>>

ReplaceSignalOutcomes ==
    /\ pass # NoPass /\ pass.writes = "outcomes" /\ Evaluated # 0
    /\ signalOutcomes' = ReplaceSlice(signalOutcomes, Evaluated, Lag, OutcomeRows(Evaluated, Lag, pass.asOf))
    /\ pass' = [pass EXCEPT !.writes = "universe"]
    /\ torn' = torn \cup {<<Evaluated, Lag>>}
    /\ UNCHANGED <<runDay, closes, screened, universe, requotes, interrupts>>

ReplaceUniverseForwardReturns ==
    /\ pass # NoPass /\ pass.writes = "universe"
    /\ universe' = ReplaceSlice(universe, Evaluated, Lag, ControlRows(Evaluated, Lag, pass.asOf))
    /\ torn' = torn \ {<<Evaluated, Lag>>}
    /\ Onward
    /\ UNCHANGED <<runDay, closes, screened, signalOutcomes, requotes, interrupts>>

(* The step raises, which degrades the run, or the process dies. *)
Interrupted ==
    /\ pass # NoPass /\ interrupts < MaxInterrupts
    /\ pass' = NoPass /\ interrupts' = interrupts + 1
    /\ UNCHANGED <<runDay, closes, screened, signalOutcomes, universe, torn, requotes>>

PostmortemInit ==
    /\ runDay = 0 /\ closes \in Histories
    /\ screened = <<>> /\ signalOutcomes = {} /\ universe = {}
    /\ pass = NoPass /\ torn = {} /\ requotes = 0 /\ interrupts = 0

PostmortemNext == \/ NextSession \/ Requote \/ Run \/ RunFails
                  \/ SkipHorizon \/ ReplaceSignalOutcomes \/ ReplaceUniverseForwardReturns \/ Interrupted

PostmortemSpec == PostmortemInit /\ [][PostmortemNext]_postmortemVars
-----------------------------------------------------------------------------
(* The signal table and the control group's table tell one story: a slice    *)
(* whose two replacements were not cut apart has the same candidates in both, *)
(* observed on the same day, and each one's class is that of the return       *)
(* stored beside it, however often the day was run again and whichever bars   *)
(* came, went or were corrected in between.                                   *)
TablesAgree ==
    LET Story(table) == {o \in table : <<o.run, o.horizon>> \notin torn}
    IN  {<<o.run, o.symbol, o.horizon, o.asOf, o.class>> : o \in Story(signalOutcomes)}
        = {<<o.run, o.symbol, o.horizon, o.asOf, ClassifyReturn(o.base, o.close)>> :
              o \in {u \in Story(universe) : u.decided = "candidate"}}

(* The report counts no decision twice: the observations of a signal are as   *)
(* many as the symbols, days and horizons it fired for.                        *)
CountedOnce ==
    LET shown == Performance(runDay)
    IN  \A g \in DOMAIN shown :
          shown[g].n = Cardinality({<<screened[o.run].date, o.symbol, o.horizon>> :
                          o \in {u \in Observed(runDay) : g \in u.names}})

(* An outcome is attributed to every signal that fired for its candidate.  Two *)
(* strategies that choose one symbol break it: the later strategy's names win. *)
EverySignalCounts ==
    \A o \in signalOutcomes : \A c \in screened[o.run].screen.candidates :
        c.symbol = o.symbol => c.names \subseteq o.names

(* A day that was screened is the day that is evaluated.  A forced rerun that  *)
(* fails before its screening breaks it: the most recent run of the day is the *)
(* failed one, which decided nothing.                                          *)
NoScreenIsShadowed ==
    pass.writes = "universe" /\ screened[Evaluated].screen = NoDecision =>
        \A r \in DOMAIN screened :
            screened[r].date = screened[Evaluated].date => screened[r].screen = NoDecision

(* Every row spans the horizon it is filed under.  A benchmark bar that is     *)
(* late shifts the day's targets by a session (Absent # {}).                   *)
RowsSpanTheirHorizon ==
    \A o \in signalOutcomes : o.asOf - screened[o.run].date = o.horizon
=============================================================================
