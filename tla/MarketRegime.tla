---------------------------- MODULE MarketRegime ----------------------------
(***************************************************************************)
(* The market regime: every daily run reads SPY, QQQ and VIX back to a     *)
(* bounded past and derives the gate, the distribution days, the           *)
(* Follow-Through Day of each index and the exposure ceiling from scratch; *)
(* nothing but its decision is kept.  `copilot-regime dd-forward` replays  *)
(* the same rules over the stored history.                                 *)
(*                                                                         *)
(* Prices are whole numbers, no close is 0, and ratios are per mille.      *)
(* Distribution days count half days, so that a stall day is 1.  SPY's     *)
(* sessions are the calendar; QQQ and VIX may miss one.                    *)
(***************************************************************************)
EXTENDS Integers, Sequences, FiniteSetsExt, SequencesExt

CONSTANTS
    Opening,            \* the sessions the store starts with
    Sessions,           \* what one more session may bring: [spy, qqq, vix]
    MaxSessions,        \* bound
    HistoryRows,        \* sessions a run reads back
    SmaPeriod, BearRatio, PanicVix,                         \* regime.*
    WindowDays, DdDecline, StallChange, Recovery,           \* distribution days
    Spans,              \* the spans counted: <<25, 15, 5>>
    SevereAt, HighAt, CautionAt,                            \* in half days
    CorrectionDecline, CorrectionDownDays, FtdGain,         \* FTD
    FtdFirstDay, EarlyLastDay, FtdLastDay,
    TrailingRows        \* rows a replayed observation sees before its own

IndexBars == [close : Nat \ {0}, low : Nat, high : Nat, volume : Nat]
Unlisted == [close |-> 0]
MarketDays == [spy : IndexBars \cup {Unlisted}, qqq : IndexBars \cup {Unlisted}, vix : Nat]

ASSUME RegimeConstants ==
    /\ Opening \in Seq(MarketDays) /\ Sessions \subseteq MarketDays
    /\ {MaxSessions, SmaPeriod, WindowDays, CorrectionDownDays} \subseteq Nat \ {0}
    /\ {BearRatio, PanicVix, DdDecline, StallChange, Recovery, CorrectionDecline,
        FtdGain, HistoryRows, TrailingRows, FtdFirstDay, EarlyLastDay, FtdLastDay}
            \subseteq Nat
    /\ HistoryRows > WindowDays
    /\ TrailingRows >= WindowDays
    /\ 1 < FtdFirstDay /\ FtdFirstDay <= EarlyLastDay /\ EarlyLastDay <= FtdLastDay

VARIABLES
    market,         \* the sessions stored so far
    decisions       \* decisions[n]: what the run of session n recorded

regimeVars == <<market, decisions>>

Indices == {"spy", "qqq"}

\* The rows of an index among some sessions.
BarsOf(index, sessions) ==
    LET rows[n \in 0..Len(sessions)] ==
            IF n = 0 THEN <<>>
            ELSE IF sessions[n][index] = Unlisted THEN rows[n - 1]
            ELSE Append(rows[n - 1], sessions[n][index])
    IN  rows[Len(sessions)]

\* A run of session n reads at most HistoryRows sessions back.
ReadBack(sessions, n) == SubSeq(sessions, Max({1, n - HistoryRows + 1}), n)

-----------------------------------------------------------------------------
(* Distribution days.                                                      *)

Severity(level) ==
    CASE level = "NORMAL" -> 0 [] level = "CAUTION" -> 1 [] level = "HIGH" -> 2
      [] level = "SEVERE" -> 3 [] level = "UNKNOWN" -> 4

Strictest(a, b) == IF Severity(b) > Severity(a) THEN b ELSE a

\* A decline on more volume counts a day, a stall half a day.
Weight(bars, k) ==
    LET change == bars[k].close - bars[k - 1].close
        base == bars[k - 1].close
    IN  IF bars[k].volume <= bars[k - 1].volume THEN 0
        ELSE IF 1000 * change <= -DdDecline * base THEN 2
        ELSE IF 1000 * change < StallChange * base /\ 1000 * change > -StallChange * base
        THEN 1 ELSE 0

\* A bug: only today's close can lift a distribution day.
RecoveredToday(bars, k) ==
    k < Len(bars) /\ 1000 * bars[Len(bars)].close >= (1000 + Recovery) * bars[k].close

\* A later close that is high enough takes it out of the count.
Recovered(bars, k) ==
    \E j \in (k + 1)..Len(bars) : 1000 * bars[j].close >= (1000 + Recovery) * bars[k].close

Expired(bars, k) == Len(bars) - k >= WindowDays - 1

CountedDays(bars) ==
    {k \in 2..Len(bars) :
        Weight(bars, k) > 0 /\ ~Expired(bars, k) /\ ~Recovered(bars, k)}

CountWithin(bars, span) ==
    MapThenSumSet(LAMBDA k : Weight(bars, k),
                  {k \in CountedDays(bars) : k > Len(bars) - span})

DistributionLevel(counts) ==
    IF \E i \in DOMAIN SevereAt : counts[i] >= SevereAt[i] THEN "SEVERE"
    ELSE IF \E i \in DOMAIN HighAt : counts[i] >= HighAt[i] THEN "HIGH"
    ELSE IF counts[1] >= CautionAt THEN "CAUTION" ELSE "NORMAL"

DistributionDays(bars) ==
    IF Len(bars) < WindowDays + 1 THEN [counts |-> <<0, 0, 0>>, level |-> "UNKNOWN"]
    ELSE LET counts == [i \in DOMAIN Spans |-> CountWithin(bars, Spans[i])]
         IN  [counts |-> counts, level |-> DistributionLevel(counts)]

-----------------------------------------------------------------------------
(* The gate.                                                               *)

\* The sum of the period's closes; there is none before the period is filled.
SmaSum(bars, k) ==
    LET sum[n \in 0..SmaPeriod] == IF n = 0 THEN 0 ELSE sum[n - 1] + bars[k - n + 1].close
    IN  sum[SmaPeriod]

MarketGate(bars, vix) ==
    LET sum == SmaSum(bars, Len(bars))
        scaled == SmaPeriod * bars[Len(bars)].close
        verdict == IF Len(bars) < SmaPeriod \/ vix = 0 THEN "UNKNOWN"
                   ELSE IF 1000 * scaled < BearRatio * sum THEN "BEAR"
                   ELSE IF scaled < sum THEN "NEUTRAL" ELSE "BULL"
    IN  [verdict |-> verdict, panic |-> vix > PanicVix]

\* The newest VIX close of the rows that are read; 0 when there is none.
LatestVix(sessions) ==
    LET known == {n \in DOMAIN sessions : sessions[n].vix # 0}
    IN  IF known = {} THEN 0 ELSE sessions[Max(known)].vix

-----------------------------------------------------------------------------
(* The Follow-Through Day machine.                                         *)

Machine(state) ==
    [state |-> state, day1Low |-> 0, day |-> 0, quality |-> 0, confirmed |-> 0, low |-> 0]

QualityScore(day, bars, k) ==
    LET rise == 1000 * (bars[k].close - bars[k - 1].close)
        base == bars[k - 1].close
    IN  (IF day <= EarlyLastDay THEN 60 ELSE 50)
        + (IF rise >= 20 * base THEN 20 ELSE IF rise >= 15 * base THEN 10 ELSE 5)

Day1(bars, k) ==
    \/ bars[k].close > bars[k - 1].close
    \/ 2 * bars[k].close >= bars[k].low + bars[k].high

FollowsThrough(bars, k) ==
    /\ 1000 * (bars[k].close - bars[k - 1].close) >= FtdGain * bars[k - 1].close
    /\ bars[k].volume > bars[k - 1].volume

\* A bug: a rally goes on although its first low is undercut.
TransitionThroughUndercut(m, bars, k, corrected) ==
    CASE m.state \in {"AWAITING", "EXPIRED"} ->
            IF corrected THEN Machine("CORRECTION") ELSE m
      [] m.state = "CORRECTION" ->
            IF Day1(bars, k)
            THEN [Machine("DAY1") EXCEPT !.day1Low = bars[k].low, !.day = 1] ELSE m
      [] m.state \in {"DAY1", "DAY2_3"} ->
            IF m.day + 1 \in FtdFirstDay..FtdLastDay /\ FollowsThrough(bars, k)
            THEN [state |-> "CONFIRMED", day1Low |-> m.day1Low, day |-> m.day + 1,
                  quality |-> QualityScore(m.day + 1, bars, k), confirmed |-> k,
                  low |-> bars[k].low]
            ELSE IF m.day + 1 >= FtdLastDay THEN Machine("EXPIRED")
            ELSE [m EXCEPT !.state = "DAY2_3", !.day = m.day + 1]
      [] m.state = "CONFIRMED" ->
            IF bars[k].close < m.low THEN Machine("EXPIRED") ELSE m

Transition(m, bars, k, corrected) ==
    CASE m.state \in {"AWAITING", "EXPIRED"} ->
            IF corrected THEN Machine("CORRECTION") ELSE m
      [] m.state = "CORRECTION" ->
            IF Day1(bars, k)
            THEN [Machine("DAY1") EXCEPT !.day1Low = bars[k].low, !.day = 1] ELSE m
      [] m.state \in {"DAY1", "DAY2_3"} ->
            IF bars[k].low < m.day1Low THEN Machine("CORRECTION")
            ELSE IF m.day + 1 \in FtdFirstDay..FtdLastDay /\ FollowsThrough(bars, k)
            THEN [state |-> "CONFIRMED", day1Low |-> m.day1Low, day |-> m.day + 1,
                  quality |-> QualityScore(m.day + 1, bars, k), confirmed |-> k,
                  low |-> bars[k].low]
            ELSE IF m.day + 1 >= FtdLastDay THEN Machine("EXPIRED")
            ELSE [m EXCEPT !.state = "DAY2_3", !.day = m.day + 1]
      [] m.state = "CONFIRMED" ->
            IF bars[k].close < m.low THEN Machine("EXPIRED") ELSE m

\* The highest close so far and the closes in a row that fell.
Trend(t, bars, k) ==
    IF bars[k].close > t.high THEN [high |-> bars[k].close, down |-> 0]
    ELSE [t EXCEPT !.down = IF bars[k].close < bars[k - 1].close THEN @ + 1 ELSE 0]

\* A confirmed day of SPY expires on the first close at its average.
FtdStep(s, bars, k, expiresAtSma) ==
    LET trend == Trend(s.trend, bars, k)
        corrected == /\ 1000 * bars[k].close <= (1000 - CorrectionDecline) * trend.high
                     /\ trend.down >= CorrectionDownDays
        m == Transition(s.machine, bars, k, corrected)
        recovered == /\ expiresAtSma
                     /\ m.state = "CONFIRMED"
                     /\ k >= SmaPeriod
                     /\ SmaPeriod * bars[k].close >= SmaSum(bars, k)
    IN  [trend |-> trend, machine |-> IF recovered THEN Machine("EXPIRED") ELSE m]

CalculateFtd(bars, expiresAtSma) ==
    IF Len(bars) < 2 THEN Machine("UNKNOWN")
    ELSE LET first == [trend |-> [high |-> bars[1].close, down |-> 0],
                       machine |-> Machine("AWAITING")]
             after[n \in 0..(Len(bars) - 1)] ==
                 IF n = 0 THEN first ELSE FtdStep(after[n - 1], bars, n + 1, expiresAtSma)
         IN  after[Len(bars) - 1].machine

-----------------------------------------------------------------------------
(* The exposure ceiling.                                                   *)

Stricter(verdict) ==
    IF verdict = "NEW_ENTRY_ALLOWED" THEN "REDUCE_ONLY" ELSE "CASH_PRIORITY"

BaseExposure(gate, level, ftdActive) ==
    IF gate.panic THEN "CASH_PRIORITY"
    ELSE IF gate.verdict = "BEAR"
    THEN IF ftdActive THEN "REDUCE_ONLY" ELSE "CASH_PRIORITY"
    ELSE IF gate.verdict = "NEUTRAL" \/ level = "SEVERE" THEN "REDUCE_ONLY"
    ELSE "NEW_ENTRY_ALLOWED"

DetermineExposure(gate, level, ftd) ==
    LET unknown == {x \in {"gate", "days"} :
                        IF x = "gate" THEN gate.verdict = "UNKNOWN" ELSE level = "UNKNOWN"}
        active == gate.verdict \in {"BEAR", "NEUTRAL"} /\ ftd.state = "CONFIRMED"
        baseline == BaseExposure(gate, level, active)
    IN  CASE unknown = {"gate", "days"} -> "CASH_PRIORITY"
          [] unknown = {} -> baseline
          [] OTHER -> Stricter(baseline)

-----------------------------------------------------------------------------
(* A daily run, and the replay.                                            *)

\* What the run of the last of these sessions decides from what it reads.
RegimeSnapshot(sessions) ==
    LET read == ReadBack(sessions, Len(sessions))
        spy == BarsOf("spy", read)
        gate == MarketGate(spy, LatestVix(read))
        level == Strictest(DistributionDays(spy).level,
                           DistributionDays(BarsOf("qqq", read)).level)
        ftd == CalculateFtd(spy, TRUE)
    IN  [gate |-> gate, level |-> level, ftd |-> ftd.state,
         confirmedOn |-> IF ftd.state = "CONFIRMED"
                         THEN Len(sessions) - Len(spy) + ftd.confirmed ELSE 0,
         verdict |-> DetermineExposure(gate, level, ftd)]

RecordSession ==
    /\ Len(market) < MaxSessions
    /\ \E s \in Sessions :
          /\ market' = Append(market, s)
          /\ decisions' = Append(decisions, RegimeSnapshot(Append(market, s)))

RegimeInit ==
    /\ market = Opening
    /\ decisions = [n \in DOMAIN market |-> RegimeSnapshot(SubSeq(market, 1, n))]

RegimeNext == RecordSession
RegimeSpec == RegimeInit /\ [][RegimeNext]_regimeVars

\* A bug: QQQ's rows are cut at the session's place in the calendar.
TrailingBarsByCalendar(index, n) ==
    LET bars == BarsOf(index, market)
    IN  SubSeq(bars, Max({1, n - TrailingRows}), Min({n, Len(bars)}))

\* The rows of an observation at session n: its own and the ones before.
TrailingBars(index, n) ==
    LET bars == BarsOf(index, SubSeq(market, 1, n))
    IN  SubSeq(bars, Max({1, Len(bars) - TrailingRows}), Len(bars))

\* The sessions a replay classifies: QQQ traded, the average and both counts
\* are warmed up.
Observations ==
    {n \in DOMAIN market :
        /\ market[n].qqq # Unlisted
        /\ n >= SmaPeriod
        /\ DistributionDays(TrailingBars("spy", n)).level # "UNKNOWN"
        /\ DistributionDays(TrailingBars("qqq", n)).level # "UNKNOWN"}

ObservedLevel(n) ==
    Strictest(DistributionDays(TrailingBars("spy", n)).level,
              DistributionDays(TrailingBars("qqq", n)).level)

ObservedGate(n) == MarketGate(BarsOf("spy", SubSeq(market, 1, n)), market[n].vix).verdict

-----------------------------------------------------------------------------
Corrected(bars, k) ==
    /\ k > CorrectionDownDays
    /\ \A j \in (k - CorrectionDownDays + 1)..k : bars[j].close < bars[j - 1].close
    /\ 1000 * bars[k].close
          <= (1000 - CorrectionDecline) * Max({bars[j].close : j \in 1..k})

(* What a confirmed Follow-Through Day of an index says of the rows it was *)
(* read from: a correction, then a first day whose low held until, within  *)
(* the permitted days, a gain on more volume; and since then no close has  *)
(* broken that day's low nor, for SPY, come back to the average.           *)
FtdRestsOnItsRally ==
    \A index \in Indices :
        LET bars == BarsOf(index, ReadBack(market, Len(market)))
            ftd == CalculateFtd(bars, index = "spy")
            first == ftd.confirmed - ftd.day + 1
        IN  ftd.state = "CONFIRMED" =>
                /\ ftd.day \in FtdFirstDay..FtdLastDay
                /\ FollowsThrough(bars, ftd.confirmed)
                /\ Day1(bars, first)
                /\ \E c \in 2..(first - 1) : Corrected(bars, c)
                /\ \A j \in (first + 1)..ftd.confirmed : bars[j].low >= bars[first].low
                /\ \A j \in ftd.confirmed..Len(bars) :
                      /\ j > ftd.confirmed => bars[j].close >= bars[ftd.confirmed].low
                      /\ index = "spy" /\ j >= SmaPeriod =>
                            SmaPeriod * bars[j].close < SmaSum(bars, j)

(* Each observation's "classification obeys the daily run's boundary       *)
(* exactly" (dd_forward): the replay gives every session the level that    *)
(* the run of that session recorded, and its gate when VIX has that date.  *)
ReplayRepeatsTheRuns ==
    \A n \in Observations :
        /\ ObservedLevel(n) = decisions[n].level
        /\ market[n].vix # 0 => ObservedGate(n) = decisions[n].gate.verdict

(* A distribution day that no longer counts, expired or lifted by a        *)
(* recovery, never counts again.                                           *)
DeadDaysStayDead ==
    [][ \A index \in Indices :
          LET before == BarsOf(index, market)
              now == BarsOf(index, market')
          IN  CountedDays(now) \ CountedDays(before) \subseteq
                  (Len(before) + 1)..Len(now) ]_regimeVars

(* "This is a state transition, rather than a final-result filter, so a    *)
(* later dip cannot resurrect an old FTD" (ftd.py): a run never finds in   *)
(* force a day that an earlier run found expired.                          *)
OldFtdStaysExpired ==
    \A m, n \in DOMAIN decisions :
        decisions[n].confirmedOn # 0 /\ decisions[n].confirmedOn <= m /\ m < n =>
            decisions[m].confirmedOn = decisions[n].confirmedOn

(* "Unknown inputs cannot loosen a policy" (determine_exposure): without   *)
(* its trend, a market is never granted more than with it.                 *)
UnknownTrendNeverLoosens ==
    \A n \in DOMAIN decisions :
        LET blind == [decisions[n].gate EXCEPT !.verdict = "UNKNOWN"]
        IN  decisions[n].verdict = "CASH_PRIORITY" =>
                DetermineExposure(blind, decisions[n].level, Machine("UNKNOWN"))
                    = "CASH_PRIORITY"

(* "A day expires on the 25th trading day after its observation, therefore *)
(* it remains live for 24 subsequent observations" (distribution.py).      *)
LiveThroughItsWindow ==
    \A index \in Indices :
        LET bars == BarsOf(index, ReadBack(market, Len(market)))
        IN  \A k \in 2..Len(bars) :
                Weight(bars, k) > 0 /\ ~Recovered(bars, k) /\ Len(bars) - k <= WindowDays - 1
                    => k \in CountedDays(bars)
=============================================================================
