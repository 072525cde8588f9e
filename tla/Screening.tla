------------------------------ MODULE Screening ------------------------------
(***************************************************************************)
(* The screen.  A daily run filters the universe on its filings and on     *)
(* liquidity, asks the strategy's signals about what is left, ranks the    *)
(* hits, cuts the ranking at a limit, and records the candidates, the      *)
(* near misses and one reason for every other symbol.  The reasons come    *)
(* from a classifier that mirrors each check in code of its own, and       *)
(* `copilot-filter-matrix` measures every check again, each on its own,    *)
(* from the stored data of any past day.                                   *)
(*                                                                         *)
(* Prices are whole numbers; ratios and scores are per mille.  RSI and ATR *)
(* are data of a bar: each is a function of the rows up to its own.        *)
(***************************************************************************)
EXTENDS Integers, Sequences, FiniteSets, SequencesExt, FiniteSetsExt, Functions

CONSTANTS
    Members, Order,     \* the universe, and its symbols in alphabetical order
    Missing,            \* a value a filing or a bar lacks (NaN)
    FirstQuotes,        \* the sessions the store starts with
    Quotes,             \* what one more session may bring, per symbol
    FirstFilings, Reports,  \* filings stored at first, contents of later ones
    FilingLags,         \* days between filing and storage
    MaxDays, MaxReports,    \* bounds
    StrategyKeys,       \* the strategies a behaviour may screen with
    FloorRows,          \* PRICE_HISTORY_LOOKBACK_DAYS, in sessions
    Quarters, MinEquity,                    \* fundamental_filters.*
    VolumeDays, MinVolume,                  \* volume.*
    ShortBars, MidBars, LongBars, OscillatorBars,   \* 50, 150, 200 and 14
    TrendShort, TrendLong,                  \* trend.*
    RsiThreshold, BandMultiple,             \* pullback.*; in ATRs, 0: none set
    YearBars, MinYearBars, RisingDays, LowMultiple, HighMultiple,
    RsPeriods, RsWeights, MinPercentile, MinCriteria,       \* minervini.*
    DamagedMax, FairMax, ExtendedMax,       \* execution.*, the first negated
    ScoreWeights, CandidateLimit, TruncationMultiple

NoQuote == [close |-> 0]
QuoteBars == [close : Nat \ {0}, volume : Nat \cup {Missing}, rsi : Nat, atr : Nat]
DayQuotes == [Members -> QuoteBars \cup {NoQuote}]

Amounts == Int \cup {Missing}
FilingContents == [income : Amounts, fcf : Amounts, assets : Amounts, equity : Amounts]

\* A period has one filing of a day.
ASSUME ScreeningConstants ==
    /\ Order \in Seq(Members) /\ IsInjective(Order) /\ Range(Order) = Members
    /\ {MaxDays, Quarters, VolumeDays, ShortBars, MidBars, LongBars, OscillatorBars,
        TrendShort, TrendLong, YearBars, MinYearBars, CandidateLimit} \subseteq Nat \ {0}
    /\ ShortBars < LongBars /\ TrendShort < TrendLong
    /\ {TruncationMultiple, FloorRows, MinVolume, MinEquity} \subseteq Nat
    /\ Missing \notin Int
    /\ FirstQuotes \in Seq(DayQuotes) /\ Quotes \subseteq DayQuotes
    /\ IsFiniteSet(FirstFilings)
    /\ \A f \in FirstFilings : f.period \in Nat /\ f.filed \in 1..Len(FirstQuotes)
                              /\ f.report \in FilingContents
    /\ \A f, g \in FirstFilings :
          <<f.symbol, f.period, f.filed>> = <<g.symbol, g.period, g.filed>> => f = g
    /\ \A r \in Reports : r.period \in Nat /\ r.report \in FilingContents

VARIABLES
    strategy,       \* the strategies.yaml entry the runs screen with
    quotes,         \* the sessions stored: symbol -> bar
    filings,        \* the fundamentals table
    screens         \* screens[d]: what the run of session d recorded

screeningVars == <<strategy, quotes, filings, screens>>

Checks(key) ==
    IF key = "default"
    THEN [filters |-> <<"profitable_positive_fcf_equity", "volume_min">>,
          signals |-> <<"trend_sma", "pullback_rsi">>]
    ELSE [filters |-> <<"profitable_positive_fcf_equity", "volume_min">>,
          signals |-> <<"minervini_stage2">>]

\* Signals that rank a symbol against the others they are handed.
PopulationDependent == {"minervini_stage2"}

RequiredBars(key) ==
    IF key = "default" THEN Max({LongBars, TrendLong})
    ELSE Max({LongBars, 1 + Max(Range(RsPeriods))})

\* What a run of session d may see: at most so many rows back, and the
\* filings dated by then.
Input(stored, reports, d, rows) ==
    [bars |-> SubSeq(stored, Max({1, d - rows + 1}), d),
     fundamentals |-> reports,
     asOf |-> d]

-----------------------------------------------------------------------------
(* Indicators.                                                             *)

\* The sessions that have a bar of the symbol.
Window(data, s) ==
    LET known[n \in 0..Len(data.bars)] ==
            IF n = 0 THEN <<>>
            ELSE IF data.bars[n][s] = NoQuote THEN known[n - 1]
            ELSE Append(known[n - 1], data.bars[n][s])
    IN  known[Len(data.bars)]

Latest(window) == window[Len(window)]

\* Averages are kept in this unit, in which each of the periods divides.
Unit == ShortBars * MidBars * LongBars * TrendShort * TrendLong

SmaKnown(window, n) == Len(window) >= n
Sma(window, n) ==
    (Unit \div n) * MapThenSumSet(LAMBDA i : window[i].close,
                                  (Len(window) - n + 1)..Len(window))
Close(window) == Unit * Latest(window).close

\* The first bar has a range, but no change.
RsiKnown(window) == Len(window) > OscillatorBars
AtrKnown(window) == Len(window) >= OscillatorBars

LastVolumes(window) == {i \in DOMAIN window : i > Len(window) - VolumeDays}
\* The average of the last volumes skips those that are missing.
KnownVolumes(window) == {i \in LastVolumes(window) : window[i].volume # Missing}
VolumeKnown(window) == Len(window) >= VolumeDays /\ KnownVolumes(window) # {}
VolumeSum(window) ==
    LET volume(n) == window[Len(window) - VolumeDays + n].volume
        sum[n \in 0..VolumeDays] ==
            IF n = 0 THEN 0
            ELSE sum[n - 1] + (IF volume(n) = Missing THEN 0 ELSE volume(n))
    IN  sum[VolumeDays]
VolumeFloor(window) == Cardinality(KnownVolumes(window)) * MinVolume
\* In thousandths, which tell any two averages over up to 32 days apart.
MeanVolume(window) == (1000 * VolumeSum(window)) \div Cardinality(KnownVolumes(window))

\* Equal values share the middle of their ranks; one value alone ranks 500.
PercentileRank(value, s) ==
    LET below == {t \in DOMAIN value : value[t] < value[s]}
        level == {t \in DOMAIN value : value[t] = value[s]}
        others == Cardinality(DOMAIN value) - 1
    IN  IF others = 0 THEN 500
        ELSE (1000 * (2 * Cardinality(below) + Cardinality(level) - 1)) \div (2 * others)

-----------------------------------------------------------------------------
(* The filters.                                                            *)

Positive(value) == value # Missing /\ value > 0

\* A bug: a period's last filing is chosen before the as-of cut.
RecentCutLast(data, s) ==
    LET own == {f \in data.fundamentals : f.symbol = s}
        latest == {f \in own : ~\E g \in own : g.period = f.period /\ g.filed > f.filed}
        available == {f \in latest : f.filed <= data.asOf}
    IN  {f \in available : Cardinality({g \in available : g.period > f.period}) < Quarters}

\* The newest quarters, each as last filed by the day.
Recent(data, s) ==
    LET available == {f \in data.fundamentals : f.symbol = s /\ f.filed <= data.asOf}
        latest == {f \in available :
                    ~\E g \in available : g.period = f.period /\ g.filed > f.filed}
    IN  {f \in latest : Cardinality({g \in latest : g.period > f.period}) < Quarters}

Newest(recent) == CHOOSE f \in recent : \A g \in recent : g.period <= f.period

Profitable(data) ==
    {s \in Members :
        LET recent == Recent(data, s)
        IN  /\ Cardinality(recent) = Quarters
            /\ \A f \in recent : Positive(f.report.income)
            /\ LET last == Newest(recent).report
               IN  /\ Positive(last.fcf)
                   /\ last.assets \notin {Missing, 0}
                   /\ last.equity # Missing
                   /\ 1000 * last.equity > MinEquity * last.assets}

VolumeMin(data) ==
    {s \in Members :
        /\ VolumeKnown(Window(data, s))
        /\ VolumeSum(Window(data, s)) > VolumeFloor(Window(data, s))}

Passing(data, filter) ==
    IF filter = "volume_min" THEN VolumeMin(data) ELSE Profitable(data)

-----------------------------------------------------------------------------
(* The signals: what each says of the symbols it is handed.                *)

TrendSma(data, symbols) ==
    {s \in symbols :
        LET window == Window(data, s)
        IN  /\ SmaKnown(window, TrendLong)
            /\ Close(window) > Sma(window, TrendLong)
            /\ Sma(window, TrendShort) > Sma(window, TrendLong)}

Distance(window) ==
    Max({Close(window) - Sma(window, ShortBars), Sma(window, ShortBars) - Close(window)})

\* Without a multiple the band is 3% of the average.
WithinBand(window) ==
    LET atr == Latest(window).atr
    IN  IF BandMultiple = 0 THEN 100 * Distance(window) <= 3 * Sma(window, ShortBars)
        ELSE AtrKnown(window) /\ atr > 0 /\ Distance(window) <= BandMultiple * Unit * atr

PullbackRsi(data, symbols) ==
    {s \in symbols :
        LET window == Window(data, s)
        IN  /\ RsiKnown(window) /\ SmaKnown(window, ShortBars)
            /\ Latest(window).rsi < RsiThreshold
            /\ WithinBand(window)}

\* The weighted return that relative strength ranks; a shorter history, or one
\* that starts at no price, has none.
Strength(window) ==
    MapThenSumSet(
        LAMBDA i : RsWeights[i]
            * ((1000 * Latest(window).close) \div window[Len(window) - RsPeriods[i]].close),
        DOMAIN RsPeriods)

RsPercentile(data, symbols) ==
    LET known == {s \in symbols : Len(Window(data, s)) > Max(Range(RsPeriods))}
    IN  [s \in known |->
            PercentileRank([t \in known |-> Strength(Window(data, t))], s)]

\* Whether the long average has risen on each of the last days.
RisingLong(window) ==
    /\ Len(window) >= LongBars + RisingDays
    /\ \A i \in 0..(RisingDays - 1) :
        window[Len(window) - i].close > window[Len(window) - i - LongBars].close

Template(window, percentile) ==
    LET averages == SmaKnown(window, LongBars)
        year == {window[i].close : i \in {j \in DOMAIN window : j > Len(window) - YearBars}}
        listed == Len(window) >= MinYearBars
        close == Latest(window).close
    IN  << averages /\ Close(window) > Sma(window, MidBars)
                    /\ Close(window) > Sma(window, LongBars),
           averages /\ Sma(window, MidBars) > Sma(window, LongBars),
           RisingLong(window),
           averages /\ Close(window) > Sma(window, ShortBars),
           listed /\ 1000 * close >= Min(year) * LowMultiple,
           listed /\ 1000 * close >= Max(year) * HighMultiple,
           percentile # Missing /\ percentile >= MinPercentile >>

CriteriaMet(conditions) == Cardinality({i \in DOMAIN conditions : conditions[i]})

MinerviniStage2(data, symbols) ==
    LET percentile == RsPercentile(data, symbols)
        of(s) == IF s \in DOMAIN percentile THEN percentile[s] ELSE Missing
    IN  {s \in symbols :
            /\ Window(data, s) # <<>>
            /\ CriteriaMet(Template(Window(data, s), of(s))) >= MinCriteria}

Hits(data, signal, symbols) ==
    CASE signal = "trend_sma" -> TrendSma(data, symbols)
      [] signal = "pullback_rsi" -> PullbackRsi(data, symbols)
      [] signal = "minervini_stage2" -> MinerviniStage2(data, symbols)

-----------------------------------------------------------------------------
(* The ranking.                                                            *)

Rankable(window) ==
    /\ SmaKnown(window, LongBars)
    /\ RsiKnown(window) /\ AtrKnown(window)
    /\ VolumeKnown(window)
    /\ Latest(window).close > 0

\* Where the close stands from the short average, in ATRs.
ExecutionState(window) ==
    LET gap == Close(window) - Sma(window, ShortBars)
        atr == Unit * Latest(window).atr
    IN  CASE atr = 0 -> "UNKNOWN"
          [] atr # 0 /\ gap < -DamagedMax * atr -> "DAMAGED"
          [] atr # 0 /\ gap >= -DamagedMax * atr /\ gap < 0 -> "PULLBACK_ZONE"
          [] atr # 0 /\ gap >= 0 /\ gap < FairMax * atr -> "FAIR"
          [] atr # 0 /\ gap >= FairMax * atr /\ gap < ExtendedMax * atr -> "EXTENDED"
          [] atr # 0 /\ gap >= ExtendedMax * atr -> "OVEREXTENDED"

\* 0: consider now, 1: watch, 2: pass.
ExecutionBucket(state) ==
    CASE state \in {"PULLBACK_ZONE", "FAIR"} -> 0
      [] state = "EXTENDED" -> 1
      [] state \in {"UNKNOWN", "DAMAGED", "OVEREXTENDED"} -> 2

PerMille(value) == Max({0, Min({1000, value})})

\* Those that weigh in strategies.yaml: its weights of volatility, pivot
\* proximity, relative strength and criteria met are 0.
Components(window, liquidity) ==
    [rsi_pullback |->
        PerMille((1000 * (RsiThreshold - Latest(window).rsi)) \div RsiThreshold),
     trend_quality |->
        PerMille(10 * ((1000 * Sma(window, ShortBars)) \div Sma(window, LongBars) - 1000)),
     liquidity |-> liquidity]

\* The liquidity component ranks a symbol among the hits of the day.
Score(data, hits, s) ==
    LET volumes == [t \in hits |-> MeanVolume(Window(data, t))]
        components == Components(Window(data, s), PercentileRank(volumes, s))
    IN  MapThenSumSet(LAMBDA name : ScoreWeights[name] * components[name],
                      DOMAIN ScoreWeights)

Alphabetical == Inverse(Order, DOMAIN Order, Members)

RanksBefore(data, hits, s, t) ==
    LET bucket(u) == ExecutionBucket(ExecutionState(Window(data, u)))
    IN  \/ bucket(s) < bucket(t)
        \/ bucket(s) = bucket(t) /\ Score(data, hits, s) > Score(data, hits, t)
        \/ /\ bucket(s) = bucket(t) /\ Score(data, hits, s) = Score(data, hits, t)
           /\ Alphabetical[s] < Alphabetical[t]

\* A symbol goes behind those that rank before it.
Ranked(data, hits, ranking, s) ==
    InsertAt(ranking, 1 + Cardinality({i \in DOMAIN ranking : RanksBefore(data, hits, ranking[i], s)}), s)

Ranking(data, hits) ==
    LET ranking[n \in 0..Len(Order)] ==
            IF n = 0 THEN <<>>
            ELSE IF Order[n] \in hits THEN Ranked(data, hits, ranking[n - 1], Order[n])
            ELSE ranking[n - 1]
    IN  ranking[Len(Order)]

-----------------------------------------------------------------------------
(* The classifier: why one check stops one symbol.                         *)

Stopped(stage, code) == [stage |-> stage, code |-> code]
NoData(code) == Stopped("data_quality", code)
Passes == Stopped("", "")

ClassifyNetIncome(recent) ==
    LET failing == {f \in recent : ~Positive(f.report.income)}
    IN  IF Newest(failing).report.income = Missing THEN NoData("MISSING_NET_INCOME")
        ELSE Stopped("fundamental_filter", "NEGATIVE_NET_INCOME")

ClassifyFundamentals(data, s) ==
    LET recent == Recent(data, s)
        last == Newest(recent).report
    IN  IF Cardinality(recent) < Quarters THEN NoData("INSUFFICIENT_HISTORY")
        ELSE IF \E f \in recent : ~Positive(f.report.income)
        THEN ClassifyNetIncome(recent)
        ELSE IF ~Positive(last.fcf) THEN Stopped("fundamental_filter", "NEGATIVE_FCF")
        ELSE IF \/ last.assets \in {Missing, 0}
                \/ last.equity = Missing
                \/ 1000 * last.equity <= MinEquity * last.assets
        THEN Stopped("fundamental_filter", "LOW_EQUITY_RATIO")
        ELSE Passes

\* A comparison with an average of no volumes is false.
ClassifyLiquidity(data, s) ==
    LET window == Window(data, s)
    IN  IF Len(window) < VolumeDays THEN NoData("INSUFFICIENT_HISTORY")
        ELSE IF VolumeKnown(window) /\ VolumeSum(window) <= VolumeFloor(window)
        THEN Stopped("fundamental_filter", "LOW_LIQUIDITY")
        ELSE Passes

ClassifyFilter(data, s, filter) ==
    IF filter = "volume_min" THEN ClassifyLiquidity(data, s)
    ELSE ClassifyFundamentals(data, s)

ClassifyTrendSma(window) ==
    IF ~SmaKnown(window, TrendLong) THEN NoData("INSUFFICIENT_HISTORY")
    ELSE Stopped("technical_signal", "TREND_NOT_MET")

\* A pullback deep enough was stopped by the band.
ClassifyPullbackRsi(window) ==
    IF ~(RsiKnown(window) /\ SmaKnown(window, ShortBars))
    THEN NoData("INSUFFICIENT_HISTORY")
    ELSE IF Latest(window).rsi < RsiThreshold
    THEN Stopped("technical_signal", "TREND_NOT_MET")
    ELSE Stopped("technical_signal", "RSI_NOT_MET")

ClassifyMinervini(window) ==
    IF Len(window) < MinYearBars THEN NoData("INSUFFICIENT_HISTORY")
    ELSE Stopped("technical_signal", "TREND_NOT_MET")

ClassifySignal(data, s, signal) ==
    LET window == Window(data, s)
    IN  CASE signal = "trend_sma" -> ClassifyTrendSma(window)
          [] signal = "pullback_rsi" -> ClassifyPullbackRsi(window)
          [] signal = "minervini_stage2" -> ClassifyMinervini(window)

\* The first check that stops the symbol, filters before signals; a symbol no
\* check stops could not be ranked.
Rejection(data, checks, hits, s) ==
    LET failing == {i \in DOMAIN checks.filters :
                        ClassifyFilter(data, s, checks.filters[i]) # Passes}
        missing == {i \in DOMAIN checks.signals : s \notin hits[i]}
    IN  IF failing # {}
        THEN [check |-> checks.filters[Min(failing)],
              why |-> ClassifyFilter(data, s, checks.filters[Min(failing)])]
        ELSE IF missing # {}
        THEN [check |-> checks.signals[Min(missing)],
              why |-> ClassifySignal(data, s, checks.signals[Min(missing)])]
        ELSE [check |-> "ranking", why |-> NoData("INSUFFICIENT_HISTORY")]

-----------------------------------------------------------------------------
(* The screen of one day, and the matrix that measures it again.           *)

Retained(truncated) ==
    SubSeq(truncated, 1, Min({Len(truncated), TruncationMultiple * CandidateLimit}))

Screen(data, checks) ==
    LET filtered == {s \in Members : \A i \in DOMAIN checks.filters :
                                        s \in Passing(data, checks.filters[i])}
        hits == [i \in DOMAIN checks.signals |-> Hits(data, checks.signals[i], filtered)]
        rankable == {s \in filtered : /\ \A i \in DOMAIN hits : s \in hits[i]
                                      /\ Rankable(Window(data, s))}
        ranking == Ranking(data, rankable)
        limit == Min({CandidateLimit, Len(ranking)})
    IN  [candidates |-> SubSeq(ranking, 1, limit),
         truncations |-> Retained(SubSeq(ranking, limit + 1, Len(ranking))),
         rejections |-> [s \in Members \ rankable |-> Rejection(data, checks, hits, s)],
         hits |-> hits]

\* Every check the symbol fails, each measured over the whole universe: its
\* place among the checks.
CheckNames(checks) == checks.filters \o checks.signals

BlockedBy(data, checks, s) ==
    {i \in DOMAIN CheckNames(checks) :
        LET name == CheckNames(checks)[i]
        IN  IF i <= Len(checks.filters) THEN s \notin Passing(data, name)
            ELSE s \notin Hits(data, name, Members)}

\* A bug: what no check blocks is a candidate, rankable or not.
UnblockedSymbols(data, checks) ==
    {s \in Members : BlockedBy(data, checks, s) = {}}

\* What the screen would have emitted before its limit.
CandidateEquivalent(data, checks) ==
    {s \in Members : /\ BlockedBy(data, checks, s) = {}
                     /\ Rankable(Window(data, s))}

\* A check that blocks a symbol lacks data about it, or says no.  A filter that
\* blocks what its mirror passes lacks data.
LacksData(data, checks, s, name) ==
    IF name \in Range(checks.filters)
    THEN ClassifyFilter(data, s, name) = Passes
         \/ ClassifyFilter(data, s, name).stage = "data_quality"
    ELSE ClassifySignal(data, s, name).stage = "data_quality"

-----------------------------------------------------------------------------
(* Behaviour.                                                              *)

ScreeningInit ==
    /\ strategy \in StrategyKeys
    /\ quotes = FirstQuotes
    /\ filings = FirstFilings
    /\ screens = [d \in {} |-> 0]

\* The next day: its session is stored, and at most one filing, and the daily
\* run screens and records.
ScreenDay(session, arrived) ==
    /\ Len(quotes) < MaxDays
    /\ quotes' = Append(quotes, session)
    /\ filings' = filings \cup arrived
    /\ LET day == Len(quotes) + 1
           data == Input(quotes', filings', day, Max({FloorRows, RequiredBars(strategy)}))
       IN  screens' = [d \in DOMAIN screens \cup {day} |->
                          IF d = day THEN Screen(data, Checks(strategy)) ELSE screens[d]]
    /\ UNCHANGED strategy

ArrivingFilings ==
    {{}} \cup
        IF Cardinality(filings \ FirstFilings) = MaxReports THEN {}
        ELSE {{[symbol |-> r.symbol, period |-> r.period, report |-> r.report,
                filed |-> Len(quotes) + 1 - lag]} : r \in Reports, lag \in FilingLags}

ScreeningNext ==
    \E session \in Quotes, arrived \in ArrivingFilings : ScreenDay(session, arrived)

ScreeningSpec == ScreeningInit /\ [][ScreeningNext]_screeningVars

-----------------------------------------------------------------------------
(* Properties.                                                             *)

MatrixAt(d) == Input(quotes, filings, d, FloorRows)

\* The matrix and the record are computed by different code, at different
\* times, from different reads.  For every recorded day they agree, as long as
\* no signal depends on its population: the matrix's candidates are the
\* recorded candidates and near misses (as many as are kept), and every other
\* symbol is recorded with the first check the matrix says blocks it, and as a
\* data gap exactly where the matrix counts one.
MatrixAgrees ==
    \A d \in DOMAIN screens :
        LET checks == Checks(strategy)
            equivalent == CandidateEquivalent(MatrixAt(d), checks)
            ranked == screens[d].candidates \o screens[d].truncations
        IN  Range(checks.signals) \cap PopulationDependent = {} =>
                /\ ToSet(ranked) \subseteq equivalent
                /\ Len(ranked) = Min({Cardinality(equivalent),
                                      (1 + TruncationMultiple) * CandidateLimit})
                /\ DOMAIN screens[d].rejections = Members \ equivalent
                /\ \A s \in Members \ equivalent :
                    LET recorded == screens[d].rejections[s]
                        blocked == BlockedBy(MatrixAt(d), checks, s)
                        first == CheckNames(checks)[Min(blocked)]
                    IN  IF blocked = {} THEN recorded.check = "ranking"
                        ELSE /\ recorded.check = first
                             /\ (recorded.why.stage = "data_quality")
                                = LacksData(MatrixAt(d), checks, s, first)

\* Screening a past day again, on what is stored today, repeats what its run
\* recorded, ranking and reasons included: nothing that came later is seen.
ScreensRepeat ==
    \A d \in DOMAIN screens :
        screens[d] = Screen(Input(quotes, filings, d, Max({FloorRows, RequiredBars(strategy)})),
                            Checks(strategy))
=============================================================================
