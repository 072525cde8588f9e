---------------------------- MODULE RetroMetrics ----------------------------
(* The numbers the retrospective's dossier states about a window of         *)
(* verdicts (retro/aggregate.py, retro/surprises.py, retro/export.py): the  *)
(* separation between "proceed" and "skip" pooled, paired by day and paired *)
(* on the excess over the benchmark; the two rates with their baselines;    *)
(* the tallies by evidence, by configuration and by the completeness of the *)
(* filings behind them; and the shadow ledger's record.                     *)
(*                                                                          *)
(* A run is its session, one per day (retro/adoption.py has chosen it). A   *)
(* return is a whole percentage and a mean a pair <<sum, count>>, compared  *)
(* by cross-multiplication; a pair whose count is 0 is a metric without a   *)
(* value. Standard errors and intervals are left out.                       *)
EXTENDS Integers, Sequences, FiniteSets, FiniteSetsExt, Functions

CONSTANTS
    RunDays,             \* the runs' sessions are 1..RunDays
    Horizons,            \* the two horizons in sessions, shortest first
    HorizonWeights,      \* their weights in a headline
    Slates,              \* what a run may judge: [symbol -> its verdict and inputs]
    Returns,             \* Returns[i]: the returns a symbol may make over Horizons[i]
    BenchmarkReturn,     \* the benchmark's, where it was measured,
    BenchmarkKnown,      \* and BenchmarkKnown[i]: whether it may have been
    Neutral, SevereMove, \* the noise band and the severity boundary
    WatchPerMille,       \* PROCEED_SEVERE_MISS_WATCH_RATE
    MaxSurprises,
    FilingFloor,         \* MIN_FILING_CHARS
    ExitPrices, MaxClosings,
    Holes                \* sessions whose benchmark bar may be lost

VARIABLES
    clock,               \* the last session there was
    benchmark,           \* the sessions the store has a benchmark bar of
    verdicts,            \* the archive's verdicts, with the inputs recorded for each
    outcomes,            \* verdict_outcomes
    shadow               \* the shadow positions of the tracking ledger

metricVars == <<clock, benchmark, verdicts, outcomes, shadow>>

Proceed == "proceed"
Untagged == "untagged"
Unrecorded == "unrecorded"

(*************************** Evaluating a verdict ***************************)

LastSession == RunDays + Horizons[1]

\* find_maturity_trading_day counts the benchmark's own sessions.
SessionsFrom(day) == {d \in benchmark : d >= day /\ d <= clock}
Matured(day, h) ==
    /\ day \in benchmark
    /\ Cardinality(SessionsFrom(day)) > h
MaturitySession(day, h) ==
    CHOOSE d \in SessionsFrom(day) :
        Cardinality({e \in SessionsFrom(day) : e < d}) = h

Classification(recommendation, return) ==
    IF recommendation = Proceed
    THEN CASE return > -Neutral     -> "HIT"
           [] return <= -SevereMove -> "MISS_SEVERE"
           [] OTHER                 -> "MISS_MILD"
    ELSE CASE return <= -Neutral    -> "HIT"
           [] return < Neutral      -> "NEUTRAL"
           [] return >= SevereMove  -> "MISS_SEVERE"
           [] OTHER                 -> "MISS_MILD"

(********************************** Means ***********************************)

NoValue == <<0, 0>>
HasValue(m) == m[2] # 0
MeanOver(rows, Value(_)) == <<MapThenSumSet(Value, rows), Cardinality(rows)>>
Gap(a, b) == <<a[1] * b[2] - b[1] * a[2], a[2] * b[2]>>
SameValue(a, b) == HasValue(a) = HasValue(b) /\ a[1] * b[2] = b[1] * a[2]
AtMost(a, b) == a[1] * b[2] <= b[1] * a[2]

PlusMean(a, b) == <<a[1] * b[2] + b[1] * a[2], a[2] * b[2]>>
MeanOfMeans(m) ==   \* the mean of the values of a function to means
    IF DOMAIN m = {} THEN NoValue
    ELSE LET sum == FoldFunction(PlusMean, <<0, 1>>, m)
         IN  <<sum[1], sum[2] * Cardinality(DOMAIN m)>>

AtHorizon(rows, i) == {row \in rows : row.horizon = Horizons[i]}
ProceedRows(rows) == {row \in rows : row.recommendation = Proceed}
Skips(rows) == rows \ ProceedRows(rows)

RawReturn(row) == row.return
ExcessReturn(row) == row.return - row.benchmark
Measured(rows) == {row \in rows : row.benchmarkKnown}

\* The headline: weighted over the horizons that have a value, and over those only.
ComposedMean(values) ==
    LET known == {i \in DOMAIN values : HasValue(values[i])}
        weighted == [i \in known |->
            <<HorizonWeights[i] * values[i][1], values[i][2]>>]
        sum == FoldFunction(PlusMean, <<0, 1>>, weighted)
    IN  <<sum[1], sum[2] * MapThenSumSet(LAMBDA i : HorizonWeights[i], known)>>

(******************************** Separation ********************************)

SeparationFor(rows) ==
    IF ProceedRows(rows) = {} \/ Skips(rows) = {} THEN NoValue
    ELSE Gap(MeanOver(ProceedRows(rows), RawReturn), MeanOver(Skips(rows), RawReturn))
Separation(rows) == [i \in DOMAIN Horizons |-> SeparationFor(AtHorizon(rows, i))]

\* Cells are keyed on the maturity session and seeded from every row, usable or not.
WholeWindow(row) == 0   \* a plausible bug: the pooled difference under the paired name
CellOf(row) == row.asOf
PairedSeparationFor(rows, usable, value) ==      \* value[row]: what the row counts
    LET cells == {CellOf(row) : row \in rows}
        In(c) == {row \in usable : CellOf(row) = c}
        Mean(part) == MeanOver(part, LAMBDA row : value[row])
        paired == {c \in cells : ProceedRows(In(c)) # {} /\ Skips(In(c)) # {}}
    IN  [value |-> MeanOfMeans([c \in paired |->
             Gap(Mean(ProceedRows(In(c))), Mean(Skips(In(c))))]),
         sample |-> Cardinality(usable),
         excludedDays |-> Cardinality(cells \ paired)]

SeparationPaired(rows) ==
    [i \in DOMAIN Horizons |->
        PairedSeparationFor(AtHorizon(rows, i), AtHorizon(rows, i),
                            [row \in rows |-> RawReturn(row)])]
SeparationPairedExcess(rows) ==
    [i \in DOMAIN Horizons |->
        PairedSeparationFor(AtHorizon(rows, i), Measured(AtHorizon(rows, i)),
                            [row \in Measured(rows) |-> ExcessReturn(row)])]

(********************************** Rates ***********************************)

SevereMissParts(rows) ==
    [hits |-> {row \in ProceedRows(rows) : row.class = "MISS_SEVERE"},
     trials |-> ProceedRows(rows),
     baseHits |-> {row \in rows : row.return <= -SevereMove},
     baseTrials |-> rows]

SkipHitPartsOfMisses(rows) ==   \* a plausible bug: the boundary falls out of the pool
    [hits |-> {row \in Skips(rows) : row.class = "HIT"},
     trials |-> {row \in Skips(rows) : row.class # "NEUTRAL"},
     baseHits |-> {row \in rows : row.return <= -Neutral},
     baseTrials |-> {row \in rows : row.return < -Neutral \/ row.return > Neutral}]
SkipHitParts(rows) ==
    [hits |-> {row \in Skips(rows) : row.class = "HIT"},
     trials |-> {row \in Skips(rows) : row.class # "NEUTRAL"},
     baseHits |-> {row \in rows : row.return <= -Neutral},
     baseTrials |-> {row \in rows : row.return <= -Neutral \/ row.return >= Neutral}]

\* The headline weighs counts, never two rates of different sample sizes.
Rate(parts) ==          \* parts[i]: what a horizon contributes
    LET Over(Part(_)) == MapThenSumSet(
            LAMBDA i : HorizonWeights[i] * Cardinality(Part(parts[i])), DOMAIN parts)
    IN  [value |-> <<Over(LAMBDA p : p.hits), Over(LAMBDA p : p.trials)>>,
         baseline |-> <<Over(LAMBDA p : p.baseHits), Over(LAMBDA p : p.baseTrials)>>]
Lower(a, b) == HasValue(a) /\ HasValue(b) /\ a[1] * b[2] < b[1] * a[2]
FlagSevere(rate) ==
    \/ Lower(<<WatchPerMille, 1000>>, rate.value)
    \/ Lower(rate.baseline, rate.value)
FlagBelowBaseline(rate) == Lower(rate.value, rate.baseline)

(********************************* Tallies **********************************)

OutcomesOf(rows, v) == {row \in rows : row.day = v.day /\ row.symbol = v.symbol}
Tally(rows, judged) ==
    LET linked == UNION {OutcomesOf(rows, v) : v \in judged}
        Count(class) == Cardinality({row \in linked : row.class = class})
    IN  [used |-> Cardinality(judged), hits |-> Count("HIT"), neutrals |-> Count("NEUTRAL"),
         misses |-> Count("MISS_MILD") + Count("MISS_SEVERE")]

\* A verdict's untagged reasons are a basis of their own.
Bases(v) == IF v.bases = {} THEN {Untagged} ELSE v.bases
BasisContribution(rows) ==
    [b \in UNION {Bases(v) : v \in verdicts} |->
        Tally(rows, {v \in verdicts : b \in Bases(v)})]
SourceContribution(rows) ==
    [p \in UNION {v.cited : v \in verdicts} |->
        Tally(rows, {v \in verdicts : p \in v.cited})]

VerdictMix == [runs |-> Cardinality({v.day : v \in verdicts}),
               proceed |-> Cardinality(ProceedRows(verdicts)),
               skip |-> Cardinality(verdicts) - Cardinality(ProceedRows(verdicts))]
NewsSupplyMix ==
    [cell \in {<<v.supply, v.recommendation>> : v \in verdicts} |->
        Cardinality({v \in verdicts : <<v.supply, v.recommendation>> = cell})]

\* A run whose configuration is no longer known is in no configuration's slice.
AggregatesByConfig(rows) ==
    [c \in {row.config : row \in rows} \ {Unrecorded} |->
        LET slice == {row \in rows : row.config = c}
        IN  [outcomes |-> Cardinality(slice), separation |-> Separation(slice)]]

(******************* Surprises and the input behind them ********************)

SevereKeys(rows) == {<<row.day, row.symbol>> : row \in {r \in rows : r.class = "MISS_SEVERE"}}
Size(return) == IF return < 0 THEN -return ELSE return
Peak(rows, key) ==
    Max({Size(row.return) : row \in {r \in rows :
        <<r.day, r.symbol>> = key /\ r.class = "MISS_SEVERE"}})
\* Ties go to the earlier run, then by symbol; which symbol comes first is immaterial here.
SelectSurprises(rows) ==
    LET keys == SevereKeys(rows)
        kept == CHOOSE chosen \in SUBSET keys :
            /\ Cardinality(chosen) = Min({MaxSurprises, Cardinality(keys)})
            /\ \A a \in chosen, b \in keys \ chosen :
                   \/ Peak(rows, a) > Peak(rows, b)
                   \/ Peak(rows, a) = Peak(rows, b) /\ a[1] <= b[1]
    IN  [selected |-> kept, dropped |-> Cardinality(keys) - Cardinality(kept)]

IsTruncated(f) == f.exported < f.original
HasGap(f) == IsTruncated(f) \/ f.exhibit = "cut"
IsStarved(f) == f.exported <= FilingFloor /\ f.exported < f.original
Filings(key) == UNION {v.filings : v \in {w \in verdicts : <<w.day, w.symbol>> = key}}
SevereKeysOfSymbols(rows) ==   \* a plausible bug: a symbol's misses are one, whichever run's
    {key \in SevereKeys(rows) : \A other \in SevereKeys(rows) :
        other[2] = key[2] => key[1] <= other[1]}
CoverageKeys(rows) == SevereKeys(rows)
InputCoverage(rows) ==
    LET severe == CoverageKeys(rows)
        withGap == {k \in severe : \E f \in Filings(k) : HasGap(f)}
        withoutGap == {k \in severe : Filings(k) # {} /\ \A f \in Filings(k) :
                                          ~HasGap(f) /\ f.exhibit # Unrecorded}
    IN  [withGap |-> withGap, withoutGap |-> withoutGap,
         unknown |-> severe \ (withGap \cup withoutGap)]

(**************************** The shadow ledger *****************************)

\* pnl is the return in percent: every position is sized to the same notional.
ShadowPnl(p) == (p.exit - p.entry) * (100 \div p.entry)
IsTrade(p) == p.exit # 0
\* The risk is the one taken at entry; the trailing stop the position ends with is not it.
MultipleOfRisk(p) == <<p.exit - p.entry, p.entry - p.initialStop>>
HasRisk(p) == IsTrade(p) /\ p.initialStop # 0 /\ p.initialStop < p.entry
TrackedPerformance(positions) ==
    LET trades == {p \in positions : IsTrade(p)}
        rated == {p \in positions : HasRisk(p)}
    IN  [closed |-> Cardinality(trades),
         open |-> Cardinality({p \in positions : p.exit = 0}),
         wins |-> Cardinality({p \in trades : ShadowPnl(p) > 0}),
         pnl |-> MapThenSumSet(ShadowPnl, trades),
         risk |-> MeanOfMeans([p \in rated |-> MultipleOfRisk(p)])]

(******************************** The machine *******************************)

MetricInit ==
    /\ clock = 0 /\ benchmark = {}
    /\ verdicts = {} /\ outcomes = {} /\ shadow = {}

VerdictOf(day, slate, s) ==
    [day |-> day, symbol |-> s, recommendation |-> slate[s].recommendation,
     bases |-> slate[s].bases, cited |-> slate[s].cited, supply |-> slate[s].supply,
     filings |-> slate[s].filings, config |-> slate[s].config]
PositionOf(day, slate, s) ==
    [day |-> day, symbol |-> s, recommendation |-> slate[s].recommendation,
     entry |-> slate[s].entry, initialStop |-> slate[s].stop, exit |-> 0]

\* A session with a run: its verdicts are archived and its positions opened.
JudgeSession ==
    /\ clock < RunDays
    /\ clock' = clock + 1
    /\ benchmark' = benchmark \cup {clock'}
    /\ \E slate \in Slates :
         /\ verdicts' = verdicts \cup {VerdictOf(clock', slate, s) : s \in DOMAIN slate}
         /\ shadow' = shadow \cup {PositionOf(clock', slate, s) : s \in DOMAIN slate}
    /\ UNCHANGED outcomes

PassSession ==
    /\ clock \in RunDays .. LastSession - 1
    /\ clock' = clock + 1
    /\ benchmark' = benchmark \cup {clock'}
    /\ UNCHANGED <<verdicts, outcomes, shadow>>

\* A re-fetch that drops one of the benchmark's bars, and the one that brings it back.
LoseBar == /\ \E d \in Holes \cap benchmark : benchmark' = benchmark \ {d}
           /\ UNCHANGED <<clock, verdicts, outcomes, shadow>>
RestoreBar == /\ \E d \in (Holes \cap 1..clock) \ benchmark : benchmark' = benchmark \cup {d}
              /\ UNCHANGED <<clock, verdicts, outcomes, shadow>>

\* One matured slice is evaluated whole; only a pending one, as the daily step does.
EvaluateSlice(day, i) ==
    LET judged == {v \in verdicts : v.day = day}
    IN  /\ judged # {}
        /\ Matured(day, Horizons[i])
        /\ \A row \in AtHorizon(outcomes, i) : row.day # day
        /\ \E made \in [judged -> Returns[i]], known \in BenchmarkKnown[i] :
             outcomes' = outcomes \cup
                 {[day |-> day, symbol |-> v.symbol, horizon |-> Horizons[i],
                   asOf |-> MaturitySession(day, Horizons[i]),
                   recommendation |-> v.recommendation, config |-> v.config,
                   return |-> made[v],
                   benchmarkKnown |-> known, benchmark |-> IF known THEN BenchmarkReturn ELSE 0,
                   class |-> Classification(v.recommendation, made[v])] : v \in judged}
        /\ UNCHANGED <<clock, benchmark, verdicts, shadow>>

\* MaxClosings bounds how many positions a behaviour closes.
ClosePosition ==
    /\ outcomes = {}
    /\ Cardinality({p \in shadow : p.exit # 0}) < MaxClosings
    /\ \E p \in shadow, price \in ExitPrices :
         /\ p.exit = 0
         /\ shadow' = (shadow \ {p}) \cup {[p EXCEPT !.exit = price]}
    /\ UNCHANGED <<clock, benchmark, verdicts, outcomes>>

MetricNext ==
    \/ JudgeSession \/ PassSession
    \/ LoseBar \/ RestoreBar
    \/ \E day \in 1..RunDays, i \in DOMAIN Horizons : EvaluateSlice(day, i)
    \/ ClosePosition

MetricSpec == MetricInit /\ [][MetricNext]_metricVars

(******************************** Properties ********************************)

\* A common move of all of a run day's symbols, of any size on any day.
MovedBy(rows, move) ==
    {[row EXCEPT !.return = @ + move[row.day],
                 !.benchmark = IF row.benchmarkKnown THEN @ + move[row.day] ELSE @] : row \in rows}

(* The market's own swings cancel out of the paired separations: had every  *)
(* symbol of any run day done equally better or worse, neither would state  *)
(* another number; and each run day evaluated is either in the mean or      *)
(* counted as excluded (_paired_separation_for).                            *)
PairingCancelsTheMarket ==
    \A i \in DOMAIN Horizons :
        LET rows == AtHorizon(outcomes, i)
            days == {row.day : row \in rows}
            BothSides(d) == LET cell == {row \in rows : row.day = d}
                            IN  ProceedRows(cell) # {} /\ Skips(cell) # {}
            raw == SeparationPaired(rows)[i]
            excess == SeparationPairedExcess(rows)[i]
        IN  /\ raw.excludedDays = Cardinality({d \in days : ~BothSides(d)})
            /\ \A d \in days :
                 LET moved == MovedBy(rows, [e \in 1..RunDays |-> IF e = d THEN 3 ELSE 0])
                 IN  /\ SameValue(raw.value, SeparationPaired(moved)[i].value)
                     /\ SameValue(excess.value, SeparationPairedExcess(moved)[i].value)

(* A rate and its baseline count the same event, though one reads the class *)
(* and the other the return: over verdicts of one side only, where the pool *)
(* is the selection, they are equal and the skip rate is not flagged; and a *)
(* headline lies between the horizons it is composed of                     *)
(* (compute_skip_hit_rate, compute_proceed_severe_miss_rate,                *)
(* _composed_mean).                                                         *)
RatesCountTheBaselinesEvent ==
    /\ \A horizons \in {{1}, {2}, {1, 2}} :
         LET skips == Rate([i \in horizons |-> SkipHitParts(AtHorizon(Skips(outcomes), i))])
             proceeds == Rate([i \in horizons |-> SevereMissParts(AtHorizon(ProceedRows(outcomes), i))])
         IN  /\ SameValue(skips.value, skips.baseline) /\ ~FlagBelowBaseline(skips)
             /\ SameValue(proceeds.value, proceeds.baseline)
             /\ FlagSevere(proceeds) <=> Lower(<<WatchPerMille, 1000>>, proceeds.value)
    /\ LET values == Separation(outcomes)
           known == {i \in DOMAIN Horizons : HasValue(values[i])}
           headline == ComposedMean(values)
       IN  /\ HasValue(headline) <=> known # {}
           /\ \E i, j \in DOMAIN Horizons : known # {} =>
                i \in known /\ j \in known /\ AtMost(values[i], headline) /\ AtMost(headline, values[j])

(* The dossier's blocks, computed apart, are about the same window: every   *)
(* severe miss has a dossier or is counted as dropped, and is counted once  *)
(* by the completeness of its input, a starved filing always as a gap; each *)
(* verdict is in one supply cell; every outcome of a known configuration is *)
(* in one slice; a basis every verdict rests on tallies the whole window;   *)
(* and the two sides of the shadow ledger make up the pool.                 *)
DossierBlocksAgree ==
    LET surprises == SelectSurprises(outcomes)
        coverage == InputCoverage(outcomes)
        byConfig == AggregatesByConfig(outcomes)
        all == TrackedPerformance(shadow)
        proceed == TrackedPerformance(ProceedRows(shadow))
        skip == TrackedPerformance(Skips(shadow))
        cells == NewsSupplyMix
    IN  /\ Cardinality(coverage.withGap) + Cardinality(coverage.withoutGap)
             + Cardinality(coverage.unknown)
           = Cardinality(surprises.selected) + surprises.dropped
        /\ \A k \in SevereKeys(outcomes) :
             (\E f \in Filings(k) : IsStarved(f)) => k \in coverage.withGap
        /\ SumFunction(cells) = VerdictMix.proceed + VerdictMix.skip
        /\ MapThenSumSet(LAMBDA c : byConfig[c].outcomes, DOMAIN byConfig)
           = Cardinality({row \in outcomes : row.config # Unrecorded})
        /\ \A tally \in {BasisContribution(outcomes), SourceContribution(outcomes)} :
             \A b \in DOMAIN tally : tally[b].used = Cardinality(verdicts) =>
                 tally[b].hits + tally[b].misses + tally[b].neutrals = Cardinality(outcomes)
        /\ all.closed = proceed.closed + skip.closed /\ all.open = proceed.open + skip.open
        /\ all.wins = proceed.wins + skip.wins /\ all.pnl = proceed.pnl + skip.pnl
=============================================================================
