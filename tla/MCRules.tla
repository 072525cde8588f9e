------------------------------ MODULE MCRules ------------------------------
(* The rules a day is decided and judged by, one area at a time: `area` is  *)
(* chosen at first, its module moves, and the others stay at their start.   *)
(* They share no state. (The rest of this module is each area's instance.)  *)
EXTENDS ProposalLedger, BacktestEngine, AnalysisDesk, MarketRegime, Screening,
        RetroMetrics, Postmortem, DiffGate, StateSchema

CONSTANTS k1, k2,                   \* proposal keys
          xom, ko, abt,             \* tickers
          aapl, n1, f1,             \* a candidate, its news item and filing
          ual, dal,                 \* judged symbols
          r1                        \* a run of the database
-----------------------------------------------------------------------------
\* ProposalLedger: one proposal with a reopen reason and one without for k1.
SomeOffers == {[key |-> k1, justified |-> TRUE], [key |-> k1, justified |-> FALSE],
               [key |-> k2, justified |-> FALSE]}
-----------------------------------------------------------------------------
\* BacktestEngine: four sessions and the one the last order fills in. Gaps,
\* stops hit, days without a bar or an ATR, a malformed bar, and bars a limit is
\* not reached in.
Candle(o, l, c, a) == [open |-> o, low |-> l, close |-> c, atr |-> a]
Level == Candle(10, 9, 10, 1)
Bars == <<
    {xom :> Level @@ ko :> Level, xom :> Candle(10, 9, 10, NoAtr) @@ ko :> Level,
     xom :> NoBar @@ ko :> Candle(10, 10, 10, 0)},
    {xom :> Candle(10, 8, 9, 1) @@ ko :> Candle(11, 10, 11, 1),
     xom :> Candle(14, 12, 12, 2) @@ ko :> Candle(10, 8, 9, 1),
     xom :> NoBar @@ ko :> Candle(14, 12, 12, 2),
     xom :> Candle(11, 10, 11, 1) @@ ko :> Candle(11, 10, 11, 1),
     xom :> Candle(0, 0, 10, 1) @@ ko :> Level},
    {xom :> b @@ ko :> b : b \in {Candle(7, 6, 7, 2), Candle(12, 11, 13, 1), NoBar}},
    {xom :> Candle(11, 10, 14, 1) @@ ko :> Candle(8, 7, 8, 1),
     xom :> Candle(8, 7, 8, 1) @@ ko :> NoBar},
    {xom :> b @@ ko :> Level : b \in {Candle(9, 9, 9, 1), NoBar}} >>
CandidateLists == {<<>>, <<xom, ko>>, <<ko>>}
Verdicts == <<"NEW_ENTRY_ALLOWED", "REDUCE_ONLY", "CASH_PRIORITY", "NEW_ENTRY_ALLOWED",
              "NEW_ENTRY_ALLOWED">>
Earnings == <<{}, {ko}, {xom}, {}, {}>>
Plans == {[multiple |-> 0, dayOrder |-> FALSE, concurrent |-> 2],
          [multiple |-> 0, dayOrder |-> TRUE, concurrent |-> 1],
          [multiple |-> 1, dayOrder |-> TRUE, concurrent |-> 2]}
-----------------------------------------------------------------------------
\* AnalysisDesk: two runs judge aapl, the second from news or from a filing,
\* whose text may be the one the first run read or an amended one.
Judged(news, filed) == aapl :> [news |-> news, filings |-> filed]
RunInputs == <<{Judged(<<>>, f1 :> 1)},
               {Judged(n1 :> 2, <<>>), Judged(<<>>, f1 :> 1), Judged(<<>>, f1 :> 2)}>>
Inventions == {[source |-> f1, quote |-> 2]}
-----------------------------------------------------------------------------
\* MarketRegime: six flat sessions and a fall, then sessions that fall, rally,
\* gain on volume, and one QQQ has no bar of.
Quote(c, l, h, v) == [close |-> c, low |-> l, high |-> h, volume |-> v]
Both(q) == [spy |-> q, qqq |-> q, vix |-> 10]
Fall == Both(Quote(94, 93, 97, 6))
Start == [n \in 1..6 |-> Both(Quote(100, 99, 101, 5))] \o <<Fall>>
MoreSessions == {
    Fall, Both(Quote(90, 89, 93, 5)), Both(Quote(91, 88, 93, 6)), Both(Quote(86, 85, 89, 7)),
    [spy |-> Quote(93, 90, 94, 7), qqq |-> Quote(93, 90, 94, 7), vix |-> 0],
    [spy |-> Quote(100, 95, 101, 6), qqq |-> Unlisted, vix |-> 40]}
CountSpans == <<4, 3, 2>>
SevereCounts == <<6, 5>>
HighCounts == <<4, 3, 2>>
-----------------------------------------------------------------------------
\* Screening: three symbols; sessions in which each fails another check, or
\* none, or has no bar; one report that may arrive with a fault of its own.
Alphabet == <<abt, ko, xom>>
Session(a, k, x) == abt :> a @@ ko :> k @@ xom :> x
Day(c, v, r, a) == [close |-> c, volume |-> v, rsi |-> r, atr |-> a]
Stored == <<Session(Day(10, 5, 50, 1), Day(10, 5, 50, 1), NoQuote),
            Session(Day(10, 5, 50, 1), Day(11, 5, 50, 1), Day(10, 6, 50, 1)),
            Session(Day(12, 5, 50, 1), Day(12, Missing, 50, 1), Day(12, 6, 50, 1))>>
Coming == {Session(Day(13, 6, 40, 1), Day(13, 5, 44, 1), Day(13, 5, 30, 1)),
           Session(Day(12, 5, 30, 0), Day(11, 5, 40, 2), Day(12, 9, 40, 1)),
           Session(NoQuote, Day(14, 5, 40, 1), Day(9, 0, 40, 1)),
           Session(Day(16, 5, 50, 1), Day(12, 3, 40, 1), NoQuote)}
Sound == [income |-> 1, fcf |-> 1, assets |-> 10, equity |-> 5]
Filed == {[symbol |-> s, period |-> p, filed |-> p, report |-> Sound] :
              s \in {abt, ko, xom}, p \in {1, 2}}
         \ {[symbol |-> xom, period |-> 1, filed |-> 1, report |-> Sound]}
Arriving == {
    [symbol |-> ko, period |-> 2, report |-> [Sound EXCEPT !.income = -1]],
    [symbol |-> ko, period |-> 3, report |-> Sound],
    [symbol |-> xom, period |-> 3, report |-> Sound],
    [symbol |-> xom, period |-> 1, report |-> [Sound EXCEPT !.income = Missing]],
    [symbol |-> abt, period |-> 3, report |-> [Sound EXCEPT !.fcf = Missing]],
    [symbol |-> abt, period |-> 3, report |-> [Sound EXCEPT !.equity = 2]]}
Lookbacks == <<1, 3>>
LookbackWeights == <<2, 1>>
Scores == [rsi_pullback |-> 5, trend_quality |-> 3, liquidity |-> 2]
-----------------------------------------------------------------------------
\* RetroMetrics: runs that judge two symbols or one, with inputs cut or whole.
Excerpt(o, e, x) == [original |-> o, exported |-> e, exhibit |-> x]
JudgedAs(rec, bases, cited, supply, filed, cfg, entry, stop) ==
    [recommendation |-> rec, bases |-> bases, cited |-> cited, supply |-> supply,
     filings |-> filed, config |-> cfg, entry |-> entry, stop |-> stop]
Whole == Excerpt(3, 3, "whole")
Adopted(cfg) == JudgedAs("proceed", {"earnings"}, {"finnhub"}, "sparse",
                         {Excerpt(20, 8, "whole"), Whole}, cfg, 50, 40)
Skipped(cfg) == JudgedAs("skip", {}, {"finnhub", "edgar"}, "none", {Whole}, cfg, 25, 0)
Slate == {ual :> Adopted("a") @@ dal :> Skipped("b"), ual :> Adopted("unrecorded"),
          ual :> JudgedAs("skip", {"technical"}, {"finnhub"}, "unrecorded",
                          {Excerpt(4, 4, "unrecorded")}, "a", 25, 30)}
TwoHorizons == <<1, 2>>
TwoWeights == <<2, 1>>
BenchmarkSeen == <<{TRUE, FALSE}, {TRUE}>>
Moves == <<{-2, 0, 1}, {-2, 2}>>
-----------------------------------------------------------------------------
\* Postmortem: one symbol two strategies choose, one cut; a bar that is missing
\* at first, corrected bars, and reruns.
Chosen(x, k, g) == [symbol |-> x, strategy |-> k, names |-> g]
OneScreen == {[candidates |-> {Chosen("a", 1, {"s"}), Chosen("a", 2, {"s", "t"})},
               cut |-> {"b"}, rejected |-> {"a"}]}
ShortLags == <<1, 2>>
Weights == 1 :> 6 @@ 2 :> 4
ClosingPaths == {[x \in {"a", "b"} |-> IF x = "a" THEN <<100, 98, 100>> ELSE <<98, 0, 98>>]}
-----------------------------------------------------------------------------
\* DiffGate: two modules with their tests, the contract tests and a document.
Tree == {"screening/base", "config", "tests/screening/test_base", "tests/test_config",
         "tests/test_contracts", "docs"}
KindOf == "screening/base" :> "package" @@ "config" :> "module" @@ "docs" :> "docs"
          @@ [p \in Tree |-> "test"]
PackageOf == [p \in {"screening/base", "tests/screening/test_base"} |-> "screening"]
             @@ [p \in Tree |-> "top"]
NamedTest == "config" :> "tests/test_config" @@ [p \in Tree |-> p]
Imports == "tests/screening/test_base" :> <<{"screening/base"}, {"screening/base", "config"}>>
           @@ "tests/test_config" :> <<{"config"}, {}>>
           @@ "tests/test_contracts" :> <<{}, {}>>
Loading == "screening/base" :> {"config"} @@ "config" :> {}
AtFork == "tests/test_config" :> Gone @@ [p \in Tree |-> 1]
Durations == "tests/test_config" :> 0 @@ [p \in Tree |-> 2]
-----------------------------------------------------------------------------
\* StateSchema: what a run saw: what it proposed and how it was judged.
Seen(e, side, v, none, strats, s) ==
    [no_trade |-> none, exhibit_truncated |-> TRUE, news_supply |-> "none",
     recommendation |-> side, verdict |-> v, benchmark_return |-> 1, score |-> 7,
     execution_state |-> s, dd15 |-> 2, spy_close |-> IF s = "UNKNOWN" THEN NULL ELSE 3,
     multiplier |-> 1, pivot_proximity |-> IF e < 4 THEN NULL ELSE 5,
     max_hold_days |-> IF e < 5 THEN 25 ELSE 10, spy_sma200 |-> IF e < 5 THEN NULL ELSE 4,
     strategies |-> strats, strategy |-> "default", reasons |-> 2]
ReleaseFacts == [e \in 0..5 |->
    {Seen(e, "proceed", "proceed", FALSE, {"default", "vcp"}, "UNKNOWN"),
     Seen(e, "proceed", "skip", e > 0, {}, "FRESH")}
    \cup {Seen(e, "skip", "skip", TRUE, {"vcp"}, "FRESH") : d \in {d \in {e} : d >= 2}}]
-----------------------------------------------------------------------------
VARIABLE area
rulesVars == <<area, proposalVars, engineVars, deskVars, regimeVars, screeningVars,
               metricVars, postmortemVars, gateVars, schemaVars>>

\* Where an area has several ways to start, it has one while another moves.
RulesInit ==
    /\ area \in {"proposals", "backtest", "desk", "regime", "screening", "metrics",
                 "postmortem", "gate", "schema"}
    /\ ProposalInit /\ DeskInit /\ MetricInit
    /\ BacktestInit
    /\ area # "backtest" => arm = "none" /\ plan = CHOOSE p \in EntryPlans : TRUE
    /\ IF area = "regime" THEN RegimeInit ELSE market = <<>> /\ decisions = <<>>
    /\ ScreeningInit
    /\ area # "screening" => strategy = "default"
    /\ PostmortemInit
    /\ area # "postmortem" => closes = CHOOSE h \in Histories : TRUE
    /\ GateInit
    /\ area # "gate" => branch = "main"
    /\ SchemaInit
    /\ area # "schema" => columns = {} /\ rows = [r \in {} |-> 0]

RulesNext ==
    /\ area' = area
    /\ \/ /\ area = "proposals" /\ ProposalNext
          /\ UNCHANGED <<engineVars, deskVars, regimeVars, screeningVars, metricVars,
                         postmortemVars, gateVars, schemaVars>>
       \/ /\ area = "backtest" /\ BacktestNext
          /\ UNCHANGED <<proposalVars, deskVars, regimeVars, screeningVars, metricVars,
                         postmortemVars, gateVars, schemaVars>>
       \/ /\ area = "desk" /\ DeskNext
          /\ UNCHANGED <<proposalVars, engineVars, regimeVars, screeningVars, metricVars,
                         postmortemVars, gateVars, schemaVars>>
       \/ /\ area = "regime" /\ RegimeNext
          /\ UNCHANGED <<proposalVars, engineVars, deskVars, screeningVars, metricVars,
                         postmortemVars, gateVars, schemaVars>>
       \/ /\ area = "screening" /\ ScreeningNext
          /\ UNCHANGED <<proposalVars, engineVars, deskVars, regimeVars, metricVars,
                         postmortemVars, gateVars, schemaVars>>
       \/ /\ area = "metrics" /\ MetricNext
          /\ UNCHANGED <<proposalVars, engineVars, deskVars, regimeVars, screeningVars,
                         postmortemVars, gateVars, schemaVars>>
       \/ /\ area = "postmortem" /\ PostmortemNext
          /\ UNCHANGED <<proposalVars, engineVars, deskVars, regimeVars, screeningVars,
                         metricVars, gateVars, schemaVars>>
       \/ /\ area = "gate" /\ GateNext
          /\ UNCHANGED <<proposalVars, engineVars, deskVars, regimeVars, screeningVars,
                         metricVars, postmortemVars, schemaVars>>
       \/ /\ area = "schema" /\ SchemaNext
          /\ UNCHANGED <<proposalVars, engineVars, deskVars, regimeVars, screeningVars,
                         metricVars, postmortemVars, gateVars>>

RulesSpec == RulesInit /\ [][RulesNext]_rulesVars
=============================================================================
