SPECIFICATION RulesSpec
CONSTANTS
    k1 = k1
    k2 = k2
    xom = xom
    ko = ko
    abt = abt
    aapl = aapl
    n1 = n1
    f1 = f1
    ual = ual
    dal = dal
    r1 = r1
    Keys = {k1, k2}
    Offers <- SomeOffers
    AsOfs = {1, 2}
    Surprises = {}
    GateWindow = 1
    Overlaps = FALSE
    MaxExports = 2
    MaxAnswers = 2
    MaxHandRows = 1
    MaxNumber = 2
    MaxIngestCrashes = 1
    Tickers = {xom, ko}
    TradingDays = 4
    Tape <- Bars
    Rankings <- CandidateLists
    Verdict <- Verdicts
    ReportsSoon <- Earnings
    Arms = {"none", "regime+earnings"}
    EntryPlans <- Plans
    StopMultiple = 2
    MaxHold = 2
    CapPct = 60
    RiskPct = 10
    CostUnit = 10
    Slippage = 1
    CommissionPart = 1
    InitialCash = 60
    AnalysisRuns = {1, 2}
    Exports <- RunInputs
    Facts <- Inventions
    MaxCuts = 2
    MaxSlips = 1
    Opening <- Start
    Sessions <- MoreSessions
    MaxSessions = 11
    HistoryRows = 12
    SmaPeriod = 6
    BearRatio = 990
    PanicVix = 30
    WindowDays = 4
    DdDecline = 2
    StallChange = 1
    Recovery = 50
    Spans <- CountSpans
    SevereAt <- SevereCounts
    HighAt <- HighCounts
    CautionAt = 3
    CorrectionDecline = 30
    CorrectionDownDays = 2
    FtdGain = 13
    FtdFirstDay = 3
    EarlyLastDay = 3
    FtdLastDay = 4
    TrailingRows = 4
    Members = {abt, ko, xom}
    Order <- Alphabet
    Missing = Missing
    FirstQuotes <- Stored
    Quotes <- Coming
    FirstFilings <- Filed
    Reports <- Arriving
    FilingLags = {0}
    MaxDays = 6
    MaxReports = 1
    StrategyKeys = {"default", "minervini_stage2"}
    FloorRows = 5
    Quarters = 2
    MinEquity = 300
    VolumeDays = 2
    MinVolume = 3
    ShortBars = 2
    MidBars = 3
    LongBars = 4
    TrendShort = 2
    TrendLong = 3
    OscillatorBars = 2
    RsiThreshold = 45
    BandMultiple = 2
    YearBars = 4
    MinYearBars = 4
    RisingDays = 1
    LowMultiple = 1250
    HighMultiple = 750
    RsPeriods <- Lookbacks
    RsWeights <- LookbackWeights
    MinPercentile = 500
    MinCriteria = 6
    DamagedMax = 3
    FairMax = 2
    ExtendedMax = 4
    ScoreWeights <- Scores
    CandidateLimit = 1
    TruncationMultiple = 1
    RunDays = 2
    Horizons <- TwoHorizons
    HorizonWeights <- TwoWeights
    Slates <- Slate
    Returns <- Moves
    BenchmarkReturn = 1
    BenchmarkKnown <- BenchmarkSeen
    Neutral = 1
    SevereMove = 2
    WatchPerMille = 150
    MaxSurprises = 2
    FilingFloor = 8
    ExitPrices = {75}
    MaxClosings = 1
    Holes = {}
    Symbols = {"a", "b"}
    Signals = {"s", "t"}
    Screens <- OneScreen
    Lags <- ShortLags
    HorizonWeight <- Weights
    Prices = {100, 98, 95}
    Histories <- ClosingPaths
    NeutralPct = 1
    SeverePct = 2
    LookbackWindow = 2
    LastRunDay = 3
    Absent = {}
    Replays = FALSE
    MaxSiblings = 2
    MaxRequotes = 1
    MaxInterrupts = 1
    Paths <- Tree
    Kind <- KindOf
    Package <- PackageOf
    Dedicated <- NamedTest
    ImportedBy <- Imports
    Uses <- Loading
    Committed <- AtFork
    Versions = {1, 2}
    Broken = {2}
    Gone = Gone
    Seconds <- Durations
    FallbackSeconds = 3
    Budget = 5
    ContractTests = {"tests/test_contracts"}
    SmokeTests = {}
    SanityTests = {"tests/test_contracts"}
    Branches = {"main", "feature"}
    HasRemote = TRUE
    MaxEdits = 2
    MaxFetches = 1
    Runs = {r1}
    RunFacts <- ReleaseFacts
    NULL = NULL
    MaxOpens = 3
CHECK_DEADLOCK FALSE
INVARIANTS
    NumbersNameOneProposal
    BooksBalance
    ReportRestsOnItsInput
    FtdRestsOnItsRally
    ReplayRepeatsTheRuns
    MatrixAgrees
    PairingCancelsTheMarket
    TablesAgree
    GreenTestsTheWork
    MigrationKeepsTheRecord
