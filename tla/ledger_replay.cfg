SPECIFICATION Spec
CONSTANTS
    acme = acme
    other = other
    Symbols = {acme}
    Verdicts = {1, 2}
    RunOf <- RunOfEach
    SymbolOf <- OnAcme
    DateOf <- DayOfEach
    Risk <- FullThenMissing
    LastDate = 4
    Histories <- AnyHistory
    SplitSets <- LateSplits
    FetchOutcomes = {"stored", "failed"}
    HoldRules = {3}
    Factor = 2
    AtrPeriod = 2
    TrailGap = 4
    StopGap = 4
    Par = 20
    Slip = 1
    MaxCollects = 2
    MaxRebuilds = 0
    MaxCrashes = 0
    AnyAsOf = TRUE
INVARIANTS
    LedgerMatchesReplay
PROPERTY
    ClosedIsFinal
