SPECIFICATION FairSpec
CONSTANTS
    acme = acme
    other = other
    Symbols = {acme, other}
    Verdicts = {1, 2}
    RunOf <- OneRun
    SymbolOf <- OneOfEach
    DateOf <- DayOne
    Risk <- NoStopThenWrong
    LastDate = 3
    Histories <- OneHistory
    SplitSets <- OneSplit
    FetchOutcomes = {"stored"}
    HoldRules = {2, 3}
    Factor = 2
    AtrPeriod = 2
    TrailGap = 4
    StopGap = 4
    Par = 20
    Slip = 1
    MaxCollects = 2
    MaxRebuilds = 1
    MaxCrashes = 1
    AnyAsOf = FALSE
INVARIANTS
    LedgerMatchesReplay
PROPERTIES
    LedgerSettles
