SPECIFICATION Spec
CONSTANTS
    acme = acme
    other = other
    w1 = w1
    w2 = w2
    Symbols = {acme, other}
    Writers = {w1}
    LastDate = 5
    YearLength = 3
    Lookback = 3
    Tolerance = 1
    Markets <- SomeMarkets
    Roots = {"empty", "legacy"}
    LegacyDate = 4
    MaxMissing = 1
    PastWindows = FALSE
    MaxJobs = 2
    MaxCrashes = 1
    FlipRun = 2
    Sample = 3
CHECK_DEADLOCK FALSE
INVARIANTS
    ReadersSeeOneBasis
PROPERTIES
    NoNewOldBasis
    OnlyRebuildChangesHistory
    PublishedIsMarked
