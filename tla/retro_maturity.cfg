SPECIFICATION Spec
CONSTANTS
    acme = acme
    other = other
    spy = spy
    daily = daily
    manual = manual
    Runs = {1, 3}
    DateOf <- Dates
    StartedAt <- StartedLater
    Content <- Corrections
    Legacy = {}
    Hidden = {}
    Symbols = {acme, other}
    Benchmark = spy
    LastDate = 4
    Quote <- Closes
    Repairs = {}
    Horizons = {1, 2}
    Padding = 1
    Multiplier = 1
    Neutral = 5
    Severe = 20
    EvaluationDays = 2
    WindowDays = 2
    Workers = {daily}
    PendingOnly = {daily}
    Exclusive = TRUE
INVARIANT DossierCountsAdoptedRuns
