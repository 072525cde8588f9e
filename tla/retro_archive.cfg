SPECIFICATION FairSpec
CONSTANTS
    acme = acme
    other = other
    spy = spy
    daily = daily
    manual = manual
    Runs = {1, 2}
    DateOf <- Dates
    StartedAt <- StartedLater
    Content <- Corrections
    Legacy = {1}
    Hidden = {}
    Symbols = {acme, other}
    Benchmark = spy
    LastDate = 4
    Quote <- Closes
    Repairs <- Refetches
    Horizons = {1, 2}
    Padding = 1
    Multiplier = 1
    Neutral = 5
    Severe = 20
    EvaluationDays = 2
    WindowDays = 1
    Workers = {daily, manual}
    PendingOnly = {daily}
    Exclusive = TRUE
INVARIANTS
    RowsMatchDocuments
    OutcomesHaveVerdicts
    ReadersFollowCollect
PROPERTIES
    ArchiveSettles
