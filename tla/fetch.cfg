SPECIFICATION FetchSpec
CONSTANTS
    acme = acme
    feed = feed
    earnings = earnings
    edgar = edgar
    finnhub = finnhub
    sec = sec
    Universe <- OneSymbol
    Held = {}
    RefreshInterval = 3
    EmptyBackoff <- Gaps
    Lookback = 3
    LandingDelays = {2}
    Lags = {0, 3}
    LastDay = 8
    MaxFilings = 2
    MaxFaults = 1
    Clients = {feed, earnings, edgar}
    BudgetOf <- Accounts
    MinInterval <- Spacing
    Delays <- Backoff
    RetryAfter = {0, 3}
    BlockDuration = 4
    Edgar = {edgar}
    Slack = 1
    MaxNow = 9
    MaxRequests = 3
    Tickers = {1, 2}
    Articles <- Feeds
    Listing <- Submissions
    NewsLookback = 1
    FilingLookback = 1
    FilingLimit = 1
    SymbolLimit = 2
    MaxExhibits = 3
    ExhibitBudget = 2
    Portfolios <- Holdings
    CalendarId = "c"
    LastTextDay = 2
    MaxTurns = 2
    Collectable <- FilingTexts
    MaxFilingsPerSymbol = 3
    PerFiling = 24
    PerSymbol = 40
    MinFilingChars = 6
    SectionTargets <- Sections
    SectionHeader = 2
    SectionMarker = 3
    PassageMarker = 4
    Separator = 2
    ExhibitPriority = 4
CHECK_DEADLOCK FALSE
INVARIANTS
    NothingOverdue
    PendingIsRetried
    RateIsKept
    CutsAreMarked
    AnsweredTargetsAreCollected
    NoFilingIsStarved
PROPERTIES
    RetriesWaitOutTheBlock
