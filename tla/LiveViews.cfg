SPECIFICATION MCSpec
CONSTANTS
    MaxTokens = 2
    Clients = {"page"}
    Instruments = {"s1", "s2", "index"}
    Indices = {"index"}
    MaxVersion <- LastVersion
    Subscriptions <- Subs
    Capacity = 1
    Batches <- TwoBatches
    MAX_RETRIES = 2
    MaxFaults = 2
    DayLength = 8
    Open = 1
    Close = 4
    Grace = 6
    StaleAfter = 1
    Skew = 1
    Companies = {"a", "b"}
    Sector <- SectorOf
    IndexKeys = {"i"}
    Coherence = 3
    Lags <- SomeLags
    Lead = 2
    Reports <- SomeReports
    Horizon = 64
INVARIANTS
    TicksFollowTable
    LiveIsRecent
    ClosedCoversSession
PROPERTY
    FeedResumes
CHECK_DEADLOCK FALSE
