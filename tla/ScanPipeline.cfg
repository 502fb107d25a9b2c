SPECIFICATION FairSpec
CONSTANTS
    Company = {c1, c2, c3}
    Newcomer = c3
    ListedOn = 2
    Quoted = {c1}
    Listing <- OneNewcomer
    Weekday <- SecondIsSaturday
    MaxDay = 3
    MaxKills = 1
    REQUIRED_DAILY_HISTORY = 2
    MIN_STOCK_COVERAGE = 66
    MIN_QUOTE_COVERAGE = 66
    MIN_HISTORY_COVERAGE = 66
    MIN_REPORT_COVERAGE = 32
INVARIANTS
    PipelineTypeOK
    GateHolds
    BuiltCovers
PROPERTIES
    PublishedForward
    EventuallyPublished
CHECK_DEADLOCK FALSE
