SPECIFICATION FairSpec
CONSTANTS
    Company = {1, 2}
    Job = {cycle, repair}
    RepairJob = {repair}
    Overlap = TRUE
    MaxSession = 1
    MaxCrashes = 1
    MaxPrice = 1
    BATCH_LIMIT = 1
    WRITE_BATCH_SIZE = 2
    FULL_HISTORY = 2
    MINIMUM_SCANNER_HISTORY_SESSIONS = 2
    Null = Null
PROPERTIES
    EventuallyAttempted
CHECK_DEADLOCK FALSE
