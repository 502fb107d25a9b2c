SPECIFICATION Spec
CONSTANTS
    Company = {1, 2}
    Job = {cycle, repair}
    RepairJob = {repair}
    Overlap = FALSE
    MaxSession = 2
    MaxCrashes = 1
    MaxPrice = 2
    BATCH_LIMIT = 2
    WRITE_BATCH_SIZE = 2
    FULL_HISTORY = 2
    MINIMUM_SCANNER_HISTORY_SESSIONS = 2
    Null = Null
INVARIANTS
    HighAlwaysCovers
CHECK_DEADLOCK FALSE
