SPECIFICATION Spec
CONSTANTS
    Company = {1, 2}
    Job = {cycle, repair}
    RepairJob = {repair}
    Overlap = FALSE
    MaxSession = 3
    MaxCrashes = 0
    MaxPrice = 2
    BATCH_LIMIT = 2
    WRITE_BATCH_SIZE = 2
    FULL_HISTORY = 3
    MINIMUM_SCANNER_HISTORY_SESSIONS = 2
    Null = Null
INVARIANTS
    TypeOK
    HighCoversHistory
    SuccessIsStored
CHECK_DEADLOCK FALSE
