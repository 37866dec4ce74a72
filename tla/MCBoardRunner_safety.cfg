CONSTANTS
    t1 = t1
    t2 = t2
    Tasks = {t1}
    Jobs <- AgainJobs
    Runs = {1, 2}
    RunOf <- AgainRunOf
    TaskOf <- AgainTaskOf
    Settings <- SettingsOneTask
    QueueCap = 2
    Features = {"stop", "reap", "store errors", "rerun", "drain"}
    None = None
SPECIFICATION Spec
INVARIANTS TypeOK OneRunPerTask SlotAccounting
PROPERTIES CancelledIsFinal
CHECK_DEADLOCK FALSE
