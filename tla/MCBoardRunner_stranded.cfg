CONSTANTS
    t1 = t1
    t2 = t2
    Tasks = {t1, t2}
    Jobs <- QueueJobs
    Runs <- QueueJobs
    RunOf <- QueueRunOf
    TaskOf <- QueueTaskOf
    Settings <- SettingsUnlimited
    QueueCap = 3
    Features = {"stop"}
    None = None
SPECIFICATION Spec
INVARIANTS NothingStranded
CHECK_DEADLOCK FALSE
