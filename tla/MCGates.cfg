CONSTANTS
    c1 = c1
    c2 = c2
    c3 = c3
    NoOne = NoOne
    Callers = {c1, c2, c3}
    Limits = {0, 1, 2}
    Cancellable = {c2, c3}
    t1 = t1
    t2 = t2
    Tasks = {t1, t2}
    Jobs = {1, 2}
    Runs = {1}
    RunOf <- TwiceRunOf
    TaskOf <- TwiceTaskOf
    Settings <- SettingsChanging
    QueueCap = 3
    Features = {"rerun", "stop", "drain"}
    None = None
SPECIFICATION SumSpec
INVARIANTS GateTypeOK CountIsHolders WakeupPending
PROPERTIES ImplementsSemaphore CancelledReturns AllAdmitted StopReachesRun DrainReturns
CHECK_DEADLOCK FALSE
