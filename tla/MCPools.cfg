CONSTANTS
    j1 = j1
    j2 = j2
    w1 = w1
    w2 = w2
    Posts = {j1, j2}
    Deletable = {j1}
    Workers = {w1, w2}
    Buffer = 2
    MaxFaults = 1
    t1 = t1
    t2 = t2
    Tasks = {t1, t2}
    Runs = {1, 2, 3, 4}
    Jobs = {1, 2, 3, 4}
    RunOf <- CrowdRunOf
    TaskOf <- CrowdTaskOf
    Settings <- OneTask
    QueueCap = 4
    Features = {}
    None = None
SPECIFICATION SumSpec
INVARIANTS NoLostWake ConcurrencyCap NothingStranded
PROPERTIES RunsOnce PendingClaimed RunsEnd
CHECK_DEADLOCK FALSE
