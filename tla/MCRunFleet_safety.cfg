CONSTANTS
    p1 = p1
    p2 = p2
    t1 = t1
    Replicas = {p1, p2}
    Tasks = {t1}
    Rows <- ThreeRows
    TaskOf <- OneTask
    Beat = 1
    Live = 2
    PendStale = 3
    Stale = 4
    Skew = 1
    MaxAge = 5
    MaxFailed = 2
    Crashes = 1
    None = None
SPECIFICATION FairSpec
INVARIANTS TypeOK OneRunPerTask LiveRunKept
PROPERTIES LostRunRecovered
CHECK_DEADLOCK FALSE
