CONSTANTS
    t1 = t1
    t2 = t2
    Tasks = {t1, t2}
    Jobs <- CrowdJobs
    Runs <- CrowdJobs
    RunOf <- CrowdRunOf
    TaskOf <- CrowdTaskOf
    Settings <- SettingsOneOne
    QueueCap = 4
    Features = {}
    None = None
SPECIFICATION FairSpec
PROPERTIES ParkedJobRuns
CHECK_DEADLOCK FALSE
