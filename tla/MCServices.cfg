CONSTANTS
    a = a
    Agents = {a}
    Staff <- Alone
    Verdicts = {"quota", "question", "analysis_questions"}
    Settings <- Everyday
    MaxCalls = 2
    r1 = r1
    r2 = r2
    Dev = Dev
    NoOne = NoOne
    Reviewers = {r1, r2}
    LoopLimit = 2
    Environments <- Disturbances
    MaxEvents <- Bounds
SPECIFICATION SumSpec
INVARIANTS TypeOK ReviewTypes
PROPERTIES NamesReason ParkResumes QuestionHeld ApprovedByAll ReviewSettles
CHECK_DEADLOCK FALSE
