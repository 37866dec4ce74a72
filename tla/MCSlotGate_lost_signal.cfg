CONSTANTS
    c1 = c1
    c2 = c2
    c3 = c3
    NoOne = NoOne
    Callers = {c1, c2, c3}
    Limits = {1}
    Cancellable = {c2}
SPECIFICATION GateFairSpec
PROPERTIES WaiterAdmitted
CHECK_DEADLOCK FALSE
