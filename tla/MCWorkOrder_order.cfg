CONSTANTS
    a = a
    b = b
    c = c
    Tasks = {a, b, c}
    Designs = {a}
    MaxCalls = 2
    Starting <- Begin
    Graphs <- Graphs2
    Late <- LateOne
    Moves <- Shipped
    Features = {"edit", "delete", "comment", "ticker", "crash"}
SPECIFICATION FairSpec
INVARIANTS TypeOK StartedInOrder NoLostWake
PROPERTIES ParkedStarts
CHECK_DEADLOCK FALSE
