CONSTANTS
    a = a
    b = b
    c = c
    Tasks = {a, b, c}
    Designs = {a}
    MaxCalls = 2
    Starting <- Begin
    Graphs <- Graphs1
    Late <- LateOne
    Moves <- Shipped
    Features = {"edit", "comment"}
SPECIFICATION FairSpec
PROPERTIES ParkedResumes
CHECK_DEADLOCK FALSE
