CONSTANTS
    t1 = t1
    t2 = t2
    Tasks = {t1, t2}
    Person = Person
    Sweeper = Sweeper
    Worlds <- SomeWorlds
    MaxEvents <- Bounds
    MaxHandBacks = 2
SPECIFICATION Spec
INVARIANTS OpenAlone
CHECK_DEADLOCK FALSE
