----------------------------- MODULE MCRelease -----------------------------
EXTENDS Release
CONSTANTS t1, t2
World(m, a, e) == [mode |-> m, auto |-> a, env |-> e]
SomeWorlds == {World("on_merge", TRUE, {"run", "people"}), World("on_merge", TRUE, {"merge", "people"}),
               World("dispatch", FALSE, {"run", "fault"}), World("dispatch", TRUE, {"merge", "fault"}),
               World("batch", TRUE, {"run", "fault"}), World("batch", TRUE, {"merge"})}
Bounds == [merge |-> 1, run |-> 0, people |-> 1, fault |-> 1]
=============================================================================
