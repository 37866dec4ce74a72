---------------------------- MODULE MCWorkOrder ----------------------------
(***************************************************************************)
(* TLC instances of WorkOrder: three tasks, the first of them a design.    *)
(***************************************************************************)
EXTENDS WorkOrder

CONSTANTS a, b, c

\* The third task is behind the first two, or behind the second, with the first
\* named later.
Join   == {<<a, c>>, <<b, c>>}
Graph  == {<<b, c>>}
Graphs1 == {Graph}
Graphs2 == {Join, Graph}
LateOne == {<<a, c>>}

\* The moves forward of the shipped workflow (migration 172) between these stages.
Shipped == {<<"backlog", "todo">>, <<"todo", "in_progress">>, <<"todo", "need_revision">>,
            <<"need_revision", "in_progress">>, <<"need_revision", "done">>,
            <<"in_progress", "done">>, <<"done", "released">>}
Begin  == [t \in {a, b, c} |-> IF t = c THEN "backlog" ELSE "in_progress"]
=============================================================================
