----------------------------- MODULE MCRunFleet -----------------------------
(***************************************************************************)
(* TLC instances of RunFleet: two replicas, one task, three rows, and the  *)
(* source's durations (10s, 60s, 120s, 180s) in their order.               *)
(***************************************************************************)
EXTENDS RunFleet
CONSTANTS p1, p2, t1
ThreeRows == 1..3
OneTask == [r \in ThreeRows |-> t1]
=============================================================================
