--------------------------- MODULE SlotSemaphore ---------------------------
(***************************************************************************)
(* What slotGate promises its callers, with no mutex, no condition         *)
(* variable and no counter: a set of holders and a limit that the settings *)
(* may change under their feet.  SlotGate is shown to implement it.        *)
(***************************************************************************)
EXTENDS Naturals, FiniteSets

CONSTANTS Callers,   \* goroutines that call acquire
          Limits     \* the values setLimit is called with; 0 means no limit


VARIABLES holders, limit
vars == <<holders, limit>>

Init == holders = {} /\ limit = 0

SetLimit == /\ limit' \in Limits
            /\ UNCHANGED holders

\* A slot is granted only while one is free under the limit in force.
Grant(c) == /\ c \notin holders
            /\ limit = 0 \/ Cardinality(holders) < limit
            /\ holders' = holders \union {c}
            /\ UNCHANGED limit

Return(c) == /\ c \in holders
             /\ holders' = holders \ {c}
             /\ UNCHANGED limit

Next == SetLimit \/ \E c \in Callers : Grant(c) \/ Return(c)

Spec == Init /\ [][Next]_vars
=============================================================================
