----------------------------- MODULE MCSlotGate -----------------------------
(***************************************************************************)
(* TLC instances of SlotGate: three callers and every limit a settings     *)
(* change can put in force around them.                                    *)
(***************************************************************************)
EXTENDS SlotGate
CONSTANTS c1, c2, c3
=============================================================================
