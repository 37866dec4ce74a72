------------------------------ MODULE MCGates ------------------------------
(***************************************************************************)
(* TLC instances of two parts of the board runner's process that are       *)
(* checked each alone: the slot gate with its condition variable, and the  *)
(* runner under stops and a drain.  A behaviour is one of the part it      *)
(* starts as, while the other rests where it starts and owes nothing, so   *)
(* a property of one part says here what it says there.                    *)
(***************************************************************************)
EXTENDS SlotGate, BoardRunner

CONSTANTS c1, c2, c3, t1, t2

VARIABLE part  \* which part this behaviour is of

\* One run, enqueued twice, and the limits change around it.
TwiceRunOf  == <<1, 1>>
TwiceTaskOf == <<t1>>
SettingsChanging == {[agents |-> n, tasks |-> n] : n \in {0, 1}}  \* 0: no limit

SumInit     == GateInit /\ Init /\ part \in {"gate", "runner"}

GateAlone   == part = "gate" /\ GateNext /\ UNCHANGED <<vars, part>>
RunnerAlone == part = "runner" /\ Next /\ UNCHANGED <<gateVars, part>>

\* The fairness of each part, of its own behaviours.
SumSpec == /\ SumInit
           /\ [][GateAlone \/ RunnerAlone]_<<gateVars, vars, part>>
           /\ \A c \in Callers : /\ SF_gateVars(part = "gate" /\ Enter(c))
                                 /\ SF_gateVars(part = "gate" /\ Release(c))
                                 /\ WF_gateVars(part = "gate" /\ Callback(c))
           /\ WF_vars(part = "runner" /\ Loop)
           /\ WF_vars(part = "runner" /\ Deadline)
           /\ \A j \in Jobs : /\ SF_vars(part = "runner" /\ Goroutine(j))
                              /\ WF_vars(part = "runner" /\ ParkReturn(j))
                              /\ WF_vars(part = "runner" /\ CtxDone(j) /\ Finish(j))
                              /\ WF_vars(part = "runner" /\ Heartbeat(j))
           /\ \A r \in Runs : WF_vars(part = "runner" /\ CancelCtx(r))
=============================================================================
