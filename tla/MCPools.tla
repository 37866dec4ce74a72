------------------------------ MODULE MCPools ------------------------------
(***************************************************************************)
(* TLC instances of the server's two pools: the job queue's workers, and   *)
(* the runner under caps on its runs and tasks when nobody stops a run.    *)
(* They are checked as a sum: a behaviour is one of the pool it starts as, *)
(* while the other rests where it starts and owes nothing, so a property   *)
(* of one pool says here what it says there.                               *)
(***************************************************************************)
EXTENDS JobQueue, BoardRunner

CONSTANTS j1, j2, w1, w2, t1, t2

VARIABLE pool  \* which pool this behaviour is of

\* Three runs on t1 and one on t2, each enqueued once; one or two may run, of one
\* task.  With one agent slot the two gates can lock each other (BoardRunner's
\* GatesLocked), and the limits may change at every admission.
CrowdTaskOf == <<t1, t1, t1, t2>>
CrowdRunOf  == <<1, 2, 3, 4>>
OneTask     == {[agents |-> n, tasks |-> 1] : n \in {1, 2}}

SumInit     == JobInit /\ Init /\ pool \in {"jobs", "runner"}

JobsAlone   == pool = "jobs" /\ JobNext /\ UNCHANGED <<vars, pool>>
RunnerAlone == pool = "runner" /\ Next /\ UNCHANGED <<jobVars, pool>>

\* The fairness of each pool, of its own behaviours.  The runner's is weaker than
\* its FairSpec: somebody who can go on does (nobody is starved, as each of these
\* jobs takes finitely many steps), so what holds here holds under FairSpec.
SumSpec == /\ SumInit
           /\ [][JobsAlone \/ RunnerAlone]_<<jobVars, vars, pool>>
           /\ \A w \in Workers : WF_jobVars(pool = "jobs" /\ Work(w))
           /\ \A j \in Posts : WF_jobVars(pool = "jobs" /\ CreateSignal(j))
           /\ WF_jobVars(pool = "jobs" /\ Fallback)
           /\ WF_vars(/\ pool = "runner"
                      /\ Loop \/ \E j \in Jobs : Goroutine(j) \/ ParkReturn(j) \/ Finish(j))
=============================================================================
