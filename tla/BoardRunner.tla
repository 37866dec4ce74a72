---------------------------- MODULE BoardRunner ----------------------------
(***************************************************************************)
(* application/board/runner.go: how one process admits board runs.  A      *)
(* bounded queue feeds a dispatch loop that starts one goroutine per job;  *)
(* the goroutine takes an agent slot, then the task (or parks behind the   *)
(* run that holds it), then a task slot, claims the run's row, executes,   *)
(* and hands the task to the next parked job.  A human may stop a run      *)
(* (control.go), rerun one, the reconciler fails pending rows it finds     *)
(* old, and the process drains before it exits.                            *)
(*                                                                         *)
(* A job is one RunJob value: it sits in the queue, in a parked list or in *)
(* its goroutine, never in two of them, so jobs stand for goroutines too.  *)
(* Two jobs of the same run exist when a rerun finds the run still         *)
(* pending.  The slot gates are the semaphores SlotGate implements; what   *)
(* an execution does to the task is left to other modules.                 *)
(***************************************************************************)
EXTENDS Naturals, Sequences, FiniteSets

CONSTANTS Tasks, Runs, Jobs,
          TaskOf,       \* the task of each run
          RunOf,        \* the run of each job
          Settings,     \* the concurrency limits a read of the settings returns
          QueueCap,     \* capacity of the queue channel
          Features,     \* which of the environment's actions happen
          None          \* no run, no job

Statuses == {"pending", "running", "completed", "failed", "cancelled"}

ASSUME TaskOfAssumption == TaskOf \in [Runs -> Tasks]
ASSUME RunOfAssumption  == RunOf \in [Jobs -> Runs]
ASSUME SettingsAssumption == Settings \subseteq [agents : Nat, tasks : Nat]
ASSUME QueueCapAssumption == QueueCap \in Nat
ASSUME NoneAssumption == None \notin Runs /\ None \notin Jobs /\ None \notin Statuses
ASSUME FiniteAssumption == IsFiniteSet(Jobs) /\ IsFiniteSet(Tasks)

VARIABLES
    status,       \* task_agent_runs.status of each run, None before its row exists
    queue,        \* r.queue
    pc,           \* where each job is
    leaving,      \* goroutines that parked their job and have not returned yet
    stopped,      \* jobs whose run context was cancelled by a stop
    cancels,      \* r.cancels: the goroutine whose cancel func a run id finds
    activeTasks,  \* r.activeTasks
    parked,       \* r.parked
    slotHeld,     \* r.taskSlotHeld
    agentUsed,    \* r.agentSlots.used
    taskUsed,     \* r.taskSlots.used
    limits,       \* the limit of both gates
    loop,         \* the dispatch loop
    draining,     \* r.drain is closed
    parentDone,   \* the runner's own context is cancelled
    stopping      \* CancelRun calls between the row and the goroutine

rows  == <<status, stopping>>
gates == <<agentUsed, taskUsed, limits>>
maps  == <<activeTasks, parked, slotHeld>>
life  == <<loop, draining, parentDone>>
vars  == <<rows, queue, pc, leaving, stopped, cancels, maps, gates, life>>

Terminal == {"completed", "failed", "cancelled"}

PCs == {"new", "queued", "dropped", "taken", "registered", "agentWait", "begin",
        "parked", "taskWait", "claim", "executing", "finished", "ending",
        "refused", "gone"}

\* Between beginTask and endTask, and between the agent slot's two ends.
OnTask   == {"taskWait", "claim", "executing", "finished", "ending"}
OnAgent  == {"begin", "taskWait", "claim", "executing", "finished", "refused"}

JobTask(j) == TaskOf[RunOf[j]]
CtxDone(j) == parentDone \/ j \in stopped
Unlimited == [agents |-> 0, tasks |-> 0]
Free(used, limit) == limit = 0 \/ used < limit
Dec(n) == IF n > 0 THEN n - 1 ELSE n

Init == /\ status = [r \in Runs |-> None]
        /\ queue = <<>>
        /\ pc = [j \in Jobs |-> "new"]
        /\ leaving = {}
        /\ stopped = {}
        /\ cancels = [r \in Runs |-> None]
        /\ activeTasks = [t \in Tasks |-> None]
        /\ parked = [t \in Tasks |-> <<>>]
        /\ slotHeld = {}
        /\ agentUsed = 0
        /\ taskUsed = 0
        /\ limits = Unlimited
        /\ loop = "top"
        /\ draining = FALSE
        /\ parentDone = FALSE
        /\ stopping = {}
-----------------------------------------------------------------------------
\* Enqueue: a full channel drops the job, whatever its row says.
Accepted == Len(queue) < QueueCap
Queued(q, j) == IF Accepted THEN Append(q, j) ELSE q
QueuedPC == IF Accepted THEN "queued" ELSE "dropped"

Submitted(j) ==
    /\ pc[j] = "new"
    /\ status' = [status EXCEPT ![RunOf[j]] = "pending"]
    /\ queue' = Queued(queue, j)
    /\ pc' = [pc EXCEPT ![j] = QueuedPC]
    /\ UNCHANGED <<leaving, stopped, cancels, maps, gates, life, stopping>>

\* The dispatcher creates the run's row and enqueues its job; it drops the job
\* itself when Create returns a row of an earlier event.
Dispatch(j) == status[RunOf[j]] = None /\ Submitted(j)

\* RerunRun does not look: the row Create returns may be pending already, with
\* a job of its own.
Rerun(j) == /\ "rerun" \in Features
            /\ status[RunOf[j]] = "pending"
            /\ Submitted(j)

\* The dispatch loop looks at drain and at its context before it blocks in the
\* select; in the select a closed drain and a ready job are both eligible.
LoopTop == /\ loop = "top"
           /\ loop' = IF draining \/ parentDone THEN "exited" ELSE "select"
           /\ UNCHANGED <<rows, queue, pc, leaving, stopped, cancels, maps, gates,
                          draining, parentDone>>

LoopExit == /\ loop = "select"
            /\ draining \/ parentDone
            /\ loop' = "exited"
            /\ UNCHANGED <<rows, queue, pc, leaving, stopped, cancels, maps, gates,
                           draining, parentDone>>

Take == /\ loop = "select"
        /\ queue # <<>>
        /\ loop' = "top"
        /\ queue' = Tail(queue)
        /\ pc' = [pc EXCEPT ![Head(queue)] = "taken"]
        /\ UNCHANGED <<rows, leaving, stopped, cancels, maps, gates, draining,
                       parentDone>>
-----------------------------------------------------------------------------
\* runJob, first statements: a fresh context whose cancel func is registered
\* under the run's id, over whatever was registered there.
Register(j) ==
    /\ pc[j] = "taken"
    /\ stopped' = stopped \ {j}
    /\ cancels' = [cancels EXCEPT ![RunOf[j]] = j]
    /\ pc' = [pc EXCEPT ![j] = "registered"]
    /\ UNCHANGED <<rows, queue, leaving, maps, gates, life>>

\* The deferred deregistration goes by run id, whoever registered last.
Deregistered(j) == [cancels EXCEPT ![RunOf[j]] = None]

\* alreadyStopped found a terminal row: the goroutine returns at once.
Skip(j) ==
    /\ pc[j] = "registered"
    /\ status[RunOf[j]] \in Terminal
    /\ pc' = [pc EXCEPT ![j] = "gone"]
    /\ cancels' = Deregistered(j)
    /\ UNCHANGED <<rows, queue, leaving, stopped, maps, gates, life>>

\* It did not, or the row could not be read: both gates get the limits the
\* settings hold now.  A cancelled context reads neither, and settings that
\* cannot be read set both gates to 0, which is unlimited.
Admit(j) ==
    /\ pc[j] = "registered"
    /\ \/ status[RunOf[j]] \notin Terminal
       \/ CtxDone(j)
       \/ "store errors" \in Features
    /\ \/ ~CtxDone(j) /\ limits' \in Settings
       \/ (CtxDone(j) \/ "store errors" \in Features) /\ limits' = Unlimited
    /\ pc' = [pc EXCEPT ![j] = "agentWait"]
    /\ UNCHANGED <<rows, queue, leaving, stopped, cancels, maps, agentUsed, taskUsed,
                   life>>

AcquireAgent(j) ==
    /\ pc[j] = "agentWait"
    /\ ~CtxDone(j)
    /\ Free(agentUsed, limits.agents)
    /\ agentUsed' = agentUsed + 1
    /\ pc' = [pc EXCEPT ![j] = "begin"]
    /\ UNCHANGED <<rows, queue, leaving, stopped, cancels, maps, taskUsed, limits, life>>

\* (mutant: a cancelled wait for a slot is not noticed)
KeepWaiting(j) ==
    /\ pc[j] = "agentWait"
    /\ CtxDone(j)
    /\ UNCHANGED vars
AgentRefused(j) ==
    /\ pc[j] = "agentWait"
    /\ CtxDone(j)
    /\ pc' = [pc EXCEPT ![j] = "gone"]
    /\ cancels' = Deregistered(j)
    /\ UNCHANGED <<rows, queue, leaving, stopped, maps, gates, life>>
-----------------------------------------------------------------------------
\* beginTask: another run holds the task, the job parks behind it ...
Park(j) ==
    /\ pc[j] = "begin"
    /\ activeTasks[JobTask(j)] # None
    /\ j \notin leaving  \* bound: a goroutine returns before its job parks again
    /\ parked' = [parked EXCEPT ![JobTask(j)] = Append(@, j)]
    /\ pc' = [pc EXCEPT ![j] = "parked"]
    /\ leaving' = leaving \union {j}
    /\ UNCHANGED <<rows, queue, stopped, cancels, activeTasks, slotHeld, gates, life>>

\* ... and its goroutine gives the agent slot back and returns.  By then the
\* job may already be queued, or running in a goroutine of its own.
ParkReturn(j) ==
    /\ j \in leaving
    /\ leaving' = leaving \ {j}
    /\ agentUsed' = Dec(agentUsed)
    /\ cancels' = Deregistered(j)
    /\ UNCHANGED <<rows, queue, pc, stopped, maps, taskUsed, limits, life>>

\* (mutant: the test for a holder is lost)
BeginAnyway(j) ==
    /\ pc[j] = "begin"
    /\ activeTasks' = [activeTasks EXCEPT ![JobTask(j)] = RunOf[j]]
    /\ pc' = [pc EXCEPT ![j] = IF JobTask(j) \in slotHeld THEN "claim" ELSE "taskWait"]
    /\ UNCHANGED <<rows, queue, leaving, stopped, cancels, parked, slotHeld, gates, life>>
\* beginTask: the task is idle.  Its slot may have been kept for it.
Begin(j) ==
    /\ pc[j] = "begin"
    /\ activeTasks[JobTask(j)] = None
    /\ activeTasks' = [activeTasks EXCEPT ![JobTask(j)] = RunOf[j]]
    /\ pc' = [pc EXCEPT ![j] = IF JobTask(j) \in slotHeld THEN "claim" ELSE "taskWait"]
    /\ UNCHANGED <<rows, queue, leaving, stopped, cancels, parked, slotHeld, gates, life>>

\* (mutant: the slot is taken but not remembered as the task's)
AcquireTaskUnmarked(j) ==
    /\ pc[j] = "taskWait"
    /\ ~CtxDone(j)
    /\ Free(taskUsed, limits.tasks)
    /\ taskUsed' = taskUsed + 1
    /\ pc' = [pc EXCEPT ![j] = "claim"]
    /\ UNCHANGED <<rows, queue, leaving, stopped, cancels, maps, agentUsed, limits, life>>
\* (mutant: the woken waiter does not test the limit again)
AcquireTaskUncapped(j) ==
    /\ pc[j] = "taskWait"
    /\ ~CtxDone(j)
    /\ taskUsed' = taskUsed + 1
    /\ slotHeld' = slotHeld \union {JobTask(j)}
    /\ pc' = [pc EXCEPT ![j] = "claim"]
    /\ UNCHANGED <<rows, queue, leaving, stopped, cancels, activeTasks, parked,
                   agentUsed, limits, life>>
AcquireTask(j) ==
    /\ pc[j] = "taskWait"
    /\ ~CtxDone(j)
    /\ Free(taskUsed, limits.tasks)
    /\ taskUsed' = taskUsed + 1
    /\ slotHeld' = slotHeld \union {JobTask(j)}
    /\ pc' = [pc EXCEPT ![j] = "claim"]
    /\ UNCHANGED <<rows, queue, leaving, stopped, cancels, activeTasks, parked,
                   agentUsed, limits, life>>
-----------------------------------------------------------------------------
\* (mutant: nobody is woken)
EndTaskSilently(j, next) ==
    LET t == JobTask(j)
        release == Len(parked[t]) <= 1 /\ t \in slotHeld
    IN /\ activeTasks' = [activeTasks EXCEPT ![t] = None]
       /\ slotHeld' = IF release THEN slotHeld \ {t} ELSE slotHeld
       /\ taskUsed' = IF release THEN Dec(taskUsed) ELSE taskUsed
       /\ pc' = [pc EXCEPT ![j] = next]
       /\ UNCHANGED <<parked, queue>>
\* (mutant: the slot is given back whether the task held one or not)
EndTaskUnguarded(j, next) ==
    LET t == JobTask(j)
        waiting == parked[t]
        woken == waiting # <<>>
        release == Len(waiting) <= 1
    IN /\ activeTasks' = [activeTasks EXCEPT ![t] = None]
       /\ parked' = IF woken THEN [parked EXCEPT ![t] = Tail(@)] ELSE parked
       /\ slotHeld' = IF release THEN slotHeld \ {t} ELSE slotHeld
       /\ taskUsed' = IF release THEN taskUsed - 1 ELSE taskUsed
       /\ queue' = IF woken THEN Queued(queue, Head(waiting)) ELSE queue
       /\ pc' = IF woken
                THEN [pc EXCEPT ![j] = next, ![Head(waiting)] = QueuedPC]
                ELSE [pc EXCEPT ![j] = next]
\* endTask: the task goes idle, the job parked first is enqueued again, and the
\* task's slot is kept while further jobs stay parked behind that one.
EndTask(j, next) ==
    LET t == JobTask(j)
        waiting == parked[t]
        woken == waiting # <<>>
        release == Len(waiting) <= 1 /\ t \in slotHeld
    IN /\ activeTasks' = [activeTasks EXCEPT ![t] = None]
       /\ parked' = IF woken THEN [parked EXCEPT ![t] = Tail(@)] ELSE parked
       /\ slotHeld' = IF release THEN slotHeld \ {t} ELSE slotHeld
       /\ taskUsed' = IF release THEN Dec(taskUsed) ELSE taskUsed
       /\ queue' = IF woken THEN Queued(queue, Head(waiting)) ELSE queue
       /\ pc' = IF woken
                THEN [pc EXCEPT ![j] = next, ![Head(waiting)] = QueuedPC]
                ELSE [pc EXCEPT ![j] = next]

\* The wait for a task slot was cancelled: the task passes to the next job.
TaskRefused(j) ==
    /\ pc[j] = "taskWait"
    /\ CtxDone(j)
    /\ EndTask(j, "refused")
    /\ UNCHANGED <<rows, leaving, stopped, cancels, agentUsed, limits, life>>

RefusedReturn(j) ==
    /\ pc[j] = "refused"
    /\ agentUsed' = Dec(agentUsed)
    /\ pc' = [pc EXCEPT ![j] = "gone"]
    /\ cancels' = Deregistered(j)
    /\ UNCHANGED <<rows, queue, leaving, stopped, maps, taskUsed, limits, life>>
-----------------------------------------------------------------------------
\* execute begins with the claim of the row: 'pending' and no live run of the
\* task, or the goroutine leaves it to the reconciler.
Claim(j) ==
    /\ pc[j] = "claim"
    /\ LET r == RunOf[j]
           claimable == /\ status[r] = "pending"
                        /\ \A o \in Runs : TaskOf[o] = TaskOf[r] => status[o] # "running"
       IN \/ /\ claimable /\ ~CtxDone(j)
             /\ status' = [status EXCEPT ![r] = "running"]
             /\ pc' = [pc EXCEPT ![j] = "executing"]
          \/ /\ ~claimable \/ CtxDone(j) \/ "store errors" \in Features
             /\ pc' = [pc EXCEPT ![j] = "finished"]
             /\ UNCHANGED status
    /\ UNCHANGED <<queue, leaving, stopped, cancels, maps, gates, life, stopping>>

\* (mutant: the last write wins)
OverWritten(r, s) == [status EXCEPT ![r] = s]
\* The store's Update: a cancelled row keeps its status.
Written(r, s) == [status EXCEPT ![r] = IF @ = "cancelled" THEN @ ELSE s]

\* The execution ends: it completes or fails, and writes that down, unless it
\* saw its own stop.  A deadline is a failure like any other.  The write itself
\* may fail.
Finish(j) ==
    /\ pc[j] = "executing"
    /\ \/ \E s \in {"completed", "failed"} : status' = Written(RunOf[j], s)
       \/ /\ (j \in stopped /\ ~parentDone) \/ "store errors" \in Features
          /\ UNCHANGED status
    /\ pc' = [pc EXCEPT ![j] = "finished"]
    /\ UNCHANGED <<queue, leaving, stopped, cancels, maps, gates, life, stopping>>

\* (mutant: the deferred release is missing)
ReleaseAgentNever(j) ==
    /\ pc[j] = "finished"
    /\ pc' = [pc EXCEPT ![j] = "ending"]
    /\ UNCHANGED <<rows, queue, leaving, stopped, cancels, maps, agentUsed, taskUsed, limits,
                   life>>
ReleaseAgent(j) ==
    /\ pc[j] = "finished"
    /\ agentUsed' = Dec(agentUsed)
    /\ pc' = [pc EXCEPT ![j] = "ending"]
    /\ UNCHANGED <<rows, queue, leaving, stopped, cancels, maps, taskUsed, limits, life>>

End(j) ==
    /\ pc[j] = "ending"
    /\ EndTask(j, "gone")
    /\ cancels' = Deregistered(j)
    /\ UNCHANGED <<rows, leaving, stopped, agentUsed, limits, life>>
-----------------------------------------------------------------------------
\* The rest of the process, around the goroutines.

\* CancelRun: the row first ...
CancelRow(r) ==
    /\ "stop" \in Features
    /\ status[r] \in {"pending", "running"}
    /\ status' = [status EXCEPT ![r] = "cancelled"]
    /\ stopping' = stopping \union {r}
    /\ UNCHANGED <<queue, pc, leaving, stopped, cancels, maps, gates, life>>

\* ... then Runner.Cancel, which finds a goroutine or does not.
CancelCtx(r) ==
    /\ r \in stopping
    /\ stopping' = stopping \ {r}
    /\ stopped' = IF cancels[r] = None THEN stopped ELSE stopped \union {cancels[r]}
    /\ UNCHANGED <<status, queue, pc, leaving, cancels, maps, gates, life>>

\* (mutant: the heartbeat only bumps the row)
HeartbeatBlind(j) == /\ pc[j] = "executing"
                     /\ status[RunOf[j]] = "cancelled"
                     /\ UNCHANGED vars
\* The run's heartbeat reads 'cancelled' off its row and cancels its context.
Heartbeat(j) ==
    /\ pc[j] = "executing"
    /\ status[RunOf[j]] = "cancelled"
    /\ stopped' = stopped \union {j}
    /\ UNCHANGED <<rows, queue, pc, leaving, cancels, maps, gates, life>>

\* The reconciler fails a row that has been pending for two minutes: queued,
\* parked and dropped jobs alike, none of them heartbeats.
Reap(r) ==
    /\ "reap" \in Features
    /\ status[r] = "pending"
    /\ status' = [status EXCEPT ![r] = "failed"]
    /\ UNCHANGED <<queue, pc, leaving, stopped, cancels, maps, gates, life, stopping>>

\* Drain closes the drain channel; at its deadline it cancels the context.
Drain == /\ "drain" \in Features
         /\ ~draining
         /\ draining' = TRUE
         /\ UNCHANGED <<rows, queue, pc, leaving, stopped, cancels, maps, gates, loop,
                        parentDone>>

Deadline == /\ draining
            /\ ~parentDone
            /\ parentDone' = TRUE
            /\ UNCHANGED <<rows, queue, pc, leaving, stopped, cancels, maps, gates,
                           loop, draining>>
-----------------------------------------------------------------------------
Goroutine(j) ==
    \/ Register(j) \/ Skip(j) \/ Admit(j) \/ AcquireAgent(j) \/ AgentRefused(j)
    \/ Park(j) \/ Begin(j) \/ AcquireTask(j) \/ TaskRefused(j) \/ RefusedReturn(j)
    \/ Claim(j) \/ ReleaseAgent(j) \/ End(j)

Loop == LoopTop \/ LoopExit \/ Take

Next ==
    \/ Loop
    \/ \E j \in Jobs : \/ Dispatch(j) \/ Rerun(j) \/ Goroutine(j) \/ ParkReturn(j)
                       \/ Finish(j) \/ Heartbeat(j)
    \/ \E r \in Runs : CancelRow(r) \/ CancelCtx(r) \/ Reap(r)
    \/ Drain \/ Deadline

Spec == Init /\ [][Next]_vars

\* The runtime schedules every goroutine and the slot gates starve no waiter;
\* the heartbeat ticks; a drain once begun reaches its deadline; an execution
\* whose context is cancelled ends.  The dispatcher, the humans and the
\* reconciler owe nothing, and an execution may take as long as it likes.
StopFairness ==
    /\ WF_vars(Loop)
    /\ WF_vars(Deadline)
    /\ \A j \in Jobs : /\ SF_vars(Goroutine(j))
                       /\ WF_vars(ParkReturn(j))
                       /\ WF_vars(CtxDone(j) /\ Finish(j))
                       /\ WF_vars(Heartbeat(j))
    /\ \A r \in Runs : WF_vars(CancelCtx(r))
StopSpec == Spec /\ StopFairness

\* In the long run every execution ends, stopped or not: its sessions have
\* timeouts.
FairSpec == /\ Spec
            /\ WF_vars(Loop)
            /\ \A j \in Jobs : /\ SF_vars(Goroutine(j))
                               /\ WF_vars(ParkReturn(j))
                               /\ WF_vars(Finish(j))
-----------------------------------------------------------------------------
TypeOK == /\ status \in [Runs -> Statuses \union {None}]
          /\ queue \in Seq(Jobs)
          /\ pc \in [Jobs -> PCs]
          /\ leaving \subseteq Jobs
          /\ stopped \subseteq Jobs
          /\ cancels \in [Runs -> Jobs \union {None}]
          /\ activeTasks \in [Tasks -> Runs \union {None}]
          /\ parked \in [Tasks -> Seq(Jobs)]
          /\ slotHeld \subseteq Tasks
          /\ agentUsed \in Nat
          /\ taskUsed \in Nat
          /\ limits \in [agents : Nat, tasks : Nat]
          /\ loop \in {"top", "select", "exited"}
          /\ draining \in BOOLEAN
          /\ parentDone \in BOOLEAN
          /\ stopping \subseteq Runs

\* The runs of a task share its workspace: at most one of them is between
\* beginTask and endTask, through parking, hand-over, stops and reruns.
OneRunPerTask ==
    \A j, k \in Jobs : /\ pc[j] \in OnTask /\ pc[k] \in OnTask
                       /\ JobTask(j) = JobTask(k)
                       => j = k

\* Each gate's count is what the runner believes it holds: every path out of
\* runJob gives its agent slot back once, and a task's slot is counted exactly
\* while taskSlotHeld remembers it.
SlotAccounting ==
    /\ agentUsed = Cardinality({j \in Jobs : pc[j] \in OnAgent}) + Cardinality(leaving)
    /\ taskUsed = Cardinality(slotHeld)

\* docs/usage-limits.md, "Concurrency caps": the settings hold the most agent
\* runs and the most distinct tasks running at the same time.
Executing == {j \in Jobs : pc[j] = "executing"}
Within(n, limit) == limit = 0 \/ n <= limit
ConcurrencyCap ==
    \E s \in Settings : /\ Within(Cardinality(Executing), s.agents)
                        /\ Within(Cardinality({JobTask(j) : j \in Executing}), s.tasks)

\* Whatever waits for an idle task has somebody to move it on: while jobs are
\* parked on a task or a slot is kept for it, some job of the task is on its
\* way to endTask.  A drain ends the process and its maps with it.
Moving == OnTask \union {"queued", "taken", "registered", "agentWait", "begin"}
NothingStranded ==
    \A t \in Tasks :
        ~draining /\ (parked[t] # <<>> \/ t \in slotHeld)
            => \E j \in Jobs : JobTask(j) = t /\ pc[j] \in Moving

\* A human's verdict outranks whatever the unwinding goroutine writes.
CancelledIsFinal ==
    [][\A r \in Runs : status[r] = "cancelled" => status'[r] = "cancelled"]_vars

\* The two gates wait for each other: every agent slot is with a job that waits
\* for a task slot, and every task slot is kept for an idle task.
GatesLocked ==
    /\ ~Free(agentUsed, limits.agents)
    /\ ~Free(taskUsed, limits.tasks)
    /\ agentUsed = Cardinality({j \in Jobs : pc[j] = "taskWait"})
    /\ \A t \in slotHeld : activeTasks[t] = None

\* Every run that got its row reaches a verdict (the dispatcher creates finitely
\* many, so the runner comes to rest), or the process drains and leaves it to
\* the next one's reconciler.  The one other way to come to rest is the deadlock
\* of runner.go's two gates: agents are admitted first, and endTask keeps the
\* slot of an idle task.
RunsEnd == []<>(\/ draining
                \/ GatesLocked
                \/ \A r \in Runs : status[r] \notin {"pending", "running"})

\* A stop reaches the goroutine even when Runner.Cancel found nothing under the
\* run's id, because a second goroutine of the run deregistered it.
StopReachesRun ==
    \A j \in Jobs : pc[j] = "executing" /\ status[RunOf[j]] = "cancelled"
                        ~> CtxDone(j) \/ pc[j] # "executing"

\* Drain returns after its deadline: every goroutine of the wait group ends.
Alive == {j \in Jobs : pc[j] \notin {"new", "queued", "dropped", "parked", "gone"}}
DrainReturns == parentDone ~> loop = "exited" /\ Alive = {} /\ leaving = {}

\* A job released from parking claims its task.
ParkedJobRuns == \A j \in Jobs : pc[j] = "parked" ~> pc[j] \in OnTask
=============================================================================
