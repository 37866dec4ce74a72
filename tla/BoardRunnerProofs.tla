------------------------- MODULE BoardRunnerProofs -------------------------
(***************************************************************************)
(* Proofs about BoardRunner for any tasks, runs, jobs, settings and queue  *)
(* capacity.  Whatever the environment does: types, the exclusion of a     *)
(* task's runs, the finality of a cancellation, and the accounting of the  *)
(* two gates.  Where nobody stops a run: the caps of the settings, and     *)
(* that nothing parked is stranded.                                        *)
(***************************************************************************)
EXTENDS BoardRunner, FiniteSetTheorems, SequenceTheorems, TLAPS

\* Enqueue yields a queue of jobs and one of the two places a job can go.
LEMMA QueuedType ==
    ASSUME NEW q \in Seq(Jobs), NEW j \in Jobs
    PROVE  Queued(q, j) \in Seq(Jobs)
BY DEF Queued

\* slotGate.release never takes a count below zero.
LEMMA DecType == ASSUME NEW n \in Nat PROVE Dec(n) \in Nat
BY DEF Dec

\* The task of a job is a task.
LEMMA JobTaskType == ASSUME NEW j \in Jobs PROVE JobTask(j) \in Tasks
BY TaskOfAssumption, RunOfAssumption DEF JobTask

\* endTask keeps the types of everything it changes.
LEMMA EndTaskType ==
    ASSUME TypeOK, NEW j \in Jobs, NEW next \in PCs, EndTask(j, next)
    PROVE  /\ activeTasks' \in [Tasks -> Runs \union {None}]
           /\ parked' \in [Tasks -> Seq(Jobs)]
           /\ slotHeld' \subseteq Tasks
           /\ taskUsed' \in Nat
           /\ queue' \in Seq(Jobs)
           /\ pc' \in [Jobs -> PCs]
<1> DEFINE t == JobTask(j)
<1>1. t \in Tasks
  BY JobTaskType
<1>2. parked[t] \in Seq(Jobs)
  BY <1>1 DEF TypeOK
<1>3. CASE parked[t] = <<>>
  BY <1>1, <1>3, DecType DEF TypeOK, EndTask
<1>4. CASE parked[t] # <<>>
  <2>1. Head(parked[t]) \in Jobs /\ Tail(parked[t]) \in Seq(Jobs)
    BY <1>2, <1>4, HeadTailProperties
  <2>2. Queued(queue, Head(parked[t])) \in Seq(Jobs)
    BY <2>1, QueuedType DEF TypeOK
  <2>3. QueuedPC \in PCs
    BY DEF QueuedPC, PCs
  <2>4. activeTasks' \in [Tasks -> Runs \union {None}] /\ slotHeld' \subseteq Tasks
        /\ taskUsed' \in Nat
    BY <1>1, DecType DEF TypeOK, EndTask
  <2>5. parked' \in [Tasks -> Seq(Jobs)]
    BY <1>1, <1>4, <2>1 DEF TypeOK, EndTask
  <2>6. queue' \in Seq(Jobs)
    BY <1>4, <2>2 DEF EndTask
  <2>7. pc' \in [Jobs -> PCs]
    BY <1>4, <2>1, <2>3 DEF TypeOK, EndTask
  <2> QED
    BY <2>4, <2>5, <2>6, <2>7
<1> QED
  BY <1>3, <1>4
-----------------------------------------------------------------------------
USE DEF rows, gates, maps, life, vars

\* No limits are limits.
LEMMA UnlimitedType == Unlimited \in [agents : Nat, tasks : Nat]
BY DEF Unlimited

\* The runner's state before any job exists.
LEMMA InitType == Init => TypeOK
<1> SUFFICES ASSUME Init PROVE TypeOK
  OBVIOUS
<1>1. queue \in Seq(Jobs) /\ parked \in [Tasks -> Seq(Jobs)]
  BY DEF Init
<1>2. pc \in [Jobs -> PCs] /\ status \in [Runs -> Statuses \union {None}]
  BY DEF Init, PCs
<1>3. limits \in [agents : Nat, tasks : Nat]
  BY UnlimitedType DEF Init
<1> QED
  BY <1>1, <1>2, <1>3 DEF Init, TypeOK

\* The environment's steps and the loop's: a job's row, the queue, the drain.
LEMMA OutsideType ==
    ASSUME TypeOK
    PROVE  /\ Loop => TypeOK'
           /\ \A j \in Jobs : Dispatch(j) \/ Rerun(j) \/ Heartbeat(j) => TypeOK'
           /\ \A r \in Runs : CancelRow(r) \/ CancelCtx(r) \/ Reap(r) => TypeOK'
           /\ Drain \/ Deadline => TypeOK'
<1> USE DEF TypeOK
<1>1. LoopTop \/ LoopExit => TypeOK'
  BY DEF LoopTop, LoopExit
<1>2. ASSUME Take PROVE TypeOK'
  <2>1. Head(queue) \in Jobs /\ Tail(queue) \in Seq(Jobs)
    BY <1>2, HeadTailProperties DEF Take
  <2> QED
    BY <1>2, <2>1 DEF Take, PCs
<1>3. ASSUME NEW j \in Jobs, Submitted(j) PROVE TypeOK'
  <2>1. status' \in [Runs -> Statuses \union {None}]
    BY <1>3 DEF Submitted, Statuses
  <2>2. queue' \in Seq(Jobs)
    BY <1>3, QueuedType DEF Submitted
  <2>3. pc' \in [Jobs -> PCs]
    BY <1>3 DEF Submitted, QueuedPC, PCs
  <2> QED
    BY <1>3, <2>1, <2>2, <2>3 DEF Submitted
<1>4. ASSUME NEW j \in Jobs, Dispatch(j) \/ Rerun(j) PROVE TypeOK'
  BY <1>3, <1>4 DEF Dispatch, Rerun
<1>5. ASSUME NEW j \in Jobs, Heartbeat(j) PROVE TypeOK'
  BY <1>5 DEF Heartbeat
<1>6. ASSUME NEW r \in Runs, CancelRow(r) \/ Reap(r) PROVE TypeOK'
  BY <1>6 DEF CancelRow, Reap, Statuses
<1>7. ASSUME NEW r \in Runs, CancelCtx(r) PROVE TypeOK'
  BY <1>7 DEF CancelCtx
<1>8. Drain \/ Deadline => TypeOK'
  BY DEF Drain, Deadline
<1> QED
  BY <1>1, <1>2, <1>4, <1>5, <1>6, <1>7, <1>8 DEF Loop

\* The goroutine of a job, from its registration to its last return.
LEMMA GoroutineType ==
    ASSUME TypeOK, NEW j \in Jobs,
           Goroutine(j) \/ ParkReturn(j) \/ Finish(j)
    PROVE  TypeOK'
<1> USE DEF TypeOK
<1> RunOf[j] \in Runs /\ JobTask(j) \in Tasks
  BY RunOfAssumption, JobTaskType
<1>1. CASE Register(j) \/ Skip(j)
  BY <1>1 DEF Register, Skip, Deregistered, PCs
<1>2. CASE Admit(j)
  <2>1. limits' \in [agents : Nat, tasks : Nat]
    BY <1>2, SettingsAssumption, UnlimitedType DEF Admit
  <2> QED
    BY <1>2, <2>1 DEF Admit, PCs
<1>3. CASE AcquireAgent(j)
  BY <1>3 DEF AcquireAgent, PCs
<1>4. CASE Park(j)
  <2>1. parked' \in [Tasks -> Seq(Jobs)]
    BY <1>4 DEF Park
  <2> QED
    BY <1>4, <2>1 DEF Park, PCs
<1>5. CASE ParkReturn(j)
  BY <1>5, DecType DEF ParkReturn, Deregistered
<1>6. CASE Begin(j)
  <2>1. pc' \in [Jobs -> PCs]
    BY <1>6 DEF Begin, PCs
  <2>2. activeTasks' \in [Tasks -> Runs \union {None}]
    BY <1>6 DEF Begin
  <2> QED
    BY <1>6, <2>1, <2>2 DEF Begin
<1>7. CASE TaskRefused(j)
  <2>1. EndTask(j, "refused") /\ "refused" \in PCs
    BY <1>7 DEF TaskRefused, PCs
  <2> QED
    BY <1>7, <2>1, EndTaskType DEF TaskRefused
<1>8. CASE RefusedReturn(j) \/ ReleaseAgent(j)
  BY <1>8, DecType DEF RefusedReturn, ReleaseAgent, Deregistered, PCs
<1>9. CASE Claim(j)
  BY <1>9 DEF Claim, PCs, Statuses
<1>10. CASE Finish(j)
  BY <1>10 DEF Finish, Written, PCs, Statuses
<1>11. CASE End(j)
  <2>1. EndTask(j, "gone") /\ "gone" \in PCs
    BY <1>11 DEF End, PCs
  <2>2. cancels' \in [Runs -> Jobs \union {None}]
    BY <1>11 DEF End, Deregistered
  <2> QED
    BY <1>11, <2>1, <2>2, EndTaskType DEF End
<1>12. CASE AgentRefused(j)
  BY <1>12 DEF AgentRefused, Deregistered, PCs
<1>13. CASE AcquireTask(j)
  BY <1>13 DEF AcquireTask, PCs
<1> QED
  BY <1>1, <1>2, <1>3, <1>4, <1>5, <1>6, <1>7, <1>8, <1>9, <1>10, <1>11, <1>12, <1>13
  DEF Goroutine

\* Every reachable state of the runner has its types: counts stay natural
\* numbers, the queue and the parked lists hold jobs, the maps name runs.
THEOREM TypeCorrect == Spec => []TypeOK
<1>1. Init => TypeOK
  BY InitType
<1>2. TypeOK /\ [Next]_vars => TypeOK'
  <2>1. TypeOK /\ UNCHANGED vars => TypeOK'
    BY DEF TypeOK
  <2>2. TypeOK /\ Next => TypeOK'
    BY OutsideType, GoroutineType DEF Next
  <2> QED
    BY <2>1, <2>2
<1> QED
  BY <1>1, <1>2, PTL DEF Spec
-----------------------------------------------------------------------------
\* Exclusion alone is not inductive: beginTask admits a run when activeTasks has
\* no entry for the task, so a run on the task must always have one.
Held == \A j \in Jobs : pc[j] \in OnTask => activeTasks[JobTask(j)] # None
Exclusion == TypeOK /\ Held /\ OneRunPerTask

\* endTask takes its job off the task and puts no other job on one.
LEMMA EndTaskExclusion ==
    ASSUME Exclusion, NEW j \in Jobs, pc[j] \in OnTask,
           NEW next \in {"refused", "gone"}, EndTask(j, next)
    PROVE  Held' /\ OneRunPerTask'
<1> USE DEF Exclusion, TypeOK
<1>1. JobTask(j) \in Tasks /\ parked[JobTask(j)] \in Seq(Jobs)
  BY JobTaskType
<1>2. \A k \in Jobs : pc'[k] \in OnTask => k # j /\ pc[k] \in OnTask
  <2>1. CASE parked[JobTask(j)] = <<>>
    BY <2>1 DEF EndTask, OnTask
  <2>2. CASE parked[JobTask(j)] # <<>>
    <3>1. Head(parked[JobTask(j)]) \in Jobs
      BY <1>1, <2>2, HeadTailProperties
    <3>2. pc' = [pc EXCEPT ![j] = next, ![Head(parked[JobTask(j)])] = QueuedPC]
      BY <2>2 DEF EndTask
    <3> QED
      BY <3>1, <3>2 DEF QueuedPC, OnTask
  <2> QED
    BY <2>1, <2>2
<1>3. activeTasks' = [activeTasks EXCEPT ![JobTask(j)] = None]
  BY DEF EndTask
<1>4. OneRunPerTask'
  BY <1>2 DEF OneRunPerTask, JobTask
<1>5. ASSUME NEW k \in Jobs, pc'[k] \in OnTask PROVE activeTasks'[JobTask(k)] # None
  <2>1. k # j /\ pc[k] \in OnTask
    BY <1>2, <1>5
  <2>2. JobTask(k) # JobTask(j)
    BY <2>1 DEF OneRunPerTask
  <2> QED
    BY <1>1, <1>3, <2>1, <2>2, JobTaskType DEF Held
<1> QED
  BY <1>4, <1>5 DEF Held, JobTask

\* beginTask puts its job on a task that has no run.
LEMMA BeginExclusion ==
    ASSUME Exclusion, NEW j \in Jobs, Begin(j)
    PROVE  Held' /\ OneRunPerTask'
<1> USE DEF Exclusion, TypeOK
<1>1. JobTask(j) \in Tasks /\ RunOf[j] \in Runs /\ RunOf[j] # None
  BY JobTaskType, RunOfAssumption, NoneAssumption
<1>2. \A k \in Jobs : pc'[k] \in OnTask => k = j \/ pc[k] \in OnTask
  BY DEF Begin
<1>3. \A k \in Jobs : pc[k] \in OnTask => JobTask(k) # JobTask(j)
  BY DEF Held, Begin
<1>4. activeTasks'[JobTask(j)] # None
  BY <1>1 DEF Begin
<1>5. \A k \in Jobs : pc[k] \in OnTask => activeTasks'[JobTask(k)] # None
  BY <1>1, <1>3, JobTaskType DEF Held, Begin
<1>6. Held'
  BY <1>2, <1>4, <1>5 DEF Held, JobTask
<1>7. OneRunPerTask'
  BY <1>2, <1>3 DEF OneRunPerTask, JobTask
<1> QED
  BY <1>6, <1>7

\* A step that puts no job on a task and frees no task keeps the exclusion.
LEMMA QuietExclusion ==
    ASSUME Exclusion, activeTasks' = activeTasks,
           \A k \in Jobs : pc'[k] \in OnTask => pc[k] \in OnTask
    PROVE  Held' /\ OneRunPerTask'
<1>1. \A k \in Jobs : JobTask(k)' = JobTask(k)
  BY DEF JobTask
<1> QED
  BY <1>1 DEF Exclusion, Held, OneRunPerTask

\* No step puts a second run on a task.
LEMMA ExclusionStep == ASSUME Exclusion, [Next]_vars PROVE Exclusion'
<1> SUFFICES Held' /\ OneRunPerTask'
  BY OutsideType, GoroutineType DEF Exclusion, Next, TypeOK
<1> USE DEF Exclusion
<1>1. CASE UNCHANGED vars
  BY <1>1, QuietExclusion
<1>2. CASE Loop \/ Drain \/ Deadline
  <2>1. CASE LoopTop \/ LoopExit \/ Drain \/ Deadline
    BY <2>1, QuietExclusion DEF LoopTop, LoopExit, Drain, Deadline
  <2>2. CASE Take
    <3>1. Head(queue) \in Jobs
      BY <2>2, HeadTailProperties DEF Take, TypeOK
    <3>2. \A k \in Jobs : pc'[k] \in OnTask => pc[k] \in OnTask
      BY <2>2, <3>1 DEF Take, TypeOK, OnTask
    <3> QED
      BY <2>2, <3>2, QuietExclusion DEF Take
  <2> QED
    BY <1>2, <2>1, <2>2 DEF Loop
<1>3. ASSUME NEW j \in Jobs, Dispatch(j) \/ Rerun(j) PROVE Held' /\ OneRunPerTask'
  <2>1. Submitted(j)
    BY <1>3 DEF Dispatch, Rerun
  <2>2. \A k \in Jobs : pc'[k] \in OnTask => pc[k] \in OnTask
    BY <2>1 DEF Submitted, QueuedPC, TypeOK, OnTask
  <2> QED
    BY <2>1, <2>2, QuietExclusion DEF Submitted
<1>4. ASSUME NEW j \in Jobs, Goroutine(j) PROVE Held' /\ OneRunPerTask'
  <2>1. CASE Register(j) \/ Skip(j) \/ Admit(j) \/ AcquireAgent(j) \/ AgentRefused(j)
             \/ Park(j) \/ RefusedReturn(j)
    <3>1. activeTasks' = activeTasks
      BY <2>1 DEF Register, Skip, Admit, AcquireAgent, AgentRefused, Park,
                  RefusedReturn
    <3>2. \A k \in Jobs : pc'[k] \in OnTask => pc[k] \in OnTask
      BY <2>1 DEF Register, Skip, Admit, AcquireAgent, AgentRefused, Park,
                  RefusedReturn, TypeOK, OnTask
    <3> QED
      BY <3>1, <3>2, QuietExclusion
  <2>2. CASE Begin(j)
    BY <2>2, BeginExclusion
  <2>3. CASE AcquireTask(j) \/ Claim(j) \/ ReleaseAgent(j)
    <3>1. activeTasks' = activeTasks
      BY <2>3 DEF AcquireTask, Claim, ReleaseAgent
    <3>2. \A k \in Jobs : pc'[k] \in OnTask => pc[k] \in OnTask
      BY <2>3 DEF AcquireTask, Claim, ReleaseAgent, TypeOK, OnTask
    <3> QED
      BY <3>1, <3>2, QuietExclusion
  <2>4. CASE TaskRefused(j)
    BY <2>4, EndTaskExclusion DEF TaskRefused, OnTask
  <2>5. CASE End(j)
    BY <2>5, EndTaskExclusion DEF End, OnTask
  <2> QED
    BY <1>4, <2>1, <2>2, <2>3, <2>4, <2>5 DEF Goroutine
<1>5. ASSUME NEW j \in Jobs, ParkReturn(j) \/ Finish(j) \/ Heartbeat(j)
      PROVE  Held' /\ OneRunPerTask'
  <2>1. activeTasks' = activeTasks
    BY <1>5 DEF ParkReturn, Finish, Heartbeat
  <2>2. \A k \in Jobs : pc'[k] \in OnTask => pc[k] \in OnTask
    BY <1>5 DEF ParkReturn, Finish, Heartbeat, TypeOK, OnTask
  <2> QED
    BY <2>1, <2>2, QuietExclusion
<1>6. ASSUME NEW r \in Runs, CancelRow(r) \/ CancelCtx(r) \/ Reap(r)
      PROVE  Held' /\ OneRunPerTask'
  BY <1>6, QuietExclusion DEF CancelRow, CancelCtx, Reap
<1> QED
  BY <1>1, <1>2, <1>3, <1>4, <1>5, <1>6 DEF Next

\* At most one run of a task is between beginTask and endTask.
THEOREM ExclusionCorrect == Spec => []OneRunPerTask
<1>1. Init => Exclusion
  BY InitType DEF Init, Exclusion, Held, OneRunPerTask, OnTask
<1>2. Exclusion /\ [Next]_vars => Exclusion'
  BY ExclusionStep
<1> QED
  BY <1>1, <1>2, PTL DEF Spec, Exclusion
-----------------------------------------------------------------------------
\* A human's stop is final: no claim, verdict, rerun or reap overwrites it.
THEOREM CancellationFinal == Spec => CancelledIsFinal
<1> DEFINE Kept == \A r \in Runs : status[r] = "cancelled" => status'[r] = "cancelled"
<1>1. TypeOK /\ [Next]_vars => Kept
  <2> SUFFICES ASSUME TypeOK, [Next]_vars PROVE Kept
    OBVIOUS
  <2> USE DEF TypeOK
  <2>1. CASE UNCHANGED vars
    BY <2>1
  <2>2. CASE Loop \/ Drain \/ Deadline
    BY <2>2 DEF Loop, LoopTop, LoopExit, Take, Drain, Deadline
  <2>3. ASSUME NEW j \in Jobs, Dispatch(j) \/ Rerun(j) PROVE Kept
    <3>1. status[RunOf[j]] # "cancelled"
      BY <2>3, NoneAssumption DEF Dispatch, Rerun, Statuses
    <3> QED
      BY <2>3, <3>1 DEF Dispatch, Rerun, Submitted
  <2>4. ASSUME NEW j \in Jobs, Claim(j) PROVE Kept
    BY <2>4 DEF Claim
  <2>5. ASSUME NEW j \in Jobs, Finish(j) PROVE Kept
    BY <2>5 DEF Finish, Written
  <2>6. ASSUME NEW j \in Jobs, Goroutine(j), ~Claim(j) PROVE Kept
    BY <2>6 DEF Goroutine, Register, Skip, Admit, AcquireAgent, AgentRefused, Park,
                Begin, AcquireTask, TaskRefused, RefusedReturn, ReleaseAgent, End
  <2>7. ASSUME NEW j \in Jobs, ParkReturn(j) \/ Heartbeat(j) PROVE Kept
    BY <2>7 DEF ParkReturn, Heartbeat
  <2>8. ASSUME NEW r \in Runs, CancelRow(r) \/ CancelCtx(r) \/ Reap(r) PROVE Kept
    BY <2>8 DEF CancelRow, CancelCtx, Reap
  <2> QED
    BY <2>1, <2>2, <2>3, <2>4, <2>5, <2>6, <2>7, <2>8 DEF Next
<1> QED
  BY <1>1, TypeCorrect, PTL DEF Spec, CancelledIsFinal
-----------------------------------------------------------------------------
\* Where the waiting jobs are.  A job in the queue is there once and is nowhere
\* else, and a job parked on a task is there once, is nowhere else and is of that
\* task: the accounting rests on it, because Take and endTask move the job they
\* find at the head whatever it was doing.
Lined(s, place, at) == /\ \A i, k \in 1..Len(s) : s[i] = s[k] => i = k
                       /\ \A i \in 1..Len(s) : place[s[i]] = at
InQueue  == Lined(queue, pc, "queued")
InParked == \A t \in Tasks :
                /\ Lined(parked[t], pc, "parked")
                /\ \A i \in 1..Len(parked[t]) : JobTask(parked[t][i]) = t
Places == TypeOK /\ InQueue /\ InParked

\* A line whose jobs stay where they are stays a line.
LEMMA LinedSame ==
    ASSUME NEW s \in Seq(Jobs), NEW place, NEW new, NEW at, Lined(s, place, at),
           \A i \in 1..Len(s) : new[s[i]] = at
    PROVE  Lined(s, new, at)
BY DEF Lined

\* A job that comes from elsewhere goes to the end of the line.
LEMMA LinedAppend ==
    ASSUME NEW s \in Seq(Jobs), NEW place, NEW new, NEW at, Lined(s, place, at),
           NEW j \in Jobs, place[j] # at, new[j] = at,
           \A i \in 1..Len(s) : new[s[i]] = at
    PROVE  Lined(Append(s, j), new, at)
<1>1. Append(s, j) \in Seq(Jobs) /\ Len(Append(s, j)) = Len(s) + 1 /\ Len(s) \in Nat
  OBVIOUS
<1>2. \A i \in 1..Len(s) : Append(s, j)[i] = s[i]
  OBVIOUS
<1>3. Append(s, j)[Len(s) + 1] = j
  OBVIOUS
<1>4. \A i \in 1..Len(s) : s[i] # j
  BY DEF Lined
<1> QED
  BY <1>1, <1>2, <1>3, <1>4 DEF Lined

\* The job at the head leaves; the others stay where they are.
LEMMA LinedTail ==
    ASSUME NEW s \in Seq(Jobs), s # <<>>, NEW place, NEW new, NEW at,
           Lined(s, place, at),
           \A k \in Jobs : k # Head(s) /\ place[k] = at => new[k] = at
    PROVE  Lined(Tail(s), new, at)
<1>1. Tail(s) \in Seq(Jobs) /\ Len(Tail(s)) = Len(s) - 1 /\ Len(s) \in Nat \ {0}
  BY HeadTailProperties, EmptySeq, LenProperties
<1>2. \A i \in 1..Len(Tail(s)) : Tail(s)[i] = s[i + 1] /\ i + 1 \in 1..Len(s)
  BY <1>1, HeadTailProperties
<1>3. Head(s) = s[1] /\ 1 \in 1..Len(s)
  BY <1>1
<1>4. \A i \in 1..Len(Tail(s)) : s[i + 1] # Head(s) /\ s[i + 1] \in Jobs
  BY <1>1, <1>2, <1>3 DEF Lined
<1>5. \A i \in 1..Len(Tail(s)) : new[Tail(s)[i]] = at
  BY <1>2, <1>4 DEF Lined
<1>6. ASSUME NEW i \in 1..Len(Tail(s)), NEW k \in 1..Len(Tail(s)), Tail(s)[i] = Tail(s)[k]
      PROVE  i = k
  <2>1. i + 1 = k + 1
    BY <1>2, <1>6 DEF Lined
  <2> QED
    BY <2>1, <1>1
<1> QED
  BY <1>5, <1>6 DEF Lined

\* A step that moves no waiting job and changes no line.
LEMMA QuietPlaces ==
    ASSUME Places, queue' = queue, parked' = parked,
           \A k \in Jobs : pc[k] \in {"queued", "parked"} => pc'[k] = pc[k]
    PROVE  InQueue' /\ InParked'
<1> USE DEF Places, TypeOK
<1>1. \A i \in 1..Len(queue) : queue[i] \in Jobs /\ pc'[queue[i]] = "queued"
  BY DEF InQueue, Lined
<1>2. \A t \in Tasks : \A i \in 1..Len(parked[t]) :
          parked[t][i] \in Jobs /\ pc'[parked[t][i]] = "parked"
  BY DEF InParked, Lined
<1>3. InQueue'
  BY <1>1 DEF InQueue, Lined
<1>4. InParked'
  BY <1>2 DEF InParked, Lined, JobTask
<1> QED
  BY <1>3, <1>4

\* Enqueue of a job that waits nowhere, or that has just left its parked list.
LEMMA EnqueuePlaces ==
    ASSUME Places, NEW j \in Jobs, pc[j] # "queued",
           queue' = Queued(queue, j), pc'[j] = QueuedPC,
           \A k \in Jobs : k # j /\ pc[k] = "queued" => pc'[k] = "queued"
    PROVE  InQueue'
<1> USE DEF Places, TypeOK
<1>1. \A i \in 1..Len(queue) : queue[i] \in Jobs /\ pc'[queue[i]] = "queued"
  BY DEF InQueue, Lined
<1>2. CASE Accepted
  <2>1. Lined(Append(queue, j), pc', "queued")
    BY <1>1, <1>2, LinedAppend DEF InQueue, QueuedPC
  <2> QED
    BY <1>2, <2>1 DEF InQueue, Queued
<1>3. CASE ~Accepted
  <2>1. Lined(queue, pc', "queued")
    BY <1>1, LinedSame DEF InQueue
  <2> QED
    BY <1>3, <2>1 DEF InQueue, Queued
<1> QED
  BY <1>2, <1>3

\* endTask: the job at the head of the parked list, which is parked and of this
\* task, leaves the list for the queue.
LEMMA EndTaskWakes ==
    ASSUME Places, NEW j \in Jobs, pc[j] \in OnTask, NEW next \in {"refused", "gone"},
           EndTask(j, next), parked[JobTask(j)] # <<>>
    PROVE  LET h == Head(parked[JobTask(j)])
           IN  /\ h \in Jobs /\ h # j /\ pc[h] = "parked" /\ JobTask(h) = JobTask(j)
               /\ queue' = Queued(queue, h) /\ pc'[h] = QueuedPC /\ pc'[j] = next
               /\ \A k \in Jobs : k \notin {j, h} => pc'[k] = pc[k]
               /\ parked' = [parked EXCEPT ![JobTask(j)] = Tail(@)]
<1> USE DEF Places, TypeOK
<1> DEFINE t == JobTask(j)
           h == Head(parked[t])
<1>1. t \in Tasks /\ parked[t] \in Seq(Jobs)
  BY JobTaskType
<1>2. h \in Jobs /\ h = parked[t][1] /\ 1 \in 1..Len(parked[t])
  BY <1>1, HeadTailProperties, EmptySeq, LenProperties
<1>3. pc[h] = "parked" /\ JobTask(h) = t
  BY <1>1, <1>2 DEF InParked, Lined
<1>4. h # j
  BY <1>3 DEF OnTask
<1>5. pc' = [pc EXCEPT ![j] = next, ![h] = QueuedPC] /\ queue' = Queued(queue, h)
      /\ parked' = [parked EXCEPT ![t] = Tail(@)]
  BY DEF EndTask
<1> QED
  BY <1>2, <1>3, <1>4, <1>5

LEMMA EndTaskPlaces ==
    ASSUME Places, NEW j \in Jobs, pc[j] \in OnTask, NEW next \in {"refused", "gone"},
           EndTask(j, next)
    PROVE  InQueue' /\ InParked'
<1> USE DEF Places, TypeOK
<1> DEFINE t == JobTask(j)
           h == Head(parked[t])
<1>1. t \in Tasks /\ parked[t] \in Seq(Jobs)
  BY JobTaskType
<1>2. CASE parked[t] = <<>>
  <2>1. \A k \in Jobs : pc[k] \in {"queued", "parked"} => pc'[k] = pc[k]
    BY <1>2 DEF EndTask, OnTask
  <2> QED
    BY <1>2, <2>1, QuietPlaces DEF EndTask
<1>3. CASE parked[t] # <<>>
  <2>1. /\ h \in Jobs /\ h # j /\ pc[h] = "parked" /\ JobTask(h) = t
        /\ queue' = Queued(queue, h) /\ pc'[h] = QueuedPC /\ pc'[j] = next
        /\ \A k \in Jobs : k \notin {j, h} => pc'[k] = pc[k]
        /\ parked' = [parked EXCEPT ![t] = Tail(@)]
    BY <1>3, EndTaskWakes
  <2>2. \A k \in Jobs : k # h /\ pc[k] \in {"queued", "parked"} => pc'[k] = pc[k]
    BY <2>1 DEF OnTask
  <2>3. InQueue'
    BY <2>1, <2>2, EnqueuePlaces
  <2>4. ASSUME NEW u \in Tasks, u # t
        PROVE  /\ Lined(parked'[u], pc', "parked")
               /\ \A i \in 1..Len(parked'[u]) : JobTask(parked'[u][i]) = u
    <3>1. parked'[u] = parked[u] /\ parked[u] \in Seq(Jobs)
      BY <2>1, <2>4
    <3>2. \A i \in 1..Len(parked[u]) : parked[u][i] \in Jobs /\ parked[u][i] # h
      BY <2>1, <2>4, <3>1 DEF InParked
    <3>3. \A i \in 1..Len(parked[u]) : pc'[parked[u][i]] = "parked"
      BY <2>2, <3>2 DEF InParked, Lined
    <3>4. Lined(parked[u], pc', "parked")
      BY <3>1, <3>3, LinedSame DEF InParked
    <3> QED
      BY <3>1, <3>4 DEF InParked
  <2>5. parked'[t] = Tail(parked[t])
    BY <1>1, <2>1
  <2>6. Lined(Tail(parked[t]), pc', "parked")
    BY <1>1, <1>3, <2>2, LinedTail DEF InParked
  <2>7. \A i \in 1..Len(Tail(parked[t])) : JobTask(Tail(parked[t])[i]) = t
    <3>1. /\ Len(Tail(parked[t])) = Len(parked[t]) - 1
          /\ \A i \in 1..Len(Tail(parked[t])) : /\ Tail(parked[t])[i] = parked[t][i + 1]
                                                /\ i + 1 \in 1..Len(parked[t])
      BY <1>1, <1>3, HeadTailProperties, EmptySeq, LenProperties
    <3> QED
      BY <1>1, <3>1 DEF InParked
  <2>8. InParked'
    BY <2>4, <2>5, <2>6, <2>7 DEF InParked, JobTask
  <2> QED
    BY <2>3, <2>8
<1> QED
  BY <1>2, <1>3

\* Every step keeps the waiting jobs in line.
LEMMA PlacesStep ==
    ASSUME Places, [Next]_vars
    PROVE  Places'
<1> SUFFICES InQueue' /\ InParked'
  BY OutsideType, GoroutineType DEF Places, Next, TypeOK
<1> USE DEF Places, TypeOK
<1>1. CASE UNCHANGED vars
  BY <1>1, QuietPlaces
<1>2. CASE LoopTop \/ LoopExit \/ Drain \/ Deadline
  BY <1>2, QuietPlaces DEF LoopTop, LoopExit, Drain, Deadline
<1>3. CASE Take
  <2>1. queue # <<>> /\ Head(queue) \in Jobs /\ pc[Head(queue)] = "queued"
    <3>1. Head(queue) = queue[1] /\ 1 \in 1..Len(queue) /\ queue # <<>>
      BY <1>3, HeadTailProperties, EmptySeq, LenProperties DEF Take
    <3> QED
      BY <3>1 DEF InQueue, Lined
  <2>2. queue' = Tail(queue) /\ pc' = [pc EXCEPT ![Head(queue)] = "taken"]
        /\ parked' = parked
    BY <1>3 DEF Take
  <2>3. Lined(Tail(queue), pc', "queued")
    BY <2>1, <2>2, LinedTail DEF InQueue
  <2>4. \A t \in Tasks : \A i \in 1..Len(parked[t]) :
            parked[t][i] \in Jobs /\ pc'[parked[t][i]] = "parked"
    BY <2>1, <2>2 DEF InParked, Lined
  <2> QED
    BY <2>2, <2>3, <2>4 DEF InQueue, InParked, Lined, JobTask
<1>4. ASSUME NEW j \in Jobs, Submitted(j) PROVE InQueue' /\ InParked'
  <2>1. pc[j] = "new" /\ queue' = Queued(queue, j) /\ parked' = parked
        /\ pc' = [pc EXCEPT ![j] = QueuedPC]
    BY <1>4 DEF Submitted
  <2>2. \A k \in Jobs : pc[k] \in {"queued", "parked"} => pc'[k] = pc[k]
    BY <2>1
  <2>3. InQueue'
    BY <2>1, <2>2, EnqueuePlaces
  <2>4. \A t \in Tasks : \A i \in 1..Len(parked[t]) :
            parked[t][i] \in Jobs /\ pc'[parked[t][i]] = "parked"
    BY <2>2 DEF InParked, Lined
  <2> QED
    BY <2>1, <2>3, <2>4 DEF InParked, Lined, JobTask
<1>5. ASSUME NEW j \in Jobs,
             Register(j) \/ Skip(j) \/ Admit(j) \/ AcquireAgent(j) \/ AgentRefused(j)
             \/ Begin(j) \/ AcquireTask(j) \/ RefusedReturn(j) \/ Claim(j)
             \/ ReleaseAgent(j) \/ ParkReturn(j) \/ Finish(j) \/ Heartbeat(j)
      PROVE  InQueue' /\ InParked'
  <2>1. queue' = queue /\ parked' = parked
    BY <1>5 DEF Register, Skip, Admit, AcquireAgent, AgentRefused, Begin, AcquireTask,
                RefusedReturn, Claim, ReleaseAgent, ParkReturn, Finish, Heartbeat
  <2>2. \A k \in Jobs : pc[k] \in {"queued", "parked"} => pc'[k] = pc[k]
    BY <1>5 DEF Register, Skip, Admit, AcquireAgent, AgentRefused, Begin, AcquireTask,
                RefusedReturn, Claim, ReleaseAgent, ParkReturn, Finish, Heartbeat
  <2> QED
    BY <2>1, <2>2, QuietPlaces
<1>6. ASSUME NEW j \in Jobs, Park(j) PROVE InQueue' /\ InParked'
  <2> DEFINE t == JobTask(j)
  <2>1. /\ pc[j] = "begin" /\ t \in Tasks /\ queue' = queue
        /\ parked' = [parked EXCEPT ![t] = Append(@, j)]
        /\ pc' = [pc EXCEPT ![j] = "parked"]
    BY <1>6, JobTaskType DEF Park
  <2>2. \A k \in Jobs : pc[k] \in {"queued", "parked"} => pc'[k] = pc[k]
    BY <2>1
  <2>3. \A u \in Tasks : \A i \in 1..Len(parked[u]) :
            parked[u][i] \in Jobs /\ pc'[parked[u][i]] = "parked"
    BY <2>2 DEF InParked, Lined
  <2>4. Lined(Append(parked[t], j), pc', "parked")
    BY <2>1, <2>3, LinedAppend DEF InParked
  <2>5. \A i \in 1..Len(Append(parked[t], j)) : JobTask(Append(parked[t], j)[i]) = t
    BY <2>1 DEF InParked
  <2>6. parked'[t] = Append(parked[t], j)
    BY <2>1
  <2>7. ASSUME NEW u \in Tasks, u # t
        PROVE  /\ Lined(parked'[u], pc', "parked")
               /\ \A i \in 1..Len(parked'[u]) : JobTask(parked'[u][i]) = u
    <3>1. parked'[u] = parked[u]
      BY <2>1, <2>7
    <3> QED
      BY <2>3, <3>1 DEF InParked, Lined
  <2>8. InParked'
    BY <2>4, <2>5, <2>6, <2>7 DEF InParked, JobTask
  <2>9. InQueue'
    BY <2>1, <2>2 DEF InQueue, Lined
  <2> QED
    BY <2>8, <2>9
<1>7. ASSUME NEW j \in Jobs, TaskRefused(j) \/ End(j) PROVE InQueue' /\ InParked'
  BY <1>7, EndTaskPlaces DEF TaskRefused, End, OnTask
<1>8. ASSUME NEW r \in Runs, CancelRow(r) \/ CancelCtx(r) \/ Reap(r)
      PROVE  InQueue' /\ InParked'
  BY <1>8, QuietPlaces DEF CancelRow, CancelCtx, Reap
<1> QED
  BY <1>1, <1>2, <1>3, <1>4, <1>5, <1>6, <1>7, <1>8
  DEF Next, Loop, Goroutine, Dispatch, Rerun
-----------------------------------------------------------------------------
\* Which runs hold the task's slot: not the one that waits for it, and every one
\* that has got past the wait.  A release therefore never finds a count at zero.
SlotKnown == \A j \in Jobs :
                 /\ pc[j] = "taskWait" => JobTask(j) \notin slotHeld
                 /\ pc[j] \in OnTask \ {"taskWait"} => JobTask(j) \in slotHeld
OnAgents == {j \in Jobs : pc[j] \in OnAgent}
Books == Places /\ Exclusion /\ SlotKnown /\ SlotAccounting

\* The sets the counts are of are finite.
LEMMA CountsFinite ==
    ASSUME TypeOK
    PROVE  /\ IsFiniteSet(OnAgents) /\ Cardinality(OnAgents) \in Nat
           /\ IsFiniteSet(leaving) /\ Cardinality(leaving) \in Nat
           /\ IsFiniteSet(slotHeld) /\ Cardinality(slotHeld) \in Nat
<1>1. OnAgents \in SUBSET Jobs /\ leaving \in SUBSET Jobs /\ slotHeld \in SUBSET Tasks
  BY DEF OnAgents, TypeOK
<1>2. IsFiniteSet(OnAgents) /\ IsFiniteSet(leaving) /\ IsFiniteSet(slotHeld)
  BY <1>1, FS_Subset, FiniteAssumption
<1> QED
  BY <1>2, FS_CardinalityType

\* A step that takes no slot, gives none back and moves no job over the end of one.
LEMMA QuietBooks ==
    ASSUME Books, UNCHANGED <<agentUsed, taskUsed, slotHeld, leaving>>,
           \A k \in Jobs : /\ pc'[k] \in OnAgent <=> pc[k] \in OnAgent
                           /\ pc'[k] \in OnTask => \/ pc'[k] = pc[k]
                                                   \/ /\ pc[k] \in OnTask \ {"taskWait"}
                                                      /\ pc'[k] # "taskWait"
    PROVE  SlotKnown' /\ SlotAccounting'
<1> USE DEF Books
<1>1. SlotKnown'
  BY DEF SlotKnown, JobTask, OnTask
<1>2. OnAgents' = OnAgents
  BY DEF OnAgents
<1>3. SlotAccounting'
  BY <1>2 DEF SlotAccounting, OnAgents
<1> QED
  BY <1>1, <1>3

\* The agent gate: a job takes a slot, or gives its own back.
LEMMA AgentBooks ==
    ASSUME Books, UNCHANGED <<taskUsed, slotHeld, leaving>>, NEW j \in Jobs,
           pc' = [pc EXCEPT ![j] = pc'[j]],
           \/ pc[j] \notin OnAgent /\ pc'[j] \in OnAgent /\ agentUsed' = agentUsed + 1
           \/ pc[j] \in OnAgent /\ pc'[j] \notin OnAgent /\ agentUsed' = Dec(agentUsed),
           pc'[j] \in OnTask => pc[j] \in OnTask \ {"taskWait"} /\ pc'[j] # "taskWait"
    PROVE  SlotKnown' /\ SlotAccounting'
<1> USE DEF Books, Places, TypeOK
<1>1. SlotKnown'
  BY DEF SlotKnown, JobTask, OnTask
<1>2. \A k \in Jobs : k # j => pc'[k] = pc[k]
  OBVIOUS
<1>3. IsFiniteSet(OnAgents) /\ Cardinality(OnAgents) \in Nat /\ Cardinality(leaving) \in Nat
  BY CountsFinite
<1>4. agentUsed = Cardinality(OnAgents) + Cardinality(leaving)
  BY DEF SlotAccounting, OnAgents
<1>5. CASE pc[j] \notin OnAgent /\ pc'[j] \in OnAgent /\ agentUsed' = agentUsed + 1
  <2>1. OnAgents' = OnAgents \union {j} /\ j \notin OnAgents
    BY <1>2, <1>5 DEF OnAgents
  <2>2. Cardinality(OnAgents') = Cardinality(OnAgents) + 1
    BY <1>3, <2>1, FS_AddElement
  <2> QED
    BY <1>1, <1>3, <1>4, <1>5, <2>2 DEF SlotAccounting, OnAgents
<1>6. CASE pc[j] \in OnAgent /\ pc'[j] \notin OnAgent /\ agentUsed' = Dec(agentUsed)
  <2>1. OnAgents' = OnAgents \ {j} /\ j \in OnAgents
    BY <1>2, <1>6 DEF OnAgents
  <2>2. Cardinality(OnAgents') = Cardinality(OnAgents) - 1
    BY <1>3, <2>1, FS_RemoveElement
  <2>3. Cardinality(OnAgents) # 0
    BY <1>3, <2>1, FS_EmptySet
  <2> QED
    BY <1>1, <1>3, <1>4, <1>6, <2>2, <2>3 DEF SlotAccounting, OnAgents, Dec
<1> QED
  BY <1>5, <1>6

\* beginTask parks the job: its slot is the leaving goroutine's to give back.
LEMMA ParkBooks ==
    ASSUME Books, NEW j \in Jobs, Park(j)
    PROVE  SlotKnown' /\ SlotAccounting'
<1> USE DEF Books, Places, TypeOK
<1>1. /\ pc[j] = "begin" /\ pc' = [pc EXCEPT ![j] = "parked"]
      /\ j \notin leaving /\ leaving' = leaving \union {j}
      /\ UNCHANGED <<agentUsed, taskUsed, slotHeld>>
  BY DEF Park
<1>2. SlotKnown'
  BY <1>1 DEF SlotKnown, JobTask, OnTask
<1>3. OnAgents' = OnAgents \ {j} /\ j \in OnAgents
  BY <1>1 DEF OnAgents, OnAgent
<1>4. Cardinality(OnAgents') = Cardinality(OnAgents) - 1
  BY <1>3, CountsFinite, FS_RemoveElement
<1>5. Cardinality(leaving') = Cardinality(leaving) + 1
  BY <1>1, CountsFinite, FS_AddElement
<1>6. SlotAccounting'
  BY <1>1, <1>4, <1>5, CountsFinite DEF SlotAccounting, OnAgents
<1> QED
  BY <1>2, <1>6

LEMMA ParkReturnBooks ==
    ASSUME Books, NEW j \in Jobs, ParkReturn(j)
    PROVE  SlotKnown' /\ SlotAccounting'
<1> USE DEF Books, Places, TypeOK
<1>1. /\ j \in leaving /\ leaving' = leaving \ {j} /\ agentUsed' = Dec(agentUsed)
      /\ UNCHANGED <<pc, taskUsed, slotHeld>>
  BY DEF ParkReturn
<1>2. SlotKnown' /\ OnAgents' = OnAgents
  BY <1>1 DEF SlotKnown, JobTask, OnAgents
<1>3. Cardinality(leaving') = Cardinality(leaving) - 1
  BY <1>1, CountsFinite, FS_RemoveElement
<1>4. Cardinality(leaving) # 0
  BY <1>1, CountsFinite, FS_EmptySet
<1>5. SlotAccounting'
  BY <1>1, <1>2, <1>3, <1>4, CountsFinite DEF SlotAccounting, OnAgents, Dec
<1> QED
  BY <1>2, <1>5

\* beginTask: the job waits for the slot of its task, or finds it kept.
LEMMA BeginBooks ==
    ASSUME Books, NEW j \in Jobs, Begin(j)
    PROVE  SlotKnown' /\ SlotAccounting'
<1> USE DEF Books, Places, TypeOK
<1>1. /\ pc[j] = "begin" /\ UNCHANGED <<agentUsed, taskUsed, slotHeld, leaving>>
      /\ pc' = [pc EXCEPT ![j] = IF JobTask(j) \in slotHeld THEN "claim" ELSE "taskWait"]
  BY DEF Begin
<1>2. SlotKnown'
  BY <1>1 DEF SlotKnown, JobTask, OnTask
<1>3. OnAgents' = OnAgents
  BY <1>1 DEF OnAgents, OnAgent
<1>4. SlotAccounting'
  BY <1>1, <1>3 DEF SlotAccounting, OnAgents
<1> QED
  BY <1>2, <1>4

\* The slot of the task: only one run of the task can be waiting for it.
LEMMA AcquireTaskBooks ==
    ASSUME Books, NEW j \in Jobs, AcquireTask(j)
    PROVE  SlotKnown' /\ SlotAccounting'
<1> USE DEF Books, Places, TypeOK
<1>1. /\ pc[j] = "taskWait" /\ pc' = [pc EXCEPT ![j] = "claim"]
      /\ taskUsed' = taskUsed + 1 /\ slotHeld' = slotHeld \union {JobTask(j)}
      /\ UNCHANGED <<agentUsed, leaving>>
  BY DEF AcquireTask
<1>2. \A k \in Jobs : k # j /\ pc[k] = "taskWait" => JobTask(k) # JobTask(j)
  BY <1>1 DEF Exclusion, OneRunPerTask, OnTask
<1>3. SlotKnown'
  BY <1>1, <1>2 DEF SlotKnown, JobTask, OnTask
<1>4. OnAgents' = OnAgents
  BY <1>1 DEF OnAgents, OnAgent
<1>5. JobTask(j) \notin slotHeld
  BY <1>1 DEF SlotKnown
<1>6. Cardinality(slotHeld') = Cardinality(slotHeld) + 1
  BY <1>1, <1>5, CountsFinite, FS_AddElement
<1>7. SlotAccounting'
  BY <1>1, <1>4, <1>6, CountsFinite DEF SlotAccounting, OnAgents
<1> QED
  BY <1>3, <1>7

\* endTask: the slot goes unless further jobs stay parked, and no other run of
\* the task was holding it.
LEMMA EndTaskBooks ==
    ASSUME Books, NEW j \in Jobs, NEW next \in {"refused", "gone"}, EndTask(j, next),
           <<pc[j], next>> \in {<<"taskWait", "refused">>, <<"ending", "gone">>},
           UNCHANGED <<agentUsed, leaving>>
    PROVE  SlotKnown' /\ SlotAccounting'
<1> USE DEF Books, Places, TypeOK
<1> DEFINE t == JobTask(j)
           h == Head(parked[t])
<1>1. pc[j] \in OnTask
  BY DEF OnTask
<1>2. /\ pc'[j] = next
      /\ \A k \in Jobs : \/ k = j
                         \/ pc'[k] = pc[k]
                         \/ pc[k] = "parked" /\ pc'[k] = QueuedPC
  <2>1. CASE parked[t] = <<>>
    BY <2>1 DEF EndTask
  <2>2. CASE parked[t] # <<>>
    BY <1>1, <2>2, EndTaskWakes
  <2> QED
    BY <2>1, <2>2
<1>3. \A k \in Jobs : k # j /\ pc[k] \in OnTask => JobTask(k) # t
  BY <1>1 DEF Exclusion, OneRunPerTask
<1>4. \/ slotHeld' = slotHeld /\ taskUsed' = taskUsed
      \/ t \in slotHeld /\ slotHeld' = slotHeld \ {t} /\ taskUsed' = Dec(taskUsed)
  BY DEF EndTask
<1>5. \A k \in Jobs : pc'[k] \in OnTask => k # j /\ pc'[k] = pc[k]
  BY <1>2 DEF OnTask, QueuedPC
<1>6. SlotKnown'
  <2> SUFFICES ASSUME NEW k \in Jobs, pc'[k] \in OnTask
               PROVE  /\ pc'[k] = "taskWait" => JobTask(k) \notin slotHeld'
                      /\ pc'[k] \in OnTask \ {"taskWait"} => JobTask(k) \in slotHeld'
    BY DEF SlotKnown, JobTask, OnTask
  <2> QED
    BY <1>3, <1>4, <1>5 DEF SlotKnown
<1>7. OnAgents' = OnAgents
  BY <1>2 DEF OnAgents, OnAgent, QueuedPC
<1>8. taskUsed' = Cardinality(slotHeld')
  <2>1. CASE slotHeld' = slotHeld /\ taskUsed' = taskUsed
    BY <2>1 DEF SlotAccounting
  <2>2. CASE t \in slotHeld /\ slotHeld' = slotHeld \ {t} /\ taskUsed' = Dec(taskUsed)
    <3>1. Cardinality(slotHeld') = Cardinality(slotHeld) - 1
      BY <2>2, CountsFinite, FS_RemoveElement
    <3>2. Cardinality(slotHeld) # 0
      BY <2>2, CountsFinite, FS_EmptySet
    <3> QED
      BY <2>2, <3>1, <3>2, CountsFinite DEF SlotAccounting, Dec
  <2> QED
    BY <1>4, <2>1, <2>2
<1> QED
  BY <1>6, <1>7, <1>8 DEF SlotAccounting, OnAgents

LEMMA BooksInit == Init => Books
<1> SUFFICES ASSUME Init PROVE Books
  OBVIOUS
<1>1. TypeOK
  BY InitType
<1>2. InQueue /\ InParked
  BY DEF Init, InQueue, InParked, Lined
<1>3. Exclusion /\ SlotKnown
  BY <1>1 DEF Init, Exclusion, Held, OneRunPerTask, SlotKnown, OnTask
<1>4. OnAgents = {} /\ leaving = {} /\ slotHeld = {} /\ agentUsed = 0 /\ taskUsed = 0
  BY DEF Init, OnAgents, OnAgent
<1>5. SlotAccounting
  BY <1>4, FS_EmptySet DEF SlotAccounting, OnAgents
<1> QED
  BY <1>1, <1>2, <1>3, <1>5 DEF Books, Places

\* Every path through runJob gives back what it took, once.
LEMMA BooksStep == ASSUME Books, [Next]_vars PROVE Books'
<1> SUFFICES SlotKnown' /\ SlotAccounting'
  BY PlacesStep, ExclusionStep DEF Books
<1> USE DEF Books, Places, TypeOK
<1>1. CASE UNCHANGED vars
  BY <1>1, QuietBooks
<1>2. CASE LoopTop \/ LoopExit \/ Drain \/ Deadline
  BY <1>2, QuietBooks DEF LoopTop, LoopExit, Drain, Deadline
<1>3. CASE Take
  <2>1. Head(queue) \in Jobs /\ pc[Head(queue)] = "queued"
    <3>1. Head(queue) = queue[1] /\ 1 \in 1..Len(queue) /\ queue # <<>>
      BY <1>3, HeadTailProperties, EmptySeq, LenProperties DEF Take
    <3> QED
      BY <3>1 DEF InQueue, Lined
  <2>2. \A k \in Jobs : pc'[k] = pc[k] \/ (pc[k] = "queued" /\ pc'[k] = "taken")
    BY <1>3, <2>1 DEF Take
  <2> QED
    BY <1>3, <2>2, QuietBooks DEF Take, OnAgent, OnTask
<1>4. ASSUME NEW j \in Jobs, Submitted(j) PROVE SlotKnown' /\ SlotAccounting'
  <2>1. /\ pc[j] = "new" /\ pc' = [pc EXCEPT ![j] = QueuedPC]
        /\ UNCHANGED <<agentUsed, taskUsed, slotHeld, leaving>>
    BY <1>4 DEF Submitted
  <2>2. \A k \in Jobs :
            pc'[k] = pc[k] \/ (pc[k] = "new" /\ pc'[k] \in {"queued", "dropped"})
    BY <2>1 DEF QueuedPC
  <2> QED
    BY <2>1, <2>2, QuietBooks DEF OnAgent, OnTask
<1>5. ASSUME NEW j \in Jobs,
             \/ Register(j) \/ Skip(j) \/ Admit(j) \/ AgentRefused(j) \/ Claim(j)
             \/ Finish(j) \/ Heartbeat(j)
      PROVE  SlotKnown' /\ SlotAccounting'
  <2>1. UNCHANGED <<agentUsed, taskUsed, slotHeld, leaving>>
    BY <1>5 DEF Register, Skip, Admit, AgentRefused, Claim, Finish, Heartbeat
  <2>2. \/ pc' = pc
        \/ /\ pc[j] \in {"taken", "registered", "agentWait"}
           /\ \E to \in {"registered", "agentWait", "gone"} : pc' = [pc EXCEPT ![j] = to]
        \/ /\ pc[j] \in {"claim", "executing"}
           /\ \E to \in {"executing", "finished"} : pc' = [pc EXCEPT ![j] = to]
    BY <1>5 DEF Register, Skip, Admit, AgentRefused, Claim, Finish, Heartbeat
  <2>3. \A k \in Jobs :
            \/ pc'[k] = pc[k]
            \/ /\ pc[k] \in {"taken", "registered", "agentWait"}
               /\ pc'[k] \in {"registered", "agentWait", "gone"}
            \/ pc[k] \in {"claim", "executing"} /\ pc'[k] \in {"executing", "finished"}
    BY <2>2
  <2> QED
    BY <2>1, <2>3, QuietBooks DEF OnAgent, OnTask
<1>6. ASSUME NEW j \in Jobs, AcquireAgent(j) \/ RefusedReturn(j) \/ ReleaseAgent(j)
      PROVE  SlotKnown' /\ SlotAccounting'
  <2>1. UNCHANGED <<taskUsed, slotHeld, leaving>> /\ pc' = [pc EXCEPT ![j] = pc'[j]]
    BY <1>6 DEF AcquireAgent, RefusedReturn, ReleaseAgent
  <2>2. /\ \/ pc[j] \notin OnAgent /\ pc'[j] \in OnAgent /\ agentUsed' = agentUsed + 1
           \/ pc[j] \in OnAgent /\ pc'[j] \notin OnAgent /\ agentUsed' = Dec(agentUsed)
        /\ pc'[j] \in OnTask => pc[j] \in OnTask \ {"taskWait"} /\ pc'[j] # "taskWait"
    BY <1>6 DEF AcquireAgent, RefusedReturn, ReleaseAgent, OnAgent, OnTask
  <2> QED
    BY <2>1, <2>2, AgentBooks
<1>7. ASSUME NEW j \in Jobs, Park(j) \/ ParkReturn(j) \/ Begin(j) \/ AcquireTask(j)
      PROVE  SlotKnown' /\ SlotAccounting'
  BY <1>7, ParkBooks, ParkReturnBooks, BeginBooks, AcquireTaskBooks
<1>8. ASSUME NEW j \in Jobs, TaskRefused(j) \/ End(j)
      PROVE  SlotKnown' /\ SlotAccounting'
  BY <1>8, EndTaskBooks DEF TaskRefused, End
<1>9. ASSUME NEW r \in Runs, CancelRow(r) \/ CancelCtx(r) \/ Reap(r)
      PROVE  SlotKnown' /\ SlotAccounting'
  <2>1. UNCHANGED <<pc, agentUsed, taskUsed, slotHeld, leaving>>
    BY <1>9 DEF CancelRow, CancelCtx, Reap
  <2> QED
    BY <2>1, QuietBooks
<1> QED
  BY <1>1, <1>2, <1>3, <1>4, <1>5, <1>6, <1>7, <1>8, <1>9
  DEF Next, Loop, Goroutine, Dispatch, Rerun

\* The gates count what the runner holds: no path out of runJob, parked, refused,
\* stopped or drained, gives a slot back twice or not at all.
THEOREM SlotsAccounted == Spec => []SlotAccounting
<1>1. Init => Books
  BY BooksInit
<1>2. Books /\ [Next]_vars => Books'
  BY BooksStep
<1> QED
  BY <1>1, <1>2, PTL DEF Spec, Books
-----------------------------------------------------------------------------
\* The caps.  The settings may change between two reads, so what holds is the
\* cap of the most generous ones, and only while nobody stops a run and the
\* settings can be read: a cancelled admission lifts both limits.
AtMost(o, s) == /\ s.agents = 0 \/ (o.agents # 0 /\ o.agents <= s.agents)
                /\ s.tasks = 0 \/ (o.tasks # 0 /\ o.tasks <= s.tasks)

NoStop == /\ stopped = {} /\ stopping = {}
          /\ \A r \in Runs : status[r] # "cancelled"

\* The gates start without limits, and get those of the settings before the
\* first job comes to one.
BeforeGates == {"new", "queued", "dropped", "taken", "registered", "gone"}
LimitsRead == parentDone \/ limits \in Settings \/ \A j \in Jobs : pc[j] \in BeforeGates

Capped(s) == Within(agentUsed, s.agents) /\ Within(taskUsed, s.tasks)

\* Less than what is within a limit is within it.
LEMMA WithinLess ==
    ASSUME NEW limit \in Nat, NEW n \in Nat, NEW m \in Nat, m <= n, Within(n, limit)
    PROVE  Within(m, limit)
BY DEF Within

\* Nothing is within every limit.
LEMMA WithinZero == ASSUME NEW limit \in Nat PROVE Within(0, limit)
BY DEF Within

\* Where nobody may press stop, no run is ever stopped.
LEMMA NoStopStep ==
    ASSUME "stop" \notin Features, TypeOK, NoStop, [Next]_vars
    PROVE  NoStop'
<1> USE DEF TypeOK, NoStop
<1>1. CASE UNCHANGED vars
  BY <1>1
<1>2. CASE Loop \/ Drain \/ Deadline
  BY <1>2 DEF Loop, LoopTop, LoopExit, Take, Drain, Deadline
<1>3. ASSUME NEW j \in Jobs, Submitted(j) \/ Claim(j) \/ Finish(j)
      PROVE  NoStop'
  <2>1. stopped' = stopped /\ stopping' = stopping
    BY <1>3 DEF Submitted, Claim, Finish
  <2>2. \/ status' = status
        \/ \E s \in {"pending", "running", "completed", "failed"} :
               status' = [status EXCEPT ![RunOf[j]] = s]
    BY <1>3 DEF Submitted, Claim, Finish, Written
  <2> QED
    BY <2>1, <2>2
<1>4. ASSUME NEW j \in Jobs, Goroutine(j), ~Claim(j) PROVE NoStop'
  <2>1. stopped' \subseteq stopped /\ UNCHANGED <<status, stopping>>
    BY <1>4 DEF Goroutine, Register, Skip, Admit, AcquireAgent, AgentRefused, Park,
                Begin, AcquireTask, TaskRefused, RefusedReturn, ReleaseAgent, End
  <2> QED
    BY <2>1
<1>5. ASSUME NEW j \in Jobs, ParkReturn(j) \/ Heartbeat(j) PROVE NoStop'
  BY <1>5, RunOfAssumption DEF ParkReturn, Heartbeat
<1>6. ASSUME NEW r \in Runs, CancelRow(r) \/ CancelCtx(r) \/ Reap(r) PROVE NoStop'
  BY <1>6 DEF CancelRow, CancelCtx, Reap
<1> QED
  BY <1>1, <1>2, <1>3, <1>4, <1>5, <1>6 DEF Next, Dispatch, Rerun

\* Only runJob's admission sets the limits, and it comes before every gate.
LEMMA LimitsStep ==
    ASSUME "store errors" \notin Features, Places, NoStop, LimitsRead, [Next]_vars
    PROVE  LimitsRead'
<1> USE DEF Places, TypeOK
<1> SUFFICES ASSUME ~parentDone' PROVE LimitsRead'
  BY DEF LimitsRead
<1>1. ~parentDone
  BY DEF Next, Loop, LoopTop, LoopExit, Take, Dispatch, Rerun, Submitted, Goroutine,
         Register, Skip, Admit, AcquireAgent, AgentRefused, Park, Begin, AcquireTask,
         TaskRefused, RefusedReturn, Claim, ReleaseAgent, End, ParkReturn, Finish,
         Heartbeat, CancelRow, CancelCtx, Reap, Drain, Deadline
<1>2. \A j \in Jobs : ~CtxDone(j)
  BY <1>1 DEF CtxDone, NoStop
<1>3. ASSUME NEW j \in Jobs, Admit(j) PROVE LimitsRead'
  BY <1>2, <1>3 DEF Admit, LimitsRead
<1>4. ASSUME \A j \in Jobs : ~Admit(j) PROVE LimitsRead'
  <2>1. limits' = limits
    BY <1>4 DEF Next, Loop, LoopTop, LoopExit, Take, Dispatch, Rerun, Submitted,
         Goroutine, Register, Skip, AcquireAgent, AgentRefused, Park, Begin, AcquireTask,
         TaskRefused, RefusedReturn, Claim, ReleaseAgent, End, ParkReturn, Finish,
         Heartbeat, CancelRow, CancelCtx, Reap, Drain, Deadline
  <2>2. CASE limits \in Settings
    BY <2>1, <2>2 DEF LimitsRead
  <2>3. CASE \A j \in Jobs : pc[j] \in BeforeGates
    <3>1. CASE Loop
      BY <2>3, <3>1 DEF Loop, LoopTop, LoopExit, Take, BeforeGates, LimitsRead
    <3>2. ASSUME NEW j \in Jobs, Submitted(j) PROVE LimitsRead'
      BY <2>3, <3>2 DEF Submitted, QueuedPC, BeforeGates, LimitsRead
    <3>3. ASSUME NEW j \in Jobs, Goroutine(j) PROVE LimitsRead'
      <4>1. Register(j) \/ Skip(j)
        BY <1>4, <2>3, <3>3
        DEF Goroutine, AcquireAgent, AgentRefused, Park, Begin, AcquireTask, TaskRefused,
            RefusedReturn, Claim, ReleaseAgent, End, BeforeGates
      <4> QED
        BY <2>3, <4>1 DEF Register, Skip, BeforeGates, LimitsRead
    <3>4. CASE pc' = pc
      BY <2>3, <3>4 DEF LimitsRead
    <3>5. ASSUME NEW j \in Jobs, Finish(j) PROVE FALSE
      BY <2>3, <3>5 DEF Finish, BeforeGates
    <3> QED
      BY <3>1, <3>2, <3>3, <3>4, <3>5
      DEF Next, Dispatch, Rerun, ParkReturn, Heartbeat, CancelRow, CancelCtx, Reap, Drain,
          Deadline
  <2> QED
    BY <1>1, <2>2, <2>3 DEF LimitsRead
<1> QED
  BY <1>3, <1>4

\* A gate's count grows only by an acquisition that finds room under its limit.
LEMMA CappedStep ==
    ASSUME NEW s \in Settings, \A o \in Settings : AtMost(o, s),
           Places, NoStop, LimitsRead, Capped(s), [Next]_vars
    PROVE  Capped(s)'
<1> USE DEF Places, TypeOK
<1>1. s.agents \in Nat /\ s.tasks \in Nat
  BY SettingsAssumption
<1>2. ASSUME NEW j \in Jobs, AcquireAgent(j) PROVE Capped(s)'
  <2>1. ~parentDone /\ pc[j] \notin BeforeGates
    BY <1>2 DEF AcquireAgent, CtxDone, BeforeGates
  <2>2. limits \in Settings
    BY <2>1 DEF LimitsRead
  <2>3. AtMost(limits, s) /\ limits.agents \in Nat
    BY <2>2
  <2>4. /\ limits.agents = 0 \/ agentUsed < limits.agents
        /\ agentUsed' = agentUsed + 1 /\ taskUsed' = taskUsed
    BY <1>2 DEF AcquireAgent, Free
  <2> QED
    BY <1>1, <2>3, <2>4 DEF Capped, Within, AtMost
<1>3. ASSUME NEW j \in Jobs, AcquireTask(j) PROVE Capped(s)'
  <2>1. ~parentDone /\ pc[j] \notin BeforeGates
    BY <1>3 DEF AcquireTask, CtxDone, BeforeGates
  <2>2. limits \in Settings
    BY <2>1 DEF LimitsRead
  <2>3. AtMost(limits, s) /\ limits.tasks \in Nat
    BY <2>2
  <2>4. /\ limits.tasks = 0 \/ taskUsed < limits.tasks
        /\ taskUsed' = taskUsed + 1 /\ agentUsed' = agentUsed
    BY <1>3 DEF AcquireTask, Free
  <2> QED
    BY <1>1, <2>3, <2>4 DEF Capped, Within, AtMost
<1>4. ASSUME \A j \in Jobs : ~AcquireAgent(j) /\ ~AcquireTask(j)
      PROVE  agentUsed' \in {agentUsed, Dec(agentUsed)} /\ taskUsed' \in {taskUsed, Dec(taskUsed)}
  BY <1>4 DEF Next, Loop, LoopTop, LoopExit, Take, Dispatch, Rerun, Submitted, Goroutine,
       Register, Skip, Admit, AgentRefused, Park, Begin, TaskRefused, EndTask,
       RefusedReturn, Claim, ReleaseAgent, End, ParkReturn, Finish, Heartbeat, CancelRow,
       CancelCtx, Reap, Drain, Deadline
<1>5. \A n, limit \in Nat : Within(n, limit) => Within(Dec(n), limit)
  BY DEF Dec, Within
<1>6. CASE \A j \in Jobs : ~AcquireAgent(j) /\ ~AcquireTask(j)
  BY <1>1, <1>4, <1>5, <1>6 DEF Capped
<1> QED
  BY <1>2, <1>3, <1>6

\* The executing runs hold agent slots, and their tasks hold task slots.
LEMMA ExecutingCounted ==
    ASSUME Books
    PROVE  /\ Cardinality(Executing) \in Nat /\ Cardinality(Executing) <= agentUsed
           /\ LET tasks == {JobTask(j) : j \in Executing}
              IN  Cardinality(tasks) \in Nat /\ Cardinality(tasks) <= taskUsed
<1> USE DEF Books, Places
<1> DEFINE tasks == {JobTask(j) : j \in Executing}
<1>1. /\ IsFiniteSet(OnAgents) /\ Cardinality(OnAgents) \in Nat
      /\ Cardinality(leaving) \in Nat
      /\ IsFiniteSet(slotHeld) /\ Cardinality(slotHeld) \in Nat
  BY CountsFinite
<1>2. Executing \in SUBSET OnAgents
  BY DEF Executing, OnAgents, OnAgent
<1>3. IsFiniteSet(Executing) /\ Cardinality(Executing) <= Cardinality(OnAgents)
  BY <1>1, <1>2, FS_Subset
<1>4. tasks \in SUBSET slotHeld
  BY DEF Executing, SlotKnown, OnTask
<1>5. IsFiniteSet(tasks) /\ Cardinality(tasks) <= Cardinality(slotHeld)
  BY <1>1, <1>4, FS_Subset
<1>6. Cardinality(Executing) \in Nat /\ Cardinality(tasks) \in Nat
  BY <1>3, <1>5, FS_CardinalityType
<1>7. Cardinality(OnAgents) <= agentUsed /\ Cardinality(slotHeld) = taskUsed
  BY <1>1 DEF SlotAccounting, OnAgents
<1>8. agentUsed \in Nat /\ taskUsed \in Nat
  BY DEF TypeOK
<1> QED
  BY <1>1, <1>3, <1>5, <1>6, <1>7, <1>8

\* The settings' caps hold (docs/usage-limits.md) across parking, hand-over,
\* drains, reaps and reruns, where nobody stops a run and the settings can be read.
THEOREM CapsHold ==
    ASSUME "stop" \notin Features, "store errors" \notin Features,
           NEW s \in Settings, \A o \in Settings : AtMost(o, s)
    PROVE  Spec => []ConcurrencyCap
<1> DEFINE Inv == Books /\ NoStop /\ LimitsRead /\ Capped(s)
<1>1. Init => Inv
  <2> SUFFICES ASSUME Init PROVE NoStop /\ LimitsRead /\ Capped(s)
    BY BooksInit
  <2>1. NoStop
    BY NoneAssumption DEF Init, NoStop, Statuses
  <2>2. LimitsRead
    BY DEF Init, LimitsRead, BeforeGates
  <2>3. s.agents \in Nat /\ s.tasks \in Nat
    BY SettingsAssumption
  <2>4. agentUsed = 0 /\ taskUsed = 0
    BY DEF Init
  <2>5. Capped(s)
    BY <2>3, <2>4, WithinZero DEF Capped
  <2> QED
    BY <2>1, <2>2, <2>5
<1>2. Inv /\ [Next]_vars => Inv'
  BY BooksStep, NoStopStep, LimitsStep, CappedStep DEF Books, Places
<1>3. Inv => ConcurrencyCap
  <2> SUFFICES ASSUME Inv PROVE ConcurrencyCap
    OBVIOUS
  <2>1. s.agents \in Nat /\ s.tasks \in Nat /\ agentUsed \in Nat /\ taskUsed \in Nat
    BY SettingsAssumption DEF Books, Places, TypeOK
  <2> DEFINE n == Cardinality(Executing)
             m == Cardinality({JobTask(j) : j \in Executing})
  <2>2. n \in Nat /\ n <= agentUsed /\ m \in Nat /\ m <= taskUsed
    BY ExecutingCounted
  <2> HIDE DEF n, m
  <2>3. Within(n, s.agents) /\ Within(m, s.tasks)
    BY <2>1, <2>2, WithinLess DEF Capped
  <2> QED
    BY <2>3 DEF ConcurrencyCap, n, m
<1> QED
  BY <1>1, <1>2, <1>3, PTL DEF Spec
-----------------------------------------------------------------------------
\* Nothing stranded.  While the process does not drain, an entry of activeTasks
\* stands for a job on its way to endTask, and a job that waits still has its
\* pending row, so that no admission gives it up.
Waiting == {"queued", "taken", "registered", "agentWait", "begin", "parked", "taskWait",
            "claim"}
RowPending == \A j \in Jobs : pc[j] \in Waiting => status[RunOf[j]] = "pending"
Owned == \A t \in Tasks :
             activeTasks[t] # None => \E j \in Jobs : JobTask(j) = t /\ pc[j] \in OnTask
DrainFirst == parentDone => draining
Kept == ~draining => RowPending /\ Owned /\ NothingStranded

\* A queue that has room for every job has room for one that is not in it.
LEMMA QueueRoom ==
    ASSUME Cardinality(Jobs) <= QueueCap, Places, NEW j \in Jobs, pc[j] # "queued"
    PROVE  Accepted
<1> USE DEF Places, TypeOK
<1> DEFINE f == [i \in 1..Len(queue) |-> queue[i]]
<1>1. Len(queue) \in Nat /\ Cardinality(Jobs) \in Nat
  BY FS_CardinalityType, FiniteAssumption
<1>2. \A i \in 1..Len(queue) : queue[i] \in Jobs \ {j}
  BY DEF InQueue, Lined
<1>3. f \in Injection(1..Len(queue), Jobs \ {j})
  BY <1>2 DEF InQueue, Lined, Injection, IsInjective
<1>4. IsFiniteSet(Jobs \ {j}) /\ Cardinality(Jobs \ {j}) = Cardinality(Jobs) - 1
  BY FS_RemoveElement, FiniteAssumption
<1>5. Cardinality(1..Len(queue)) <= Cardinality(Jobs \ {j})
  BY <1>3, <1>4, FS_Injection
<1>6. Cardinality(1..Len(queue)) = Len(queue)
  <2>1. 1 \in Int /\ Len(queue) \in Int
    BY <1>1
  <2>2. Cardinality(1..Len(queue)) = IF 1 > Len(queue) THEN 0 ELSE Len(queue) - 1 + 1
    BY <2>1, FS_Interval, Zenon
  <2> QED
    BY <1>1, <2>2
<1> QED
  BY <1>1, <1>4, <1>5, <1>6, QueueCapAssumption DEF Accepted

\* A step that ends no task, parks nothing, and moves jobs only forward.
LEMMA QuietKept ==
    ASSUME Places, RowPending, Owned, NothingStranded, ~draining,
           UNCHANGED <<parked, activeTasks>>,
           \A t \in slotHeld' \ slotHeld : \E j \in Jobs : JobTask(j) = t /\ pc'[j] \in Moving,
           \A k \in Jobs : pc'[k] \in Waiting => status'[RunOf[k]] = "pending",
           \A k \in Jobs : pc[k] \in Moving => pc'[k] \in Moving,
           \A k \in Jobs : pc[k] \in OnTask => pc'[k] \in OnTask
    PROVE  RowPending' /\ Owned' /\ NothingStranded'
<1>1. RowPending'
  BY DEF RowPending
<1>2. Owned'
  BY DEF Owned, JobTask
<1>3. NothingStranded'
  <2> SUFFICES ASSUME NEW t \in Tasks, parked[t] # <<>> \/ t \in slotHeld'
               PROVE  \E j \in Jobs : JobTask(j) = t /\ pc'[j] \in Moving
    BY DEF NothingStranded, JobTask
  <2>1. CASE parked[t] # <<>> \/ t \in slotHeld
    BY <2>1 DEF NothingStranded
  <2>2. CASE t \in slotHeld' \ slotHeld
    BY <2>2
  <2> QED
    BY <2>1, <2>2
<1> QED
  BY <1>1, <1>2, <1>3

\* beginTask: whoever parks finds the task's holder on its way.
LEMMA ParkKept ==
    ASSUME Places, RowPending, Owned, NothingStranded, ~draining,
           NEW j \in Jobs, Park(j)
    PROVE  RowPending' /\ Owned' /\ NothingStranded'
<1> USE DEF Places, TypeOK
<1> DEFINE t == JobTask(j)
<1>1. /\ pc[j] = "begin" /\ t \in Tasks /\ activeTasks[t] # None
      /\ parked' = [parked EXCEPT ![t] = Append(@, j)]
      /\ pc' = [pc EXCEPT ![j] = "parked"]
      /\ UNCHANGED <<status, activeTasks, slotHeld>>
  BY JobTaskType DEF Park
<1>2. RowPending'
  BY <1>1 DEF RowPending, Waiting
<1>3. \A k \in Jobs : pc[k] \in OnTask => k # j /\ pc'[k] \in OnTask
  BY <1>1 DEF OnTask
<1>4. Owned'
  BY <1>1, <1>3 DEF Owned, JobTask
<1>5. \E k \in Jobs : JobTask(k) = t /\ pc'[k] \in Moving
  BY <1>1, <1>3 DEF Owned, Moving
<1>6. ASSUME NEW u \in Tasks, u # t, parked'[u] # <<>> \/ u \in slotHeld'
      PROVE  \E k \in Jobs : JobTask(k) = u /\ pc'[k] \in Moving
  <2>1. parked'[u] = parked[u]
    BY <1>1, <1>6
  <2>2. PICK k \in Jobs : JobTask(k) = u /\ pc[k] \in Moving
    BY <1>1, <1>6, <2>1 DEF NothingStranded
  <2>3. pc'[k] = pc[k]
    BY <1>1, <1>6, <2>2
  <2> QED
    BY <2>2, <2>3
<1>7. NothingStranded'
  BY <1>5, <1>6 DEF NothingStranded, JobTask
<1> QED
  BY <1>2, <1>4, <1>7

\* endTask: the task goes idle with nobody parked and its slot given back, or the
\* job parked first gets its place in the queue.
LEMMA EndTaskKept ==
    ASSUME Cardinality(Jobs) <= QueueCap, Books,
           RowPending, Owned, NothingStranded, ~draining,
           NEW j \in Jobs, pc[j] = "ending", EndTask(j, "gone"), status' = status
    PROVE  RowPending' /\ Owned' /\ NothingStranded'
<1> USE DEF Books, Places, TypeOK
<1> DEFINE t == JobTask(j)
           h == Head(parked[t])
<1>1. t \in Tasks /\ pc[j] \in OnTask
  BY JobTaskType DEF OnTask
<1>2. /\ activeTasks' = [activeTasks EXCEPT ![t] = None]
      /\ slotHeld' \subseteq slotHeld
      /\ parked[t] = <<>> => t \notin slotHeld'
  BY DEF EndTask
<1>3. CASE parked[t] = <<>>
  <2>1. pc' = [pc EXCEPT ![j] = "gone"] /\ parked' = parked
    BY <1>3 DEF EndTask
  <2>2. RowPending'
    BY <2>1 DEF RowPending, Waiting
  <2>3. \A k \in Jobs : JobTask(k) # t => pc'[k] = pc[k]
    BY <2>1
  <2>4. Owned'
    BY <1>1, <1>2, <2>3 DEF Owned, JobTask
  <2>5. NothingStranded'
    BY <1>2, <1>3, <2>1, <2>3 DEF NothingStranded, JobTask
  <2> QED
    BY <2>2, <2>4, <2>5
<1>4. CASE parked[t] # <<>>
  <2>1. /\ h \in Jobs /\ h # j /\ pc[h] = "parked" /\ JobTask(h) = t
        /\ pc'[h] = QueuedPC /\ pc'[j] = "gone"
        /\ \A k \in Jobs : k \notin {j, h} => pc'[k] = pc[k]
        /\ parked' = [parked EXCEPT ![t] = Tail(@)]
    BY <1>1, <1>4, EndTaskWakes
  <2>2. pc'[h] = "queued"
    BY <2>1, QueueRoom DEF QueuedPC
  <2>3. RowPending'
    BY <2>1, <2>2 DEF RowPending, Waiting
  <2>4. \A k \in Jobs : JobTask(k) # t => pc'[k] = pc[k]
    BY <2>1
  <2>5. Owned'
    BY <1>1, <1>2, <2>4 DEF Owned, JobTask
  <2>6. JobTask(h) = t /\ pc'[h] \in Moving
    BY <2>1, <2>2 DEF Moving
  <2>7. \A u \in Tasks : u # t => parked'[u] = parked[u]
    BY <2>1
  <2>8. NothingStranded'
    <3> SUFFICES ASSUME NEW u \in Tasks, parked'[u] # <<>> \/ u \in slotHeld'
                 PROVE  \E k \in Jobs : JobTask(k) = u /\ pc'[k] \in Moving
      BY DEF NothingStranded, JobTask
    <3>1. CASE u = t
      BY <2>1, <2>6, <3>1
    <3>2. CASE u # t
      <4>1. PICK k \in Jobs : JobTask(k) = u /\ pc[k] \in Moving
        BY <1>2, <2>7, <3>2 DEF NothingStranded
      <4> QED
        BY <2>4, <3>2, <4>1
    <3> QED
      BY <3>1, <3>2
  <2> QED
    BY <2>3, <2>5, <2>8
<1> QED
  BY <1>3, <1>4

\* beginTask takes an idle task.
LEMMA BeginKept ==
    ASSUME Places, RowPending, Owned, NothingStranded, ~draining,
           NEW j \in Jobs, Begin(j)
    PROVE  RowPending' /\ Owned' /\ NothingStranded'
<1> USE DEF Places, TypeOK
<1>1. /\ pc[j] = "begin" /\ JobTask(j) \in Tasks
      /\ activeTasks' = [activeTasks EXCEPT ![JobTask(j)] = RunOf[j]]
      /\ UNCHANGED <<status, parked, slotHeld>>
      /\ pc' = [pc EXCEPT ![j] = IF JobTask(j) \in slotHeld THEN "claim" ELSE "taskWait"]
  BY JobTaskType DEF Begin
<1>2. pc'[j] \in {"claim", "taskWait"} /\ \A k \in Jobs : k # j => pc'[k] = pc[k]
  BY <1>1
<1>3. RowPending'
  BY <1>1, <1>2 DEF RowPending, Waiting
<1>4. \A k \in Jobs : pc[k] \in OnTask => pc'[k] \in OnTask
  BY <1>1, <1>2 DEF OnTask
<1>5. pc'[j] \in OnTask
  BY <1>2 DEF OnTask
<1>6. Owned'
  BY <1>1, <1>4, <1>5 DEF Owned, JobTask
<1>7. \A k \in Jobs : pc[k] \in Moving => pc'[k] \in Moving
  BY <1>2, <1>5 DEF Moving
<1>8. NothingStranded'
  BY <1>1, <1>7 DEF NothingStranded, JobTask
<1> QED
  BY <1>3, <1>6, <1>8

\* The steps of runJob that neither park, begin nor end a task.
LEMMA GoroutineKept ==
    ASSUME \A i, k \in Jobs : RunOf[i] = RunOf[k] => i = k,
           Places, RowPending, Owned, NothingStranded, ~draining,
           NEW j \in Jobs, ~CtxDone(j), Goroutine(j), ~Park(j), ~Begin(j), ~End(j)
    PROVE  RowPending' /\ Owned' /\ NothingStranded'
<1> USE DEF Places, TypeOK
<1>1. ~AgentRefused(j) /\ ~TaskRefused(j)
  BY DEF AgentRefused, TaskRefused
<1>2. ~Skip(j)
  BY DEF Skip, RowPending, Waiting, Terminal
<1>3. CASE Register(j) \/ Admit(j) \/ AcquireAgent(j) \/ RefusedReturn(j) \/ ReleaseAgent(j)
  <2>1. UNCHANGED <<status, parked, activeTasks, slotHeld>>
    BY <1>3 DEF Register, Admit, AcquireAgent, RefusedReturn, ReleaseAgent
  <2>2. \/ pc[j] = "taken" /\ pc' = [pc EXCEPT ![j] = "registered"]
        \/ pc[j] = "registered" /\ pc' = [pc EXCEPT ![j] = "agentWait"]
        \/ pc[j] = "agentWait" /\ pc' = [pc EXCEPT ![j] = "begin"]
        \/ pc[j] = "refused" /\ pc' = [pc EXCEPT ![j] = "gone"]
        \/ pc[j] = "finished" /\ pc' = [pc EXCEPT ![j] = "ending"]
    BY <1>3 DEF Register, Admit, AcquireAgent, RefusedReturn, ReleaseAgent
  <2>3. /\ \A k \in Jobs : pc'[k] \in Waiting => pc[k] \in Waiting
        /\ \A k \in Jobs : pc[k] \in Moving => pc'[k] \in Moving
        /\ \A k \in Jobs : pc[k] \in OnTask => pc'[k] \in OnTask
    BY <2>2 DEF Waiting, Moving, OnTask
  <2> QED
    BY <2>1, <2>3, QuietKept DEF RowPending
<1>4. CASE AcquireTask(j)
  <2>1. /\ UNCHANGED <<status, parked, activeTasks>>
        /\ slotHeld' = slotHeld \union {JobTask(j)}
        /\ pc[j] = "taskWait" /\ pc' = [pc EXCEPT ![j] = "claim"]
    BY <1>4 DEF AcquireTask
  <2>2. /\ \A k \in Jobs : pc'[k] \in Waiting => pc[k] \in Waiting
        /\ \A k \in Jobs : pc[k] \in Moving => pc'[k] \in Moving
        /\ \A k \in Jobs : pc[k] \in OnTask => pc'[k] \in OnTask
        /\ pc'[j] \in Moving
    BY <2>1 DEF Waiting, Moving, OnTask
  <2> QED
    BY <2>1, <2>2, QuietKept DEF RowPending
<1>5. CASE Claim(j)
  <2>1. /\ UNCHANGED <<parked, activeTasks, slotHeld>>
        /\ pc[j] = "claim"
        /\ \E to \in {"executing", "finished"} : pc' = [pc EXCEPT ![j] = to]
        /\ \/ status' = status
           \/ status' = [status EXCEPT ![RunOf[j]] = "running"]
    BY <1>5 DEF Claim
  <2>2. \A k \in Jobs : k # j => RunOf[k] # RunOf[j] /\ RunOf[k] \in Runs
    BY RunOfAssumption
  <2>3. \A k \in Jobs : k # j => status'[RunOf[k]] = status[RunOf[k]]
    BY <2>1, <2>2
  <2>4. /\ \A k \in Jobs : pc'[k] \in Waiting => k # j /\ pc[k] \in Waiting
        /\ \A k \in Jobs : pc[k] \in Moving => pc'[k] \in Moving
        /\ \A k \in Jobs : pc[k] \in OnTask => pc'[k] \in OnTask
    BY <2>1 DEF Waiting, Moving, OnTask
  <2> QED
    BY <2>1, <2>3, <2>4, QuietKept DEF RowPending
<1> QED
  BY <1>1, <1>2, <1>3, <1>4, <1>5 DEF Goroutine

\* Every step, where each run is enqueued once, nobody stops or reaps one, and
\* the queue has room for every job.
LEMMA KeptStep ==
    ASSUME "stop" \notin Features, "reap" \notin Features,
           \A i, k \in Jobs : RunOf[i] = RunOf[k] => i = k,
           Cardinality(Jobs) <= QueueCap,
           Books, NoStop, DrainFirst, Kept, [Next]_vars
    PROVE  DrainFirst' /\ Kept'
<1> USE DEF Books, Places, TypeOK
<1>1. UNCHANGED <<draining, parentDone>> \/ Drain \/ Deadline
  BY DEF Next, Loop, LoopTop, LoopExit, Take, Dispatch, Rerun, Submitted, Goroutine,
       Register, Skip, Admit, AcquireAgent, AgentRefused, Park, Begin, AcquireTask,
       TaskRefused, RefusedReturn, Claim, ReleaseAgent, End, ParkReturn, Finish,
       Heartbeat, CancelRow, CancelCtx, Reap
<1>2. DrainFirst'
  BY <1>1 DEF DrainFirst, Drain, Deadline
<1> SUFFICES ASSUME ~draining' PROVE RowPending' /\ Owned' /\ NothingStranded'
  BY <1>2 DEF Kept
<1>3. ~draining /\ RowPending /\ Owned /\ NothingStranded
  BY <1>1 DEF Kept, Drain, Deadline
<1>4. \A j \in Jobs : ~CtxDone(j)
  BY <1>3 DEF CtxDone, DrainFirst, NoStop
<1>5. ASSUME UNCHANGED <<pc, status, parked, activeTasks, slotHeld>>
      PROVE  RowPending' /\ Owned' /\ NothingStranded'
  BY <1>3, <1>5, QuietKept DEF RowPending
<1>6. CASE Take
  <2>1. queue # <<>> /\ Head(queue) \in Jobs /\ pc[Head(queue)] = "queued"
    <3>1. Head(queue) = queue[1] /\ 1 \in 1..Len(queue) /\ queue # <<>>
      BY <1>6, HeadTailProperties, EmptySeq, LenProperties DEF Take
    <3> QED
      BY <3>1 DEF InQueue, Lined
  <2>2. /\ pc' = [pc EXCEPT ![Head(queue)] = "taken"]
        /\ UNCHANGED <<status, parked, activeTasks, slotHeld>>
    BY <1>6 DEF Take
  <2>3. /\ \A k \in Jobs : pc'[k] \in Waiting => pc[k] \in Waiting
        /\ \A k \in Jobs : pc[k] \in Moving => pc'[k] \in Moving
        /\ \A k \in Jobs : pc[k] \in OnTask => pc'[k] \in OnTask
    BY <2>1, <2>2 DEF Waiting, Moving, OnTask
  <2> QED
    BY <1>3, <2>2, <2>3, QuietKept DEF RowPending
<1>7. ASSUME NEW j \in Jobs, Submitted(j) PROVE RowPending' /\ Owned' /\ NothingStranded'
  <2>1. /\ pc[j] = "new" /\ pc' = [pc EXCEPT ![j] = QueuedPC]
        /\ status' = [status EXCEPT ![RunOf[j]] = "pending"]
        /\ UNCHANGED <<parked, activeTasks, slotHeld>>
    BY <1>7 DEF Submitted
  <2>2. \A k \in Jobs : k # j => pc'[k] = pc[k] /\ status'[RunOf[k]] = status[RunOf[k]]
    BY <2>1, RunOfAssumption
  <2>3. status'[RunOf[j]] = "pending"
    BY <2>1, RunOfAssumption
  <2>4. /\ \A k \in Jobs : pc[k] \in Moving => pc'[k] \in Moving
        /\ \A k \in Jobs : pc[k] \in OnTask => pc'[k] \in OnTask
    BY <2>1, <2>2 DEF Moving, OnTask
  <2>5. \A k \in Jobs : pc'[k] \in Waiting => status'[RunOf[k]] = "pending"
    BY <1>3, <2>2, <2>3 DEF RowPending
  <2> QED
    BY <1>3, <2>1, <2>4, <2>5, QuietKept
<1>8. ASSUME NEW j \in Jobs, Goroutine(j) PROVE RowPending' /\ Owned' /\ NothingStranded'
  BY <1>3, <1>4, <1>8, GoroutineKept, ParkKept, BeginKept, EndTaskKept DEF End
<1>9. ASSUME NEW j \in Jobs, Finish(j) PROVE RowPending' /\ Owned' /\ NothingStranded'
  <2>1. /\ pc[j] = "executing" /\ pc' = [pc EXCEPT ![j] = "finished"]
        /\ UNCHANGED <<parked, activeTasks, slotHeld>>
        /\ \/ status' = status
           \/ \E s \in Statuses : status' = [status EXCEPT ![RunOf[j]] = s]
    BY <1>9 DEF Finish, Written, Statuses
  <2>2. \A k \in Jobs : k # j => status'[RunOf[k]] = status[RunOf[k]]
    BY <2>1, RunOfAssumption
  <2>3. /\ \A k \in Jobs : pc'[k] \in Waiting => k # j /\ pc[k] \in Waiting
        /\ \A k \in Jobs : pc[k] \in Moving => pc'[k] \in Moving
        /\ \A k \in Jobs : pc[k] \in OnTask => pc'[k] \in OnTask
    BY <2>1 DEF Waiting, Moving, OnTask
  <2> QED
    BY <1>3, <2>1, <2>2, <2>3, QuietKept DEF RowPending
<1>10. ASSUME NEW r \in Runs, CancelRow(r) \/ CancelCtx(r) \/ Reap(r) PROVE FALSE
  BY <1>10 DEF CancelRow, CancelCtx, Reap, NoStop
<1>11. CASE UNCHANGED vars
  BY <1>5, <1>11
<1>12. CASE LoopTop \/ LoopExit \/ Drain \/ Deadline
  BY <1>5, <1>12 DEF LoopTop, LoopExit, Drain, Deadline
<1>13. ASSUME NEW j \in Jobs, ParkReturn(j) \/ Heartbeat(j)
       PROVE  RowPending' /\ Owned' /\ NothingStranded'
  BY <1>5, <1>13 DEF ParkReturn, Heartbeat
<1> QED
  BY <1>6, <1>7, <1>8, <1>9, <1>10, <1>11, <1>12, <1>13 DEF Next, Loop, Dispatch, Rerun

\* While the process does not drain, somebody always moves a parked job or a kept
\* slot on: where each run is enqueued once, nobody stops or reaps one, and the
\* queue has room for every job, whatever the store and the settings answer.
THEOREM NobodyStranded ==
    ASSUME "stop" \notin Features, "reap" \notin Features,
           \A i, k \in Jobs : RunOf[i] = RunOf[k] => i = k,
           Cardinality(Jobs) <= QueueCap
    PROVE  Spec => []NothingStranded
<1> DEFINE Inv == Books /\ NoStop /\ DrainFirst /\ Kept
<1>1. Init => Inv
  <2> SUFFICES ASSUME Init PROVE NoStop /\ DrainFirst /\ Kept
    BY BooksInit
  <2>1. NoStop
    BY NoneAssumption DEF Init, NoStop, Statuses
  <2>2. DrainFirst /\ Kept
    BY DEF Init, DrainFirst, Kept, RowPending, Waiting, Owned, NothingStranded
  <2> QED
    BY <2>1, <2>2
<1>2. Inv /\ [Next]_vars => Inv'
  BY BooksStep, NoStopStep, KeptStep DEF Books, Places
<1>3. Inv => NothingStranded
  BY DEF Kept, NothingStranded
<1> QED
  BY <1>1, <1>2, <1>3, PTL DEF Spec
=============================================================================
