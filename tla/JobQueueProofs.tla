--------------------------- MODULE JobQueueProofs ---------------------------
(***************************************************************************)
(* The job queue for any jobs, any workers and any buffer of the wake      *)
(* channel that holds a token: its types, that no job is started twice,    *)
(* and that no wake-up is lost.                                            *)
(***************************************************************************)
EXTENDS JobQueue, TLAPS

\* The channel has a buffer: make(chan struct{}, max(maxWorkers, 1)).
Buffered == Buffer \in Nat /\ Buffer > 0

\* A send on the channel leaves at least one token in it.
LEMMA TokenLeft ==
    ASSUME Buffered, wake \in 0..Buffer
    PROVE  Signalled \in 0..Buffer /\ Signalled > 0
BY DEF Buffered, Signalled

LEMMA TypeStep == Buffered /\ JobTypeOK /\ [JobNext]_jobVars => JobTypeOK'
<1> SUFFICES ASSUME Buffered, JobTypeOK, [JobNext]_jobVars PROVE JobTypeOK'
    OBVIOUS
<1> USE DEF JobTypeOK, jobRows, control, JobStatuses, Ended, Places, Buffered
<1>1. CASE Start \/ Stop
    BY <1>1 DEF Start, Stop
<1>2. CASE Stopped \/ Crash
    BY <1>2 DEF Stopped, Crash, Dead
<1>3. CASE Fallback
    BY <1>3, TokenLeft DEF Fallback
<1>4. ASSUME NEW j \in Posts, Client(j) PROVE JobTypeOK'
  <2>1. CASE Create(j)
      BY <2>1 DEF Create
  <2>2. CASE CreateSignal(j)
      BY <2>2, TokenLeft DEF CreateSignal
  <2>3. CASE ReadDelete(j)
      BY <2>3 DEF ReadDelete
  <2>4. CASE WriteDelete(j)
      BY <2>4 DEF WriteDelete, WrittenJob
  <2> QED BY <1>4, <2>1, <2>2, <2>3, <2>4 DEF Client
<1>5. ASSUME NEW w \in Workers, Work(w) PROVE JobTypeOK'
  <2>1. CASE Select(w)
      BY <2>1 DEF Select
  <2>2. CASE SelectNone(w) \/ Leave(w) \/ WakeUp(w)
      BY <2>2 DEF SelectNone, Leave, WakeUp
  <2>3. CASE Commit(w)
      BY <2>3 DEF Commit
  <2>4. CASE ClaimFails(w) \/ FinishUnwritten(w)
      BY <2>4 DEF ClaimFails, FinishUnwritten
  <2>5. CASE HandOn(w)
      BY <2>5, TokenLeft DEF HandOn
  <2>6. CASE FinishJob(w)
      BY <2>6 DEF FinishJob
  <2> QED BY <1>5, <2>1, <2>2, <2>3, <2>4, <2>5, <2>6 DEF Work
<1>6. CASE UNCHANGED jobVars
    BY <1>6 DEF jobVars
<1> QED BY <1>1, <1>2, <1>3, <1>4, <1>5, <1>6 DEF JobNext

LEMMA TypeInit == Buffered /\ JobInit => JobTypeOK
BY DEF JobInit, JobTypeOK, Buffered, JobStatuses, Places

\* The types of the queue; the channel never holds more than its buffer.
THEOREM TypeCorrect == ASSUME Buffered PROVE JobSpec => []JobTypeOK
BY TypeInit, TypeStep, PTL DEF JobSpec
-----------------------------------------------------------------------------
\* What a worker holds: a pending row under its lock until the commit, then
\* a row that was started and will not be pending again.
Held == \A w \in Workers : \A j \in holds[w] :
           /\ at[w] \in {"claiming", "claimed", "running"}
           /\ at[w] = "claiming" => jobStatus[j] = "pending"
           /\ at[w] # "claiming" => jobStatus[j] \notin {"absent", "pending"}

\* Row locks are exclusive.
Exclusive == \A w, v \in Workers :
                at[w] = "claiming" /\ at[v] = "claiming" /\ w # v
                    => holds[w] \intersect holds[v] = {}

\* A process that is down has no workers.
Down == service = "off" => \A w \in Workers : at[w] = "gone"

Claims == JobTypeOK /\ Held /\ Exclusive /\ Down

LEMMA ClaimsInit == JobInit => Held /\ Exclusive /\ Down
BY DEF JobInit, Held, Exclusive, Down

LEMMA ClaimsStep == Claims /\ [JobNext]_jobVars => (Held /\ Exclusive /\ Down)'
<1> SUFFICES ASSUME Claims, [JobNext]_jobVars PROVE (Held /\ Exclusive /\ Down)'
    OBVIOUS
<1> USE DEF Claims, JobTypeOK, Held, Exclusive, Down, jobRows, control
<1>1. CASE Start
    BY <1>1 DEF Start
<1>2. CASE Stop \/ Fallback
    BY <1>2 DEF Stop, Fallback
<1>3. CASE Stopped \/ Crash
    BY <1>3 DEF Stopped, Crash, Dead
<1>4. ASSUME NEW j \in Posts, Client(j) PROVE (Held /\ Exclusive /\ Down)'
  <2>1. CASE Create(j)
      BY <2>1 DEF Create
  <2>2. CASE CreateSignal(j) \/ ReadDelete(j)
      BY <2>2 DEF CreateSignal, ReadDelete
  <2>3. CASE WriteDelete(j)
    <3>1. \A w \in Workers : at[w] = "claiming" => j \notin holds[w]
        BY <2>3 DEF WriteDelete, Locked
    <3>2. /\ jobStatus' = [jobStatus EXCEPT ![j] = jobStatus'[j]]
          /\ jobStatus'[j] \notin {"absent", "pending"}
        BY <2>3 DEF WriteDelete, WrittenJob
    <3> QED BY <2>3, <3>1, <3>2 DEF WriteDelete
  <2> QED BY <1>4, <2>1, <2>2, <2>3 DEF Client
<1>5. ASSUME NEW w \in Workers, Work(w) PROVE (Held /\ Exclusive /\ Down)'
  <2>1. CASE Select(w)
    <3>1. PICK j \in Posts : Claimable(j) /\ holds' = [holds EXCEPT ![w] = {j}]
        BY <2>1 DEF Select, Oldest
    <3>2. jobStatus[j] = "pending" /\ \A v \in Workers : at[v] = "claiming" => j \notin holds[v]
        BY <3>1 DEF Claimable, Locked
    <3> QED BY <2>1, <3>1, <3>2 DEF Select
  <2>2. CASE SelectNone(w) \/ HandOn(w) \/ WakeUp(w) \/ Leave(w)
      BY <2>2 DEF SelectNone, HandOn, WakeUp, Leave
  <2>3. CASE Commit(w)
    <3>1. \A v \in Workers : \A j \in holds[v] : v # w /\ at[v] = "claiming" => j \notin holds[w]
        BY <2>3 DEF Commit
    <3> QED BY <2>3, <3>1 DEF Commit
  <2>4. CASE ClaimFails(w) \/ FinishUnwritten(w)
      BY <2>4 DEF ClaimFails, FinishUnwritten
  <2>5. CASE FinishJob(w)
    <3>1. \A j \in Posts : /\ jobStatus[j] = "pending" => jobStatus'[j] = "pending"
                          /\ jobStatus[j] \notin {"absent", "pending"}
                                => jobStatus'[j] \notin {"absent", "pending"}
        BY <2>5 DEF FinishJob
    <3> QED BY <2>5, <3>1 DEF FinishJob
  <2> QED BY <1>5, <2>1, <2>2, <2>3, <2>4, <2>5 DEF Work
<1>6. CASE UNCHANGED jobVars
    BY <1>6 DEF jobVars
<1> QED BY <1>1, <1>2, <1>3, <1>4, <1>5, <1>6 DEF JobNext

LEMMA ClaimsHold == ASSUME Buffered PROVE JobSpec => []Claims
<1>1. JobInit => Claims
    BY TypeInit, ClaimsInit DEF Claims
<1>2. Claims /\ [JobNext]_jobVars => Claims'
    BY TypeStep, ClaimsStep DEF Claims
<1> QED BY <1>1, <1>2, PTL DEF JobSpec

\* What RunsOnce asks of a step.
StartsOnce == \A j \in Posts :
                 jobStatus[j] \notin {"absent", "pending"} =>
                     /\ jobStatus'[j] \notin {"absent", "pending"}
                     /\ jobStatus'[j] = "running" => jobStatus[j] = "running"

LEMMA StartsOnceStep == Claims /\ [JobNext]_jobVars => StartsOnce
<1> SUFFICES ASSUME Claims, [JobNext]_jobVars PROVE StartsOnce
    OBVIOUS
<1> USE DEF Claims, JobTypeOK, Held, StartsOnce, jobRows, control
<1>1. ASSUME UNCHANGED jobRows PROVE StartsOnce
    BY <1>1
<1>2. CASE Start \/ Stop \/ Stopped \/ Crash \/ Fallback \/ UNCHANGED jobVars
    BY <1>1, <1>2 DEF Start, Stop, Stopped, Crash, Dead, Fallback, jobVars
<1>3. ASSUME NEW j \in Posts, Client(j) PROVE StartsOnce
  <2>1. CASE Create(j)
      BY <2>1 DEF Create
  <2>2. CASE CreateSignal(j) \/ ReadDelete(j)
      BY <1>1, <2>2 DEF CreateSignal, ReadDelete
  <2>3. CASE WriteDelete(j)
      BY <2>3 DEF WriteDelete, WrittenJob
  <2> QED BY <1>3, <2>1, <2>2, <2>3 DEF Client
<1>4. ASSUME NEW w \in Workers, Work(w) PROVE StartsOnce
  <2>1. CASE Commit(w)
    <3>1. \A j \in holds[w] : jobStatus[j] = "pending"
        BY <2>1 DEF Commit
    <3> QED BY <2>1, <3>1 DEF Commit
  <2>2. CASE FinishJob(w)
      BY <2>2 DEF FinishJob
  <2>3. CASE Select(w) \/ SelectNone(w) \/ ClaimFails(w) \/ HandOn(w)
             \/ FinishUnwritten(w) \/ WakeUp(w) \/ Leave(w)
      BY <1>1, <2>3 DEF Select, SelectNone, ClaimFails, HandOn, FinishUnwritten, WakeUp, Leave
  <2> QED BY <1>4, <2>1, <2>2, <2>3 DEF Work
<1> QED BY <1>2, <1>3, <1>4 DEF JobNext

\* No job is started twice, nor after it ended or was cancelled.
THEOREM JobsRunOnce == ASSUME Buffered PROVE JobSpec => RunsOnce
<1>1. Claims /\ [JobNext]_jobVars => [StartsOnce]_jobVars
    BY StartsOnceStep
<1>2. JobSpec => []Claims
    BY ClaimsHold
<1>3. JobSpec => [][StartsOnce]_jobVars
    BY <1>1, <1>2, PTL DEF JobSpec
<1> QED BY <1>3 DEF RunsOnce, StartsOnce
-----------------------------------------------------------------------------
LEMMA WakeInit == JobInit => NoLostWake
BY DEF JobInit, NoLostWake

\* A row that no step makes pending or unlocks was claimable already.
LEMMA WakeStep == Buffered /\ JobTypeOK /\ NoLostWake /\ [JobNext]_jobVars => NoLostWake'
<1> SUFFICES ASSUME Buffered, JobTypeOK, NoLostWake, [JobNext]_jobVars PROVE NoLostWake'
    OBVIOUS
<1> USE DEF JobTypeOK, NoLostWake, jobRows, control
<1> DEFINE Looking == \E w \in Workers : at[w] \in {"draining", "claiming", "claimed"}
<1>1. ASSUME wake' = Signalled PROVE NoLostWake'
    BY <1>1, TokenLeft
<1>2. ASSUME NEW w \in Workers, at'[w] \in {"draining", "claiming", "claimed"} PROVE NoLostWake'
    BY <1>2
<1>3. CASE Start \/ Stop \/ Stopped \/ Crash
    BY <1>3 DEF Start, Stop, Stopped, Crash, Dead
<1>4. CASE Fallback
    BY <1>1, <1>4 DEF Fallback
<1>5. ASSUME NEW j \in Posts, Client(j) PROVE NoLostWake'
  <2>1. CASE Create(j)
      BY <2>1 DEF Create
  <2>2. CASE CreateSignal(j)
      BY <1>1, <2>2 DEF CreateSignal
  <2>3. CASE ReadDelete(j)
      BY <2>3 DEF ReadDelete, Claimable, Locked
  <2>4. CASE WriteDelete(j)
    <3>1. \A i \in Posts : Claimable(i)' => Claimable(i)
        BY <2>4 DEF WriteDelete, WrittenJob, Claimable, Locked
    <3> QED BY <2>4, <3>1 DEF WriteDelete
  <2> QED BY <1>5, <2>1, <2>2, <2>3, <2>4 DEF Client
<1>6. ASSUME NEW w \in Workers, Work(w) PROVE NoLostWake'
  <2>1. CASE Select(w) \/ Commit(w) \/ WakeUp(w)
      BY <1>2, <2>1 DEF Select, Commit, WakeUp
  <2>2. CASE FinishJob(w) \/ FinishUnwritten(w)
      BY <1>2, <2>2 DEF FinishJob, FinishUnwritten
  <2>3. CASE SelectNone(w)
    <3>1. \A i \in Posts : ~Claimable(i)'
        BY <2>3 DEF SelectNone, Claimable, Locked
    <3> QED BY <3>1
  <2>4. CASE ClaimFails(w)
      BY <2>4 DEF ClaimFails
  <2>5. CASE HandOn(w)
      BY <1>1, <2>5 DEF HandOn
  <2>6. CASE Leave(w)
      BY <2>6 DEF Leave
  <2> QED BY <1>6, <2>1, <2>2, <2>3, <2>4, <2>5, <2>6 DEF Work
<1>7. CASE UNCHANGED jobVars
    BY <1>7 DEF jobVars, Claimable, Locked
<1> QED BY <1>3, <1>4, <1>5, <1>6, <1>7 DEF JobNext

\* No signal is lost: the comment of signalWorkers, for any number of workers.
THEOREM WakeNeverLost == ASSUME Buffered PROVE JobSpec => []NoLostWake
BY TypeInit, TypeStep, WakeInit, WakeStep, PTL DEF JobSpec
=============================================================================
