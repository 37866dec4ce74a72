------------------------------ MODULE JobQueue ------------------------------
(***************************************************************************)
(* application/job/service.go with its store: background jobs, a row each, *)
(* that a pool of workers claims oldest first.  An idle worker sleeps on   *)
(* the buffered channel `wake`; nobody polls but for a backstop ticker, so *)
(* a job is served in time only if a signal is never lost.                 *)
(*                                                                         *)
(* A claim is a transaction: SELECT ... FOR UPDATE SKIP LOCKED, then an    *)
(* UPDATE that takes effect at its commit, with the row locked between the *)
(* two.  Every other statement is one step.  The HTTP handlers, the model  *)
(* a job calls and its callback are left out; what a run returns is an     *)
(* arbitrary outcome.                                                      *)
(***************************************************************************)
EXTENDS Naturals, Sequences, FiniteSets

CONSTANTS Posts,     \* the requests clients may post
          Deletable, \* the jobs a user may delete
          Workers,   \* the worker goroutines, maxWorkers of them
          Buffer,    \* the capacity of the wake channel, max(maxWorkers, 1)
          MaxFaults  \* bound: restarts and failed statements together

VARIABLES
    jobStatus,   \* the status column of each job's row
    order,       \* the rows by created_at
    at,          \* where each worker is
    holds,       \* the job a worker has locked or runs, as a set
    wake,        \* tokens in the wake channel
    unsignalled, \* jobs inserted by a Create that has not signalled yet
    deleting,    \* what a Delete in flight has decided for each job
    service,     \* the process: off, up or stopping
    starts, errors

jobRows == <<jobStatus, order>>
control == <<service, starts, errors>>
jobVars == <<jobRows, at, holds, wake, unsignalled, deleting, control>>

Ended       == {"completed", "failed", "cancelled"}
JobStatuses == {"absent", "pending", "running", "deleted"} \union Ended
Places      == {"gone", "draining", "claiming", "claimed", "running", "idle"}

\* (mutant: SELECT without FOR UPDATE SKIP LOCKED)
LockedNever(j) == j \notin Posts
Locked(j)    == \E w \in Workers : at[w] = "claiming" /\ j \in holds[w]
Claimable(j) == jobStatus[j] = "pending" /\ ~Locked(j)

\* signalWorkers: a full channel swallows the token.
Signalled == IF wake < Buffer THEN wake + 1 ELSE wake

\* A bound, not part of the code.
FaultsLeft == starts + errors <= MaxFaults

JobInit == /\ jobStatus = [j \in Posts |-> "absent"]
           /\ order = <<>>
           /\ at = [w \in Workers |-> "gone"]
           /\ holds = [w \in Workers |-> {}]
           /\ wake = 0
           /\ unsignalled = {}
           /\ deleting = [j \in Posts |-> "no"]
           /\ service = "off"
           /\ starts = 0
           /\ errors = 0
-----------------------------------------------------------------------------
\* (mutant: the workers sleep before they first look)
StartAsleep == /\ service = "off"
               /\ FaultsLeft
               /\ service' = "up"
               /\ starts' = starts + 1
               /\ at' = [w \in Workers |-> "idle"]
               /\ wake' = 0
               /\ UNCHANGED <<jobRows, holds, unsignalled, deleting, errors>>
\* Start: a new channel, and every worker drains before it first sleeps.
Start == /\ service = "off"
         /\ FaultsLeft
         /\ service' = "up"
         /\ starts' = starts + 1
         /\ at' = [w \in Workers |-> "draining"]
         /\ wake' = 0
         /\ UNCHANGED <<jobRows, holds, unsignalled, deleting, errors>>

\* Stop cancels the context every worker and every statement runs under.
Stop == /\ service = "up"
        /\ service' = "stopping"
        /\ UNCHANGED <<jobRows, at, holds, wake, unsignalled, deleting, starts, errors>>

Dead == /\ service' = "off"
        /\ at' = [w \in Workers |-> "gone"]
        /\ holds' = [w \in Workers |-> {}]
        /\ unsignalled' = {}
        /\ deleting' = [j \in Posts |-> "no"]
        /\ UNCHANGED <<jobRows, wake, starts, errors>>

\* wg.Wait returns and the process ends.
Stopped == service = "stopping" /\ (\A w \in Workers : at[w] = "gone") /\ Dead

\* The process is killed; its open transactions roll back.
Crash == service # "off" /\ Dead

\* (mutant: no tick)
FallbackSilently == /\ service = "up"
                    /\ UNCHANGED jobVars
\* One tick of the backstop.
Fallback == /\ service = "up"
            /\ wake' = Signalled
            /\ UNCHANGED <<jobRows, at, holds, unsignalled, deleting, control>>
-----------------------------------------------------------------------------
\* Create: the insert, then the signal.
Create(j) == /\ service = "up"
             /\ jobStatus[j] = "absent"
             /\ jobStatus' = [jobStatus EXCEPT ![j] = "pending"]
             /\ order' = Append(order, j)
             /\ unsignalled' = unsignalled \union {j}
             /\ UNCHANGED <<at, holds, wake, deleting, control>>

CreateSignal(j) == /\ j \in unsignalled
                   /\ unsignalled' = unsignalled \ {j}
                   /\ wake' = Signalled
                   /\ UNCHANGED <<jobRows, at, holds, deleting, control>>

\* Delete: what is read decides what is written, unconditionally, later.
ReadDelete(j) ==
    /\ service = "up"
    /\ j \in Deletable
    /\ deleting[j] = "no"
    /\ jobStatus[j] \notin {"absent", "deleted"}
    /\ deleting' = [deleting EXCEPT ![j] =
                       IF jobStatus[j] \in {"pending", "running"} THEN "cancel" ELSE "delete"]
    /\ UNCHANGED <<jobRows, at, holds, wake, unsignalled, control>>

\* UpdateStatus writes no row that is gone.
WrittenJob(j, s) == jobStatus' = [jobStatus EXCEPT ![j] = IF @ = "deleted" THEN @ ELSE s]

\* The write waits for a claim's row lock.
WriteDelete(j) == /\ deleting[j] # "no"
                  /\ ~Locked(j)
                  /\ WrittenJob(j, IF deleting[j] = "cancel" THEN "cancelled" ELSE "deleted")
                  /\ deleting' = [deleting EXCEPT ![j] = "no"]
                  /\ UNCHANGED <<order, at, holds, wake, unsignalled, control>>
-----------------------------------------------------------------------------
\* ClaimPending's SELECT: the oldest pending row nobody has locked.
Oldest(j) == /\ Claimable(j)
             /\ \E i \in DOMAIN order :
                   order[i] = j /\ \A k \in 1..(i - 1) : ~Claimable(order[k])

Select(w) == /\ at[w] = "draining"
             /\ service = "up"
             /\ \E j \in Posts : /\ Oldest(j)
                                /\ holds' = [holds EXCEPT ![w] = {j}]
             /\ at' = [at EXCEPT ![w] = "claiming"]
             /\ UNCHANGED <<jobRows, wake, unsignalled, deleting, control>>

SelectNone(w) == /\ at[w] = "draining"
                 /\ service = "up"
                 /\ \A j \in Posts : ~Claimable(j)
                 /\ at' = [at EXCEPT ![w] = "idle"]
                 /\ UNCHANGED <<jobRows, holds, wake, unsignalled, deleting, control>>

\* The claim's commit.
Commit(w) == /\ at[w] = "claiming"
             /\ jobStatus' = [j \in Posts |-> IF j \in holds[w] THEN "running" ELSE jobStatus[j]]
             /\ at' = [at EXCEPT ![w] = "claimed"]
             /\ UNCHANGED <<order, holds, wake, unsignalled, deleting, control>>

\* A statement of the claim fails: the worker goes back to sleep.
ClaimFails(w) ==
    /\ at[w] \in {"draining", "claiming"}
    /\ service = "up" => FaultsLeft
    /\ errors' = IF service = "up" THEN errors + 1 ELSE errors
    /\ at' = [at EXCEPT ![w] = "idle"]
    /\ holds' = [holds EXCEPT ![w] = {}]
    /\ UNCHANGED <<jobRows, wake, unsignalled, deleting, service, starts>>

\* processOne: before it runs the job, the worker wakes another one.
HandOn(w) == /\ at[w] = "claimed"
             /\ wake' = Signalled
             /\ at' = [at EXCEPT ![w] = "running"]
             /\ UNCHANGED <<jobRows, holds, unsignalled, deleting, control>>

\* run: the verdict overwrites whatever status the row has by now, and the
\* worker claims again.  Under a cancelled context, or when the database
\* fails, the write is lost and the error ignored.
FinishJob(w) ==
    /\ at[w] = "running"
    /\ \E s \in {"completed", "failed"} :
          jobStatus' = [j \in Posts |->
                        IF j \in holds[w] /\ jobStatus[j] # "deleted" /\ service = "up"
                        THEN s ELSE jobStatus[j]]
    /\ at' = [at EXCEPT ![w] = "draining"]
    /\ holds' = [holds EXCEPT ![w] = {}]
    /\ UNCHANGED <<order, wake, unsignalled, deleting, control>>

FinishUnwritten(w) ==
    /\ at[w] = "running"
    /\ service = "up"
    /\ FaultsLeft
    /\ errors' = errors + 1
    /\ at' = [at EXCEPT ![w] = "draining"]
    /\ holds' = [holds EXCEPT ![w] = {}]
    /\ UNCHANGED <<jobRows, wake, unsignalled, deleting, service, starts>>

WakeUp(w) == /\ at[w] = "idle"
             /\ service = "up"
             /\ wake > 0
             /\ wake' = wake - 1
             /\ at' = [at EXCEPT ![w] = "draining"]
             /\ UNCHANGED <<jobRows, holds, unsignalled, deleting, control>>

\* worker returns: ctx.Done() is ready.
Leave(w) == /\ at[w] \in {"idle", "draining"}
            /\ service = "stopping"
            /\ at' = [at EXCEPT ![w] = "gone"]
            /\ UNCHANGED <<jobRows, holds, wake, unsignalled, deleting, control>>
-----------------------------------------------------------------------------
Work(w) == \/ Select(w) \/ SelectNone(w) \/ Commit(w) \/ ClaimFails(w) \/ HandOn(w)
           \/ FinishJob(w) \/ FinishUnwritten(w) \/ WakeUp(w) \/ Leave(w)

Client(j) == Create(j) \/ CreateSignal(j) \/ ReadDelete(j) \/ WriteDelete(j)

JobNext == \/ Start \/ Stop \/ Stopped \/ Crash \/ Fallback
           \/ \E j \in Posts : Client(j)
           \/ \E w \in Workers : Work(w)

\* Goroutines run, a claimed job ends (its context has a timeout) and the
\* ticker ticks.  Clients, stops, crashes and restarts owe nothing.
Fairness == /\ \A w \in Workers : WF_jobVars(Work(w))
            /\ \A j \in Posts : WF_jobVars(CreateSignal(j))
            /\ WF_jobVars(Fallback)

JobSpec     == JobInit /\ [][JobNext]_jobVars
JobFairSpec == JobSpec /\ Fairness
-----------------------------------------------------------------------------
JobTypeOK == /\ jobStatus \in [Posts -> JobStatuses]
             /\ order \in Seq(Posts)
             /\ at \in [Workers -> Places]
             /\ holds \in [Workers -> SUBSET Posts]
             /\ wake \in 0..Buffer
             /\ unsignalled \subseteq Posts
             /\ deleting \in [Posts -> {"no", "cancel", "delete"}]
             /\ service \in {"off", "up", "stopping"}
             /\ starts \in Nat
             /\ errors \in Nat

\* No job is started twice, and none that ended or that a user cancelled is
\* started at all: the claim's row lock is what a stale SELECT, a second worker
\* and a Delete in flight run into.
RunsOnce == [][\A j \in Posts :
                  jobStatus[j] \notin {"absent", "pending"} =>
                      /\ jobStatus'[j] \notin {"absent", "pending"}
                      /\ jobStatus'[j] = "running" => jobStatus[j] = "running"]_jobVars

\* While no statement has failed, a job nobody has claimed and a worker that
\* sleeps never face each other: a token is in the channel, a worker is about
\* to look or to pass the signal on, or the creator is about to signal.
NoLostWake ==
    /\ service = "up"
    /\ errors = 0
    /\ \E j \in Posts : Claimable(j)
    /\ \E w \in Workers : at[w] = "idle"
    => \/ wake > 0
       \/ unsignalled # {}
       \/ \E w \in Workers : at[w] \in {"draining", "claiming", "claimed"}

\* Whatever fails, a pending job is claimed or cancelled while the service
\* stays up: the backstop's promise.
PendingClaimed == \A j \in Posts :
    jobStatus[j] = "pending" /\ service = "up" ~> jobStatus[j] # "pending" \/ service # "up"
=============================================================================
