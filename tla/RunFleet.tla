------------------------------ MODULE RunFleet ------------------------------
(***************************************************************************)
(* The task_agent_runs rows shared by the replicas of a deployment.  There *)
(* is no owner column: a replica claims a row by turning it from 'pending' *)
(* to 'running' and keeps it by bumping updated_at, and every replica runs *)
(* a reconciler that fails the rows it finds silent and dispatches their   *)
(* task again.  Replicas crash, restart, and lose all their memory; a      *)
(* human stops runs through whichever replica answers.                     *)
(*                                                                         *)
(* Rows are numbered in creation order.  Time is counted in units of which *)
(* Beat is the heartbeat's; a row's age is the time since its updated_at,  *)
(* counted up to the bound MaxAge and kept at 0 once nothing reads it.     *)
(* The runner's own queue and gates are BoardRunner's: here a run is in a  *)
(* replica's memory, executing, unwinding, or nowhere.                     *)
(***************************************************************************)
EXTENDS Naturals, FiniteSets

CONSTANTS Replicas, Tasks,
          Rows,        \* 1 .. number of rows, a bound on the dispatches
          TaskOf,      \* the task of each row
          Beat,        \* runHeartbeat
          Live,        \* runLiveWithin, the claim's window
          PendStale,   \* pendingStaleAfter
          Stale,       \* the reconciler's staleAfter
          Skew,        \* how far a replica's clock may run ahead of the store's
          MaxAge,      \* bound on the ages counted
          MaxFailed,   \* maxConsecutiveFailedRuns
          Crashes,     \* bound on the number of crashes
          None         \* no row, no replica

ASSUME RowsAssumption  == Rows \subseteq Nat /\ None \notin Rows
ASSUME TaskAssumption  == TaskOf \in [Rows -> Tasks]
ASSUME BoundAssumption == MaxFailed \in Nat /\ Crashes \in Nat
ASSUME TimeAssumption ==
    /\ {Beat, Live, PendStale, Stale, Skew, MaxAge} \subseteq Nat
    /\ Beat < Live
    /\ Beat + Skew < Stale
    /\ Stale < MaxAge /\ PendStale < MaxAge

VARIABLES
    status,    \* the row's status, "none" before it is inserted
    age,       \* time since the row's updated_at
    exec,      \* what the run's replica does with it
    home,      \* the replica whose memory holds the run
    beat,      \* time since the run's last heartbeat, while it executes
    up,        \* the replicas that run
    listed,    \* rows a reconciler found stale and nobody has written since
    redo,      \* the row whose task a reconciler is about to dispatch again
    crashes

row  == <<status, age>>
mem  == <<exec, home, beat>>
recon == <<listed, redo>>
vars == <<row, mem, up, recon, crashes>>

Statuses == {"none", "pending", "running", "completed", "failed", "cancelled"}
LiveRows == {r \in Rows : status[r] \in {"pending", "running"}}
Mates(r) == {s \in Rows \ {r} : TaskOf[s] = TaskOf[r]}
Least(a, b) == IF a < b THEN a ELSE b

Init == /\ status = [r \in Rows |-> "none"]
        /\ age = [r \in Rows |-> 0]
        /\ exec = [r \in Rows |-> "none"]
        /\ home = [r \in Rows |-> None]
        /\ beat = [r \in Rows |-> 0]
        /\ up = Replicas
        /\ listed = [p \in Replicas |-> {}]
        /\ redo = [p \in Replicas |-> None]
        /\ crashes = 0
-----------------------------------------------------------------------------
\* A statement that writes a row's status sets updated_at ...
Written(r, s) == /\ status' = [status EXCEPT ![r] = s]
                 /\ age' = [age EXCEPT ![r] = 0]

\* (mutant: the list decides, whatever was written since)
StillListed(r) == UNCHANGED listed
\* ... and so puts the row ahead of every cutoff it was listed against.
Fresh(r) == listed' = [p \in Replicas |-> listed[p] \ {r}]

\* What a replica's memory does with a run: executes it, unwinds it, forgets it.
Executes(r) == /\ exec' = [exec EXCEPT ![r] = "running"]
               /\ beat' = [beat EXCEPT ![r] = 0]
               /\ UNCHANGED home
Unwinds(r) == /\ exec' = [exec EXCEPT ![r] = "ending"]
              /\ beat' = [beat EXCEPT ![r] = 0]
              /\ UNCHANGED home
Forgets(S) == /\ exec' = [r \in Rows |-> IF r \in S THEN "none" ELSE exec[r]]
              /\ beat' = [r \in Rows |-> IF r \in S THEN 0 ELSE beat[r]]
              /\ home' = [r \in Rows |-> IF r \in S THEN None ELSE home[r]]

\* Dispatch for the task of row r, its oldest row not inserted: an agent with a
\* pending run on the task gets no second one.
Insertable(r) == /\ status[r] = "none"
                 /\ \A s \in Mates(r) : IF s < r THEN status[s] \notin {"none", "pending"}
                                                ELSE status[s] = "none"
Submit(p, r) ==
    /\ Insertable(r)
    /\ Written(r, "pending")
    /\ exec' = [exec EXCEPT ![r] = "queued"]
    /\ home' = [home EXCEPT ![r] = p]

Dispatch(p, r) == /\ p \in up
                  /\ Submit(p, r)
                  /\ UNCHANGED <<beat, up, recon, crashes>>

\* runJob's look at the row before it starts: a terminal run is skipped.
Skip(r) == /\ exec[r] = "queued"
           /\ r \notin LiveRows
           /\ Forgets({r})
           /\ UNCHANGED <<row, up, recon, crashes>>

\* beginTask: another run of the task is between beginTask and endTask in this
\* replica, and the run waits for it.
HeldHere(r) == \E s \in Mates(r) : home[s] = home[r] /\ exec[s] \in {"running", "ending"}

\* (mutant: the claim only looks at its own row)
ClaimBlind(r) ==
    /\ exec[r] = "queued"
    /\ ~HeldHere(r)
    /\ status[r] = "pending"
    /\ Written(r, "running")
    /\ Executes(r)
    /\ Fresh(r)
    /\ UNCHANGED <<up, redo, crashes>>
\* ClaimRun, under its advisory lock: the row is pending and no run of the task
\* has a heartbeat within Live.
TaskBusy(r) == \E s \in Mates(r) : status[s] = "running" /\ age[s] < Live
Claim(r) ==
    /\ exec[r] = "queued"
    /\ ~HeldHere(r)
    /\ status[r] = "pending"
    /\ ~TaskBusy(r)
    /\ Written(r, "running")
    /\ Executes(r)
    /\ Fresh(r)
    /\ UNCHANGED <<up, redo, crashes>>

\* A refused claim: the replica forgets the run, its row stays as it is.
Refuse(r) ==
    /\ exec[r] = "queued"
    /\ ~HeldHere(r)
    /\ status[r] # "pending" \/ TaskBusy(r)
    /\ Forgets({r})
    /\ UNCHANGED <<row, up, recon, crashes>>
-----------------------------------------------------------------------------
\* Touch: bump a live row, read the status back, stop when it says cancelled.
Touch(r) ==
    /\ exec[r] = "running"
    /\ age' = [age EXCEPT ![r] = 0]  \* 0 already unless the row is live
    /\ Fresh(r)
    /\ IF status[r] = "cancelled" THEN Unwinds(r) ELSE Executes(r)
    /\ UNCHANGED <<status, up, redo, crashes>>

\* Update with the status the goroutine believes: a cancelled row keeps its own.
Saved(r, s) == Written(r, IF status[r] = "cancelled" THEN "cancelled" ELSE s)

\* execute writes the row as 'running' twice on its way, whatever it says now.
Save(r) == /\ exec[r] = "running"
           /\ Saved(r, "running")
           /\ Fresh(r)
           /\ UNCHANGED <<mem, up, redo, crashes>>

Finish(r) == /\ exec[r] = "running"
             /\ \E s \in {"completed", "failed"} : Saved(r, s)
             /\ Unwinds(r)
             /\ Fresh(r)
             /\ UNCHANGED <<up, redo, crashes>>

\* The goroutine unwinds: process trees, catalog files, slots, endTask.
Exit(r) == /\ exec[r] = "ending"
           /\ Forgets({r})
           /\ UNCHANGED <<row, up, recon, crashes>>

\* CancelRun on any replica: the row at once, the goroutine too if it is here.
Stop(p, r) ==
    /\ p \in up
    /\ r \in LiveRows
    /\ Written(r, "cancelled")
    /\ IF exec[r] = "running" /\ home[r] = p THEN Unwinds(r) ELSE UNCHANGED mem
    /\ Fresh(r)
    /\ UNCHANGED <<up, redo, crashes>>
-----------------------------------------------------------------------------
\* Reconciler.run: the list, taken against a cutoff of the replica's own clock.
List(p) ==
    /\ p \in up
    /\ redo[p] = None
    /\ \E d \in 0..Skew :
         listed' = [listed EXCEPT ![p] =
             {r \in LiveRows : IF status[r] = "pending" THEN age[r] + d > PendStale
                                                        ELSE age[r] + d > Stale}]
    /\ UNCHANGED <<row, mem, up, redo, crashes>>

\* (mutant: the task's id where the run's is expected)
FailIfStaleTask(p, r) ==
    /\ p \in up
    /\ redo[p] = None
    /\ r \in listed[p]
    /\ r \in LiveRows
    /\ Written(r, "failed")
    /\ Fresh(r)
    /\ redo' = [redo EXCEPT ![p] = TaskOf[r]]
    /\ UNCHANGED <<mem, up, crashes>>
\* FailIfStale: the write counts only if the row is as old as when it was
\* listed.  Then the row's task is dispatched again, by this reconciler alone.
FailIfStale(p, r) ==
    /\ p \in up
    /\ redo[p] = None
    /\ r \in listed[p]
    /\ r \in LiveRows
    /\ Written(r, "failed")
    /\ Fresh(r)
    /\ redo' = [redo EXCEPT ![p] = r]
    /\ UNCHANGED <<mem, up, crashes>>

\* dispatchNeverStarted: the newest run of a task failed, and fewer than
\* MaxFailed did so in a row.
Inserted(t) == {r \in Rows : TaskOf[r] = t /\ status[r] # "none"}
Newer(r) == {s \in Inserted(TaskOf[r]) : s > r}
LoopHeld(t) == LET latest == {r \in Inserted(t) : Cardinality(Newer(r)) < MaxFailed}
               IN /\ Cardinality(latest) >= MaxFailed
                  /\ \A r \in latest : status[r] = "failed"
Candidate(p, r) ==
    /\ p \in up
    /\ redo[p] = None
    /\ status[r] = "failed"
    /\ Newer(r) = {}
    /\ ~LoopHeld(TaskOf[r])
    /\ \E s \in Mates(r) : status[s] = "none"  \* bound: a row is left
    /\ redo' = [redo EXCEPT ![p] = r]
    /\ UNCHANGED <<row, mem, up, listed, crashes>>

\* (mutant: the reconciler only fails the row)
Forget(p) ==
    /\ redo[p] # None
    /\ redo' = [redo EXCEPT ![p] = None]
    /\ UNCHANGED <<row, mem, up, listed, crashes>>
\* The reconciler's dispatch, which may have been overtaken by another one.
Redispatch(p) ==
    /\ redo[p] # None
    /\ LET next == {r \in Rows : TaskOf[r] = TaskOf[redo[p]] /\ Insertable(r)}
       IN \/ \E r \in next : Submit(p, r)
          \/ next = {} /\ UNCHANGED <<row, exec, home>>
    /\ redo' = [redo EXCEPT ![p] = None]
    /\ UNCHANGED <<beat, up, listed, crashes>>
-----------------------------------------------------------------------------
\* A replica's memory is gone, its rows stay; a restart starts from nothing.
Crash(p) ==
    /\ p \in up
    /\ crashes < Crashes
    /\ crashes' = crashes + 1
    /\ up' = up \ {p}
    /\ Forgets({r \in Rows : home[r] = p})
    /\ listed' = [listed EXCEPT ![p] = {}]
    /\ redo' = [redo EXCEPT ![p] = None]
    /\ UNCHANGED row

Restart(p) == /\ p \notin up
              /\ up' = up \union {p}
              /\ UNCHANGED <<row, mem, recon, crashes>>

\* Time passes: a run that executes has its heartbeat every Beat.
Tick == /\ \A r \in Rows : exec[r] = "running" => beat[r] < Beat
        /\ age' = [r \in Rows |-> IF r \in LiveRows THEN Least(age[r] + 1, MaxAge) ELSE 0]
        /\ beat' = [r \in Rows |-> IF exec[r] = "running" THEN beat[r] + 1 ELSE 0]
        /\ UNCHANGED <<status, exec, home, up, recon, crashes>>
-----------------------------------------------------------------------------
Run(r) == Skip(r) \/ Claim(r) \/ Refuse(r) \/ Touch(r) \/ Save(r) \/ Finish(r) \/ Exit(r)

Next == \/ \E r \in Rows : Run(r)
        \/ \E p \in Replicas :
             \/ List(p) \/ Redispatch(p) \/ Crash(p) \/ Restart(p)
             \/ \E r \in Rows : Dispatch(p, r) \/ Stop(p, r) \/ FailIfStale(p, r)
                                \/ Candidate(p, r)
        \/ Tick

Spec == Init /\ [][Next]_vars

\* Time advances, heartbeats tick, a crashed replica is restarted, and the
\* reconcilers run on their tickers, through the whole of their lists.  No
\* fairness on events, claims, stops, crashes, or on an execution ending.
FairSpec == /\ Spec
            /\ WF_vars(Tick)
            /\ WF_vars(\E r \in Rows : Touch(r))
            /\ WF_vars(\E p \in Replicas : Restart(p))
            /\ WF_vars(\E p \in Replicas : List(p))
            /\ WF_vars(\E p \in Replicas : Redispatch(p))
            /\ SF_vars(\E p \in Replicas, r \in Rows : FailIfStale(p, r))
            /\ SF_vars(\E p \in Replicas, r \in Rows : Candidate(p, r))
-----------------------------------------------------------------------------
TypeOK == /\ status \in [Rows -> Statuses]
          /\ age \in [Rows -> 0..MaxAge]
          /\ exec \in [Rows -> {"none", "queued", "running", "ending"}]
          /\ home \in [Rows -> Replicas \union {None}]
          /\ beat \in [Rows -> 0..Beat]
          /\ up \subseteq Replicas
          /\ listed \in [Replicas -> SUBSET Rows]
          /\ redo \in [Replicas -> Rows \union {None}]
          /\ crashes \in 0..Crashes

\* Two replicas never execute runs of one task at once, through crashes,
\* reconcilers and dispatches.  A stopped run is the exception: its row is free
\* at once, its goroutine learns it from its next heartbeat.
Executing(r) == exec[r] = "running" /\ status[r] # "cancelled"
OneRunPerTask ==
    \A r \in Rows : \A s \in Mates(r) : ~(Executing(r) /\ Executing(s))

\* No reconciler fails a run whose replica executes it: a heartbeat between the
\* list and the write saves it, also against a clock that runs ahead.
LiveRunKept ==
    \A r \in Rows : exec[r] = "running" => status[r] \in {"running", "cancelled"}

\* A run whose replica lost it is failed and its task gets a newer run, unless
\* a human stopped it, the task kept failing, or no row is left.
Lost(r) == r \in LiveRows /\ exec[r] = "none"
Recovered(r) == /\ r \notin LiveRows
                /\ status[r] = "failed" => \/ Newer(r) # {} \/ LoopHeld(TaskOf[r])
                                           \/ \A s \in Mates(r) : s < r
LostRunRecovered == \A r \in Rows : Lost(r) ~> Recovered(r)
=============================================================================
