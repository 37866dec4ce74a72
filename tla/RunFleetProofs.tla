--------------------------- MODULE RunFleetProofs ---------------------------
(***************************************************************************)
(* Proofs about RunFleet for any replicas, rows, durations and skew within *)
(* TimeAssumption: types, one executing run per task across the fleet, and *)
(* no reconciler ever fails a run that executes.                           *)
(***************************************************************************)
EXTENDS RunFleet, TLAPS

USE DEF row, mem, recon, vars, Statuses

\* The durations are natural numbers in the order the claims rest on.
LEMMA Times == /\ Beat \in Nat /\ Live \in Nat /\ Stale \in Nat /\ PendStale \in Nat
               /\ Skew \in Nat /\ MaxAge \in Nat
               /\ Beat < Live /\ Beat + Skew < Stale
BY TimeAssumption

\* The smaller of two ages is an age.
LEMMA LeastType ==
    ASSUME NEW a \in Nat, NEW b \in Nat
    PROVE  Least(a, b) \in 0..b /\ Least(a, b) <= a
BY DEF Least

\* What a replica's memory can be told keeps its types.
LEMMA MemType ==
    ASSUME TypeOK, NEW r \in Rows, NEW S \in SUBSET Rows,
           Executes(r) \/ Unwinds(r) \/ Forgets(S)
    PROVE  /\ exec' \in [Rows -> {"none", "queued", "running", "ending"}]
           /\ home' \in [Rows -> Replicas \union {None}]
           /\ beat' \in [Rows -> 0..Beat]
<1> USE Times DEF TypeOK
<1>1. CASE Executes(r)
  BY <1>1 DEF Executes
<1>2. CASE Unwinds(r)
  BY <1>2 DEF Unwinds
<1>3. CASE Forgets(S)
  BY <1>3 DEF Forgets
<1> QED
  BY <1>1, <1>2, <1>3

\* A written row keeps the types of the rows.
LEMMA RowType ==
    ASSUME TypeOK, NEW r \in Rows, NEW s \in Statuses, Written(r, s)
    PROVE  status' \in [Rows -> Statuses] /\ age' \in [Rows -> 0..MaxAge]
BY Times DEF TypeOK, Written

\* A row put ahead of the cutoffs keeps the type of the lists.
LEMMA FreshType ==
    ASSUME TypeOK, NEW r \in Rows, Fresh(r)
    PROVE  listed' \in [Replicas -> SUBSET Rows]
BY DEF TypeOK, Fresh

\* The initial state has its types.
LEMMA InitType == Init => TypeOK
BY Times, BoundAssumption DEF Init, TypeOK

\* A run's own steps keep the types.
LEMMA RunType == ASSUME TypeOK, NEW r \in Rows, Run(r) PROVE TypeOK'
<1>1. CASE Skip(r) \/ Refuse(r) \/ Exit(r)
  <2>1. Forgets({r})
    BY <1>1 DEF Skip, Refuse, Exit
  <2> QED
    BY <1>1, <2>1, MemType DEF Skip, Refuse, Exit, TypeOK
<1>2. CASE Claim(r)
  <2>1. Written(r, "running") /\ Executes(r) /\ Fresh(r)
    BY <1>2 DEF Claim
  <2> QED
    BY <1>2, <2>1, RowType, MemType, FreshType DEF Claim, TypeOK
<1>3. CASE Touch(r)
  <2>1. (Executes(r) \/ Unwinds(r)) /\ Fresh(r)
    BY <1>3 DEF Touch
  <2>2. age' \in [Rows -> 0..MaxAge]
    BY <1>3, Times DEF Touch, TypeOK
  <2> QED
    BY <1>3, <2>1, <2>2, MemType, FreshType DEF Touch, TypeOK
<1>4. CASE Save(r)
  <2>1. \E s \in Statuses : Written(r, s)
    BY <1>4 DEF Save, Saved
  <2>2. Fresh(r)
    BY <1>4 DEF Save
  <2> QED
    BY <1>4, <2>1, <2>2, RowType, FreshType DEF Save, TypeOK
<1>5. CASE Finish(r)
  <2>1. \E s \in Statuses : Written(r, s)
    BY <1>5 DEF Finish, Saved
  <2>2. Fresh(r) /\ Unwinds(r)
    BY <1>5 DEF Finish
  <2> QED
    BY <1>5, <2>1, <2>2, RowType, FreshType, MemType DEF Finish, TypeOK
<1> QED
  BY <1>1, <1>2, <1>3, <1>4, <1>5 DEF Run

\* A dispatch inserts a row and queues its run on a replica.
LEMMA SubmitType ==
    ASSUME TypeOK, NEW p \in Replicas, NEW r \in Rows, Submit(p, r)
    PROVE  /\ status' \in [Rows -> Statuses] /\ age' \in [Rows -> 0..MaxAge]
           /\ exec' \in [Rows -> {"none", "queued", "running", "ending"}]
           /\ home' \in [Rows -> Replicas \union {None}]
<1>1. Written(r, "pending")
  BY DEF Submit
<1> QED
  BY <1>1, RowType DEF Submit, TypeOK

\* The replicas' steps and the passing of time keep the types.
LEMMA ReplicaType ==
    ASSUME TypeOK, NEW p \in Replicas,
           \/ List(p) \/ Redispatch(p) \/ Crash(p) \/ Restart(p)
           \/ \E r \in Rows : Dispatch(p, r) \/ Stop(p, r) \/ FailIfStale(p, r)
                              \/ Candidate(p, r)
    PROVE  TypeOK'
<1>1. CASE List(p)
  BY <1>1 DEF List, TypeOK, LiveRows
<1>2. CASE Redispatch(p)
  <2>1. \/ \E r \in Rows : Submit(p, r)
        \/ UNCHANGED <<row, exec, home>>
    BY <1>2 DEF Redispatch
  <2> QED
    BY <1>2, <2>1, SubmitType DEF Redispatch, TypeOK
<1>3. CASE Crash(p)
  <2>1. Forgets({r \in Rows : home[r] = p})
    BY <1>3 DEF Crash
  <2>2. crashes' \in 0..Crashes
    BY <1>3, BoundAssumption DEF Crash, TypeOK
  <2>3. /\ exec' \in [Rows -> {"none", "queued", "running", "ending"}]
        /\ home' \in [Rows -> Replicas \union {None}]
        /\ beat' \in [Rows -> 0..Beat]
    BY <2>1, Times DEF Forgets, TypeOK
  <2> QED
    BY <1>3, <2>2, <2>3 DEF Crash, TypeOK
<1>4. CASE Restart(p)
  BY <1>4 DEF Restart, TypeOK
<1>5. ASSUME NEW r \in Rows, Dispatch(p, r) PROVE TypeOK'
  BY <1>5, SubmitType DEF Dispatch, TypeOK
<1>6. ASSUME NEW r \in Rows, Stop(p, r) PROVE TypeOK'
  <2>1. Written(r, "cancelled") /\ Fresh(r) /\ (Unwinds(r) \/ UNCHANGED mem)
    BY <1>6 DEF Stop
  <2> QED
    BY <1>6, <2>1, RowType, FreshType, MemType DEF Stop, TypeOK
<1>7. ASSUME NEW r \in Rows, FailIfStale(p, r) PROVE TypeOK'
  <2>1. Written(r, "failed") /\ Fresh(r)
    BY <1>7 DEF FailIfStale
  <2> QED
    BY <1>7, <2>1, RowType, FreshType DEF FailIfStale, TypeOK
<1>8. ASSUME NEW r \in Rows, Candidate(p, r) PROVE TypeOK'
  BY <1>8 DEF Candidate, TypeOK
<1> QED
  BY <1>1, <1>2, <1>3, <1>4, <1>5, <1>6, <1>7, <1>8

\* Time keeps the types: an executing run has its heartbeat in time.
LEMMA TickType == ASSUME TypeOK, Tick PROVE TypeOK'
<1>1. age' \in [Rows -> 0..MaxAge]
  <2> SUFFICES ASSUME NEW r \in Rows PROVE Least(age[r] + 1, MaxAge) \in 0..MaxAge
    <3>1. 0 \in 0..MaxAge
      BY Times
    <3> QED
      BY <3>1 DEF Tick
  <2>1. age[r] + 1 \in Nat
    BY Times DEF TypeOK
  <2> QED
    BY <2>1, Times, LeastType
<1>2. beat' \in [Rows -> 0..Beat]
  BY Times DEF Tick, TypeOK
<1> QED
  BY <1>1, <1>2 DEF Tick, TypeOK

\* Every reachable state has its types; the heartbeat's age stays within Beat.
THEOREM TypeCorrect == Spec => []TypeOK
<1>1. TypeOK /\ [Next]_vars => TypeOK'
  <2>1. TypeOK /\ UNCHANGED vars => TypeOK'
    BY DEF TypeOK
  <2>2. TypeOK /\ Next => TypeOK'
    BY RunType, ReplicaType, TickType DEF Next
  <2> QED
    BY <2>1, <2>2
<1> QED
  BY <1>1, InitType, PTL DEF Spec
-----------------------------------------------------------------------------
\* Why a run keeps its task: while it executes, its row is 'running' and no
\* older than its last heartbeat (Bumped), no reconciler holds it as stale
\* (Unlisted), so no claim can find the task free.  None of the three follows
\* from exclusion alone.
Bumped == \A r \in Rows : Executing(r) => age[r] <= beat[r]
Unlisted == \A p \in Replicas : \A r \in listed[p] : ~Executing(r)
Kept == TypeOK /\ LiveRunKept /\ Bumped /\ Unlisted /\ OneRunPerTask

\* A step that makes no run execute and writes no row of one keeps all of it.
LEMMA QuietKept ==
    ASSUME Kept, TypeOK',
           \A r \in Rows : exec'[r] = "running" =>
               /\ exec[r] = "running"
               /\ status'[r] = status[r] /\ age'[r] = age[r] /\ beat'[r] = beat[r],
           \A p \in Replicas : listed'[p] \subseteq listed[p]
    PROVE  Kept'
<1> USE DEF Kept
<1>1. \A r \in Rows : Executing(r)' =>
          Executing(r) /\ age'[r] = age[r] /\ beat'[r] = beat[r]
  BY DEF Executing
<1>2. LiveRunKept'
  BY DEF LiveRunKept
<1>3. Bumped'
  BY <1>1 DEF Bumped
<1>4. Unlisted'
  <2> SUFFICES ASSUME NEW p \in Replicas, NEW r \in listed'[p] PROVE ~Executing(r)'
    BY DEF Unlisted
  <2>1. r \in listed[p] /\ r \in Rows
    BY DEF TypeOK
  <2> QED
    BY <1>1, <2>1 DEF Unlisted
<1>5. OneRunPerTask'
  BY <1>1 DEF OneRunPerTask, Mates
<1> QED
  BY <1>2, <1>3, <1>4, <1>5

\* A step of one executing run that keeps its row 'running' or cancelled, and
\* fresh, keeps all of it.
LEMMA OwnKept ==
    ASSUME Kept, TypeOK', NEW r \in Rows, exec[r] = "running", Fresh(r),
           age'[r] = 0, status'[r] = status[r], exec'[r] \in {"running", "ending"},
           \A s \in Rows \ {r} : /\ status'[s] = status[s] /\ age'[s] = age[s]
                                 /\ beat'[s] = beat[s] /\ exec'[s] = exec[s]
    PROVE  Kept'
<1> USE DEF Kept
<1>1. \A s \in Rows : Executing(s)' => Executing(s)
  BY DEF Executing
<1>2. LiveRunKept'
  BY DEF LiveRunKept
<1>3. Bumped'
  BY Times DEF Bumped, Executing, TypeOK
<1>4. Unlisted'
  BY <1>1 DEF Unlisted, Fresh, TypeOK
<1>5. OneRunPerTask'
  BY <1>1 DEF OneRunPerTask, Mates
<1> QED
  BY <1>2, <1>3, <1>4, <1>5

\* A run's own steps keep all of it.  The claim is where the durations matter:
\* a mate that executes has a row younger than Live.
LEMMA RunKept == ASSUME Kept, NEW r \in Rows, Run(r) PROVE Kept'
<1> TypeOK'
  BY RunType DEF Kept
<1>1. CASE Skip(r) \/ Refuse(r) \/ Exit(r)
  <2>1. Forgets({r})
    BY <1>1 DEF Skip, Refuse, Exit
  <2> QED
    BY <1>1, <2>1, QuietKept DEF Skip, Refuse, Exit, Forgets
<1>2. CASE Claim(r)
  <2> USE DEF Kept
  <2>1. /\ status' = [status EXCEPT ![r] = "running"] /\ age' = [age EXCEPT ![r] = 0]
        /\ exec' = [exec EXCEPT ![r] = "running"] /\ beat' = [beat EXCEPT ![r] = 0]
        /\ Fresh(r)
    BY <1>2 DEF Claim, Written, Executes
  <2>2. \A s \in Rows \ {r} : Executing(s)' <=> Executing(s)
    BY <2>1 DEF Executing, TypeOK
  <2>3. \A s \in Mates(r) : ~Executing(s)
    <3> SUFFICES ASSUME NEW s \in Mates(r), Executing(s) PROVE FALSE
      OBVIOUS
    <3>1. s \in Rows /\ status[s] = "running" /\ age[s] <= beat[s]
      BY DEF Mates, LiveRunKept, Bumped, Executing
    <3>2. age[s] < Live
      BY <3>1, Times DEF TypeOK
    <3> QED
      BY <1>2, <3>1, <3>2 DEF Claim, TaskBusy
  <2>4. LiveRunKept'
    BY <2>1 DEF LiveRunKept, TypeOK
  <2>5. Bumped'
    BY <2>1, <2>2 DEF Bumped, TypeOK
  <2>6. Unlisted'
    BY <2>1, <2>2 DEF Unlisted, Fresh, TypeOK
  <2>7. OneRunPerTask'
    BY <2>2, <2>3 DEF OneRunPerTask, Mates
  <2> QED
    BY <2>4, <2>5, <2>6, <2>7
<1>3. CASE Touch(r)
  <2>1. exec'[r] \in {"running", "ending"} /\
        \A s \in Rows \ {r} : exec'[s] = exec[s] /\ beat'[s] = beat[s]
    BY <1>3 DEF Touch, Executes, Unwinds, Kept, TypeOK
  <2>2. age'[r] = 0 /\ \A s \in Rows \ {r} : age'[s] = age[s]
    BY <1>3 DEF Touch, Kept, TypeOK
  <2> QED
    BY <1>3, <2>1, <2>2, OwnKept DEF Touch
<1>4. CASE Save(r)
  <2>1. status[r] \in {"running", "cancelled"}
    BY <1>4 DEF Save, Kept, LiveRunKept
  <2>2. status'[r] = status[r] /\ age'[r] = 0
        /\ \A s \in Rows \ {r} : status'[s] = status[s] /\ age'[s] = age[s]
    BY <1>4, <2>1 DEF Save, Saved, Written, Kept, TypeOK
  <2> QED
    BY <1>4, <2>2, OwnKept DEF Save
<1>5. CASE Finish(r)
  <2>1. exec' = [exec EXCEPT ![r] = "ending"] /\ beat' = [beat EXCEPT ![r] = 0]
    BY <1>5 DEF Finish, Unwinds
  <2>2. \A s \in Rows \ {r} : status'[s] = status[s] /\ age'[s] = age[s]
    BY <1>5 DEF Finish, Saved, Written, Kept, TypeOK
  <2>3. \A p \in Replicas : listed'[p] \subseteq listed[p]
    BY <1>5 DEF Finish, Fresh
  <2> QED
    BY <2>1, <2>2, <2>3, QuietKept DEF Kept, TypeOK
<1> QED
  BY <1>1, <1>2, <1>3, <1>4, <1>5 DEF Run

\* The replicas' steps keep all of it: a run that executes is neither listed nor
\* failed, and only its own row is older than its heartbeat.
LEMMA ReplicaKept ==
    ASSUME Kept, NEW p \in Replicas,
           \/ List(p) \/ Redispatch(p) \/ Crash(p) \/ Restart(p)
           \/ \E r \in Rows : Dispatch(p, r) \/ Stop(p, r) \/ FailIfStale(p, r)
                              \/ Candidate(p, r)
    PROVE  Kept'
<1> TypeOK'
  BY ReplicaType DEF Kept
<1>1. CASE List(p)
  <2> USE DEF Kept
  <2>1. PICK d \in 0..Skew :
          listed' = [listed EXCEPT ![p] =
              {r \in LiveRows : IF status[r] = "pending" THEN age[r] + d > PendStale
                                                         ELSE age[r] + d > Stale}]
    BY <1>1 DEF List
  <2>2. \A r \in Rows : Executing(r)' <=> Executing(r)
    BY <1>1 DEF List, Executing
  <2>3. \A r \in listed'[p] : ~Executing(r)
    <3> SUFFICES ASSUME NEW r \in listed'[p], Executing(r) PROVE FALSE
      OBVIOUS
    <3>1. r \in LiveRows /\ r \in Rows
          /\ (status[r] = "pending" \/ age[r] + d > Stale)
      BY <2>1 DEF TypeOK, LiveRows
    <3>2. status[r] = "running" /\ age[r] <= Beat
      BY <3>1, Times DEF LiveRunKept, Bumped, Executing, TypeOK
    <3>3. age[r] + d <= Beat + Skew
      BY <2>1, <3>1, <3>2, Times DEF TypeOK
    <3> QED
      BY <3>1, <3>2, <3>3, Times DEF TypeOK
  <2>4. Unlisted'
    BY <2>1, <2>2, <2>3 DEF Unlisted, TypeOK
  <2>5. LiveRunKept' /\ Bumped' /\ OneRunPerTask'
    BY <1>1, <2>2 DEF List, LiveRunKept, Bumped, OneRunPerTask, Mates
  <2> QED
    BY <2>4, <2>5
<1>2. ASSUME NEW r \in Rows, Submit(p, r), listed' = listed, beat' = beat PROVE Kept'
  <2>1. status[r] = "none"
    BY <1>2 DEF Submit, Insertable
  <2> QED
    BY <1>2, <2>1, QuietKept DEF Submit, Written, Kept, TypeOK, LiveRunKept
<1>3. CASE Redispatch(p)
  <2>1. CASE \E r \in Rows : Submit(p, r)
    BY <1>2, <1>3, <2>1 DEF Redispatch
  <2>2. CASE UNCHANGED <<row, exec, home>>
    BY <1>3, <2>2, QuietKept DEF Redispatch
  <2> QED
    BY <1>3, <2>1, <2>2 DEF Redispatch
<1>4. CASE Crash(p)
  <2>1. \A q \in Replicas : listed'[q] \subseteq listed[q]
    BY <1>4 DEF Crash, Kept, TypeOK
  <2>2. \A r \in Rows : exec'[r] = "running" => exec[r] = "running" /\ beat'[r] = beat[r]
    BY <1>4 DEF Crash, Forgets
  <2> QED
    BY <1>4, <2>1, <2>2, QuietKept DEF Crash
<1>5. CASE Restart(p)
  BY <1>5, QuietKept DEF Restart
<1>6. ASSUME NEW r \in Rows, Dispatch(p, r) PROVE Kept'
  BY <1>2, <1>6 DEF Dispatch
<1>7. ASSUME NEW r \in Rows, Stop(p, r) PROVE Kept'
  <2> USE DEF Kept
  <2>1. /\ status' = [status EXCEPT ![r] = "cancelled"]
        /\ \A s \in Rows \ {r} : /\ age'[s] = age[s] /\ exec'[s] = exec[s]
                                 /\ beat'[s] = beat[s]
        /\ exec'[r] = "running" => exec[r] = "running"
    BY <1>7 DEF Stop, Written, Unwinds, TypeOK
  <2>2. \A s \in Rows : Executing(s)' => s # r /\ Executing(s)
    BY <2>1 DEF Executing, TypeOK
  <2>3. LiveRunKept'
    BY <2>1 DEF LiveRunKept, TypeOK
  <2>4. Bumped'
    BY <2>1, <2>2 DEF Bumped
  <2>5. Unlisted'
    BY <1>7, <2>2 DEF Stop, Unlisted, Fresh, TypeOK
  <2>6. OneRunPerTask'
    BY <2>2 DEF OneRunPerTask, Mates
  <2> QED
    BY <2>3, <2>4, <2>5, <2>6
<1>8. ASSUME NEW r \in Rows, FailIfStale(p, r) PROVE Kept'
  <2>1. exec[r] # "running"
    BY <1>8 DEF FailIfStale, Kept, Unlisted, LiveRunKept, Executing, LiveRows
  <2>2. \A s \in Rows \ {r} : status'[s] = status[s] /\ age'[s] = age[s]
    BY <1>8 DEF FailIfStale, Written, Kept, TypeOK
  <2>3. \A q \in Replicas : listed'[q] \subseteq listed[q]
    BY <1>8 DEF FailIfStale, Fresh
  <2> QED
    BY <1>8, <2>1, <2>2, <2>3, QuietKept DEF FailIfStale
<1>9. ASSUME NEW r \in Rows, Candidate(p, r) PROVE Kept'
  BY <1>9, QuietKept DEF Candidate
<1> QED
  BY <1>1, <1>3, <1>4, <1>5, <1>6, <1>7, <1>8, <1>9

\* Time keeps all of it: the row of a run that executes ages with its heartbeat.
LEMMA TickKept == ASSUME Kept, Tick PROVE Kept'
<1> USE DEF Kept
<1> TypeOK'
  BY TickType
<1>1. \A r \in Rows : Executing(r)' <=> Executing(r)
  BY DEF Tick, Executing
<1>2. Bumped'
  <2> SUFFICES ASSUME NEW r \in Rows, Executing(r) PROVE age'[r] <= beat'[r]
    BY <1>1 DEF Bumped
  <2>1. beat'[r] = beat[r] + 1 /\ age'[r] \in {0, Least(age[r] + 1, MaxAge)}
    BY DEF Tick, Executing
  <2>2. age[r] <= beat[r] /\ age[r] \in Nat /\ beat[r] \in Nat
    BY Times DEF Bumped, TypeOK
  <2>3. Least(age[r] + 1, MaxAge) <= age[r] + 1 /\ Least(age[r] + 1, MaxAge) \in Nat
    <3>1. age[r] + 1 \in Nat /\ MaxAge \in Nat
      BY <2>2, Times
    <3>2. Least(age[r] + 1, MaxAge) \in 0..MaxAge /\ Least(age[r] + 1, MaxAge) <= age[r] + 1
      BY <3>1, LeastType
    <3> HIDE DEF Kept
    <3> QED
      BY <3>1, <3>2
  <2> QED
    BY <2>1, <2>2, <2>3
<1>3. LiveRunKept' /\ Unlisted' /\ OneRunPerTask'
  BY <1>1 DEF Tick, LiveRunKept, Unlisted, OneRunPerTask, Mates, TypeOK
<1> QED
  BY <1>2, <1>3

\* Every reachable state keeps the invariant.
LEMMA AlwaysKept == Spec => []Kept
<1>1. Init => Kept
  BY InitType DEF Init, Kept, LiveRunKept, Bumped, Unlisted, OneRunPerTask, Executing, Mates
<1>2. Kept /\ [Next]_vars => Kept'
  <2>1. ASSUME Kept, UNCHANGED vars PROVE Kept'
    BY <2>1, QuietKept DEF Kept, TypeOK
  <2>2. ASSUME Kept, Next PROVE Kept'
    BY <2>2, RunKept, ReplicaKept, TickKept DEF Next
  <2> QED
    BY <2>1, <2>2
<1> QED
  BY <1>1, <1>2, PTL DEF Spec

\* Two replicas never execute runs of one task at once, however they crash,
\* restart, dispatch and reconcile, as long as heartbeats keep to Beat.
THEOREM FleetExclusion == Spec => []OneRunPerTask
BY AlwaysKept, PTL DEF Kept

\* No reconciler of any replica fails a run that is executing, even with a clock
\* Skew ahead of the store's.
THEOREM FleetKeepsLiveRuns == Spec => []LiveRunKept
BY AlwaysKept, PTL DEF Kept
=============================================================================
