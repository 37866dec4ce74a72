-------------------------- MODULE WorkOrderProofs --------------------------
(***************************************************************************)
(* The work order for any set of tasks, relations and environment: its     *)
(* types, that tasks start in order, and that no wake-up is lost.          *)
(***************************************************************************)
EXTENDS WorkOrder, TLAPS

\* A call that returns leaves calls behind.
LEMMA GoesType ==
    ASSUME calls \subseteq Points \X Tasks, NEW point, NEW t, NEW S \in SUBSET (Points \X Tasks),
           Goes(point, t, S)
    PROVE  calls' \subseteq Points \X Tasks
BY DEF Goes

\* A call at any point, of any task, is a call.
LEMMA CallType ==
    ASSUME NEW t \in Tasks
    PROVE  \A point \in Points : {<<point, t>>} \in SUBSET (Points \X Tasks)
OBVIOUS

\* The looks of a sweep, or of a task that wakes its dependents, are calls.
LEMMA LooksType ==
    ASSUME NEW S \in SUBSET Tasks
    PROVE  {<<"look", t>> : t \in S} \in SUBSET (Points \X Tasks)
<1>1. "look" \in Points
    BY DEF Points
<1>2. \A t \in S : <<"look", t>> \in Points \X Tasks
    BY <1>1
<1> QED BY <1>2, ZenonT(30)

\* A dispatch goes to the gate, or starts a task whose stage has none.
LEMMA DispatchedCall ==
    ASSUME NEW t
    PROVE  /\ \/ \E p \in {"gate", "gate, parked"} : Dispatched(t) = {<<p, t>>}
              \/ Dispatched(t) = {<<"start", t>>} /\ column[t] \notin Gated
           /\ (\/ \E p \in {"gate", "gate, parked"} : Dispatched(t) = {<<p, t>>}
               \/ Dispatched(t) = {<<"start", t>>} /\ column[t] \notin Gated)'
BY DEF Dispatched

\* What a move calls.
LEMMA MoveCalls ==
    ASSUME NEW t \in Tasks, NEW c \in Columns, Move(t, c)
    PROVE  /\ c \in Working => calls' = calls \union Dispatched(t)'
           /\ c \in {"done", "released"} => calls' = calls \union {<<"wake", t>>}
           /\ c \notin Working => calls' \in {calls, calls \union {<<"wake", t>>}}
<1>1. CASE c \in Working
    <2>1. c \notin {"done", "released"}
        BY <1>1 DEF Working, Gated
    <2> QED BY <1>1, <2>1, Zenon DEF Move
<1>2. CASE c \in {"done", "released"}
    <2>1. c \notin Working
        BY <1>2 DEF Working, Gated
    <2> QED BY <1>2, <2>1, Zenon DEF Move
<1>3. CASE c \notin Working /\ c \notin {"done", "released"}
    <2>1. calls' = calls \union {}
        BY <1>3, Zenon DEF Move
    <2> QED BY <1>3, <2>1
<1> QED BY <1>1, <1>2, <1>3

\* The calls in flight are calls: the one part of the types that takes an
\* argument.
LEMMA CallsStep == TypeOK /\ [Next]_vars => calls' \subseteq Points \X Tasks
<1> SUFFICES ASSUME TypeOK, [Next]_vars PROVE calls' \subseteq Points \X Tasks
    OBVIOUS
<1>0. calls \subseteq Points \X Tasks /\ parked \subseteq Tasks
    BY DEF TypeOK
<1>1. {"gate", "gate, parked", "park", "hook", "start", "wake", "look", "clear"} = Points
    BY DEF Points
<1>2. {} \in SUBSET (Points \X Tasks)
    OBVIOUS
<1>3. CASE Sweep \/ Ticker
  <2>1. calls' = calls \union {<<"look", t>> : t \in parked}
      BY <1>3 DEF Sweep, Ticker, Pass
  <2> QED BY <1>0, <2>1, LooksType
<1>4. CASE Crash
    BY <1>4 DEF Crash
<1>5. ASSUME NEW t \in Tasks, Gate(t) \/ Look(t) \/ InFlight(t)
      PROVE  \E point \in Points : \E S \in SUBSET (Points \X Tasks) : Goes(point, t, S)
  <2>1. CASE Gate(t)
      BY <1>1, <1>2, <2>1, CallType DEF Gate
  <2>2. CASE Look(t)
      BY <1>1, <1>2, <2>2, CallType DEF Look
  <2>3. CASE Park(t)
      BY <1>1, <2>3, CallType DEF Park
  <2>4. CASE Hook(t) \/ Start(t)
      BY <1>1, <1>2, <2>4 DEF Hook, Start
  <2>5. CASE Wake(t)
    <3>1. Dependents(t) \in SUBSET Tasks
        BY DEF Dependents
    <3> QED BY <1>1, <2>5, <3>1, LooksType DEF Wake
  <2>6. CASE Clear(t)
      BY <1>1, <1>2, <2>6, CallType DEF Clear
  <2> QED BY <1>5, <2>1, <2>2, <2>3, <2>4, <2>5, <2>6 DEF InFlight
<1>6. ASSUME NEW t \in Tasks,
             Delete(t) \/ Comment(t) \/ Reconcile(t) \/ \E c \in Columns : Move(t, c)
      PROVE  \/ calls' = calls
             \/ \E point \in Points : calls' = calls \union {<<point, t>>}
    BY <1>1, <1>6, DispatchedCall DEF Delete, Comment, Reconcile, Move
<1>7. ASSUME NEW t \in Tasks,
             Edit(t) \/ RunEnds(t) \/ \E b \in Tasks : AddBlocker(t, b)
      PROVE  calls' = calls
    BY <1>7 DEF Edit, RunEnds, AddBlocker
<1>8. CASE UNCHANGED vars
    BY <1>0, <1>8 DEF vars
<1> QED
    BY <1>0, <1>3, <1>4, <1>5, <1>6, <1>7, <1>8, GoesType, CallType DEF Next

\* The rest of the types: what each action does to the rows.
LEMMA TypeStep == TypeOK /\ [Next]_vars => TypeOK'
<1> SUFFICES ASSUME TypeOK, [Next]_vars PROVE TypeOK'
    OBVIOUS
<1> DEFINE Rows == /\ waived \subseteq Tasks \X Tasks
                   /\ column \in [Tasks -> Columns \union {"gone"}]
                   /\ parked \subseteq Tasks
                   /\ blocks \subseteq Tasks \X Tasks
                   /\ run \in [Tasks -> {"none", "live", "ended"}]
                   /\ soon \in BOOLEAN
                   /\ crashed \in BOOLEAN
<1>0. Rows
    BY DEF TypeOK
<1> SUFFICES Rows'
    BY CallsStep DEF TypeOK
<1> USE <1>0 DEF order, vars
<1>1. CASE UNCHANGED vars \/ Sweep \/ Ticker \/ Crash
    BY <1>1 DEF Sweep, Ticker, Crash
<1>2. ASSUME NEW t \in Tasks,
             Gate(t) \/ Look(t) \/ Wake(t) \/ Comment(t) \/ Reconcile(t) \/ Edit(t)
      PROVE  Rows'
    BY <1>2 DEF Gate, Look, Wake, Comment, Reconcile, Edit
<1>3. ASSUME NEW t \in Tasks, Park(t) \/ Hook(t) \/ Clear(t) PROVE Rows'
    BY <1>3 DEF Park, Hook, Clear
<1>4. ASSUME NEW t \in Tasks, Start(t) \/ RunEnds(t) PROVE Rows'
    BY <1>4 DEF Start, RunEnds
<1>5. ASSUME NEW t \in Tasks, Delete(t) PROVE Rows'
    BY <1>5 DEF Delete
<1>6. ASSUME NEW t \in Tasks, NEW c \in Columns, Move(t, c) PROVE Rows'
  <2>1. waived' \subseteq waived \union (Tasks \X Tasks)
    <3>1. {<<b, t>> : b \in {x \in Open(t)' : c = "need_revision"}} \subseteq Tasks \X Tasks
      <4> DEFINE Held == {x \in Open(t)' : c = "need_revision"}
      <4>1. Held \subseteq Tasks
          BY DEF Open
      <4> HIDE DEF Held
      <4>2. \A b \in Held : <<b, t>> \in Tasks \X Tasks
          BY <4>1
      <4>3. {<<b, t>> : b \in Held} \subseteq Tasks \X Tasks
          BY <4>2, Zenon
      <4> QED BY <4>3 DEF Held
    <3>2. {<<t, u>> : u \in {x \in Dependents(t) :
                                PastGate(x) /\ Finished(t) /\ ~Finished(t)'}}
              \subseteq Tasks \X Tasks
        BY DEF Dependents
    <3> QED BY <1>6, <3>1, <3>2, Zenon DEF Move
  <2>2. /\ column' \in [Tasks -> Columns \union {"gone"}]
        /\ parked' \subseteq Tasks
        /\ UNCHANGED <<blocks, run, soon, crashed>>
      BY <1>6 DEF Move
  <2> QED BY <2>1, <2>2
<1>7. ASSUME NEW t \in Tasks, NEW b \in Tasks, AddBlocker(t, b) PROVE Rows'
    BY <1>7 DEF AddBlocker
<1> QED
    BY <1>1, <1>2, <1>3, <1>4, <1>5, <1>6, <1>7 DEF Next, InFlight

\* The first state has its types: its relations are between tasks.
LEMMA TypeInit == Init => TypeOK
<1> SUFFICES ASSUME Init PROVE TypeOK
    OBVIOUS
<1>1. blocks \subseteq Tasks \X Tasks
    BY GraphsAssumption DEF Init
<1>2. run \in [Tasks -> {"none", "live", "ended"}]
    BY DEF Init
<1> QED BY <1>1, <1>2, StartingAssumption DEF Init, TypeOK

\* The types of the work order (its rows and its calls in flight).
THEOREM TypeCorrect == Spec => []TypeOK
BY TypeInit, TypeStep, PTL DEF Spec
-----------------------------------------------------------------------------
\* A task may start: what is still open need not be waited for.
Settled(t) == \A b \in Open(t) : <<b, t>> \in waived

\* StartedInOrder is not inductive: a resumed dispatch passes no gate, nor does
\* one from a stage without it, so whatever is past the gate must be settled.
Ordered == \A t \in Tasks : PastGate(t) => Settled(t)

\* Deletions take their relations along, relations added later are waived, and a
\* blocker that is reopened waives its dependents past the gate: a task past the
\* gate that may start, may start afterwards.
LEMMA SettledStable ==
    ASSUME TypeOK, [Next]_vars, NEW u \in Tasks, PastGate(u), Settled(u)
    PROVE  Settled(u)'
<1> USE DEF Settled, Open, order, vars
<1>1. CASE UNCHANGED <<column, order>>
    BY <1>1 DEF Finished
<1>2. ASSUME NEW t \in Tasks, NEW c \in Columns, Move(t, c) PROVE Settled(u)'
  <2> SUFFICES ASSUME NEW b \in Tasks, <<b, u>> \in blocks', ~Finished(b)'
               PROVE  <<b, u>> \in waived'
      OBVIOUS
  <2>1. <<b, u>> \in blocks /\ waived \subseteq waived'
      BY <1>2 DEF Move
  <2>2. CASE ~Finished(b)
      BY <2>1, <2>2
  <2>3. CASE Finished(b)
    <3>1. b = t
        BY <1>2, <2>3 DEF Move, Finished, TypeOK
    <3>2. u \in Dependents(t)
        BY <2>1, <3>1 DEF Dependents
    <3> QED BY <1>2, <2>3, <3>1, <3>2 DEF Move
  <2> QED BY <2>2, <2>3
<1>3. ASSUME NEW t \in Tasks, Delete(t) PROVE Settled(u)'
  <2>1. \A b \in Tasks : <<b, u>> \in blocks' => <<b, u>> \in blocks /\ b # t
      BY <1>3 DEF Delete
  <2>2. \A b \in Tasks \ {t} : Finished(b) => Finished(b)'
      BY <1>3 DEF Delete, Finished, TypeOK
  <2> QED BY <1>3, <2>1, <2>2 DEF Delete
<1>4. ASSUME NEW t \in Tasks, NEW b \in Tasks, AddBlocker(t, b) PROVE Settled(u)'
    BY <1>4 DEF AddBlocker, Finished
<1> QED
    BY <1>1, <1>2, <1>3, <1>4
    DEF Next, Sweep, Ticker, Pass, Crash, Gate, Look, InFlight, Park, Hook, Start, Wake,
        Clear, Edit, Comment, Reconcile, RunEnds

\* At first no task with a blocker has run, nor is it in a stage without a gate.
LEMMA OrderedInit == Init => Ordered
<1> SUFFICES ASSUME Init, NEW t \in Tasks, PastGate(t) PROVE Open(t) = {}
    BY DEF Ordered, Settled
<1>1. Starting[t] \in {"in_progress", "need_revision"}
    BY DEF Init, PastGate
<1> QED BY <1>1, GraphsAssumption DEF Init, Open

\* A call only goes on towards a start when the gate or a look found no open
\* blocker, or when the task was past the gate before; and a move past the gate
\* waives what is open.
LEMMA OrderedStep == TypeOK /\ Ordered /\ [Next]_vars => Ordered'
<1> SUFFICES ASSUME TypeOK, Ordered, [Next]_vars, NEW u \in Tasks, PastGate(u)'
             PROVE  Settled(u)'
    BY DEF Ordered
<1> SUFFICES ASSUME ~PastGate(u) PROVE Settled(u)'
    BY SettledStable DEF Ordered
<1> USE DEF order, vars
<1>1. ASSUME NEW t \in Tasks, Gate(t) PROVE Settled(u)'
  <2>1. CASE Open(t) = {}
    <3>1. PICK p \in {"gate", "gate, parked"} : Goes(p, t, {<<"start", t>>})
        BY <1>1, <2>1 DEF Gate
    <3>2. UNCHANGED <<column, blocks, run>>
        BY <1>1 DEF Gate
    <3>3. <<"start", u>> = <<"start", t>> \/ <<"clear", u>> = <<"start", t>>
        BY <3>1, <3>2 DEF Goes, PastGate
    <3>4. Open(u)' = {}
        BY <2>1, <3>2, <3>3 DEF Open, Finished
    <3> QED BY <3>4 DEF Settled
  <2>2. CASE Open(t) # {}
    <3>1. PICK p \in {"gate", "gate, parked"}, S \in {{<<"park", t>>}, {}} : Goes(p, t, S)
        BY <1>1, <2>2 DEF Gate
    <3>2. UNCHANGED <<column, run>>
        BY <1>1 DEF Gate
    <3> QED BY <3>1, <3>2 DEF Goes, PastGate
  <2> QED BY <2>1, <2>2
<1>2. ASSUME NEW t \in Tasks, Look(t) PROVE Settled(u)'
  <2>1. UNCHANGED <<column, blocks, run>>
      BY <1>2 DEF Look
  <2>2. u = t /\ Open(t) = {}
      BY <1>2, <2>1 DEF Look, Goes, PastGate
  <2>3. Open(u)' = {}
      BY <2>1, <2>2 DEF Open, Finished
  <2> QED BY <2>3 DEF Settled
<1>3. CASE UNCHANGED vars \/ Sweep \/ Ticker \/ Crash
    BY <1>3 DEF Sweep, Ticker, Pass, Crash, PastGate
<1>4. ASSUME NEW t \in Tasks, InFlight(t) PROVE Settled(u)'
    BY <1>4 DEF InFlight, Park, Hook, Start, Wake, Clear, Goes, TypeOK, PastGate
<1>5. ASSUME NEW t \in Tasks,
             Edit(t) \/ Delete(t) \/ Comment(t) \/ Reconcile(t) \/ RunEnds(t)
      PROVE  Settled(u)'
  <2>1. CASE Edit(t) \/ RunEnds(t)
      BY <2>1 DEF Edit, RunEnds, TypeOK, PastGate
  <2>2. CASE Delete(t)
      BY <2>2 DEF Delete, TypeOK, PastGate
  <2>3. CASE Comment(t) \/ Reconcile(t)
    <3>1. UNCHANGED <<column, run>> /\ column[t] \in Working
        BY <2>3 DEF Comment, Reconcile
    <3>2. calls' = calls \union Dispatched(t)
        BY <2>3 DEF Comment, Reconcile
    <3>3. CASE Dispatched(t) = {<<"start", t>>} /\ column[t] \notin Gated
        BY <3>1, <3>2, <3>3 DEF PastGate, Working
    <3>4. CASE \E p \in {"gate", "gate, parked"} : Dispatched(t) = {<<p, t>>}
        BY <3>1, <3>2, <3>4 DEF PastGate
    <3> QED BY <3>3, <3>4, DispatchedCall
  <2> QED BY <1>5, <2>1, <2>2, <2>3
<1>6. ASSUME NEW t \in Tasks, NEW c \in Columns, Move(t, c) PROVE Settled(u)'
  <2>1. column' = [column EXCEPT ![t] = c] /\ UNCHANGED run
      BY <1>6 DEF Move
  <2>2. CASE c = "need_revision" /\ u = t
      BY <1>6, <2>2 DEF Move, Settled
  <2>3. CASE c # "need_revision" \/ u # t
    <3>1. column'[u] # "need_revision" /\ run'[u] = "none"
        BY <2>1, <2>3 DEF TypeOK, PastGate
    <3>2. \A s \in calls' \ calls : s # <<"start", u>> /\ s # <<"clear", u>>
      <4>1. CASE c \in Working
        <5>1. calls' = calls \union Dispatched(t)'
            BY <1>6, <4>1, MoveCalls
        <5>2. c = column'[t]
            BY <2>1 DEF TypeOK
        <5>3. CASE Dispatched(t)' = {<<"start", t>>} /\ column'[t] \notin Gated
            BY <2>3, <4>1, <5>1, <5>2, <5>3 DEF Working
        <5>4. CASE \E p \in {"gate", "gate, parked"} : Dispatched(t)' = {<<p, t>>}
          <6>1. PICK p \in {"gate", "gate, parked"} : Dispatched(t)' = {<<p, t>>}
              BY <5>4
          <6>2. \A s \in calls' \ calls : s = <<p, t>>
              BY <5>1, <6>1
          <6> QED BY <6>2
        <5> QED BY <5>3, <5>4, DispatchedCall DEF Gated
      <4>2. CASE c \notin Working
          BY <1>6, <4>2, MoveCalls
      <4> QED BY <4>1, <4>2
    <3> QED BY <3>1, <3>2 DEF PastGate
  <2> QED BY <2>2, <2>3
<1>7. ASSUME NEW t \in Tasks, NEW b \in Tasks, AddBlocker(t, b) PROVE Settled(u)'
    BY <1>7 DEF AddBlocker, PastGate
<1> QED BY <1>1, <1>2, <1>3, <1>4, <1>5, <1>6, <1>7 DEF Next

\* A task starts after the blockers it was created with, whether the dispatcher's
\* gate let it through or the sweeper sent it past the gate, on any board; except
\* those named or reopened once it is past the gate, or open when it is moved to
\* a stage without one.
THEOREM OrderKept == Spec => []StartedInOrder
<1>1. Ordered => StartedInOrder
    BY DEF Ordered, StartedInOrder, Settled, PastGate
<1> QED
    BY <1>1, TypeInit, TypeStep, OrderedInit, OrderedStep, PTL DEF Spec
-----------------------------------------------------------------------------
\* Every step that finishes a blocker, writes a park or drops a look leaves
\* somebody on the way.
LEMMA WakeStep == TypeOK /\ NoLostWake /\ [Next]_vars => NoLostWake'
<1> SUFFICES ASSUME TypeOK, NoLostWake, [Next]_vars, NEW u \in parked', Open(u)' = {}
             PROVE  WakeOnItsWay(u)'
    BY DEF NoLostWake
<1> USE DEF order, vars
<1>0. u \in Tasks
    BY TypeStep DEF TypeOK
<1>1. CASE UNCHANGED vars
    BY <1>1 DEF NoLostWake, WakeOnItsWay, Open, Finished
<1>2. CASE Sweep \/ Ticker
    BY <1>2 DEF Sweep, Ticker, Pass, WakeOnItsWay
<1>3. CASE Crash
    BY <1>3 DEF Crash, WakeOnItsWay
<1>4. ASSUME NEW t \in Tasks, Gate(t) \/ Comment(t) \/ Reconcile(t) \/ RunEnds(t) \/ Edit(t)
      PROVE  WakeOnItsWay(u)'
  <2>1. u \in parked /\ Open(u) = {}
      BY <1>4 DEF Gate, Comment, Reconcile, RunEnds, Edit, Open, Finished
  <2>2. soon' = soon /\ blocks' = blocks
      BY <1>4 DEF Gate, Comment, Reconcile, RunEnds, Edit
  <2>3. \A point \in Points \ {"gate", "gate, parked"} : \A b :
           <<point, b>> \in calls => <<point, b>> \in calls'
    <3>1. CASE Gate(t)
      <4>1. PICK p \in {"gate", "gate, parked"},
                  S \in {{<<"start", t>>}, {<<"park", t>>}, {}} : Goes(p, t, S)
          BY <3>1 DEF Gate
      <4> QED BY <4>1 DEF Goes
    <3>2. CASE ~Gate(t)
        BY <1>4, <3>2 DEF Comment, Reconcile, RunEnds, Edit
    <3> QED BY <3>1, <3>2
  <2>4. \A point \in {"hook", "look", "clear", "wake"} :
           point \in Points \ {"gate", "gate, parked"}
      BY DEF Points
  <2> QED BY <2>1, <2>2, <2>3, <2>4 DEF NoLostWake, WakeOnItsWay
<1>5. ASSUME NEW t \in Tasks, Look(t) PROVE WakeOnItsWay(u)'
  <2>1. u \in parked /\ Open(u) = {}
      BY <1>5 DEF Look, Open, Finished
  <2> QED BY <1>5, <2>1 DEF NoLostWake, WakeOnItsWay, Look, Goes
<1>6. ASSUME NEW t \in Tasks, Park(t) PROVE WakeOnItsWay(u)'
    BY <1>6 DEF Park, Goes, WakeOnItsWay
<1>7. ASSUME NEW t \in Tasks, Hook(t) PROVE WakeOnItsWay(u)'
    BY <1>7 DEF Hook, WakeOnItsWay
<1>8. ASSUME NEW t \in Tasks, Start(t) PROVE WakeOnItsWay(u)'
  <2>1. u \in parked /\ Open(u) = {}
      BY <1>8 DEF Start, Open, Finished
  <2> QED BY <1>8, <2>1 DEF NoLostWake, WakeOnItsWay, Start, Goes
<1>9. ASSUME NEW t \in Tasks, Wake(t) PROVE WakeOnItsWay(u)'
  <2>1. u \in parked /\ Open(u) = {}
      BY <1>9 DEF Wake, Open, Finished
  <2> QED BY <1>0, <1>9, <2>1 DEF NoLostWake, WakeOnItsWay, Wake, Goes, Dependents
<1>10. ASSUME NEW t \in Tasks, Clear(t) PROVE WakeOnItsWay(u)'
  <2>1. u \in parked \ {t} /\ Open(u) = {}
      BY <1>10 DEF Clear, Open, Finished
  <2> QED BY <1>10, <2>1 DEF NoLostWake, WakeOnItsWay, Clear, Goes
<1>11. ASSUME NEW t \in Tasks, Delete(t) PROVE WakeOnItsWay(u)'
    BY <1>11 DEF Delete, WakeOnItsWay
<1>12. ASSUME NEW t \in Tasks, NEW c \in Columns, Move(t, c) PROVE WakeOnItsWay(u)'
  <2>1. u \in parked /\ calls \subseteq calls'
      BY <1>12 DEF Move
  <2>2. CASE Open(u) = {}
      BY <1>12, <2>1, <2>2 DEF NoLostWake, WakeOnItsWay, Move
  <2>3. CASE Open(u) # {}
    <3>1. PICK b \in Tasks : <<b, u>> \in blocks /\ ~Finished(b)
        BY <2>3 DEF Open
    <3>2. <<b, u>> \in blocks' /\ Finished(b)'
        BY <1>12, <3>1 DEF Open, Move
    <3>3. b = t /\ c \in {"done", "released"} /\ c \notin Working
        BY <1>12, <3>1, <3>2 DEF Finished, Move, TypeOK, Working, Gated
    <3> QED BY <1>12, <3>2, <3>3 DEF WakeOnItsWay, Move
  <2> QED BY <2>2, <2>3
<1>13. ASSUME NEW t \in Tasks, NEW b \in Tasks, AddBlocker(t, b) PROVE WakeOnItsWay(u)'
  <2>1. u \in parked /\ Open(u) = {}
      BY <1>13 DEF AddBlocker, Open, Finished
  <2> QED BY <1>13, <2>1 DEF NoLostWake, WakeOnItsWay, AddBlocker
<1> QED
    BY <1>1, <1>2, <1>3, <1>4, <1>5, <1>6, <1>7, <1>8, <1>9, <1>10, <1>11, <1>12, <1>13
    DEF Next, InFlight

\* A parked task whose last blocker finished or was deleted has somebody on the
\* way who will find that out, whatever ran between the gate and the park.
THEOREM WakeKept == Spec => []NoLostWake
<1>1. Init => NoLostWake
    BY DEF Init, NoLostWake
<1> QED BY <1>1, TypeInit, TypeStep, WakeStep, PTL DEF Spec
=============================================================================
