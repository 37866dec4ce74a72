----------------------------- MODULE WorkOrder -----------------------------
(***************************************************************************)
(* The work order of the board: a task that is blocked_by others waits     *)
(* until all of them are finished.  board/work_order.go parks it when the  *)
(* dispatcher would start it, board/work_order_sweeper.go resumes it, and  *)
(* repository/service.go wakes the dependents of a task it finishes.       *)
(*                                                                         *)
(* A park is a stamp on the task's row (blocked_resource = 'work_order'),  *)
(* the column stays.  Everything in flight is a call <<point, task>> in    *)
(* the memory of some replica: calls of the same task at the same point    *)
(* count once, and a crash loses them all.  need_revision stands for the   *)
(* stages that neither refuse a move nor hold a start: itself, and the     *)
(* reviews a card passes on its way to done.  A card in Blocked is         *)
(* TaskPark's.                                                             *)
(*                                                                         *)
(* Every task has an assignee.  A run that fails is the reconciler's (see  *)
(* RunFleet); here a run is live or has ended.                             *)
(***************************************************************************)
EXTENDS Naturals, FiniteSets

CONSTANTS Tasks,
          Designs,    \* the tasks of type design
          Starting,   \* the column each task is in at first
          Graphs,     \* the 'blocks' relations the tasks have at first
          Late,       \* the relations that may be added to them
          Moves,      \* the moves the board allows, <<from, to>>
          Features,   \* which of the environment's actions happen
          MaxCalls    \* bound on the calls in flight when people act

\* The stages with block_on_dependencies, of which in_progress refuses moves too.
Gated   == {"todo", "in_progress"}
Working == Gated \union {"need_revision"}
Columns == Working \union {"backlog", "done", "released"}

ASSUME StartingAssumption == Starting \in [Tasks -> Columns]
ASSUME GraphsAssumption ==
    /\ Graphs \subseteq SUBSET (Tasks \X Tasks)
    /\ \A g \in Graphs : \A e \in g : Starting[e[2]] \notin {"in_progress", "need_revision"}
ASSUME MovesAssumption == Moves \subseteq Columns \X Columns

VARIABLES
    column,   \* board_tasks.board_column, "gone" once the row is deleted
    parked,   \* tasks with blocked_resource = 'work_order'
    blocks,   \* task_relations of type 'blocks', <<source, target>>
    waived,   \* history: those of them a start need not wait for
    run,      \* the latest run of each task's assignee
    calls,    \* calls in flight
    soon,     \* the sweeper owes a pass: s.soon holds a token, or it starts
    crashed   \* bound: one crash

order == <<blocks, waived>>
vars == <<column, parked, order, run, calls, soon, crashed>>

Points == {"gate", "gate, parked", "park", "hook", "start", "wake", "look", "clear"}

\* A design task holds its dependents back until it is released.
Finished(b) == \/ column[b] = "released"
               \/ column[b] = "done" /\ b \notin Designs
Open(t)       == {b \in Tasks : <<b, t>> \in blocks /\ ~Finished(b)}
Dependents(b) == {t \in Tasks : <<b, t>> \in blocks}

Init == /\ column = Starting
        /\ parked = {}
        /\ blocks \in Graphs
        /\ waived = {}
        /\ run = [t \in Tasks |-> IF Starting[t] = "in_progress" THEN "ended" ELSE "none"]
        /\ calls = {}
        /\ soon = TRUE
        /\ crashed = FALSE

Room == Cardinality(calls) < MaxCalls

\* The call returns, after it made the calls of S.
Goes(point, t, S) == /\ <<point, t>> \in calls
                     /\ calls' = (calls \ {<<point, t>>}) \union S
-----------------------------------------------------------------------------
\* No gate will look again before the task starts: it has passed it, or its
\* stage has none.
PastGate(t) == \/ column[t] = "need_revision"
               \/ run[t] # "none"
               \/ <<"start", t>> \in calls
               \/ <<"clear", t>> \in calls

\* The dispatcher starts the assignee, behind the gate where the stage has one.
Dispatched(t) == IF column[t] \in Gated
                 THEN {<<IF t \in parked THEN "gate, parked" ELSE "gate", t>>}
                 ELSE {<<"start", t>>}

\* UpdateTask with a new column.  in_progress refuses a task with an open
\* blocker (the other refusals only make moves rarer); the write clears the
\* park; then the task is dispatched, or its dependents are woken.
Move(t, c) ==
    /\ Room
    /\ column[t] # c
    /\ <<column[t], c>> \in Moves
    /\ c = "in_progress" => Open(t) = {}
    /\ column' = [column EXCEPT ![t] = c]
    /\ parked' = parked \ {t}
    /\ UNCHANGED <<blocks, run, soon, crashed>>
    /\ waived' = waived
           \union {<<b, t>> : b \in {x \in Open(t)' : c = "need_revision"}}
           \union {<<t, u>> : u \in {x \in Dependents(t) :
                                        PastGate(x) /\ Finished(t) /\ ~Finished(t)'}}
    /\ calls' = calls \union CASE c \in Working -> Dispatched(t)'
                              [] c \in {"done", "released"} -> {<<"wake", t>>}
                              [] OTHER -> {}

\* UpdateTask without a new column: the same write clears the park too.
Edit(t) == /\ "edit" \in Features
           /\ t \in parked
           /\ parked' = parked \ {t}
           /\ UNCHANGED <<column, order, run, calls, soon, crashed>>

\* SetBlockers refuses an edge that closes a cycle; the order note it then
\* writes into the task clears the park, unless that write fails.
Before(t, b) == \A S \in SUBSET Tasks :
                   (t \in S /\ \A x \in S : Dependents(x) \subseteq S) => b \in S
AddBlocker(t, b) ==
    /\ <<b, t>> \in Late \ blocks
    /\ Room
    /\ {column[t], column[b]} \subseteq Columns
    /\ ~Before(t, b)
    /\ blocks' = blocks \union {<<b, t>>}
    /\ waived' = waived \union {<<b, t>>}
    /\ parked' \in {parked, parked \ {t}}
    /\ UNCHANGED <<column, run, calls, soon, crashed>>

\* (mutant: nobody looks at what the deletion freed)
DeleteSilently(t) ==
    /\ "delete" \in Features
    /\ Room
    /\ column[t] \in Columns
    /\ column' = [column EXCEPT ![t] = "gone"]
    /\ parked' = parked \ {t}
    /\ blocks' = {e \in blocks : t \notin {e[1], e[2]}}
    /\ UNCHANGED <<waived, run, calls, soon, crashed>>
\* DeleteTask: the relations go with the row, then the sweeper is asked to look.
Delete(t) ==
    /\ "delete" \in Features
    /\ Room
    /\ column[t] \in Columns
    /\ column' = [column EXCEPT ![t] = "gone"]
    /\ parked' = parked \ {t}
    /\ blocks' = {e \in blocks : t \notin {e[1], e[2]}}
    /\ calls' = calls \union {<<"hook", t>>}
    /\ UNCHANGED <<waived, run, soon, crashed>>

\* A comment dispatches the task as it is read now, its park included (bound:
\* comments on tasks that are or were behind another).
Comment(t) ==
    /\ "comment" \in Features
    /\ Room
    /\ column[t] \in Working
    /\ \E g \in Graphs \union {Late} : \E e \in g : e[2] = t
    /\ calls' = calls \union Dispatched(t)
    /\ UNCHANGED <<column, parked, order, run, soon, crashed>>

\* The reconciler dispatches a task that never ran, unless it is parked.
Reconcile(t) ==
    /\ column[t] \in Working
    /\ t \notin parked
    /\ run[t] = "none"
    /\ calls' = calls \union Dispatched(t)
    /\ UNCHANGED <<column, parked, order, run, soon, crashed>>
-----------------------------------------------------------------------------
\* (mutant: only in_progress keeps the work order)
GateInProgress(t) ==
    /\ \/ Goes("gate", t, {<<IF column[t] = "todo" THEN "start" ELSE "park", t>>})
       \/ Open(t) = {} /\ Goes("gate, parked", t, {<<"start", t>>})
       \/ Open(t) # {} /\ Goes("gate, parked", t, {})
    /\ UNCHANGED <<column, parked, order, run, soon, crashed>>
\* Dispatch reads the open blockers.  A task that was read as parked is not
\* parked again.
Gate(t) ==
    /\ \/ Open(t) = {} /\ \E p \in {"gate", "gate, parked"} : Goes(p, t, {<<"start", t>>})
       \/ Open(t) # {} /\ Goes("gate", t, {<<"park", t>>})
       \/ Open(t) # {} /\ Goes("gate, parked", t, {})
    /\ UNCHANGED <<column, parked, order, run, soon, crashed>>

\* Park writes what the gate found a moment ago, then calls the hook.
Park(t) == /\ Goes("park", t, {<<"hook", t>>})
           /\ parked' = IF column[t] \in Columns THEN parked \union {t} ELSE parked
           /\ UNCHANGED <<column, order, run, soon, crashed>>

\* SweepSoon.
Hook(t) == /\ Goes("hook", t, {})
           /\ soon' = TRUE
           /\ UNCHANGED <<column, parked, order, run, crashed>>

\* The dispatcher creates the assignee's run; it fails for a deleted task.
Start(t) ==
    /\ Goes("start", t, {})
    /\ run' = [run EXCEPT ![t] = IF column[t] \in Columns THEN "live" ELSE @]
    /\ UNCHANGED <<column, parked, order, soon, crashed>>

RunEnds(t) == /\ run[t] = "live"
              /\ run' = [run EXCEPT ![t] = "ended"]
              /\ UNCHANGED <<column, parked, order, calls, soon, crashed>>
-----------------------------------------------------------------------------
\* (mutant: the relation is read in the wrong direction)
WakeBlockers(b) ==
    /\ Goes("wake", b, {<<"look", t>> : t \in {u \in Tasks : <<u, b>> \in blocks}})
    /\ UNCHANGED <<column, parked, order, run, soon, crashed>>
\* WakeDependentsOf, after the write that finished b.
Wake(b) == /\ Goes("wake", b, {<<"look", t>> : t \in Dependents(b)})
           /\ UNCHANGED <<column, parked, order, run, soon, crashed>>

\* A pass of the sweeper: asked for, or by its five-minute ticker.  Its list
\* holds every parked task (bound: no more than workOrderSweepBatch of them).
Pass == calls' = calls \union {<<"look", t>> : t \in parked}
Sweep == /\ soon
         /\ soon' = FALSE
         /\ Pass
         /\ UNCHANGED <<column, parked, order, run, crashed>>
Ticker == /\ "ticker" \in Features
          /\ Room
          /\ Pass
          /\ UNCHANGED <<column, parked, order, run, soon, crashed>>

\* resumeIfClear reads the open blockers ...
Look(t) == /\ Goes("look", t, IF Open(t) = {} THEN {<<"clear", t>>} ELSE {})
           /\ UNCHANGED <<column, parked, order, run, soon, crashed>>

\* (mutant: the origin column is restored, which this park never wrote)
ClearRestoring(t) ==
    /\ Goes("clear", t, IF t \in parked THEN {<<"start", t>>} ELSE {})
    /\ parked' = parked \ {t}
    /\ column' = [column EXCEPT ![t] = IF t \in parked THEN "" ELSE @]
    /\ UNCHANGED <<order, run, soon, crashed>>
\* ... and whoever clears the park dispatches the task past the gate.
Clear(t) ==
    /\ Goes("clear", t, IF t \in parked /\ column[t] \in Working
                        THEN {<<"start", t>>} ELSE {})
    /\ parked' = parked \ {t}
    /\ UNCHANGED <<column, order, run, soon, crashed>>

\* A crash and the restart after it, whose sweeper begins with a pass.
Crash == /\ "crash" \in Features
         /\ ~crashed
         /\ crashed' = TRUE
         /\ calls' = {}
         /\ soon' = TRUE
         /\ UNCHANGED <<column, parked, order, run>>
-----------------------------------------------------------------------------
InFlight(t) == Park(t) \/ Hook(t) \/ Start(t) \/ Wake(t) \/ Clear(t)

Next == \/ Sweep \/ Ticker \/ Crash
        \/ \E t \in Tasks :
             \/ Gate(t) \/ Look(t) \/ InFlight(t) \/ Edit(t) \/ Delete(t) \/ Comment(t) \/ Reconcile(t)
             \/ RunEnds(t)
             \/ \E c \in Columns : Move(t, c)
             \/ \E b \in Tasks : AddBlocker(t, b)

Spec == Init /\ [][Next]_vars

\* Calls in flight go on, the sweeper's goroutine takes its token and the
\* reconciler's ticker ticks.  No fairness on people, on runs, or on the
\* sweeper's own ticker: the wake-ups must do without it.
FairSpec == /\ Spec
            /\ WF_vars(Sweep)
            /\ \A t \in Tasks : /\ WF_vars(Gate(t))
                                /\ WF_vars(Look(t))
                                /\ WF_vars(InFlight(t))
                                /\ WF_vars(Reconcile(t))
-----------------------------------------------------------------------------
TypeOK == /\ waived \subseteq Tasks \X Tasks
          /\ column \in [Tasks -> Columns \union {"gone"}]
          /\ parked \subseteq Tasks
          /\ blocks \subseteq Tasks \X Tasks
          /\ run \in [Tasks -> {"none", "live", "ended"}]
          /\ calls \subseteq Points \X Tasks
          /\ soon \in BOOLEAN
          /\ crashed \in BOOLEAN

\* docs/ordering-and-relations.md, "blocked_by": a task starts after the blockers
\* it was created with are finished (or deleted), whoever dispatches it and
\* although a resumed dispatch passes no gate.  The code does not keep it where
\* a blocker is named or reopened when the task is past the gate, or the card is
\* moved to need_revision, whose stage has no gate.
StartedInOrder ==
    \A t \in Tasks : run[t] # "none" => \A b \in Open(t) : <<b, t>> \in waived

\* No lost wake-up: a parked task whose last blocker finished has somebody on
\* the way who will find that out, before the sweeper's ticker does.
WakeOnItsWay(t) ==
    \/ soon
    \/ \E u \in Tasks : <<"hook", u>> \in calls
    \/ <<"look", t>> \in calls
    \/ <<"clear", t>> \in calls
    \/ \E b \in Tasks : <<"wake", b>> \in calls /\ <<b, t>> \in blocks
NoLostWake == \A t \in parked : Open(t) = {} => WakeOnItsWay(t)

\* docs/ordering-and-relations.md: the sweep releases a parked task "the moment
\* they have" all finished.  It does so for a task that has not run yet, through
\* deletions, edits of the card, comments and a crash.
ParkedStarts ==
    \A t \in Tasks : t \in parked /\ run[t] = "none" /\ Open(t) = {}
                         ~> \/ run[t] # "none" \/ Open(t) # {}
                            \/ column[t] \notin Working

\* The same of every task that was parked behind an open blocker, also one that
\* ran before: it runs again, unless some blocker stays open for ever.
ParkedResumes ==
    \A t \in Tasks : t \in parked /\ Open(t) # {}
                         ~> \/ run[t] = "live" \/ [](Open(t) # {})
                            \/ column[t] \notin Working
=============================================================================
