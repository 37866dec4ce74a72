--------------------------- MODULE TaskParkProofs ---------------------------
(***************************************************************************)
(* Type correctness, NamesReason and QuestionHeld for every set of agents, *)
(* staff, waits, environments and bounds.                                  *)
(***************************************************************************)
EXTENDS TaskPark, TLAPS

Rows == [column : Columns, question : BOOLEAN, resource : Resources \union {""},
         stamp : BOOLEAN, origin : Working \union {""}]

\* What the excluded environments would bring never appears without them.
Unforced == /\ "slow edit" \notin env => edit = ""
            /\ "order" \notin env => /\ blocker = "none"
                                     /\ row.resource # "work_order"
                                     /\ \A c \in Columns : <<"park", c, "">> \notin calls

Inv == TypeOK /\ Unforced

\* A park leaves a typed row that names its reason, whatever row it finds.
LEMMA ParkedNames ==
    ASSUME NEW r \in Rows, Named(r)
    PROVE  Parked(r) \in Rows /\ Named(Parked(r)) /\ Parked(r).resource = r.resource
  <1>1. CASE r.column = "blocked"
    BY <1>1 DEF Rows, Named, Parked, Columns
  <1>2. CASE r.column # "blocked"
    BY <1>2 DEF Rows, Named, Parked, Columns
  <1> QED BY <1>1, <1>2

\* The same for the statement a run's verdict chooses.
LEMMA ParkNames ==
    ASSUME NEW r \in Rows, NEW v \in Verdicts
    PROVE  /\ Park(r, v) \in Rows
           /\ Named(r) => Named(Park(r, v))
           /\ r.resource # "work_order" => Park(r, v).resource # "work_order"
  <1>0. v \in Resources \union {"question"} /\ v # "work_order"
    BY VerdictsAssumption DEF Resources, Swept
  <1>1. Parked(r) \in Rows /\ (Named(r) => Named(Parked(r))) /\ Parked(r).resource = r.resource
    BY DEF Rows, Named, Parked, Columns
  <1>2. CASE v = "question"
    BY <1>1, <1>2 DEF Park, BlockOnQuestion, Rows, Named
  <1>3. CASE v # "question"
    BY <1>0, <1>1, <1>3 DEF Park, BlockOnResource, Rows, Named
  <1> QED BY <1>2, <1>3

\* A take puts the card in a working column.
LEMMA TakenWorks ==
    ASSUME NEW r \in Rows, NEW fallback \in Working
    PROVE  Taken(r, fallback) \in Rows /\ Taken(r, fallback).column \in Working
  BY DEF Taken, Restored, Rows, Columns

\* Every way out of Blocked ends in a working column and brings no work order.
LEMMA WaysOut ==
    ASSUME NEW r \in Rows
    PROVE  /\ TakeByResource(r) \in Rows /\ TakeByResource(r).column \in Working
           /\ TakeByResource(r).resource = ""
           /\ TakeBySession(r) \in Rows /\ TakeBySession(r).column \in Working
           /\ TakeBySession(r).resource = r.resource
           /\ ReleaseAnalysisQuestionsBlock(r) \in Rows
           /\ ReleaseAnalysisQuestionsBlock(r).column \in Working
           /\ ReleaseAnalysisQuestionsBlock(r).resource = ""
  <1>1. "todo" \in Working /\ "in_progress" \in Working
    BY DEF Working
  <1>2. Taken(r, "todo") \in Rows /\ Taken(r, "todo").column \in Working
    BY <1>1, TakenWorks
  <1>3. Taken(r, "in_progress") \in Rows /\ Taken(r, "in_progress").column \in Working
    BY <1>1, TakenWorks
  <1>4. TakeByResource(r) \in Rows /\ TakeByResource(r).column \in Working
        /\ TakeByResource(r).resource = ""
    BY <1>2 DEF TakeByResource, Rows
  <1>5. TakeBySession(r) \in Rows /\ TakeBySession(r).column \in Working
        /\ TakeBySession(r).resource = r.resource
    BY <1>2 DEF TakeBySession, Taken, Rows
  <1>6. ReleaseAnalysisQuestionsBlock(r) \in Rows
        /\ ReleaseAnalysisQuestionsBlock(r).column \in Working
        /\ ReleaseAnalysisQuestionsBlock(r).resource = ""
    BY <1>3 DEF ReleaseAnalysisQuestionsBlock, Rows
  <1> QED BY <1>4, <1>5, <1>6

\* UpdateTask's write keeps a card that stays in Blocked named.
LEMMA UpdateNames ==
    ASSUME NEW r \in Rows, NEW c \in Columns
    PROVE  /\ Update(r, c) \in Rows
           /\ Update(r, c).column = c
           /\ r.resource # "work_order" => Update(r, c).resource # "work_order"
           /\ c = "blocked" => Update(r, c).stamp = r.stamp /\ Update(r, c).origin = r.origin
  BY DEF Update, Rows

LEMMA WorkingNotBlocked == ASSUME NEW c \in Working PROVE c \in Columns /\ c # "blocked"
  BY DEF Working, Columns

\* A new call, of whatever point but the work order's park.
LEMMA OneMoreCall ==
    ASSUME Inv, NEW p \in Points \ {"park"}, NEW c \in Columns,
           NEW actor \in Agents \union {""}, calls' = calls \union {<<p, c, actor>>}
    PROVE  /\ calls' \subseteq Points \X Columns \X (Agents \union {""})
           /\ \A d \in Columns : <<"park", d, "">> \in calls' => <<"park", d, "">> \in calls
  <1>1. <<p, c, actor>> \in Points \X Columns \X (Agents \union {""})
    OBVIOUS
  <1>2. calls \subseteq Points \X Columns \X (Agents \union {""})
    BY DEF Inv, TypeOK
  <1> QED BY <1>1, <1>2

LEMMA InitInv == Init => Inv
  <1> SUFFICES ASSUME Init PROVE Inv
    OBVIOUS
  <1>1. env \subseteq UNION Settings
    BY DEF Init
  <1>2. row \in Rows
    BY DEF Init, Rows, Columns, Working
  <1>3. pending \in [Agents -> Working \union {""}]
    BY DEF Init, None
  <1>4. run \in [who : Agents \union {""}, phase : Phases]
    BY DEF Init, NoRun, Phases
  <1>5. <<"moved", "todo", "">> \in Points \X Columns \X (Agents \union {""})
    BY DEF Points, Events, Columns, Working
  <1>6. unwinding \subseteq Verdicts /\ edit \in Columns \union {""}
    BY DEF Init
  <1>7. blocker \in {"none", "open", "finished"}
    BY DEF Init
  <1>8. TypeOK
    BY <1>1, <1>2, <1>3, <1>4, <1>5, <1>6, <1>7 DEF Init, TypeOK, Rows
  <1>9. Unforced
    BY DEF Init, Unforced
  <1> QED BY <1>8, <1>9 DEF Inv
-----------------------------------------------------------------------------
\* The actions that write the row and perhaps ask for a dispatch.  They are safe
\* if the row they write is typed and is no work order's.
LEMMA RowWritten ==
    ASSUME Inv, UNCHANGED <<env, blocker>>, edit' \in {edit, ""},
           pending' \in [Agents -> Working \union {""}],
           run' \in [who : Agents \union {""}, phase : Phases],
           unwinding' \subseteq Verdicts,
           calls' \subseteq Points \X Columns \X (Agents \union {""}),
           \A c \in Columns : <<"park", c, "">> \in calls' => <<"park", c, "">> \in calls,
           row' \in Rows,
           "order" \notin env => row'.resource # "work_order"
    PROVE  Inv'
  <1>1. TypeOK'
    BY DEF Inv, TypeOK, Rows
  <1>2. Unforced'
    BY DEF Inv, Unforced
  <1> QED BY <1>1, <1>2 DEF Inv

\* The actions that leave the row alone.
LEMMA RowKept ==
    ASSUME Inv, UNCHANGED <<env, blocker, row>>, edit' \in {edit, ""},
           pending' \in [Agents -> Working \union {""}],
           run' \in [who : Agents \union {""}, phase : Phases],
           unwinding' \subseteq Verdicts,
           calls' \subseteq Points \X Columns \X (Agents \union {""}),
           \A c \in Columns : <<"park", c, "">> \in calls' => <<"park", c, "">> \in calls
    PROVE  Inv'
  <1>1. row' \in Rows
    BY DEF Inv, TypeOK, Rows
  <1>2. "order" \notin env => row'.resource # "work_order"
    BY DEF Inv, Unforced
  <1> QED BY <1>1, <1>2, RowWritten

\* What the invariant says of the state an action starts from.
LEMMA Before ==
    ASSUME Inv
    PROVE  /\ row \in Rows
           /\ "order" \notin env => row.resource # "work_order"
           /\ pending \in [Agents -> Working \union {""}]
           /\ run \in [who : Agents \union {""}, phase : Phases]
           /\ unwinding \subseteq Verdicts
           /\ calls \subseteq Points \X Columns \X (Agents \union {""})
           /\ edit \in Columns \union {""}
  BY DEF Inv, TypeOK, Rows, Unforced
-----------------------------------------------------------------------------
\* The dispatcher: the gate's park is called only while the blocker is open.
LEMMA DispatchInv ==
    ASSUME Inv, NEW e \in Events, NEW c \in Columns, NEW actor \in Agents \union {""},
           Dispatch(e, c, actor)
    PROVE  Inv'
  <1>1. PICK held \in {GateHolds(e, c), c # "todo" /\ GateHolds(e, c)} :
            /\ calls' = (calls \ {<<e, c, actor>>})
                            \union (IF held THEN {<<"park", c, "">>} ELSE {})
                            \union IF e = "answer commented"
                                   THEN {<<"answer moved", c, "">>} ELSE {}
            /\ IF held THEN UNCHANGED pending ELSE Creates(e, c, actor)
    BY DEF Dispatch
  <1>2. held => blocker = "open"
    BY DEF GateHolds
  <1>3. pending' \in [Agents -> Working \union {""}]
    <2>1. \A a \in Agents : a \in Started(e, c, actor) => c \in Working
      BY DEF Started, Columns
    <2>2. CASE held
      BY <1>1, <2>2, Before
    <2>3. CASE ~held
      BY <1>1, <2>1, <2>3, Before DEF Creates
    <2> QED BY <2>2, <2>3
  <1>4. calls' \subseteq Points \X Columns \X (Agents \union {""})
    <2>1. "park" \in Points /\ "answer moved" \in Points
      BY DEF Points, Events
    <2>2. calls' \subseteq calls \union {<<"park", c, "">>, <<"answer moved", c, "">>}
      BY <1>1
    <2>3. /\ <<"park", c, "">> \in Points \X Columns \X (Agents \union {""})
          /\ <<"answer moved", c, "">> \in Points \X Columns \X (Agents \union {""})
      BY <2>1
    <2> QED BY <2>2, <2>3, Before
  <1>5. "order" \notin env => \A d \in Columns : <<"park", d, "">> \notin calls'
    <2>1. SUFFICES ASSUME "order" \notin env
                   PROVE  \A d \in Columns : <<"park", d, "">> \notin calls'
      OBVIOUS
    <2>2. ~held /\ \A d \in Columns : <<"park", d, "">> \notin calls
      BY <1>2, <2>1 DEF Inv, Unforced
    <2>3. calls' \subseteq calls \union {<<"answer moved", c, "">>}
      BY <1>1, <2>2
    <2> QED BY <2>2, <2>3
  <1>6. TypeOK'
    BY <1>3, <1>4 DEF Inv, TypeOK, Dispatch
  <1>7. Unforced'
    BY <1>5 DEF Inv, Unforced, Dispatch
  <1> QED BY <1>6, <1>7 DEF Inv

\* The work order's park happens only in an environment that has one.
LEMMA ParkOnOrderInv ==
    ASSUME Inv, NEW c \in Columns, ParkOnOrder(c)
    PROVE  Inv'
  <1>1. "order" \in env
    BY DEF Inv, Unforced, ParkOnOrder
  <1>2. row' \in Rows
    BY Before DEF ParkOnOrder, MarkWorkOrderWaiting, Rows, Resources
  <1>3. calls' \subseteq calls
    BY DEF ParkOnOrder
  <1> QED BY <1>1, <1>2, <1>3, Before, RowWritten DEF ParkOnOrder

LEMMA ClaimInv ==
    ASSUME Inv, NEW a \in Agents, Claim(a)
    PROVE  Inv'
  <1>1. run' \in [who : Agents \union {""}, phase : Phases]
    BY DEF Claim, Phases
  <1>2. pending' \in [Agents -> Working \union {""}]
    BY Before DEF Claim
  <1>3. row' = row \/ row' = Update(row, "in_progress")
    BY DEF Claim
  <1>4. "in_progress" \in Columns
    BY DEF Columns, Working
  <1>5. /\ row' \in Rows
        /\ row.resource # "work_order" => row'.resource # "work_order"
    <2>1. row \in Rows
      BY Before
    <2>2. /\ Update(row, "in_progress") \in Rows
          /\ row.resource # "work_order" => Update(row, "in_progress").resource # "work_order"
      BY <1>4, <2>1, UpdateNames
    <2> QED BY <1>3, <2>1, <2>2
  <1>6. "order" \notin env => row'.resource # "work_order"
    BY <1>5, Before
  <1> QED BY <1>1, <1>2, <1>5, <1>6, Before, RowWritten DEF Claim

LEMMA ReturnsInv ==
    ASSUME Inv, NEW a \in Agents, Returns(a)
    PROVE  Inv'
  <1>1. CASE \E v \in Verdicts : run' = [run EXCEPT !.phase = v] /\ UNCHANGED <<row, calls>>
    <2>1. run' \in [who : Agents \union {""}, phase : Phases]
      BY <1>1, Before DEF Phases
    <2> QED BY <1>1, <2>1, Before, RowKept DEF Returns
  <1>2. CASE run' = NoRun /\ UNCHANGED <<row, calls>>
    <2>1. run' \in [who : Agents \union {""}, phase : Phases]
      BY <1>2 DEF NoRun, Phases
    <2> QED BY <1>2, <2>1, Before, RowKept DEF Returns
  <1>3. ASSUME NEW c \in {"todo", "code_review"}, run' = NoRun, row' = Update(row, c),
               calls' = calls \union {<<"moved", c, a>>}
        PROVE  Inv'
    <2>1. run' \in [who : Agents \union {""}, phase : Phases]
      BY <1>3 DEF NoRun, Phases
    <2>2. c \in Columns /\ "moved" \in Points \ {"park"}
      BY DEF Columns, Working, Points, Events
    <2>3. /\ row' \in Rows
          /\ "order" \notin env => row'.resource # "work_order"
      BY <1>3, <2>2, Before, UpdateNames
    <2>4. /\ calls' \subseteq Points \X Columns \X (Agents \union {""})
          /\ \A d \in Columns : <<"park", d, "">> \in calls' => <<"park", d, "">> \in calls
      BY <1>3, <2>2, OneMoreCall
    <2> QED BY <2>1, <2>3, <2>4, Before, RowWritten DEF Returns
  <1> QED BY <1>1, <1>2, <1>3 DEF Returns
-----------------------------------------------------------------------------
\* A run's own park, in time or late.
LEMMA RunParksInv ==
    ASSUME Inv, RecordQuota \/ ParkRun \/ EndRun \/ \E v \in Verdicts : ParkLate(v)
    PROVE  Inv'
  <1>0. NoRun \in [who : Agents \union {""}, phase : Phases]
    BY DEF NoRun, Phases
  <1>1. CASE RecordQuota
    <2>1. unwinding' \subseteq Verdicts
      <3>1. run.phase \in Phases /\ run.phase = "quota"
        BY <1>1, Before DEF RecordQuota
      <3>2. "quota" \in Verdicts
        BY <3>1 DEF Phases
      <3> QED BY <1>1, <3>2, Before DEF RecordQuota
    <2> QED BY <1>0, <1>1, <2>1, Before, RowKept DEF RecordQuota
  <1>2. CASE ParkRun
    <2>1. run' \in [who : Agents \union {""}, phase : Phases]
      BY <1>2, Before DEF ParkRun, Phases
    <2>2. run.phase \in Verdicts /\ row' = Park(row, run.phase)
      BY <1>2 DEF ParkRun
    <2>3. /\ row' \in Rows
          /\ row.resource # "work_order" => row'.resource # "work_order"
      BY <2>2, Before, ParkNames
    <2> QED BY <1>2, <2>1, <2>3, Before, RowWritten DEF ParkRun
  <1>3. CASE EndRun
    BY <1>0, <1>3, Before, RowKept DEF EndRun
  <1>4. ASSUME NEW v \in Verdicts, ParkLate(v) PROVE Inv'
    <2>1. row' = Park(row, v) \/ row' = row
      BY <1>4 DEF ParkLate
    <2>2. /\ row' \in Rows
          /\ row.resource # "work_order" => row'.resource # "work_order"
      BY <2>1, Before, ParkNames
    <2> QED BY <1>4, <2>2, Before, RowWritten DEF ParkLate
  <1> QED BY <1>1, <1>2, <1>3, <1>4

LEMMA StopInv ==
    ASSUME Inv, NEW a \in Agents, Stop(a)
    PROVE  Inv'
  <1>1. "stop" \in Points \ {"park"} /\ "blocked" \in Columns
    BY DEF Points, Events, Columns
  <1>2. /\ calls' \subseteq Points \X Columns \X (Agents \union {""})
        /\ \A d \in Columns : <<"park", d, "">> \in calls' => <<"park", d, "">> \in calls
    BY <1>1, OneMoreCall DEF Stop
  <1>3. run' \in [who : Agents \union {""}, phase : Phases]
    <2>1. run' = run \/ run' = NoRun
      BY DEF Stop
    <2>2. NoRun \in [who : Agents \union {""}, phase : Phases]
      BY DEF NoRun, Phases
    <2> QED BY <2>1, <2>2, Before
  <1>4. pending' \in [Agents -> Working \union {""}] /\ unwinding' \subseteq Verdicts
    BY Before DEF Stop
  <1> QED BY <1>2, <1>3, <1>4, Before, RowKept DEF Stop

LEMMA ParkStoppedInv == ASSUME Inv, ParkStopped PROVE Inv'
  <1>1. /\ row' \in Rows
        /\ row'.resource = row.resource
    BY Before DEF ParkStopped, BlockOnCancel, Parked, Rows, Columns
  <1>2. calls' \subseteq calls
    BY DEF ParkStopped
  <1> QED BY <1>1, <1>2, Before, RowWritten DEF ParkStopped
-----------------------------------------------------------------------------
\* The claims that bring a card back.
LEMMA TakesInv ==
    ASSUME Inv, Answer \/ Submit \/ \E res \in Swept : Sweep(res)
    PROVE  Inv'
  <1>1. /\ row' \in Rows
        /\ row'.column \in Working
        /\ row'.resource \in {"", row.resource}
    BY Before, WaysOut DEF Answer, Submit, Sweep
  <1>2. "order" \notin env => row'.resource # "work_order"
    BY <1>1, Before
  <1>3. PICK p \in {"moved", "answer commented"} :
            calls' = calls \union {<<p, row'.column, "">>}
    BY DEF Answer, Submit, Sweep
  <1>4. p \in Points \ {"park"} /\ row'.column \in Columns
    BY <1>1, WorkingNotBlocked DEF Points, Events
  <1>5. /\ calls' \subseteq Points \X Columns \X (Agents \union {""})
        /\ \A d \in Columns : <<"park", d, "">> \in calls' => <<"park", d, "">> \in calls
    BY <1>3, <1>4, OneMoreCall
  <1> QED BY <1>1, <1>2, <1>5, Before, RowWritten DEF Answer, Submit, Sweep

LEMMA OrderInv == ASSUME Inv, SweepOrder \/ FinishBlocker PROVE Inv'
  <1>1. CASE SweepOrder
    <2>1. "order" \in env
      BY <1>1 DEF SweepOrder, Inv, Unforced
    <2>2. row' \in Rows /\ row'.column \in Columns
      BY <1>1, Before DEF SweepOrder, ClearWorkOrderWaiting, Rows
    <2>3. "order finished" \in Points \ {"park"}
      BY DEF Points, Events
    <2>4. /\ calls' \subseteq Points \X Columns \X (Agents \union {""})
          /\ \A d \in Columns : <<"park", d, "">> \in calls' => <<"park", d, "">> \in calls
      BY <1>1, <2>2, <2>3, Before, OneMoreCall DEF SweepOrder, ClearWorkOrderWaiting, Rows
    <2> QED BY <1>1, <2>1, <2>2, <2>4, Before, RowWritten DEF SweepOrder
  <1>2. CASE FinishBlocker
    BY <1>2 DEF FinishBlocker, Inv, TypeOK, Unforced
  <1> QED BY <1>1, <1>2
-----------------------------------------------------------------------------
\* The board: drags, edits fresh and stale, comments, and the restart.
LEMMA DragInv == ASSUME Inv, NEW c \in Columns, Drag(c) PROVE Inv'
  <1>1. "moved" \in Points \ {"park"}
    BY DEF Points, Events
  <1>2. /\ row' \in Rows
        /\ "order" \notin env => row'.resource # "work_order"
    BY Before, UpdateNames DEF Drag
  <1>3. /\ calls' \subseteq Points \X Columns \X (Agents \union {""})
        /\ \A d \in Columns : <<"park", d, "">> \in calls' => <<"park", d, "">> \in calls
    BY <1>1, OneMoreCall DEF Drag
  <1> QED BY <1>2, <1>3, Before, RowWritten DEF Drag

LEMMA EditInv == ASSUME Inv, Edit \/ ReadEdit \/ WriteEdit PROVE Inv'
  <1>1. CASE Edit
    <2>1. row.column \in Columns /\ row' = Update(row, row.column)
      BY <1>1, Before DEF Edit, Rows
    <2>2. /\ row' \in Rows
          /\ "order" \notin env => row'.resource # "work_order"
      BY <2>1, Before, UpdateNames
    <2> QED BY <1>1, <2>2, Before, RowWritten DEF Edit
  <1>2. CASE ReadEdit
    <2>1. row.column \in Columns
      BY Before DEF Rows
    <2> QED BY <1>2, <2>1 DEF ReadEdit, Inv, TypeOK, Unforced
  <1>3. CASE WriteEdit
    <2>1. edit \in Columns /\ row' = Update(row, edit) /\ "slow edit" \in env
      BY <1>3, Before DEF WriteEdit, Inv, Unforced
    <2>2. /\ row' \in Rows
          /\ "order" \notin env => row'.resource # "work_order"
      BY <2>1, Before, UpdateNames
    <2> QED BY <1>3, <2>1, <2>2, Before, RowWritten DEF WriteEdit
  <1> QED BY <1>1, <1>2, <1>3

LEMMA CommentInv == ASSUME Inv, Comment PROVE Inv'
  <1>1. "commented" \in Points \ {"park"} /\ row.column \in Columns
    BY Before DEF Points, Events, Rows
  <1>2. /\ calls' \subseteq Points \X Columns \X (Agents \union {""})
        /\ \A d \in Columns : <<"park", d, "">> \in calls' => <<"park", d, "">> \in calls
    BY <1>1, OneMoreCall DEF Comment
  <1> QED BY <1>2, Before, RowKept DEF Comment

LEMMA CrashInv == ASSUME Inv, Crash PROVE Inv'
  <1>1. env' \subseteq env /\ \A x \in {"slow edit", "order"} : x \in env' <=> x \in env
    BY DEF Crash
  <1>2. row.column \in Columns /\ <<"moved", row.column, "">> \in Points \X Columns \X (Agents \union {""})
    BY Before DEF Rows, Points, Events
  <1>3. TypeOK'
    BY <1>1, <1>2 DEF Crash, Inv, TypeOK, NoRun, Phases
  <1>4. \A c \in Columns : <<"park", c, "">> \notin calls'
    BY DEF Crash
  <1>5. Unforced'
    BY <1>1, <1>4 DEF Crash, Inv, Unforced
  <1> QED BY <1>3, <1>5 DEF Inv
-----------------------------------------------------------------------------
LEMMA NextInv == Inv /\ [Next]_vars => Inv'
  <1> SUFFICES ASSUME Inv, [Next]_vars PROVE Inv'
    OBVIOUS
  <1>1. CASE Handlers
    BY <1>1, DispatchInv, ParkOnOrderInv, ParkStoppedInv, EditInv, RunParksInv
       DEF Handlers, DispatchOf
  <1>2. CASE Sweeper
    BY <1>2, TakesInv, OrderInv DEF Sweeper
  <1>3. CASE Person
    BY <1>3, TakesInv, EditInv, CommentInv, DragInv, StopInv DEF Person
  <1>4. CASE Crash \/ FinishBlocker
    BY <1>4, CrashInv, OrderInv
  <1>5. CASE \E a \in Agents : Claim(a) \/ Returns(a)
    BY <1>5, ClaimInv, ReturnsInv
  <1>6. CASE UNCHANGED vars
    BY <1>6 DEF vars, Inv, TypeOK, Unforced
  <1> QED BY <1>1, <1>2, <1>3, <1>4, <1>5, <1>6 DEF Next

\* The row, the runs and the calls in flight stay well typed, whatever parks,
\* takes, stops, edits and restarts follow one another.
THEOREM TypeCorrect == Spec => []TypeOK
  <1>1. Inv => TypeOK
    BY DEF Inv
  <1> QED BY InitInv, NextInv, <1>1, PTL DEF Spec

-----------------------------------------------------------------------------
\* What a step may write over a card that names its reason, when neither a work
\* order nor an edit prepared from an older read is about.
LEMMA NextKeepsNamed ==
    ASSUME Inv, [Next]_vars, env \intersect {"slow edit", "order"} = {}, Named(row)
    PROVE  Named(row') \/ Drag("blocked")
  <1>1. row \in Rows /\ row.column \in Columns
    BY Before DEF Rows
  <1>2. edit = "" /\ row.resource # "work_order"
        /\ \A c \in Columns : <<"park", c, "">> \notin calls
    BY DEF Inv, Unforced
  <1>3. CASE UNCHANGED row
    BY <1>3
  <1>4. CASE row' = BlockOnCancel(row)
    BY <1>1, <1>4, ParkedNames DEF BlockOnCancel
  <1>5. CASE \E v \in Verdicts : row' = Park(row, v)
    BY <1>1, <1>5, ParkNames
  <1>6. CASE \E c \in Columns \ {"blocked"} : row' = Update(row, c)
    <2>1. PICK c \in Columns \ {"blocked"} : row' = Update(row, c)
      BY <1>6
    <2>2. row'.column # "blocked"
      BY <1>1, <2>1, UpdateNames
    <2> QED BY <2>2 DEF Named
  <1>7. CASE Handlers
    <2>1. CASE \E c \in Columns : \E e \in Events : DispatchOf(e, c)
      BY <2>1, <1>3 DEF DispatchOf, Dispatch
    <2>2. ~(\E c \in Columns : ParkOnOrder(c)) /\ ~WriteEdit
      BY <1>2 DEF ParkOnOrder, WriteEdit
    <2>3. CASE ParkStopped
      BY <2>3, <1>4 DEF ParkStopped
    <2>4. CASE RecordQuota \/ EndRun
      BY <2>4, <1>3 DEF RecordQuota, EndRun
    <2>5. CASE ParkRun
      BY <2>5, <1>5 DEF ParkRun
    <2>6. CASE \E v \in Verdicts : ParkLate(v)
      BY <2>6, <1>3, <1>5 DEF ParkLate
    <2> QED BY <1>7, <2>1, <2>2, <2>3, <2>4, <2>5, <2>6 DEF Handlers
  <1>8. CASE Sweeper \/ Answer \/ Submit
    <2>1. ~SweepOrder
      BY <1>2 DEF SweepOrder
    <2>2. row'.column \in Working
      BY <1>1, <1>8, <2>1, WaysOut DEF Sweeper, Sweep, Answer, Submit
    <2> QED BY <2>2, WorkingNotBlocked DEF Named
  <1>9. CASE Person
    <2>1. CASE Answer \/ Submit
      BY <2>1, <1>8
    <2>2. CASE Edit
      <3>1. row' = Update(row, row.column)
        BY <2>2 DEF Edit
      <3>2. CASE row.column = "blocked"
        <4>1. row'.stamp = row.stamp /\ row'.origin = row.origin
          BY <1>1, <3>1, <3>2, UpdateNames
        <4> QED BY <3>2, <4>1 DEF Named
      <3>3. CASE row.column # "blocked"
        BY <1>1, <1>6, <3>1, <3>3
      <3> QED BY <3>2, <3>3
    <2>3. CASE ReadEdit \/ Comment \/ \E a \in Agents : Stop(a)
      BY <2>3, <1>3 DEF ReadEdit, Comment, Stop
    <2>4. CASE \E c \in Columns : Drag(c)
      BY <2>4, <1>6 DEF Drag
    <2> QED BY <1>9, <2>1, <2>2, <2>3, <2>4 DEF Person
  <1>10. CASE Crash \/ FinishBlocker
    BY <1>10, <1>3 DEF Crash, FinishBlocker
  <1>11. CASE \E a \in Agents : Claim(a) \/ Returns(a)
    <2>1. {"in_progress", "todo", "code_review"} \subseteq Columns \ {"blocked"}
      BY DEF Columns, Working
    <2> QED BY <1>11, <2>1, <1>3, <1>6 DEF Claim, Returns
  <1>12. CASE UNCHANGED vars
    BY <1>12, <1>3 DEF vars
  <1> QED BY <1>7, <1>8, <1>9, <1>10, <1>11, <1>12 DEF Next

\* Without a work order and without a write prepared from an older read, a card
\* with its stamp and its way back keeps them as long as it stands in Blocked, and
\* gets them when it goes there, unless somebody moves it in by hand.
THEOREM ReasonNamed == Spec => NamesReason
  <1>1. Inv /\ [Next]_vars
          => [env \intersect {"slow edit", "order"} = {} /\ Named(row)
                 => Named(row') \/ Drag("blocked")]_vars
    BY NextKeepsNamed
  <1> QED BY InitInv, NextInv, <1>1, PTL DEF Spec, NamesReason
-----------------------------------------------------------------------------
\* No write but a release takes a pending question's stamp.
LEMMA WritesKeepQuestion ==
    ASSUME NEW r \in Rows, r.question, r.stamp
    PROVE  /\ \A v \in Verdicts : Park(r, v).question /\ Park(r, v).stamp
           /\ \A c \in Columns : Update(r, c).question /\ Update(r, c).stamp
           /\ BlockOnCancel(r).question /\ BlockOnCancel(r).stamp
           /\ MarkWorkOrderWaiting(r).question /\ MarkWorkOrderWaiting(r).stamp
  <1>1. Parked(r) \in Rows /\ Parked(r).question /\ Parked(r).stamp
    BY DEF Parked, Rows, Columns
  <1>2. ASSUME NEW v \in Verdicts
        PROVE  Park(r, v).question /\ Park(r, v).stamp
    BY <1>1 DEF Park, BlockOnQuestion, BlockOnResource, Rows
  <1>3. ASSUME NEW c \in Columns
        PROVE  Update(r, c).question /\ Update(r, c).stamp
    BY DEF Update, Rows
  <1>4. MarkWorkOrderWaiting(r).question /\ MarkWorkOrderWaiting(r).stamp
    BY DEF MarkWorkOrderWaiting, Rows
  <1> QED BY <1>1, <1>2, <1>3, <1>4 DEF BlockOnCancel

LEMMA NextKeepsQuestion ==
    ASSUME Inv, [Next]_vars, row.question, row.stamp, row.resource = ""
    PROVE  (row'.question /\ row'.stamp) \/ Answer
  <1>1. row \in Rows
    BY Before
  <1>2. CASE UNCHANGED row
    BY <1>2
  <1>3. CASE row' = BlockOnCancel(row) \/ row' = MarkWorkOrderWaiting(row)
    BY <1>1, <1>3, WritesKeepQuestion
  <1>4. CASE \E v \in Verdicts : row' = Park(row, v)
    BY <1>1, <1>4, WritesKeepQuestion
  <1>5. CASE \E c \in Columns : row' = Update(row, c)
    BY <1>1, <1>5, WritesKeepQuestion
  <1>6. CASE Handlers
    <2>1. CASE \E c \in Columns : \E e \in Events : DispatchOf(e, c)
      BY <2>1, <1>2 DEF DispatchOf, Dispatch
    <2>2. CASE \E c \in Columns : ParkOnOrder(c)
      BY <2>2, <1>3 DEF ParkOnOrder
    <2>3. CASE ParkStopped
      BY <2>3, <1>3 DEF ParkStopped
    <2>4. CASE WriteEdit
      BY <2>4, <1>5 DEF WriteEdit, Inv, TypeOK
    <2>5. CASE RecordQuota \/ EndRun
      BY <2>5, <1>2 DEF RecordQuota, EndRun
    <2>6. CASE ParkRun
      BY <2>6, <1>4 DEF ParkRun
    <2>7. CASE \E v \in Verdicts : ParkLate(v)
      BY <2>7, <1>2, <1>4 DEF ParkLate
    <2> QED BY <1>6, <2>1, <2>2, <2>3, <2>4, <2>5, <2>6, <2>7 DEF Handlers
  <1>7. ~Sweeper
    BY <1>1 DEF Sweeper, SweepOrder, Sweep, Swept
  <1>8. CASE Person
    <2>1. ~Submit
      BY DEF Submit
    <2>2. CASE Edit
      BY <2>2, <1>1, <1>5 DEF Edit, Rows
    <2>3. CASE ReadEdit \/ Comment \/ \E a \in Agents : Stop(a)
      BY <2>3, <1>2 DEF ReadEdit, Comment, Stop
    <2>4. CASE \E c \in Columns : Drag(c)
      BY <2>4, <1>5 DEF Drag
    <2> QED BY <1>8, <2>1, <2>2, <2>3, <2>4 DEF Person
  <1>9. CASE Crash \/ FinishBlocker
    BY <1>9, <1>2 DEF Crash, FinishBlocker
  <1>10. CASE \E a \in Agents : Claim(a) \/ Returns(a)
    <2>1. "in_progress" \in Columns /\ {"todo", "code_review"} \subseteq Columns
      BY DEF Columns, Working
    <2> QED BY <1>10, <2>1, <1>2, <1>5 DEF Claim, Returns
  <1>11. CASE UNCHANGED vars
    BY <1>11, <1>2 DEF vars
  <1> QED BY <1>6, <1>7, <1>8, <1>9, <1>10, <1>11 DEF Next

\* A pending question keeps its stamp through every drag, edit, stop and park:
\* only its answer, or the release of another resource, takes it.
THEOREM QuestionNeverDropped == Spec => QuestionHeld
  <1>1. Inv /\ [Next]_vars
          => [row.question /\ row.stamp
                 => \/ row'.question /\ row'.stamp
                    \/ Answer
                    \/ row.resource # ""]_vars
    BY NextKeepsQuestion
  <1> QED BY InitInv, NextInv, <1>1, PTL DEF Spec, QuestionHeld

=============================================================================
