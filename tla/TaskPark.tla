------------------------------ MODULE TaskPark ------------------------------
(***************************************************************************)
(* How a task waits in the Blocked column and leaves it: the statements of *)
(* BoardTaskStore that park a row (BlockOn...), the ones that claim it     *)
(* back (Take...), and the write of UpdateTask that undoes a park, raced   *)
(* by the runs that park themselves, the sweepers, answers and people.     *)
(*                                                                         *)
(* One task.  A statement is one action; what a handler does after it is a *)
(* call in flight, lost by a crash.  A run is claimed, executes and ends   *)
(* as in BoardRunner and RunFleet; here only its parks matter.  The queues *)
(* (need_revision among them) are one column, and so are the stages whose  *)
(* reviewers are subscribed.                                               *)
(***************************************************************************)
EXTENDS Naturals, FiniteSets

CONSTANTS Agents,
          Staff,      \* the agents a column's events are dispatched to
          Verdicts,   \* what a run may wait for when it ends
          Settings,   \* the environments: sets of what else happens
          MaxCalls    \* bound on the calls in flight when people act

Working == {"todo", "in_progress", "code_review"}
Columns == Working \union {"blocked"}

\* Resources with a sweeper; the other two wait for a person.
Swept == {"quota", "device", "deploy"}
Resources == Swept \union {"human_decision", "analysis_questions", "work_order"}

ASSUME StaffAssumption == Staff \in [Working -> SUBSET Agents]
ASSUME VerdictsAssumption ==
    Verdicts \subseteq Swept \union {"human_decision", "analysis_questions", "question"}

VARIABLES
    env,       \* which of the environment's actions happen
    row,       \* the task's row
    pending,   \* the column each agent's pending run was dispatched in, or ""
    run,       \* who executes the task's running run, and how far it is
    unwinding, \* parks that runs will write whose rows are no longer running
    calls,     \* dispatches and stops in flight
    edit,      \* the column an UpdateTask in progress has read, or ""
    blocker    \* the task's blocked_by relation: "none", "open", "finished"

vars == <<env, row, pending, run, unwinding, calls, edit, blocker>>

NoRun == [who |-> "", phase |-> "ended"]
None  == [a \in Agents |-> ""]

Init == /\ env \in Settings
        /\ row = [column |-> "todo", question |-> FALSE, resource |-> "",
                  stamp |-> FALSE, origin |-> ""]
        /\ pending = None
        /\ run = NoRun
        /\ unwinding = {}
        /\ calls = {<<"moved", "todo", "">>}
        /\ edit = ""
        /\ blocker \in {"none"} \union IF "order" \in env THEN {"open"} ELSE {}
Room == Cardinality(calls) < MaxCalls
-----------------------------------------------------------------------------
\* The statements.  stamp is blocked_at, question is blocked_session_id.
\* (mutant: a second park remembers Blocked as the column to go back to)
ParkedAnew(r) == [r EXCEPT !.stamp = TRUE, !.column = "blocked", !.origin = r.column]
Parked(r) == [r EXCEPT !.stamp = TRUE, !.column = "blocked",
                       !.origin = IF r.column = "blocked" THEN @ ELSE r.column]
BlockOnQuestion(r)       == [Parked(r) EXCEPT !.question = TRUE]
BlockOnCancel(r)         == Parked(r)
BlockOnResource(r, res)  == [Parked(r) EXCEPT !.resource = res]
MarkWorkOrderWaiting(r)  == [r EXCEPT !.resource = "work_order", !.stamp = TRUE]
ClearWorkOrderWaiting(r) == [r EXCEPT !.resource = "", !.stamp = FALSE]

Restored(r, fallback) == IF r.origin = "" THEN fallback ELSE r.origin
Taken(r, fallback) == [r EXCEPT !.stamp = FALSE, !.origin = "",
                                !.column = Restored(r, fallback)]
TakeByResource(r) == [Taken(r, "todo") EXCEPT !.resource = ""]
TakeBySession(r)  == [Taken(r, "todo") EXCEPT !.question = FALSE]
ReleaseAnalysisQuestionsBlock(r) == [Taken(r, "in_progress") EXCEPT !.resource = ""]

\* Update writes the column of the task it was handed, and clears whatever park
\* the row has by now, unless a question is pending or that column is blocked.
\* (mutant: a write that leaves the card in Blocked clears its park)
UpdateClearing(r, c) == IF r.question THEN [r EXCEPT !.column = c]
                        ELSE [r EXCEPT !.column = c, !.resource = "", !.stamp = FALSE,
                                       !.origin = ""]
\* (mutant: a move out of Blocked clears a question with the other parks)
UpdateForgetting(r, c) == IF c = "blocked" THEN [r EXCEPT !.column = c]
                          ELSE [r EXCEPT !.column = c, !.resource = "", !.stamp = FALSE,
                                         !.origin = ""]
Update(r, c) == IF r.question \/ c = "blocked" THEN [r EXCEPT !.column = c]
                ELSE [r EXCEPT !.column = c, !.resource = "", !.stamp = FALSE,
                               !.origin = ""]
Park(r, verdict) == IF verdict = "question" THEN BlockOnQuestion(r)
                    ELSE BlockOnResource(r, verdict)
-----------------------------------------------------------------------------
\* Dispatch, up to the creation of the runs.  A comment is for agents without a
\* live run; any other event only looks for a pending one, which Create reuses.
Busy(a, event) == \/ pending[a] # ""
                  \/ event \in {"commented", "answer commented"} /\ run.who = a
Started(event, c, actor) ==
    IF c = "blocked" THEN {} ELSE {a \in Staff[c] \ {actor} : ~Busy(a, event)}
Creates(event, c, actor) ==
    pending' = [a \in Agents |-> IF a \in Started(event, c, actor) THEN c ELSE pending[a]]

GateHolds(event, c) == /\ blocker = "open"
                       /\ c \in {"todo", "in_progress"}
                       /\ event # "order finished"

\* A queue may be need_revision, which has no gate.
Dispatch(event, c, actor) ==
    /\ <<event, c, actor>> \in calls
    /\ \E held \in {GateHolds(event, c), c # "todo" /\ GateHolds(event, c)} :
       /\ calls' = (calls \ {<<event, c, actor>>})
                       \union (IF held THEN {<<"park", c, "">>} ELSE {})
                       \union IF event = "answer commented"
                              THEN {<<"answer moved", c, "">>} ELSE {}
       /\ IF held THEN UNCHANGED pending ELSE Creates(event, c, actor)
    /\ UNCHANGED <<env, row, run, unwinding, edit, blocker>>
Events == {"moved", "commented", "order finished", "answer commented", "answer moved"}

\* WorkOrder.Park, after the gate has read the open blocker.
ParkOnOrder(c) ==
    /\ <<"park", c, "">> \in calls
    /\ calls' = calls \ {<<"park", c, "">>}
    /\ row' = MarkWorkOrderWaiting(row)
    /\ UNCHANGED <<env, pending, run, unwinding, edit, blocker>>
-----------------------------------------------------------------------------
\* ClaimRun: one running run per task.  A run dispatched in a queue then moves
\* the card to in_progress itself, wherever the card is by now, unless a blocker
\* refuses that; the event names the agent, so nobody is dispatched.
Claim(a) ==
    /\ pending[a] # ""
    /\ run = NoRun
    /\ "slow answer" \in env \/ \A c \in calls : c[1] # "answer moved"
    /\ pending' = [pending EXCEPT ![a] = ""]
    /\ run' = [who |-> a, phase |-> "executing"]
    /\ row' = IF pending[a] = "todo" /\ blocker # "open"
              THEN Update(row, "in_progress") ELSE row
    /\ UNCHANGED <<env, unwinding, calls, edit, blocker>>

\* The agent returns: it finished, and may have moved the card on, or it waits
\* for something.  After this the runner no longer asks whether it was stopped.
Returns(a) ==
    /\ run = [who |-> a, phase |-> "executing"]
    /\ \/ \E v \in Verdicts : /\ run' = [run EXCEPT !.phase = v]
                              /\ UNCHANGED <<row, calls>>
       \/ /\ run' = NoRun
          /\ UNCHANGED <<row, calls>>
       \/ \E c \in {"todo", "code_review"} :
             /\ Room
             /\ <<row.column, c>> \in {<<"in_progress", "code_review">>,
                                      <<"code_review", "todo">>}
             /\ run' = NoRun
             /\ row' = Update(row, c)
             /\ calls' = calls \union {<<"moved", c, a>>}
    /\ UNCHANGED <<env, pending, unwinding, edit, blocker>>

\* parkOnQuota completes the run's row before it parks the task ...
RecordQuota ==
    /\ run.phase = "quota"
    /\ run' = NoRun
    /\ unwinding' = unwinding \union {"quota"}
    /\ UNCHANGED <<env, row, pending, calls, edit, blocker>>

\* ... the other parks come before the row's last write.
ParkRun ==
    /\ run.phase \in Verdicts \ {"quota"}
    /\ row' = Park(row, run.phase)
    /\ run' = [run EXCEPT !.phase = "parked"]
    /\ UNCHANGED <<env, pending, unwinding, calls, edit, blocker>>
EndRun ==
    /\ run.phase = "parked"
    /\ run' = NoRun
    /\ UNCHANGED <<env, row, pending, unwinding, calls, edit, blocker>>

\* A park whose run was completed or cancelled meanwhile.  The quota park is
\* written without the run's context; the others fail if the stop reached it.
ParkLate(v) ==
    /\ v \in unwinding
    /\ unwinding' = unwinding \ {v}
    /\ \/ row' = Park(row, v)
       \/ v # "quota" /\ row' = row
    /\ UNCHANGED <<env, pending, run, calls, edit, blocker>>
-----------------------------------------------------------------------------
\* CancelRun: the row is cancelled and the goroutine's context with it, if it
\* still looks; then the task is parked for a person.
Stop(a) ==
    /\ "stop" \in env
    /\ Room
    /\ \/ /\ pending[a] # ""
          /\ pending' = [pending EXCEPT ![a] = ""]
          /\ UNCHANGED <<run, unwinding>>
       \/ /\ run.who = a
          /\ run' = NoRun
          /\ unwinding' = unwinding \union ({run.phase} \intersect Verdicts)
          /\ UNCHANGED pending
    /\ calls' = calls \union {<<"stop", "blocked", "">>}
    /\ UNCHANGED <<env, row, edit, blocker>>
ParkStopped ==
    /\ <<"stop", "blocked", "">> \in calls
    /\ calls' = calls \ {<<"stop", "blocked", "">>}
    /\ row' = BlockOnCancel(row)
    /\ UNCHANGED <<env, pending, run, unwinding, edit, blocker>>

\* (mutant: the task is dispatched as it was read before the take)
SweepStale(res) ==
    /\ Room
    /\ row.resource = res
    /\ row.stamp
    /\ row' = TakeByResource(row)
    /\ calls' = calls \union {<<"moved", row.column, "">>}
    /\ UNCHANGED <<env, pending, run, unwinding, edit, blocker>>
\* A sweeper finds the resource free (the reset passed, a device idle, the
\* deploy settled) and claims the task.
Sweep(res) ==
    /\ Room
    /\ row.resource = res
    /\ row.stamp
    /\ row' = TakeByResource(row)
    /\ calls' = calls \union {<<"moved", row'.column, "">>}
    /\ UNCHANGED <<env, pending, run, unwinding, edit, blocker>>

\* The work-order sweep, once the blocker is finished: the column stays.
SweepOrder ==
    /\ Room
    /\ blocker = "finished"
    /\ row.resource = "work_order"
    /\ row' = ClearWorkOrderWaiting(row)
    /\ calls' = calls \union {<<"order finished", row.column, "">>}
    /\ UNCHANGED <<env, pending, run, unwinding, edit, blocker>>
FinishBlocker ==
    /\ blocker = "open"
    /\ blocker' = "finished"
    /\ UNCHANGED <<env, row, pending, run, unwinding, calls, edit>>

\* ResumeOnAnswer claims the task, leaves the answer as a comment and resumes.
Answer ==
    /\ Room
    /\ row.question
    /\ row.stamp
    /\ row' = TakeBySession(row)
    /\ calls' = calls \union {<<"answer commented", row'.column, "">>}
    /\ UNCHANGED <<env, pending, run, unwinding, edit, blocker>>

\* SubmitQuestions, whose own comment comes while the card is still blocked.
Submit ==
    /\ Room
    /\ row.column = "blocked"
    /\ row.resource = "analysis_questions"
    /\ row.stamp
    /\ row' = ReleaseAnalysisQuestionsBlock(row)
    /\ calls' = calls \union {<<"moved", row'.column, "">>}
    /\ UNCHANGED <<env, pending, run, unwinding, edit, blocker>>
-----------------------------------------------------------------------------
\* UpdateTask with a new column, into Blocked too: a card that a person, or the
\* agent at work, moves there gets neither a stamp nor a way back.
Drag(c) ==
    /\ "drag" \in env
    /\ Room
    /\ row.column # c
    /\ c = "in_progress" => blocker # "open"
    /\ row' = Update(row, c)
    /\ calls' = calls \union {<<"moved", c, "">>}
    /\ UNCHANGED <<env, pending, run, unwinding, edit, blocker>>

\* UpdateTask without a new column writes the column it read, which is the
\* row's own or, if it took long, an older one.
Edit == /\ "edit" \in env
        /\ row' = Update(row, row.column)
        /\ UNCHANGED <<env, pending, run, unwinding, calls, edit, blocker>>
ReadEdit ==
    /\ "slow edit" \in env
    /\ edit = ""
    /\ edit' = row.column
    /\ UNCHANGED <<env, row, pending, run, unwinding, calls, blocker>>
WriteEdit ==
    /\ edit # ""
    /\ row' = Update(row, edit)
    /\ edit' = ""
    /\ UNCHANGED <<env, pending, run, unwinding, calls, blocker>>

Comment ==
    /\ "comment" \in env
    /\ Room
    /\ calls' = calls \union {<<"commented", row.column, "">>}
    /\ UNCHANGED <<env, row, pending, run, unwinding, edit, blocker>>

\* The process ends and restarts.  The rows stay; the reconciler fails the run
\* that was running and dispatches the task again, where it stands.
Crash ==
    /\ "crash" \in env
    /\ env' = env \ {"crash"}
    /\ run' = NoRun
    /\ unwinding' = {}
    /\ edit' = ""
    /\ calls' = IF run = NoRun THEN {} ELSE {<<"moved", row.column, "">>}
    /\ UNCHANGED <<row, pending, blocker>>
-----------------------------------------------------------------------------
DispatchOf(e, c) == \E actor \in Agents \union {""} : Dispatch(e, c, actor)
Handlers == \/ \E c \in Columns : ParkOnOrder(c) \/ \E e \in Events : DispatchOf(e, c)
            \/ ParkStopped \/ WriteEdit
            \/ RecordQuota \/ ParkRun \/ EndRun \/ \E v \in Verdicts : ParkLate(v)
Sweeper  == SweepOrder \/ \E res \in Swept : Sweep(res)
Person   == \/ Answer \/ Submit \/ Edit \/ ReadEdit \/ Comment
            \/ \E c \in Columns : Drag(c)
            \/ \E a \in Agents : Stop(a)

Next == \/ Handlers \/ Sweeper \/ Person \/ Crash \/ FinishBlocker
        \/ \E a \in Agents : Claim(a) \/ Returns(a)

Spec == Init /\ [][Next]_vars

\* Handlers go on, and those of one event, or of cards in Blocked, keep no other
\* from going on; sweepers tick until their resource is free, pending runs get a
\* slot.  People and agents owe nothing.
Fairness == /\ WF_vars(Handlers)
            /\ \A e \in Events : WF_vars(\E c \in Working : DispatchOf(e, c))
            /\ WF_vars(Sweeper)
            /\ WF_vars(\E a \in Agents : Claim(a))
FairSpec == Spec /\ Fairness
-----------------------------------------------------------------------------
Points == Events \union {"park", "stop"}
Phases == {"executing", "parked", "ended"} \union Verdicts

TypeOK ==
    /\ env \subseteq UNION Settings
    /\ row \in [column : Columns, question : BOOLEAN, resource : Resources \union {""},
                stamp : BOOLEAN, origin : Working \union {""}]
    /\ pending \in [Agents -> Working \union {""}]
    /\ run \in [who : Agents \union {""}, phase : Phases]
    /\ unwinding \subseteq Verdicts
    /\ calls \subseteq Points \X Columns \X (Agents \union {""})
    /\ edit \in Columns \union {""}
    /\ blocker \in {"none", "open", "finished"}

\* docs/board-and-columns.md, "The Blocked column": the card names what it waits
\* for and the column it came from.  No park, take or edit ever leaves a card in
\* Blocked without them, as long as no write of the row was prepared from an
\* older read; but the doc's "in every case" is not the code's: a card that is
\* moved there by hand has neither, and no later park gives it the way back.
Named(r) == r.column = "blocked" => r.stamp /\ r.origin \in Working
NamesReason ==
    [][env \intersect {"slow edit", "order"} = {} /\ Named(row)
           => Named(row') \/ Drag("blocked")]_vars

\* BoardTaskStore.Update, "released only by the answer": whatever drags, edits,
\* stops and further parks do to the card, a pending question stays where
\* TakeBlockedBySession finds it.  Only the release of a resource the card has
\* come to wait for as well takes the stamp along.
QuestionHeld ==
    [][row.question /\ row.stamp
           => \/ row'.question /\ row'.stamp
              \/ Answer
              \/ row.resource # ""]_vars

\* docs/board-and-columns.md, "How it clears": a card that waits for a resource
\* comes back on its own, or somebody has taken it up.
ParkResumes ==
    row.stamp /\ row.resource \in Swept /\ env \subseteq {"drag", "edit"}
        ~> run.who # ""
=============================================================================
