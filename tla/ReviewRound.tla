---------------------------- MODULE ReviewRound ----------------------------
(***************************************************************************)
(* The code review of one task: application/board/review_quorum.go,        *)
(* review_loop_guard.go and the calls of repository.Service.UpdateTask     *)
(* they run in.  A reviewer's move out of code_review is a verdict; the    *)
(* card leaves once every required reviewer has given one, to              *)
(* need_revision when any rejected.  Who has decided is read from the      *)
(* spans of the card's columns: the visits around a park are one round.    *)
(* Of the spans only the open one is kept and the number of the last       *)
(* round, of the verdicts each reviewer's latest in a round: with one run  *)
(* at a time decided_at is the order of the writes.                        *)
(*                                                                         *)
(* UpdateTask is four steps after its read of the card: the spans, the     *)
(* verdict, the weighing, the write of the whole row; the event, its span  *)
(* and the runs it starts follow as two more.  The runner lets one run of  *)
(* the task execute at a time (BoardRunner, RunFleet); a person's call,    *)
(* a change of the reviewers and a killed process fall between any two     *)
(* steps.  Left out: the human approval of a repository that requires one, *)
(* the criteria gates, and what happens after ready_for_qa.                *)
(***************************************************************************)
EXTENDS Naturals, FiniteSets

CONSTANTS Reviewers,    \* the agents that may subscribe to code_review
          Dev, NoOne,   \* the task's assignee; no run executes
          LoopLimit,    \* maxReviewLoopEntries
          Environments, \* what may disturb a review, a set of sets of Kinds
          MaxEvents     \* bound: disturbances of each kind

ASSUME ReviewersAssumption ==
    IsFiniteSet(Reviewers) /\ NoOne \notin Reviewers \union {Dev}

VARIABLES
    column,   \* board_tasks.board_column
    stamp,    \* blocked_resource: why the card is in blocked, or none
    origin,   \* blocked_origin_column
    span,     \* the column of the open span
    round,    \* the number of the last review round
    within,   \* no other column but blocked was visited since it began
    verdicts, \* the latest verdicts, by round and reviewer
    required, \* the enabled subscribers of code_review
    entries,  \* moves into need_revision since the last human event
    queue,    \* the agents with a pending run of the task
    executes, \* the agent whose run executes
    call,     \* the UpdateTask of the run's agent and the one of a person
    torn,     \* history: the spans may have missed or misplaced a move
    scene, events

card       == <<column, stamp, origin>>
visits     == <<span, round, within>>
review     == <<visits, verdicts, required, entries>>
reviewVars == <<card, review, queue, executes, call, torn, scene, events>>

ReviewColumns == {"need_revision", "code_review", "ready_for_qa", "blocked"}
Callers       == {"run", "person"}
Kinds         == {"park", "fault", "people", "subscribe"}
NoCall        == [step |-> "none"]

\* The agents a move into a column starts.
Stage(c) == CASE c = "code_review"   -> required
              [] c = "need_revision" -> {Dev}
              [] OTHER               -> {}
-----------------------------------------------------------------------------
\* domain.LatestVerdictPerReviewer
Given(r)     == {v \in verdicts : v.round = r}
Decided(r)   == {v.agent : v \in Given(r)}
Rejecting(r) == {v \in Given(r) : v.verdict = "reject"}

\* currentRound has an open span.
RoundOpen     == span = "code_review"
HasDecided(a) == RoundOpen /\ a \in Decided(round)

\* TaskColumnSpanStore.RecordMove, as domain.ReviewRoundSpans reads it: a park
\* does not end a round, any other column does.
Enters(c) ==
    /\ span' = c
    /\ round' = IF c = "code_review" /\ ~within THEN round + 1 ELSE round
    /\ within' = CASE c = "code_review" -> TRUE
                   [] c = "blocked"     -> within
                   [] OTHER             -> FALSE

ReviewInit == /\ column = "need_revision"
              /\ stamp = "none"
              /\ origin = "none"
              /\ span = "need_revision"
              /\ round = 0
              /\ within = FALSE
              /\ verdicts = {}
              /\ required = Reviewers
              /\ entries = 0
              /\ queue = {}
              /\ executes = NoOne
              /\ call = [c \in Callers |-> NoCall]
              /\ torn = FALSE
              /\ scene = {}
              /\ events = [kind \in Kinds |-> 0]

\* A person assigns the task: its developer's run is queued.
Assign == /\ scene = {}
          /\ queue = {}
          /\ column = "need_revision"
          /\ scene' \in Environments
          /\ queue' = {Dev}
          /\ UNCHANGED <<card, review, executes, call, torn, events>>
-----------------------------------------------------------------------------
\* The runner starts a pending run; one of the task at a time.  (Verdicts of
\* former rounds, which nobody reads again, are forgotten here.)
Begin(a) == /\ executes = NoOne
            /\ a \in queue
            /\ executes' = a
            /\ queue' = queue \ {a}
            /\ verdicts' = Given(round)
            /\ UNCHANGED <<card, visits, required, entries, call, torn, scene, events>>

CallInFlight == \E c \in Callers : call[c] # NoCall

\* UpdateTask reads the card.  Only a reviewer's verdict meets the quorum.
Called(c, first, to) ==
    /\ call[c] = NoCall
    /\ call' = [call EXCEPT ![c] = [step |-> first, from |-> column, to |-> to, round |-> 0]]
    /\ torn' = (torn \/ CallInFlight)

SubmitWork == /\ executes = Dev
              /\ column = "need_revision"
              /\ Called("run", "write", "code_review")
              /\ UNCHANGED <<card, review, queue, executes, scene, events>>

\* A review ends in a move: the reviewer's own, or the one the verdict sweep
\* asks it for.
Verdict == /\ executes \in Reviewers
           /\ column = "code_review"
           /\ \E to \in {"need_revision", "ready_for_qa"} : Called("run", "spans", to)
           /\ UNCHANGED <<card, review, queue, executes, scene, events>>

\* The run is over: the card has left the agent's stage, or the reviewer has
\* decided and the verdict sweep does not ask again.
EndReviewRun == /\ executes # NoOne
                /\ call["run"] = NoCall
                /\ \/ executes = Dev /\ column # "need_revision"
                   \/ executes \in Reviewers /\ (column # "code_review" \/ HasDecided(executes))
                /\ executes' = NoOne
                /\ UNCHANGED <<card, review, queue, call, torn, scene, events>>

\* ReviewQuorum.Decide: the current round and its open span.  Without one the
\* move goes through.
ReadRound ==
    /\ call["run"].step = "spans"
    /\ call' = [call EXCEPT !["run"].step = IF RoundOpen THEN "record" ELSE "write",
                            !["run"].round = round]
    /\ UNCHANGED <<card, review, queue, executes, torn, scene, events>>

Voted == [round |-> call["run"].round, agent |-> executes,
          verdict |-> IF call["run"].to = "need_revision" THEN "reject" ELSE "approve"]

\* (mutant: INSERT without ON CONFLICT)
RecordAgain ==
    /\ call["run"].step = "record"
    /\ verdicts' = verdicts \union {Voted}
    /\ call' = [call EXCEPT !["run"].step = "weigh"]
    /\ UNCHANGED <<card, visits, required, entries, queue, executes, torn, scene, events>>
\* RecordReviewVerdict: a reviewer that votes again changes its mind.
Record == /\ call["run"].step = "record"
          /\ verdicts' = {v \in verdicts : v.round # Voted.round \/ v.agent # executes}
                             \union {Voted}
          /\ call' = [call EXCEPT !["run"].step = "weigh"]
          /\ UNCHANGED <<card, visits, required, entries, queue, executes, torn, scene, events>>

\* (mutant: the round is read before the verdict is recorded)
WeighBefore ==
    LET now == call["run"]
        seen == Decided(now.round) \ {executes}
    IN  /\ now.step = "weigh"
        /\ call' = [call EXCEPT !["run"] =
              IF Cardinality(required) >= 2 /\ ~(required \subseteq seen)
              THEN NoCall
              ELSE [now EXCEPT !.step = "write",
                               !.to = IF Cardinality(required) >= 2 /\ Rejecting(now.round) # {}
                                      THEN "need_revision" ELSE @]]
        /\ UNCHANGED <<card, review, queue, executes, torn, scene, events>>
\* (mutant: the last reviewer's own verdict decides)
WeighLast ==
    LET now == call["run"]
    IN  /\ now.step = "weigh"
        /\ call' = [call EXCEPT !["run"] =
              IF Cardinality(required) >= 2 /\ ~(required \subseteq Decided(now.round))
              THEN NoCall
              ELSE [now EXCEPT !.step = "write"]]
        /\ UNCHANGED <<card, review, queue, executes, torn, scene, events>>
\* The quorum of two or more holds the card until all have decided (UpdateTask
\* returns without a write), then sends it where the verdicts say.
Weigh ==
    LET now == call["run"]
    IN  /\ now.step = "weigh"
        /\ call' = [call EXCEPT !["run"] =
              IF Cardinality(required) >= 2 /\ ~(required \subseteq Decided(now.round))
              THEN NoCall
              ELSE [now EXCEPT !.step = "write",
                               !.to = IF Cardinality(required) >= 2 /\ Rejecting(now.round) # {}
                                      THEN "need_revision" ELSE @]]
        /\ UNCHANGED <<card, review, queue, executes, torn, scene, events>>
-----------------------------------------------------------------------------
\* BoardTaskStore.Update writes the column that was read or asked for, and
\* clears a resource's stamp with it.
Write(c) ==
    LET now == call[c]
    IN  /\ now.step = "write"
        /\ column' = now.to
        /\ stamp'  = IF now.to = "blocked" THEN stamp ELSE "none"
        /\ origin' = IF now.to = "blocked" THEN origin ELSE "none"
        /\ call' = [call EXCEPT ![c] = IF now.to = now.from THEN NoCall
                                       ELSE [now EXCEPT !.step = "emit"]]
        /\ UNCHANGED <<review, queue, executes, torn, scene, events>>

\* Dispatcher.Dispatch: the board event, and the span of the column written.
Emit(c) ==
    LET now == call[c]
    IN  /\ now.step = "emit"
        /\ entries' = IF c = "person" THEN 0
                      ELSE IF now.to = "need_revision" THEN entries + 1 ELSE entries
        /\ Enters(now.to)
        /\ call' = [call EXCEPT ![c].step = "gate"]
        /\ UNCHANGED <<card, verdicts, required, queue, executes, torn, scene, events>>

\* ... then the review loop guard parks the card for a person, or the runs of
\* the column's agents are created, the mover's excepted.
Gate(c) ==
    LET now == call[c]
    IN  /\ now.step = "gate"
        /\ IF now.to = "need_revision" /\ entries >= LoopLimit
           THEN /\ column' = "blocked"
                /\ stamp' = "human"
                /\ origin' = IF column = "blocked" THEN origin ELSE column
                /\ Enters("blocked")
                /\ UNCHANGED queue
           ELSE /\ queue' = queue \union (Stage(now.to) \ (IF c = "run" THEN {executes} ELSE {}))
                /\ UNCHANGED <<card, visits>>
        /\ call' = [call EXCEPT ![c] = NoCall]
        /\ UNCHANGED <<verdicts, required, entries, executes, torn, scene, events>>
-----------------------------------------------------------------------------
Disturbs(kind) == /\ kind \in scene
                  /\ events[kind] < MaxEvents[kind]
                  /\ events' = [events EXCEPT ![kind] = @ + 1]

\* The run parks the card on a resource and ends; a sweeper resumes it in its
\* column, whose agents are all dispatched again.
ParkReview == /\ Disturbs("park")
              /\ executes # NoOne
              /\ call["run"] = NoCall
              /\ column # "blocked"
              /\ column' = "blocked"
              /\ origin' = column
              /\ stamp' = "device"
              /\ Enters("blocked")
              /\ executes' = NoOne
              /\ torn' = (torn \/ CallInFlight)
              /\ UNCHANGED <<verdicts, required, entries, queue, call, scene>>

Resume == /\ column = "blocked"
          /\ stamp = "device"
          /\ column' = origin
          /\ origin' = "none"
          /\ stamp' = "none"
          /\ Enters(origin)
          /\ queue' = queue \union Stage(origin)
          /\ UNCHANGED <<verdicts, required, entries, executes, call, torn, scene, events>>

\* The process that executes the run ends, or one of the call's statements
\* fails; the reconciler, or the agent itself, starts over.
Fault == /\ Disturbs("fault")
         /\ executes # NoOne
         /\ call' = [call EXCEPT !["run"] = NoCall]
         /\ torn' = (torn \/ call["run"].step = "emit")
         /\ queue' = queue \union {executes}
         /\ executes' = NoOne
         /\ UNCHANGED <<card, review, scene>>

\* A person moves the card, or edits it: an edit writes the column it read.
PersonCalls == /\ Disturbs("people")
               /\ \E to \in (ReviewColumns \ {"blocked"}) \union {column} :
                     Called("person", "write", to)
               /\ UNCHANGED <<card, review, queue, executes, scene>>

\* A person comments: the column's agents run again, but for the live one.
PersonComments == /\ Disturbs("people")
                  /\ entries' = 0
                  /\ queue' = queue \union (Stage(column) \ {executes})
                  /\ UNCHANGED <<card, visits, verdicts, required, executes, call, torn,
                                 scene>>

\* An agent is subscribed, unsubscribed, enabled or disabled.
Subscribe(a) == /\ Disturbs("subscribe")
                /\ required' = IF a \in required THEN required \ {a} ELSE required \union {a}
                /\ UNCHANGED <<card, visits, verdicts, entries, queue, executes, call, torn,
                               scene>>
-----------------------------------------------------------------------------
RunStep == \/ \E a \in Reviewers \union {Dev} : Begin(a)
           \/ SubmitWork \/ Verdict \/ EndReviewRun
           \/ ReadRound \/ Record \/ Weigh

Serves(c) == Write(c) \/ Emit(c) \/ Gate(c)

ReviewNext == \/ Assign \/ RunStep \/ Resume \/ ParkReview \/ Fault
              \/ PersonCalls \/ PersonComments
              \/ \E c \in Callers : Serves(c)
              \/ \E a \in Reviewers : Subscribe(a)

\* Pending runs are started, runs and calls go on, a review ends in a verdict
\* and, its turns being bounded, ends although its agent could vote again; a
\* resource comes back.  Nothing is owed by people or faults.
ReviewFairness == /\ WF_reviewVars(RunStep)
                  /\ SF_reviewVars(EndReviewRun)
                  /\ \A c \in Callers : WF_reviewVars(Serves(c))
                  /\ WF_reviewVars(Resume)

ReviewSpec     == ReviewInit /\ [][ReviewNext]_reviewVars
ReviewFairSpec == ReviewSpec /\ ReviewFairness
-----------------------------------------------------------------------------
\* The types, with one verdict per round and reviewer.
ReviewTypes == /\ column \in ReviewColumns
               /\ stamp \in {"none", "device", "human"}
               /\ origin \in ReviewColumns \union {"none"}
               /\ span \in ReviewColumns
               /\ round \in Nat
               /\ within \in BOOLEAN
               /\ \A v \in verdicts : /\ v.round \in 1..round
                                     /\ v.agent \in Reviewers
                                     /\ v.verdict \in {"approve", "reject"}
               /\ \A v, u \in verdicts : v.round = u.round /\ v.agent = u.agent => v = u
               /\ required \subseteq Reviewers
               /\ entries \in Nat
               /\ queue \subseteq Reviewers \union {Dev}
               /\ executes \in Reviewers \union {Dev, NoOne}

\* The card leaves the review approved only when every required reviewer's
\* latest verdict of the round is an approval, whatever order they decided in,
\* whoever changed its mind, and wherever a park or a crash fell.  The code does
\* not promise it once a move is written and its span is not, or out of order
\* (a move meets no open round and goes through), nor when reviewers come and go
\* (a rejection is not weighed once a single reviewer is left).
ApprovedByAll ==
    [][/\ column = "code_review"
       /\ column' = "ready_for_qa"
       /\ call["run"].step = "write"
       /\ call'["run"].step = "emit"
       /\ ~torn
       /\ "subscribe" \notin scene
       => /\ required \subseteq Decided(round)
          /\ Rejecting(round) = {}]_reviewVars

\* Left to the agents and their resources, a review comes to an end: approved,
\* or parked for a person by the loop guard, and never sent round again.
ReviewSettles ==
    scene \in SUBSET {"park"} /\ queue # {} ~>
        [](column = "ready_for_qa" \/ stamp = "human")
=============================================================================
