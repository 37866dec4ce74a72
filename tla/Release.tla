------------------------------ MODULE Release ------------------------------
(***************************************************************************)
(* The releases of one component: application/release and their rows in    *)
(* adapter/storage/postgres/release.go.  A merge opens a release of its    *)
(* task, or takes over the one that is open; the sweeper advances it; the  *)
(* release engineer, an agent run on one of its tasks, or a person judges  *)
(* it.  Nobody holds a lock: everyone reads a release and writes the whole *)
(* copy back on the condition that the status is still the one it read     *)
(* (Won).  What is between two statements is a call, and a crash loses all *)
(* of them.  An agent that waits is a card parked on release_watch.        *)
(*                                                                         *)
(* A commit is the set of tasks whose merges it contains; a batch is       *)
(* deployed by the local executor.  A stale copy's count of hand-backs is  *)
(* taken to be current.  Left out: what the checks measure, the provider's *)
(* own rollback, dismissed proposals, deploy order and the gates before a  *)
(* deploy, a component that changes its delivery mode (OpenPending), a git *)
(* client that cannot answer, a person who moves a card, and the ages at   *)
(* which a release may no longer be rolled back or handed back.  Timeouts  *)
(* are taken to be longer than the request they watch.                     *)
(***************************************************************************)
EXTENDS Naturals, Sequences, FiniteSets

CONSTANTS Tasks,          \* the component's tasks
          Person, Sweeper,
          Worlds,         \* the modes, each with what may happen (a subset of Kinds)
          MaxEvents,      \* bound: events of each kind
          MaxHandBacks    \* handBackMaxReWakes

Modes == {"on_merge", "dispatch", "batch"}
Kinds == {"merge", "run", "people", "fault"}

ASSUME TasksAssumption  == IsFiniteSet(Tasks)
ASSUME WorldsAssumption == Worlds \subseteq [mode : Modes, auto : BOOLEAN, env : SUBSET Kinds]
ASSUME BoundsAssumption == MaxHandBacks \in Nat
ASSUME ActorsAssumption == Person \notin Tasks /\ Sweeper \notin Tasks /\ Person # Sweeper

VARIABLES
    mode,     \* the component's delivery mode
    auto,     \* profile.auto_rollback
    row,      \* the rows of releases: what Update writes
    carries,  \* release_tasks
    handed,   \* hand_back_count (0: last_hand_back_at is empty)
    heard,    \* since the last hand-back: the agent looked, or proposed a rollback
    shipped,  \* the releases as they finished; the last time counts (finished_at)
    base,     \* the commit of the task's merge
    column,   \* the task's board_column
    parked,   \* the tasks whose card is parked on release_watch
    agent,    \* the run of the release engineer on the task
    refused,  \* history: tasks whose opening reported that it failed
    calls, env, events

world == <<mode, auto, env>>
cards == <<column, parked>>
asked == <<handed, heard>>
rows  == <<row, asked, carries, shipped>>
vars  == <<world, rows, base, cards, agent, refused, calls, events>>

Releases == 1..Cardinality(Tasks)  \* in the order of created_at
Open     == {"pending", "deploying", "verifying", "awaiting_verdict"}
Watched  == {"deploying", "verifying", "rolling_back"}
Terminal == {"released", "rolled_back", "superseded"}
Statuses == Open \cup Watched \cup Terminal \cup {"none", "draft", "failed"}
Opening  == {"find", "join", "create", "supersede", "reread"}
Undoing  == {"revert", "redeploy"}
Commits  == SUBSET Tasks
NoRow    == [status |-> "none", content |-> {}, rollback |-> "none",
             deployed |-> FALSE]

\* A call: in whose run or by whom, what it does next, to which release, the
\* copy it read, and the tasks it carries over.  flag: it may try again; of a
\* rollback, that the release never deployed.
Call(by, at, r, copy) == [by |-> by, at |-> at, rel |-> r, copy |-> copy,
                          carried |-> {}, new |-> 0, flag |-> TRUE]
On(c, at)    == Call(c.by, at, c.rel, NoRow)
Wakeup(t)    == Call(t, "wake", 0, NoRow)

Created     == {r \in Releases : row[r].status # "none"}
With(S)     == {r \in Releases : row[r].status \in S}
Newest(S)   == {r \in S : \A s \in S : s <= r}
Carrying(t) == {r \in Releases : t \in carries[r]}
ForTask(t)  == Newest(Carrying(t))
Unused      == {r \in Releases \ Created : \A s \in Releases \ Created : r <= s}
Merged      == {t \in Tasks : base[t] # {}}
InDone(S)   == {t \in S \ parked : column[t] \in {"done", "released"}}

\* The tasks of a release in the order of their merges.
First(S)    == {t \in S : \A u \in S : base[t] \subseteq base[u]}
Latest(S)   == {t \in S : \A u \in S : base[u] \subseteq base[t]}

\* LastReleased
Shipped == SelectSeq(shipped, LAMBDA r : row[r].status = "released")
Last    == IF Shipped = <<>> THEN 0 ELSE Shipped[Len(Shipped)]

\* ReleaseStore.Update: the copy c read, with the changes of new, if the status
\* is still the one of the copy; then and else are the calls that follow.
Won(c)  == row[c.rel].status = c.copy.status
Put(r, new) ==
    /\ row' = [row EXCEPT ![r] = new]
    /\ heard' = [heard EXCEPT ![r] =
           IF new.status \in {"rolling_back", "rolled_back", "superseded", "released"}
           THEN @ \ {"proposed"} ELSE @]
    /\ UNCHANGED handed
Goes(c, then) == calls' = (calls \ {c}) \cup then
Update(c, new, then, else) ==
    \/ Won(c)  /\ Put(c.rel, new) /\ Goes(c, then)
    \/ ~Won(c) /\ UNCHANGED <<row, asked>> /\ Goes(c, else)
Write(r, new, then) == Put(r, new) /\ calls' = calls \cup then
Then(c, at, new) == {[c EXCEPT !.at = at, !.copy = new]}

Happens(kind) ==
    /\ kind \in env
    /\ events[kind] < MaxEvents[kind]
    /\ events' = [events EXCEPT ![kind] = @ + 1]
Calm == UNCHANGED events

Init == /\ \E w \in Worlds : mode = w.mode /\ auto = w.auto /\ env = w.env
        /\ row = [r \in Releases |-> NoRow]
        /\ carries = [r \in Releases |-> {}]
        /\ handed = [r \in Releases |-> 0]
        /\ heard = [r \in Releases |-> {}]
        /\ shipped = <<>>
        /\ base = [t \in Tasks |-> {}]
        /\ column = [t \in Tasks |-> "done"]
        /\ parked = {}
        /\ agent = [t \in Tasks |-> "none"]
        /\ refused = {}
        /\ calls = {}
        /\ events = [k \in Kinds |-> 0]
-----------------------------------------------------------------------------
(* A merge opens a release: OpenForMerge.                                  *)

\* A run of the release engineer; where none is looked at, it does nothing.
Started(t) == agent' = [agent EXCEPT ![t] = IF "run" \in env THEN "live" ELSE "none"]

\* The merge lands on the default branch; its opening follows in the same call
\* of the release engineer's run.
Merge(t) ==
    /\ t \notin Merged /\ column[t] = "done"
    /\ IF Merged = {} THEN Calm ELSE Happens("merge")
    /\ base' = [base EXCEPT ![t] = Merged \cup {t}]
    /\ Started(t)
    /\ calls' = calls \cup {Call(t, "find", 0, NoRow)}
    /\ UNCHANGED <<world, rows, cards, refused>>

\* openReleaseToSupersede takes over the newest open release the merge descends
\* from; findDraftRelease looks for the draft.
\* (mutant: the ancestry check is dropped)
AncestorUnchecked(r, t) == TRUE
Ancestor(r, t) == row[r].content \subseteq base[t]
Find(c) ==
    /\ c.at = "find"
    /\ LET found == {r \in Newest(With(IF mode = "batch" THEN {"draft"} ELSE Open)) :
                          mode = "batch" \/ Ancestor(r, c.by)} IN
       \/ found = {} /\ Goes(c, {[c EXCEPT !.at = "create"]})
       \/ \E r \in found :
             Goes(c, {[c EXCEPT !.at = IF mode = "batch" THEN "join" ELSE "create",
                                !.rel = r, !.copy = row[r], !.carried = carries[r]]})
    /\ Calm /\ UNCHANGED <<world, rows, base, cards, agent, refused>>

\* AddTasksToDraft, which looks at the status under the row's lock. A task that
\* misses two drafts is reported.
Retry(c) == IF c.flag THEN Goes(c, {[Call(c.by, "find", 0, NoRow) EXCEPT !.flag = FALSE]}) /\ UNCHANGED refused
                      ELSE Goes(c, {}) /\ refused' = refused \cup {c.by}
Join(c) ==
    /\ c.at = "join"
    /\ IF row[c.rel].status = "draft"
       THEN /\ carries' = [carries EXCEPT ![c.rel] = @ \cup {c.by}]
            /\ Goes(c, {}) /\ UNCHANGED refused
       ELSE Retry(c) /\ UNCHANGED carries
    /\ Calm /\ UNCHANGED <<world, row, asked, shipped, base, cards, agent>>

\* ReleaseStore.Create inserts the release with its tasks, before what it takes
\* over is superseded; an index allows one draft (idx_releases_one_draft).
\* (mutant: a status no reader knows)
StartsUnknown == [on_merge |-> "started", dispatch |-> "pending", batch |-> "draft"]
Starts == [on_merge |-> "deploying", dispatch |-> "pending", batch |-> "draft"]
\* (mutant: the tasks of the release taken over are not carried)
InsertedAlone(c, new, tasks) ==
    /\ row' = [row EXCEPT ![new] = [NoRow EXCEPT !.status = Starts[mode], !.content = base[c.by]]]
    /\ carries' = [carries EXCEPT ![new] = {c.by}]
    /\ Goes(c, IF c.rel = 0 THEN {} ELSE {[c EXCEPT !.at = "supersede", !.new = new]})
Inserted(c, new, tasks) ==
    /\ row' = [row EXCEPT ![new] =
           [NoRow EXCEPT !.status = Starts[mode],
                         !.content = IF mode = "batch" THEN {} ELSE base[c.by]]]
    /\ carries' = [carries EXCEPT ![new] = tasks]
    /\ Goes(c, IF c.rel = 0 THEN {} ELSE {[c EXCEPT !.at = "supersede", !.new = new]})
Create(c) ==
    /\ c.at = "create"
    /\ mode = "batch" => With({"draft"}) = {}
    /\ \E new \in Unused : Inserted(c, new, c.carried \cup {c.by})
    /\ Calm /\ UNCHANGED <<world, asked, shipped, base, cards, agent, refused>>

\* Two merges created a draft at once, or the insert failed. Joining a draft
\* starts over once.
CreateFails(c) ==
    /\ c.at = "create"
    /\ \/ mode = "batch" /\ With({"draft"}) # {} /\ Calm
       \/ Happens("fault")
    /\ IF mode = "batch" THEN Retry(c) ELSE Goes(c, {}) /\ refused' = refused \cup {c.by}
    /\ UNCHANGED <<world, rows, base, cards, agent>>

\* (mutant: superseded whatever it has become)
SupersedeAnyway(c) ==
    /\ c.at = "supersede"
    /\ Put(c.rel, [c.copy EXCEPT !.status = "superseded"]) /\ Goes(c, {On(c, "unpark")})
    /\ Calm /\ UNCHANGED <<world, carries, shipped, base, cards, agent, refused>>
\* supersedeRelease and its second try (retrySupersedeRace).
Supersede(c) ==
    /\ c.at = "supersede"
    /\ Update(c, [c.copy EXCEPT !.status = "superseded"],
              {On(c, "unpark")}, {[c EXCEPT !.at = "reread"]})
    /\ Calm /\ UNCHANGED <<world, carries, shipped, base, cards, agent, refused>>

Reread(c) ==
    /\ c.at = "reread"
    /\ LET now == row[c.rel] IN
       IF now.status \in Open /\ c.flag
       THEN /\ Goes(c, {[c EXCEPT !.at = "supersede", !.copy = now, !.flag = FALSE]})
            /\ UNCHANGED carries
       ELSE /\ Goes(c, {})
            /\ carries' = [carries EXCEPT ![c.new] =
                   IF now.status \in Terminal THEN @ ELSE @ \cup carries[c.rel]]
    /\ Calm /\ UNCHANGED <<world, row, asked, shipped, base, cards, agent, refused>>

\* unparkSupersededTasks: the newer release wakes them.
Unpark(c) ==
    /\ c.at = "unpark"
    /\ parked' = parked \ carries[c.rel]
    /\ Goes(c, {})
    /\ Calm /\ UNCHANGED <<world, rows, base, column, agent, refused>>
-----------------------------------------------------------------------------
(* What agents and people do to a release.  Reading it and writing it back  *)
(* is one step where nobody writes what the copy could overwrite; a cut    *)
(* and a rollback decide on more than the row, and are two.                *)

\* rollbackRefusal: not under a release that shipped or opened later.
MayUndo(r) ==
    /\ \/ row[r].status \in {"failed", "awaiting_verdict"} /\ Last <= r
       \/ row[r].status = "released" /\ Last = r
    /\ \A s \in With(Open) : s <= r

\* Cut, Deploy, Finish and Rollback refuse a release in another status. An agent
\* may not ship what failed, nor roll back without auto_rollback.
MayFinish(r, by) ==
    row[r].status \in {"awaiting_verdict"} \cup (IF by = Person THEN {"failed"} ELSE {})

\* resolveCutCommit takes the head of the default branch.
AskCut(r) ==
    /\ mode = "batch" /\ row[r].status \in {"draft", "pending"}
    /\ ~\E c \in calls : c.at = "cut"
    /\ calls' = calls \cup {Call(Person, "cut", r, [row[r] EXCEPT !.content = Merged])}
    /\ Calm /\ UNCHANGED <<world, rows, base, cards, agent, refused>>

\* deployDispatch claims the release before it starts anything.
Deploy(r, by) ==
    /\ mode # "on_merge" /\ row[r].status = "pending"
    /\ LET new == [row[r] EXCEPT !.status = "deploying"] IN
       Write(r, new, {Call(by, "dispatch", r, new)})
    /\ UNCHANGED <<carries, shipped>>

\* Finish, then releaseTasks; clearOlderProposals.
Finish(r, by) ==
    /\ MayFinish(r, by)
    /\ Write(r, [row[r] EXCEPT !.status = "released"], {Call(by, "ship", r, NoRow)})
    /\ shipped' = Append(shipped, r)
    /\ UNCHANGED carries

AskRollback(r, by) ==
    /\ MayUndo(r) /\ (by # Person => auto)
    /\ calls' = calls \cup {Call(by, "rollback", r, row[r])}
    /\ UNCHANGED rows

\* Deploying is what a release waits for; the rest is bounded.
PersonActs(r) ==
    /\ \/ Deploy(r, Person) /\ Calm
       \/ Finish(r, Person) /\ Happens("people")
       \/ AskRollback(r, Person) /\ Happens("people")
    /\ UNCHANGED <<world, base, cards, agent, refused>>

\* A run of the release engineer makes one tool call at a time.
Idle(t)  == agent[t] = "live" /\ ~\E c \in calls : c.by = t /\ c.at # "wake"
AgentActs(t) ==
    /\ Idle(t)
    /\ \E r \in ForTask(t) : Deploy(r, t) \/ Finish(r, t) \/ AskRollback(r, t)
    /\ Calm /\ UNCHANGED <<world, base, cards, agent, refused>>

\* An agent that looks at a release that asked for it has answered (ForAgent);
\* without auto_rollback it may propose one (SetRollbackProposal).
AgentLooks(t) ==
    /\ Idle(t)
    /\ \E r \in ForTask(t) :
       /\ handed[r] > 0
       /\ \E more \in {{}} \cup (IF MayUndo(r) /\ ~auto THEN {{"proposed"}} ELSE {}) :
             heard' = [heard EXCEPT ![r] = @ \cup {"seen"} \cup more]
    /\ Calm /\ UNCHANGED <<world, row, handed, carries, shipped, base, cards, agent, refused, calls>>

\* watch_release ends the run of a release that the sweeper advances; the card
\* is parked when the run has ended.
AgentWatches(t) ==
    /\ Idle(t)
    /\ \E r \in ForTask(t) : row[r].status \in Watched
    /\ agent' = [agent EXCEPT ![t] = "parking"]
    /\ Calm /\ UNCHANGED <<world, rows, base, cards, refused, calls>>

Park(t) ==
    /\ agent[t] = "parking"
    /\ parked' = parked \cup {t}
    /\ agent' = [agent EXCEPT ![t] = "none"]
    /\ Calm /\ UNCHANGED <<world, rows, base, column, refused, calls>>

AgentEnds(t) ==
    /\ Idle(t)
    /\ agent' = [agent EXCEPT ![t] = "none"]
    /\ Calm /\ UNCHANGED <<world, rows, base, cards, refused, calls>>
-----------------------------------------------------------------------------
(* The answers.                                                            *)

\* A draft or a pending release is cut at the commit, and its newest task woken.
Cut(c) ==
    /\ c.at = "cut"
    /\ Update(c, [c.copy EXCEPT !.status = "pending"],
              {Wakeup(t) : t \in Latest(InDone(carries[c.rel]))}, {})
    /\ Calm /\ UNCHANGED <<world, carries, shipped, base, cards, agent, refused>>

Stamp(c) == Call(c.by, "stamp", c.rel, row'[c.rel])

Dispatched(c) ==
    /\ c.at = "dispatch"
    /\ Goes(c, {})
    /\ Calm /\ UNCHANGED <<world, rows, base, cards, agent, refused>>

\* A hand-back is counted; what was said before it is no answer.
HandsBack(r) ==
    /\ handed' = [handed EXCEPT ![r] = IF @ < MaxHandBacks THEN @ + 1 ELSE @]
    /\ heard' = [heard EXCEPT ![r] = {}]

\* failClaimed: retrying will not help.
DispatchRefused(c) ==
    /\ c.at = "dispatch"
    /\ Update(c, [c.copy EXCEPT !.status = "failed"], {Stamp(c)}, {})
    /\ Calm /\ UNCHANGED <<world, carries, shipped, base, cards, agent, refused>>

\* retryClaim stamps a hand-back, so that the watchdog wakes somebody.
DispatchFails(c) ==
    /\ c.at = "dispatch"
    /\ Happens("fault")
    /\ Won(c)
    /\ row' = [row EXCEPT ![c.rel] = [c.copy EXCEPT !.status = "pending"]]
    /\ HandsBack(c.rel)
    /\ Goes(c, {})
    /\ UNCHANGED <<world, carries, shipped, base, cards, agent, refused>>

\* Rollback claims the release before it touches the branch. An attempt whose
\* revert has landed is not repeated; RestoredRef is empty again.
Landed(copy) == copy.rollback \in {"reverted", "restored"}
Claimed(copy) == [copy EXCEPT !.status = "rolling_back",
                              !.rollback = IF Landed(copy) THEN "reverted" ELSE "claimed"]
NeverDeployed(copy) == /\ ~Landed(copy) /\ ~copy.deployed
                       /\ copy.status = "failed" /\ mode # "on_merge"
Undo(c) == [c EXCEPT !.at = IF Landed(c.copy) THEN "redeploy" ELSE "revert",
                     !.copy = Claimed(c.copy), !.flag = NeverDeployed(c.copy)]
\* (mutant: the claim is written without looking at the status)
RollbackUnclaimed(c) ==
    /\ c.at = "rollback"
    /\ Put(c.rel, Claimed(c.copy)) /\ Goes(c, {Undo(c)})
    /\ Calm /\ UNCHANGED <<world, carries, shipped, base, cards, agent, refused>>
Rollback(c) ==
    /\ c.at = "rollback"
    /\ Update(c, Claimed(c.copy), {Undo(c)}, {})
    /\ Calm /\ UNCHANGED <<world, carries, shipped, base, cards, agent, refused>>

\* RevertOnDefaultBranch and the record of its commit, or recordRevertFailure.
Revert(c) ==
    /\ c.at = "revert"
    /\ \/ LET new == [c.copy EXCEPT !.rollback = "reverted"]
          IN  Update(c, new, Then(c, "redeploy", new), {})
       \/ Update(c, [c.copy EXCEPT !.status = "failed"], {Stamp(c)}, {})
    /\ Calm /\ UNCHANGED <<world, carries, shipped, base, cards, agent, refused>>

\* A batch, or a release that never deployed, is done with the revert; the push
\* of the revert redeploys on_merge; dispatch deploys the previous release.
Redeploy(c) ==
    /\ c.at = "redeploy"
    /\ \/ /\ mode = "batch" \/ c.flag
          /\ Update(c, [c.copy EXCEPT !.status = "rolled_back"], {On(c, "reopen")}, {})
       \/ /\ mode # "batch" /\ ~c.flag
          /\ Update(c, [c.copy EXCEPT !.rollback = "restored"], {}, {})
       \/ /\ mode = "dispatch" /\ ~c.flag
          /\ Update(c, [c.copy EXCEPT !.status = "failed", !.rollback = "restored"],
                    {Stamp(c)}, {})
    /\ Calm /\ UNCHANGED <<world, carries, shipped, base, cards, agent, refused>>

\* releaseTasks and reopenTasks take the parks, then move what is still in done.
TakeAll(c) ==
    /\ c.at \in {"ship", "reopen"}
    /\ parked' = parked \ carries[c.rel]
    /\ Goes(c, {On(c, IF c.at = "ship" THEN "released" ELSE "need_revision")})
    /\ Calm /\ UNCHANGED <<world, rows, base, column, agent, refused>>

MoveAll(c) ==
    /\ c.at \in {"released", "need_revision"}
    /\ column' = [t \in Tasks |-> IF t \in InDone(carries[c.rel]) THEN c.at ELSE column[t]]
    /\ Goes(c, {})
    /\ Calm /\ UNCHANGED <<world, rows, base, parked, agent, refused>>
-----------------------------------------------------------------------------
(* The sweeper, and the hand-back to the release engineer.                 *)

Working(r, ats) == \E c \in calls : c.rel = r /\ c.at \in ats

\* What the sweeper finds and does: a deploy succeeded, a smoke check failed or
\* the deploy failed (sweepDeploying); the soak is over or a check stopped it
\* early (sweepVerifying); the redeploy of a rollback succeeded, or failed, or
\* nobody has worked on it for a while (sweepRollingBack).
Findings(r) ==
    CASE row[r].status = "deploying" ->
           IF Working(r, {"dispatch"}) THEN {} ELSE
           {[row[r] EXCEPT !.status = "verifying", !.deployed = TRUE],
            [row[r] EXCEPT !.status = "awaiting_verdict", !.deployed = TRUE],
            [row[r] EXCEPT !.status = "failed"]}
      [] row[r].status = "verifying" -> {[row[r] EXCEPT !.status = "awaiting_verdict"]}
      [] row[r].status = "rolling_back" ->
           IF row[r].rollback = "restored"
           THEN {[row[r] EXCEPT !.status = "rolled_back"], [row[r] EXCEPT !.status = "failed"]}
           ELSE IF Working(r, Undoing) THEN {} ELSE {[row[r] EXCEPT !.status = "failed"]}
      [] OTHER -> {}

\* SweepOnce goes through what is watched, then the watchdog, one at a time.
Swept == ~\E c \in calls : c.by = Sweeper
Sweep(r) ==
    /\ Swept
    /\ \E new \in Findings(r) :
          Write(r, new, CASE new.status = "verifying"   -> {}
                          [] new.status = "rolled_back" -> {Call(Sweeper, "reopen", r, NoRow)}
                          [] OTHER                      -> {Call(Sweeper, "stamp", r, new)})
    /\ Calm /\ UNCHANGED <<world, carries, shipped, base, cards, agent, refused>>

\* stampHandBack; what follows does not depend on its success.
Stamped(copy, r) ==
    IF row[r].status = copy.status
    THEN row' = [row EXCEPT ![r] = copy] /\ HandsBack(r)
    ELSE UNCHANGED <<row, asked>>

\* handBack frees every parked card of the release and wakes the first of them,
\* or else the newest task in done.
HandBack(c) ==
    /\ c.at = "stamp"
    /\ Stamped(c.copy, c.rel)
    /\ LET held == carries[c.rel] \cap parked IN
       /\ Goes(c, {Wakeup(t) :
                     t \in IF held # {} THEN First(held) ELSE Latest(InDone(carries[c.rel]))})
       /\ parked' = parked \ held
    /\ Calm /\ UNCHANGED <<world, carries, shipped, base, column, agent, refused>>

\* The run waits behind one that executes; the dispatch may fail.
Wake(c) ==
    /\ c.at = "wake"
    /\ agent[c.by] = "none"
    /\ \/ Started(c.by) /\ Calm
       \/ Happens("fault") /\ UNCHANGED agent
    /\ Goes(c, {})
    /\ UNCHANGED <<world, rows, base, cards, refused>>

\* (mutant: only where a verdict is still due)
FreeParkDue(t) ==
    /\ Swept /\ t \in parked
    /\ \E r \in ForTask(t) :
       /\ row[r].status \in {"awaiting_verdict", "failed"}
       /\ Stamped(row[r], r)
       /\ calls' = calls \cup {Wakeup(t)}
    /\ parked' = parked \ {t}
    /\ Calm /\ UNCHANGED <<world, carries, shipped, base, column, agent, refused>>
\* freeStrandedPark
FreePark(t) ==
    /\ Swept /\ t \in parked
    /\ \E r \in ForTask(t) :
       /\ row[r].status \notin Watched
       /\ Stamped(row[r], r)
       /\ calls' = calls \cup {Wakeup(t)}
    /\ parked' = parked \ {t}
    /\ Calm /\ UNCHANGED <<world, carries, shipped, base, column, agent, refused>>

\* (mutant: a look is an answer, whatever was asked)
DueUnseen(r) ==
    /\ row[r].status \in {"awaiting_verdict", "failed", "pending"}
    /\ handed[r] \in 1..(MaxHandBacks - 1)
    /\ heard[r] = {} /\ carries[r] \cap parked = {}
\* rewakeUnparkedHandBacks: handBackDue. The ten minutes outlast a hand-back.
Due(r) ==
    /\ row[r].status \in {"awaiting_verdict", "failed", "pending"}
    /\ handed[r] \in 1..(MaxHandBacks - 1)
    /\ "proposed" \notin heard[r]
    /\ "seen" \in heard[r] => row[r].status = "awaiting_verdict"
    /\ carries[r] \cap parked = {}
Rewake(r) ==
    /\ Swept /\ Due(r)
    /\ ~Working(r, {"stamp"}) /\ ~\E t \in carries[r] : Wakeup(t) \in calls
    /\ calls' = calls \cup {Call(Sweeper, "stamp", r, row[r])}
    /\ Calm /\ UNCHANGED <<world, rows, base, cards, agent, refused>>
-----------------------------------------------------------------------------
\* The process ends with every call and every run in it.
Crash ==
    /\ Happens("fault")
    /\ calls' = {}
    /\ agent' = [t \in Tasks |-> "none"]
    /\ UNCHANGED <<world, rows, base, cards, refused>>

CallStep(c) ==
    \/ Find(c) \/ Join(c) \/ Create(c) \/ CreateFails(c) \/ Supersede(c) \/ Reread(c)
    \/ Unpark(c) \/ Cut(c) \/ Dispatched(c) \/ DispatchRefused(c) \/ DispatchFails(c)
    \/ Rollback(c) \/ Revert(c) \/ Redeploy(c) \/ TakeAll(c) \/ MoveAll(c)
    \/ HandBack(c) \/ Wake(c)

Next ==
    \/ \E c \in calls : CallStep(c)
    \/ \E t \in Tasks : \/ Merge(t) \/ AgentActs(t) \/ AgentLooks(t) \/ AgentWatches(t)
                        \/ Park(t) \/ AgentEnds(t) \/ FreePark(t)
    \/ \E r \in Releases : AskCut(r) \/ PersonActs(r) \/ Sweep(r) \/ Rewake(r)
    \/ Crash

Ats == Opening \cup Undoing \cup {"unpark", "cut", "dispatch", "rollback", "ship", "reopen",
          "released", "need_revision", "stamp", "wake"}
\* Whoever makes a call goes on with it, sweeps and the watchdog come round, and
\* a run ends. Nobody has to cut, deploy or judge.
Proceeds(b) == \E c \in calls : c.by = b /\ CallStep(c)
Fairness ==
    /\ \A b \in Tasks \cup {Person, Sweeper} : WF_vars(Proceeds(b))
    /\ WF_vars(\E r \in Releases : Sweep(r))
    /\ WF_vars((\E r \in Releases : Rewake(r)) \/ (\E t \in Tasks : FreePark(t)))
    /\ \A t \in Tasks : WF_vars(Park(t)) /\ SF_vars(AgentEnds(t))

Spec == Init /\ [][Next]_vars /\ Fairness
-----------------------------------------------------------------------------
Rows  == [status : Statuses, content : Commits, deployed : BOOLEAN,
          rollback : {"none", "claimed", "reverted", "restored"}]
Calls == [by : Tasks \cup {Person, Sweeper}, at : Ats, rel : Releases \cup {0},
          copy : Rows, carried : Commits, new : Releases \cup {0}, flag : BOOLEAN]

TypeOK ==
    /\ mode \in Modes /\ auto \in BOOLEAN
    /\ row \in [Releases -> Rows]
    /\ carries \in [Releases -> Commits]
    /\ handed \in [Releases -> 0..MaxHandBacks]
    /\ heard \in [Releases -> SUBSET {"seen", "proposed"}]
    /\ shipped \in Seq(Releases)
    /\ base \in [Tasks -> Commits]
    /\ column \in [Tasks -> {"done", "released", "need_revision"}]
    /\ parked \subseteq Tasks /\ refused \subseteq Tasks
    /\ agent \in [Tasks -> {"none", "live", "parking"}]
    /\ calls \subseteq Calls
    /\ env \subseteq Kinds
    /\ events \in [Kinds -> Nat]

\* Nobody reverts a release that another call reverts: whoever touches the
\* branch or redeploys holds the claim, and the row says so (rollback.go:244).
RollbackExclusive ==
    \A c \in calls : c.at \in Undoing =>
        /\ row[c.rel].status = "rolling_back"
        /\ \A d \in calls : d.at \in Undoing /\ d.rel = c.rel => d = c

\* What a release says of its tasks is true of its commit: it carries a task only
\* if it ships the task's merge, whatever merges raced to take over what.
CarriedIsShipped ==
    mode # "batch" => \A r \in Releases : carries[r] \subseteq row[r].content

\* A merged task is carried by a release that is not superseded, or its opening
\* goes on, or it failed and was reported, or died with the process: no order of
\* supersedings drops a task.
NoTaskStranded ==
    \A t \in Merged :
       \/ \E r \in Carrying(t) : row[r].status # "superseded"
       \/ \E c \in calls : c.by = t /\ c.at \in Opening
       \/ Carrying(t) = {} /\ (t \in refused \/ events["fault"] > 0)

\* A card parked on release_watch comes free, though it may park after the
\* release settled, and though the hand-back may die with the process.
ParkEnds == \A t \in Tasks : t \in parked ~> t \notin parked

\* A release that waits for a verdict gets one, or a proposed rollback, or is
\* handed back as often as it may be: a run that looks and ends without a verdict
\* does not strand it.  Unless the process died before the first hand-back: the
\* watchdog never invents one.
HandBackAnswered ==
    \A r \in Releases :
       row[r].status = "awaiting_verdict" ~>
          \/ row[r].status # "awaiting_verdict" \/ "proposed" \in heard[r]
          \/ handed[r] = MaxHandBacks
          \/ handed[r] = 0 /\ events["fault"] > 0

\* Whatever races, a release moves along the edges of ReleaseMachine.
Machine == INSTANCE ReleaseMachine WITH status <- [r \in Releases |-> row[r].status]
ImplementsMachine == Machine!Spec

\* A newer merge of the component takes over its open release rather than run
\* beside it (domain/release.go:69).
OpenAlone ==
    \A r, s \in With(Open) :
       r < s /\ row[r].content \subseteq row[s].content =>
          \E c \in calls : c.at \in Opening
=============================================================================
