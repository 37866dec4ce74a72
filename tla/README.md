# TaskTrooper: a TLA+ verification of the board

TaskTrooper runs AI agents on a task board. A server (Go, `src/server`) keeps the
board in PostgreSQL, dispatches tasks to agents, admits their runs, and lets
sweepers, reconcilers, people and webhooks act on the same rows; a desktop
application (`src/desktop`) packages it. Several replicas of the server may share
one database.

This project models the part of it where actors meet: who may run, who waits for
whom, who wakes whom, and what is left after a crash. It does not model what an
agent does inside a run, the prompts, the integrations or the user interface.

- [1 Inventory](#1-inventory)
- [2 Modules](#2-modules)
- [3 Runs](#3-runs)
- [4 Findings](#4-findings)
- [5 Proofs](#5-proofs)
- [6 What is only model-checked, and what is not modelled](#6-what-is-only-model-checked-and-what-is-not-modelled)
- [7 Plan](#7-plan)

Paths below are relative to `src/server/internal/`, and `board/` stands for
`application/board/`.

## 1 Inventory

| Component | State | Operations | Meets | What is hard | What makes it correct |
|---|---|---|---|---|---|
| Slot gate (`board/slot_gate.go`) | limit, used, mutex, condition variable | acquire, release, setLimit | every run's goroutine; contexts' cancel callbacks | wake-ups: one Signal per release, a broadcast outside the mutex | never more holders than the limit, no lost wake-up, a cancelled waiter returns |
| Runner (`board/runner.go`) | queue channel, active/parked/held maps, cancel registry, two gates, drain | Enqueue, dispatch, runJob, beginTask/endTask, Cancel, Drain, heartbeat | dispatcher, controller, reconciler, run rows | parking behind a busy task, hand-over, two goroutines of one run, shutdown | one run per task, exact slot counts, nothing parked is forgotten, stops reach their run |
| Run store and reconciler (`adapter/storage/postgres/board_config.go`, `board/reconciler.go`) | `task_agent_runs` rows; the reconciler's list | Create, ClaimRun, Touch, Update, CancelIfLive, ListStale, FailIfStale | runners and reconcilers of all replicas | no owner column, clocks that differ, crashes, stale lists | one executing run per task in the fleet, live runs are kept, lost runs recovered |
| Controller (`board/control.go`) | none | CancelRun, RerunRun | runner, run rows, task rows | row first, goroutine later, maybe on another replica | a stop is final and reaches the goroutine |
| Work order (`board/work_order.go`, `board/work_order_sweeper.go`) | park stamp on the task, `blocks` relations, sweep token | gate, Park, WakeDependentsOf, SweepSoon, sweep, resumeIfClear | dispatcher, UpdateTask, DeleteTask, reconciler | park races the blocker finishing; a resumed dispatch passes no gate | tasks start in order, freed tasks are resumed |
| Dispatcher (`board/dispatcher.go`) | none (reads rows) | Dispatch with its gates, choice of agents, creation of runs | everyone who changes a task | gates read, then write | one pending run per agent and task, parked tasks do not start |
| Parking and resuming (`board/quota_sweeper.go`, `device_sweeper.go`, `deploy_sweeper.go`, `resume.go`) | blocked columns of the task row | Block, Take, restore the origin column, Dispatch | sweepers of all replicas, runs that park themselves, people, answers | parks overwriting parks, take and then dispatch with a crash in between, a stop's late park | a blocked card says why, a question is dropped only by its answer, a park with a sweeper ends |
| Reviews (`board/review_quorum.go`, `review_loop_guard.go`, `pipeline_gate.go`) | verdicts per round, spans of the card's columns, bounce counts | Decide, HasDecided, guards | moves of the reviewing agents, people, parks | a round is read from the spans that another step writes; the whole row is written last | approved by all who are required, and settled |
| Relations (`application/repository/workorder.go`) | relations | SetBlockers, deploy order, cycle guards | planners and people at once | check-then-insert, walk limit | the order stays acyclic |
| Task service (`application/repository/service.go`) | task rows | UpdateTask, DeleteTask, ClaimTask, gates of a move | agents, people, sweepers | read-modify-write of the whole row | no move is lost |
| Releases (`application/release`, `deploywatch`) | release rows with a status, their tasks, hand-back stamps, parked cards | open, join, take over, cut, deploy, verify, finish, roll back, sweep, hand back | merges, release engineer, people, sweeper | a stale copy of the whole row written on its status alone; lists that are stale when used; wakes that die | one revert per release, no merge dropped, a hand-back is answered, a parked card comes free |
| Orchestrator (`application/orchestrator`) | plan, completed tasks | waves, execute, replan, resume | chat sessions | re-runs mixed with finished tasks | a subtask starts after its dependencies of this round |
| Jobs (`application/job`) | job rows, the wake channel | Create, claim, run, Delete, Start, Stop | clients, a pool of workers | a buffered channel of signals, cancellation against completion, restarts | each job runs once, no wake-up is lost |
| Sessions (`application/session`) | turns, parked turns | claim, park, resume, cancel | chat clients, quota sweeper | like a parked task | a parked turn is resumed once |
| LLM plumbing (`llmretry`, `adapter/llm`, `usage`) | attempt counters, an LRU cache | delay, retry, get/put | agent loop | limits and boundaries | bounded attempts, cache equals the source |
| Devices (`simrun`, `mobiledevice`, desktop `appium_hub`) | busy flag, sessions of the hub | start, hold, release | runs that test on a device | release on every path | one holder, no leak |
| Everything else | see `PROJECT.json` | I/O, rendering, configuration, transformations of source text | | | not modelled |

How they interact: every change of a task (`UpdateTask`, a comment, an answer, a
sweeper, a webhook) ends in `Dispatcher.Dispatch`, which creates run rows and
calls `Runner.Enqueue`. The runner admits them through its gates and claims the
row, which is the only agreement between replicas. A run ends by moving its task,
which is another `UpdateTask`. Sweepers and reconcilers are goroutines on
tickers; the parks they look for are stamps on the task's row.

## 2 Modules

| Module | Models | Built on |
|---|---|---|
| `SlotSemaphore` | the abstract gate: holders and a limit | |
| `SlotGate`, `SlotGateProofs` | `slot_gate.go` at the grain of mutex sections | implements `SlotSemaphore` |
| `BoardRunner`, `BoardRunnerProofs` | one process: `runner.go`, `control.go`, the pending rule of `reconciler.go` | its gates are semaphores as in `SlotSemaphore` |
| `RunFleet`, `RunFleetProofs` | the rows shared by replicas that crash | its replicas are `BoardRunner`s reduced to the claim |
| `WorkOrder`, `WorkOrderProofs` | `blocked_by`: gate, park, wake-ups | its runs are `RunFleet`'s reduced to live or ended |
| `TaskPark`, `TaskParkProofs` | how one card waits in Blocked and leaves it | one run of the task at a time, from `RunFleet` |
| `ReviewRound`, `ReviewRoundProofs` | the code review of one task | one run of the task at a time, from `RunFleet` |
| `JobQueue`, `JobQueueProofs` | `job/service.go` with its store | |
| `ReleaseMachine` | the abstract release: a status and its edges | |
| `Release`, `ReleaseProofs` | the releases of one component | implements `ReleaseMachine` |
| `MCSlotGate`, `MCBoardRunner`, `MCRunFleet`, `MCWorkOrder`, `MCRelease` | the instances of one component | |
| `MCGates`, `MCPools`, `MCServices` | the instances of two components in one run | |

The modules compose by layers: each takes of the one below only what that one
is checked to provide (a semaphore, a run that ends, one run per task).

`MCGates`, `MCPools` and `MCServices` check two components in one run as a sum: a
variable (`part`, `pool`, `service`) says of which component the behaviour is; that one
moves under its own fairness while the other rests in its initial state and owes
nothing. No step belongs to both, so a property of one component says there exactly
what it says of that component alone; these modules claim nothing of the two
components running together. They extend the modules of both components, so the names
of one of the two carry a prefix (`Gate`, `Job`, `Review`) where both would have them.

### SlotGate

State: `limit` and `used` are the fields of `slotGate`, `mu` is the mutex where it is
held between two steps, `notify` the notify list of `sync.Cond` in arrival order.
`at` says where each caller is, `cancelled` whose context is cancelled, `hook` what
became of the callback that `context.AfterFunc` registered. A mutex section is one
action, with one exception: a waiter tests the gate (`MustWait`) and enrols (`Enrol`)
in two, since the callback's broadcast does not take the mutex and can fall between
them. `cond.Wait` returns in a step of its own, when others may have taken the slot.
The deferred `stop()` (`Leave`) unregisters a callback that has not started.
`Cancel` and `StartHook` are the Go library's, modelled from how the gate uses them.

### BoardRunner

A job is a `RunJob` value: in the queue, in a parked list or in its goroutine,
never in two of them, so a job stands for its goroutine. Rows of `task_agent_runs`
are `status`; `queue`, `activeTasks`, `parked`, `slotHeld`, `cancels` are the
runner's fields; `agentUsed`, `taskUsed`, `limits` the two gates. The actions follow
`runJob`: `Take`, `Register`, `Skip`, `Admit` (which also writes both gates'
limits), `AcquireAgent`, `Park` or `Begin`, `AcquireTask`, `Claim`, `Finish`,
`EndTask`, `ReleaseAgent`, `End`, with the refusals of each gate. `ParkReturn` is
the goroutine that parked its job and still holds an agent slot and a cancel
registration while the job may already be queued again; deregistration deletes by
run id, so it can remove the registration of a newer goroutine (`runner.go:475`).
`CancelRow` and `CancelCtx` are the two halves of a stop; `Heartbeat` is the third
way a stop arrives. `Reap` is the reconciler's rule for pending rows. `Drain`,
`Deadline` and the end of the loop are the shutdown. `Admit` reads the settings with
the run's context, and any error of that read means no limit. The introspection maps
(`active`, `queued`) only answer `IsActive` and are left out. The environment's
actions (stops, reaping, reruns, store errors, drain) are switched by `Features`.

### RunFleet

Rows carry a status and an age since `updated_at`; a replica's memory is `exec` and
`home`. A claim looks for a running row of the task with a heartbeat within `Live`,
a reconciler lists rows past a cutoff of its own clock (up to `Skew` ahead) and later
fails them one by one, each write conditional on the row being as old as when it was
listed. `Crash` empties the memory, `Restart` brings back an empty one. `Redispatch`
and `Candidate` bring a failed run back, the latter up to `MaxFailed` in a row. Time
is counted in heartbeats; the code's 10 s, 60 s, 120 s and 180 s are 1, 2, 3 and 4,
which keeps their order and the margin the argument needs. The module assumes that a
heartbeat is written at least every `Beat`.

### WorkOrder

`parked` is `blocked_resource = 'work_order'`, `blocks` the relations. Everything
between two statements is a call `<<point, task>>` in some replica's memory: the gate
that is about to read, the park about to be written, the hook, the wake-up, the look,
the clear, the start. `Move` is `UpdateTask` with a column (its refusal, its write that
clears the park, its dispatch or wake-up), `Edit` the same write without one,
`AddBlocker` is `SetBlockers` with its cycle guard and the order note that goes
through the same write, `Delete` asks the sweeper to look, `Comment` dispatches,
`Reconcile` is the never-dispatched rule, `Crash` loses every call and starts a
sweep. The stages are the shipped ones: `todo` and `in_progress` have
`block_on_dependencies`, so a start there passes the gate (`Gated`), and only
`in_progress` refuses the move. `need_revision` has neither: a card moved there is
started at once, whatever blocks it, so it stands for all stages without a gate, the
reviews on the way to `done` among them. The moves the board allows are the constant
`Moves`, any set of pairs of columns. `waived` is a history variable: the relations a
start need not wait for, because they were named or reopened when the task was past its
gate (`PastGate`), or were open when the card was moved to `need_revision`. Nothing
reads it but `StartedInOrder`. A card in Blocked is `TaskPark`'s.

### TaskPark

One card. `row` is what the park statements touch: the column, `blocked_resource`,
`blocked_at` (`stamp`), `blocked_origin_column` (`origin`) and the question's
`blocked_session_id` (`question`). The operators `BlockOn...`, `Take...`,
`MarkWorkOrderWaiting`, `ClearWorkOrderWaiting`, `Release...` and `Update` are the SQL
statements of `adapter/storage/postgres/repository.go`; every action uses them, so who
overwrites whose park is decided by the statements and not by the actions. A run ends
with a verdict, and what it waits for is parked in a later step (`ParkRun`); a run
that was stopped, or waits for a quota, parks when its row is no longer running
(`ParkLate`). `Sweep` is the take of the quota, device and deploy sweepers with the
dispatch that follows as a call in flight; `Answer` and `Submit` release a question
and the analysis questions; `Drag` and `Edit` are `UpdateTask` with and without a
column. A drag goes from any column to any other, into Blocked too, which writes
neither a stamp nor an origin. The queues are one column, so the gate may hold a start
there or, if it is `need_revision`, not. With `"slow edit"` in the environment an edit
reads the row in one step (`ReadEdit`) and writes it whole in another (`WriteEdit`).
`Crash` loses the calls in flight.

### ReviewRound

`Verdict` is a reviewer's move out of `code_review`, an `UpdateTask` of the reviewer's
run. Its steps are the code's: read the open span (`ReadRound`), record the verdict
(`Record`), weigh the round (`Weigh`: is anyone of the required missing, did anyone
reject), write the row (`Write`), emit the event with its span (`Emit`), and either
park the card when the loop guard is exceeded or start the next stage's runs (`Gate`).
A person's call, a comment, a change of the subscribers, a park, or a fault (a call
that dies between two steps, a verdict or a span that is not written) falls between
any two of them. `torn` records that a move was written without its span, or out of
order: from there on the code reads rounds that were not, and the properties say
nothing. Left out: the human approval of a repository that requires one, the criteria
gates and what happens after `ready_for_qa`.

### JobQueue

A claim is a transaction, so it is two steps: `Select` locks the oldest pending row
that nobody else has locked (`SKIP LOCKED`), `Commit` makes the status visible. `wake`
counts the tokens of the buffered channel, whose `select` with a default swallows a
signal when it is full (`Signalled`). `HandOn` is the worker that signals the next one
before it runs its job, `Fallback` the five-minute ticker. `Create` inserts the row and
signals in a second step; `Delete` reads, then decides between a cancellation and a
deletion, then writes. `Stop`, `Stopped` and `Crash` end the process, `Start` brings a
new channel and new workers, each of which drains before it first sleeps.

### Release

A release's row, the copy a caller has read of it, and what is in flight. Nobody locks a
release: `Update` writes the whole copy back if the status is still the one that was
read. A call is a record that says what it does next, to which release, with which copy:
`find`, `create`, `supersede`, `reread`, `unpark` is the opening of a release by a merge
(`open.go`); `find`, `join` that of a draft (`batch.go`); `rollback`, `revert`,
`redeploy`, `reopen`, `need_revision` a rollback (`rollback.go`); `ship`, `released` a
finish; `stamp`, `wake` a hand-back. A release's commit is the set of the tasks whose
merges it contains, which is all that ancestry and the order of merges need. The sweeper
(`Findings`, `Sweep`) decides a deploy, a smoke check or a redeploy arbitrarily;
`FreePark` and `Rewake` are its watchdog. `agent` is the release engineer's run on a
task: it reads, judges, watches (which parks its card when the run has ended) and ends.
A crash loses every call and run. Left out: what the checks measure, the provider's own
rollback, dismissed proposals, deploy order and the gates before a deploy, a component
that changes its delivery mode, a git client that cannot answer, a person who moves a
card, and the ages at which a release may no longer be rolled back or handed back.

## 3 Runs

| Run | Checks | Instance |
|---|---|---|
| `gates` | `GateTypeOK`, `CountIsHolders`, `WakeupPending`, `ImplementsSemaphore`, `CancelledReturns`, `AllAdmitted`; the runner's `StopReachesRun`, `DrainReturns` | 3 callers, 2 cancellable, limits 0, 1, 2; one run enqueued twice, limits one or none, stops, drain |
| `gate_lost_signal` | `WaiterAdmitted` is violated | 3 callers, 1 cancellable, limit 1 |
| `runner_safety` | `TypeOK`, `OneRunPerTask`, `SlotAccounting`, `CancelledIsFinal` | 2 runs of one task, the first enqueued again, queue of 2, stops, reaping, store errors, drain |
| `pools` | the runner's `ConcurrencyCap`, `NothingStranded`, `RunsEnd`; the job queue's `RunsOnce`, `NoLostWake`, `PendingClaimed` | 3 runs of one task, 1 of another, caps of 1 task and of 1 or 2 agents, no stops; 2 jobs, 2 workers, 1 deletable, 1 restart or failure |
| `runner_stranded` | `NothingStranded` is violated | 3 runs of one task, stops |
| `runner_slot_deadlock` | `ParkedJobRuns` is violated | caps 1 and 1 |
| `fleet` | `TypeOK`, `OneRunPerTask`, `LiveRunKept`, `LostRunRecovered` | 2 replicas, 3 rows of one task, 1 crash, skew 1 |
| `work_order` | `TypeOK`, `StartedInOrder`, `NoLostWake`, `ParkedStarts` | 3 tasks (1 design), 2 graphs, 1 late edge, 1 crash, the shipped forward moves |
| `work_order_edited_card` | `ParkedResumes` is violated | 3 tasks, 1 late edge, edits and comments |
| `services` | the parks' `TypeOK`, `NamesReason`, `QuestionHeld`, `ParkResumes`; the review's types, `ApprovedByAll`, `ReviewSettles` | 1 card and its agent in 6 environments; 2 reviewers and a developer in 4 |
| `releases` | `TypeOK`, `RollbackExclusive`, `CarriedIsShipped`, `NoTaskStranded`, `ImplementsMachine`, `ParkEnds`, `HandBackAnswered` | 2 tasks, 6 worlds over 3 delivery modes |
| `release_beside` | `OpenAlone` is violated | the same |

What the passing runs show:

- The gate's counter is exact and no slot is granted past the limit in force. A
  cancelled waiter returns although its broadcast may fall between its test and its
  enrolment: it is then the first of the list the broadcast emptied, and the next
  release wakes it. As long as nobody is cancelled no wake-up is lost and every waiter
  is admitted.
- At most one run of a task is between `beginTask` and `endTask`, every slot taken is
  given back on every path of `runJob`, and no write overwrites a stop. Without stops
  the caps hold, nothing parked is left without somebody to wake it, and every run that
  was enqueued reaches a verdict unless the two gates come to wait for each other
  (`GatesLocked`, finding 3): that is the only way in which the runner comes to rest with
  runs left. A stop reaches the goroutine even if `Runner.Cancel`
  finds nothing: the heartbeat reads the row back. A drain returns after its deadline
  whatever the goroutines wait for.
- In a fleet no two replicas execute runs of one task at once, no reconciler fails a
  run that executes, and a run that a crash or a refused claim lost is recovered or
  handed to the loop guard.
- A task starts after the blockers it was created with, though a resumed dispatch
  passes no gate, unless somebody moves it to `need_revision`, reopens a blocker or names
  another one when the gate lies behind it; a freed task always has somebody on the way
  to it, without the sweeper's ticker; and one that never ran is started.
- A card that goes into Blocked, or stays there, has its stamp and its way back after
  every park, take, stop, restart or edit, in whatever order they come, unless a write
  was prepared from an older read. Only a move into Blocked by hand leaves a card
  without. A pending question stays where its answer finds it, until the answer, or until
  the take of another resource the card has come to wait for. A card that waits for a
  quota, a device or a deploy is taken up again.
- A review is approved only if every required reviewer's latest verdict of the round is
  an approval, though the round is read from spans that another step writes and a park
  or a killed process may fall anywhere; and it ends, approved or parked for a person.
- A job is claimed once: the row lock is what a stale select, a second worker and a
  deletion in flight run into. No signal is lost in the full channel, because a worker
  hands on before it runs; a failed statement is repaired by the ticker.
- Whoever races with a stale copy of a release, its status moves along the edges of
  `ReleaseMachine`, and one call at a time touches the branch. No order of take-overs
  drops a task or says of a task that it shipped when its merge is not in the commit. A
  card that parks after its release settled is found by the watchdog; a release that
  waits for a verdict is handed back until it is answered or the cap is reached.

Deadlock checking is off everywhere: the systems may stop (all runs ended, all tasks
released, the process drained, every job ended, every release settled).

### Bounds, and why they are enough

- Three callers of the gate: a holder, a waiter that is cancelled and a waiter that
  should have been woken. Limits 0, 1, 2 cover unlimited, full with one, and a change
  in each direction.
- Three runs of one task are needed to have two parked behind one; a run of a second
  task is needed for the two gates to be waited for in opposite orders; one run
  enqueued twice is the smallest case of two goroutines of one run, and
  `runner_safety` adds a second run of its task, with every failure at once. Its queue
  is smaller than the number of jobs, so that it fills and drops. Tasks that compete
  for the slots are in `pools` and `runner_slot_deadlock`. In `pools` the caps are one
  task and one or two agents, so that the two gates do come to wait for each other: with
  one agent the run reaches `GatesLocked`, and `RunsEnd` without that disjunct is
  violated. Two agents need one more run, on a third task, to get there: the two jobs
  that hold the agent slots wait for the task slot that is kept for a third task's
  parked job. That instance (five runs, 1.3 million states) is beyond what the run holds.
- Two replicas and three rows: one run that is lost, its successor, and one more so
  that the loop guard (`MaxFailed` 2) can still be passed. Ages are counted to
  `MaxAge`, one past every cutoff.
- Three tasks: two blockers and their dependent; a design blocker, which holds until
  it is released; an edge added late. The board of the run (`Shipped`) has the forward
  moves of `src/server/migrations/172_default_board_transitions.up.sql` between these
  stages, the one from `todo` to `need_revision` and those out of it included. Moves back
  and reopened tasks make the run ten times as large; they are covered by the proofs,
  which hold for every set of moves. `MaxCalls` bounds the calls in flight when
  people act, not those the system makes itself.
- Parks: one card, since no statement relates two; one agent, its verdicts a swept
  resource, a question and the analysis questions, so that parks of the three kinds of
  waking overwrite one another. The environments (`Everyday`) combine what can meet at
  one row: stops and edits with a restart, drags from and to every column with edits,
  comments, a work order, an edit from a stale read, an answer's two dispatches racing a
  claim. Two calls in flight are
  needed for a late park behind a new dispatch.
- Review: two reviewers, the fewest with a last one and one who changes its mind;
  `LoopLimit` 2 where the code has 3, since the guard counts entries and two already
  gives a round after a rejection and the one that is refused. `Bounds` gives each kind
  of disturbance one or two occurrences: a park that is left and entered again, a fault
  in each of two calls, a reviewer who leaves and comes back.
- Jobs: two jobs and two workers, so that a worker can find the other's lock; a channel
  as long as the pool, as in the code; one fault, a restart or a failing statement.
- Releases: two tasks are two merges that race and one release that takes over another.
  A world is a delivery mode with what may disturb it: a third opening of a merge
  (`merge`), a release engineer (`run`, unbounded), one action of a person, one fault (a
  crash, a failing insert, dispatch or wake). `MaxHandBacks` 2 gives one hand-back and
  one by the watchdog.

### Fairness, and why the code justifies it

- Goroutines that are not blocked go on (weak fairness; strong where an action waits
  for a mutex or a slot that others also take). A mutex of Go is starvation-free.
- An execution ends by itself only in `pools`, for `RunsEnd`. There the runner's
  fairness is weaker than `FairSpec`: somebody who can go on does. It is enough
  because each job takes finitely many steps, and what holds under it holds under
  `FairSpec`. Elsewhere `Finish` is fair only once the run's context is done, for an
  agent may work for as long as it likes.
- The drain's deadline, heartbeats and reconcilers are timers and always fire.
- In `RunFleet` time advances, crashed replicas restart and reconcilers go through
  their whole lists; there is no fairness on events, claims, stops or executions.
- In `WorkOrder` calls in flight go on unless they are lost in a crash, the sweeper
  takes its token and the reconciler ticks. The sweeper's own five-minute ticker has
  no fairness: its comment calls it only the backstop
  (`board/work_order_sweeper.go:19`), and the properties hold without it.
- In `TaskPark` handlers finish what they began, the sweepers' tickers fire and a
  pending run is claimed; nobody has to answer, drag or stop. A dispatch is made by the
  goroutine of the request or sweeper that caused it, so the dispatches of each event are
  fair by themselves: people who drag the card for ever starve none of the others.
- In `ReviewRound` a run goes on and ends (strongly fair: a reviewer may vote again, but
  its turns are bounded), handlers finish, and a free resource takes the card back.
- In `JobQueue` workers go on, a `Create` reaches its signal and the five-minute
  ticker fires. A job is not assumed to end: the claims of the others do not wait for it.
- In `Release` whoever has a call goes on with it, the sweeper and its watchdog come
  round, a watching card is parked, and a run of the release engineer ends (strongly
  fair, since its tool calls disable the end in between). Nobody has to cut, deploy or
  judge.
- There is no fairness on people, clients or faults anywhere.

Every property of a passing run has a mutant: a definition of the code changed the way
a plausible bug would change it (the definitions marked `mutant` in the modules), under
which the run finds the property violated. They are listed in `PROJECT.json`.

## 4 Findings

1. **A Signal is lost with a cancelled waiter** (`gate_lost_signal`,
   `board/slot_gate.go:51`). `release` signals one waiter. If that one is cancelled it
   returns without passing the signal on, and its deferred `stop()` may prevent the
   broadcast. The waiter behind it sleeps beside a free slot until a later `release` or
   `setLimit`. Every admission calls `setLimit`, so any new run repairs it.
2. **A stopped parked job strands the ones behind it** (`runner_stranded`,
   `board/runner.go:647`). `endTask` wakes one parked job and relies on it to reach
   `endTask`; a woken job whose row was cancelled returns early.
3. **The two gates can wait for each other** (`runner_slot_deadlock`,
   `board/runner.go:541`). An idle task keeps its task slot for its parked jobs; a job
   of another task takes the only agent slot and waits for a task slot.
4. **Editing a waiting card unparks it for good** (`work_order_edited_card`,
   `adapter/storage/postgres/repository.go:1094`). `Update` clears a work-order park on
   any edit. A task that never ran is still dispatched by the reconciler; one that ran
   before is never resumed when its blocker finishes.
5. **Two releases run beside each other** (`release_beside`,
   `application/release/open.go:258`). A merge looks for the open release it takes over
   and creates its own in a later statement. Two merges that both look first leave two
   open releases, and nothing takes one over until a third merge.

Differences between documentation and code that need no run:
`docs/ordering-and-relations.md` says that a drag into Todo is refused, that a park
moves the card to Blocked and that the sweep runs once a minute; the code refuses only
In Progress (`refuse_move` in
`src/server/migrations/143_roles_task_types_workflows.up.sql`), keeps the column
(`MarkWorkOrderWaiting`) and sweeps every five minutes besides its wake-ups. Lines
23-24 of the same page say of a task that its blockers "must be finished before this
one may start", and that this is enforced by the move and by the dispatcher; the stage
`need_revision` has no `block_on_dependencies` (migration 143:284-291), so a card that
is moved there from Todo
(`src/server/migrations/172_default_board_transitions.up.sql:41`) is neither refused
(`application/repository/service.go:2157`) nor parked (`board/work_order.go:104`), and
its run goes on although its own move to In Progress is refused
(`board/runner.go:742`). `docs/board-and-columns.md:165-168` says of the Blocked
column that "in every case the task carries" what it waits for and "the origin column
it came from"; a card that a person or an agent moves into Blocked (172:45-54) carries
neither a stamp nor an origin (`repository.go:1080`). A later park of such a card
keeps the empty origin, and its release puts the card into Todo.

### What the code does not promise

The models allow all of this, and the properties are stated so that it does not count
against them:

- Runs. One that waits more than two minutes as pending is failed by the reconciler
  although its process is healthy (`board/reconciler.go:101`). One whose heartbeats fail
  for longer than the claim's window loses its task, and its next `Update` turns its
  failed row running again (`board_config.go:566`). A stop frees the row before the
  goroutine on another replica learns of it (`board/control.go:58`). An admission whose
  run is stopped reads no settings and takes both gates as unlimited until the next
  admission (`board/runner.go:313`, where `docs/usage-limits.md:53` speaks of a hard
  limit): `ConcurrencyCap` is checked without stops.
- Order. A task that is moved to `need_revision` starts before its blockers; so does one
  whose blocker is named, or reopened, when it has passed its gate. `StartedInOrder`
  excepts these relations (`waived`) and no others.
- Parks. A card that is moved into Blocked by hand has no way back and, unless it waited
  for its work order, no stamp, so that only a person moves it on; `NamesReason` excepts
  the move. The take of another resource
  clears the stamp of a question that is still pending (`repository.go:1333`).
  `MarkWorkOrderWaiting` writes over whatever park the row has got since the
  dispatcher read it (`repository.go:1231`). An answer dispatches twice
  (`board/resume.go:51`). A stop's park can land on a card that was taken up again
  (`board/control.go:62`). A crash between a sweeper's take and its dispatch leaves a
  task that ran before to nobody (`board/work_order_sweeper.go:144`).
- Reviews. Without an open span a move passes the quorum
  (`board/review_quorum.go:49`); once a single reviewer is left, an earlier rejection is
  not weighed (line 64); after an error behind `RecordReviewVerdict` the sweep sees a
  verdict and does not ask again.
- Jobs. A job that was cancelled while it ran is completed over the cancellation
  (`job/service.go:224`); one that ran when the process ended is running for ever
  (line 177).
- Releases. A task that joins a draft while it is cut is carried by a release whose
  commit need not contain it (`release/cut.go:99`): `CarriedIsShipped` excepts batches.
  The copy of a rollback is compared by status only, so one that failed and was claimed
  again in between is indistinguishable from the one that was read. A process that ends
  between a settling write and the first hand-back stamp leaves a release nobody is
  woken for (`release/sweeper.go:131`): `HandBackAnswered` excepts it. One that ends
  between a finish or a rollback and the moves of its tasks leaves them in `done`. A
  git client that fails the ancestry check does not prevent a take-over
  (`release/open.go:342`).

## 5 Proofs

All proofs are checked by TLAPS and hold for every value of the constants that
satisfies the named assumptions of the modules.

- `SlotGateProofs`: `TypeCorrect`, `CountCorrect` (the counter equals the number of
  holders), `Refinement` (`ImplementsSemaphore`) and `WakeNeverLost` (`WakeupPending`).
  The count alone is not inductive, because `release` at zero would not decrement: the
  types go with it. `WakeupPending` needs two more facts: the notify list holds each
  sleeping caller once (`Listed`), and whoever enrols holds the mutex of a gate that is
  still full (`EnrolsFull`). That nobody's context is cancelled is part of the property.
  Assumptions: the callers are a finite set, limits are naturals.
- `BoardRunnerProofs`, whatever the environment does: `TypeCorrect`, `ExclusionCorrect`
  (`OneRunPerTask`), `CancellationFinal` (`CancelledIsFinal`) and `SlotsAccounted`
  (`SlotAccounting`). `OneRunPerTask` is not inductive: `Begin` trusts the map
  `activeTasks`, so the invariant adds `Held`, that every job between `beginTask` and
  `endTask` is recorded there. `SlotAccounting` needs to know where a job is: `Places`
  says that the queue and each parked list hold every job at most once and only jobs
  that are there (a parked one under its own task), `SlotKnown` which jobs have their
  task's slot; `Books` is all of these, and each exit of `runJob` is one lemma.
- `BoardRunnerProofs`, where nobody stops a run: `CapsHold` (`ConcurrencyCap`), for
  settings that can be read and of which one is at least as generous as every other.
  The hypotheses are what the code needs, for with a stop or an unreadable setting the
  limits are lifted (section 4). The invariant says that both counters are within the
  caps and that the limits are some settings before any job reaches a gate
  (`LimitsRead`). `NobodyStranded` (`NothingStranded`), where also no run is enqueued
  twice, no pending row is reaped and the queue has room for every job (256 in the
  code; `Enqueue` drops what finds it full): `RowPending` says that a waiting job's row
  is still pending, so no admission gives it up, `Owned` that an entry of `activeTasks`
  stands for a job on its way to `endTask`. It holds whatever the store and the settings
  answer. `runner_stranded` shows that stops break it.
  Assumptions: jobs and tasks are finite, the settings are naturals, `None` is none of
  the other constants.
- `RunFleetProofs`: `TypeCorrect`, `FleetExclusion` (`OneRunPerTask`) and
  `FleetKeepsLiveRuns` (`LiveRunKept`). The inductive invariant `Kept` says that an
  executing run's row is running or cancelled, that its age is at most the time since
  its heartbeat, so below the claim's window, and that no reconciler still lists it.
  The assumptions are the inequalities of the durations: `Beat < Live` and
  `Beat + Skew < Stale`, which are what the constants of the source must satisfy.
- `WorkOrderProofs`: `TypeCorrect`, `OrderKept` (`StartedInOrder`) and `WakeKept`
  (`NoLostWake`). `StartedInOrder` is not inductive, since a resumed dispatch passes no
  gate: `Ordered` says the same of every task whose gate lies behind it (`PastGate`),
  the calls on their way to a start and the cards in `need_revision` included, and
  `SettledStable` that what may start may start afterwards: a blocker that a move reopens,
  an edge that is added and a move past the gate are waived by the step that makes them.
  `NoLostWake` is inductive with the types. The theorems hold for any set of moves the
  board allows. The assumptions are about the constants and the first state: moves are
  between columns, the graph is one of tasks, and a task that starts in `in_progress` or
  `need_revision` has no blocker.
- `TaskParkProofs`: `TypeCorrect`, `ReasonNamed` (`NamesReason`) and
  `QuestionNeverDropped` (`QuestionHeld`), for any agents, staff, verdicts, environments
  and number of calls. The invariant adds `Unforced`, that a write prepared from an
  older read, or a work order's, exists only in the environments that have one. Both
  properties are action properties: each is then one statement per action, and follows
  from what the SQL statement keeps. A move into Blocked by hand is the one step that
  `NamesReason` excepts, and the proof shows that no other is needed.
- `JobQueueProofs`: `TypeCorrect`, `JobsRunOnce` (`RunsOnce`) and `WakeNeverLost`
  (`NoLostWake`). The invariant `Claims` adds that a claiming worker holds exactly one
  job, which nobody else has locked (`Held`, `Exclusive`), and that there are no workers
  without a process (`Down`). `NoLostWake` needs the channel to hold at least one token
  (`Buffered`): `max(maxWorkers, 1)` in the code.
- `ReviewRoundProofs`: `ReviewTyped` (`ReviewTypes`, with one verdict per round and
  reviewer) and `ReviewApproved` (`ApprovedByAll`), for any finite set of reviewers, any
  disturbances and any limit of the loop guard. The types go with what a call in flight
  knows (`RunCall`, `PersonCall`, `WritesBlocked`): only a reviewer's run records, and
  only a round that exists. `ApprovedByAll` is about the write, which comes a step after
  the round was weighed: the invariant `Solo` says that until a move is missed or
  misplaced (`torn`) the run's call and a person's do not overlap (`Alone`), that the
  card and the spans are where the call read them (`CardFollows`, `SpanFollows`), and
  that a verdict is recorded before it is weighed and weighed before it is written, in
  the round that goes on (`Counted`). `Decide` weighs a round only from two required
  reviewers on; that a lone reviewer's approval is then everybody's is `WeighedByAll`,
  by the cardinality of the required. `Subscribed` is what the property itself
  presupposes, that nobody's subscription changes. Assumptions: the reviewers are a
  finite set, to which neither `NoOne` nor the developer belongs.
- `ReleaseProofs`: `Exclusive` (`RollbackExclusive`), `Carried` (`CarriedIsShipped`),
  `Implements` (`ImplementsMachine`), `ReleaseTypes` (`TypeOK`) and `NoneStranded`
  (`NoTaskStranded`), for any set of tasks, worlds and bounds. The first three are not
  inductive: each writer relies on what its copy was when it was read. The invariant
  says of every call what it knows (`Knows`: the status of its copy, that its release
  exists), that outside of batches its copy has the release's commit and an opening
  contains what it takes over (`Ships`), and that whoever reverts holds the claim
  (`Holds`). Most steps are `Lawful`: they write one row along an edge, keep its commit
  and leave no call behind that undoes it. One lemma (`LawfulKeeps`) shows that such a
  step preserves the invariant; one lemma per action shows that the action is one, save
  `Create`, `Rollback` and `Revert`, which insert a row or pass on a claim and are shown
  directly. The refinement follows, because a row is only ever written along an edge.
  `NoTaskStranded` needs another idea. It is tempting to say that what a superseded
  release carried, its successor carries; but a supersede that lost its race adds tasks
  to a release (`Reread`) that a third merge may be about to replace by a copy of what
  it carried before. What is never lost is what a release was created with
  or, as a draft, joined by. The invariant `Tracked` says that there is a choice `Held`,
  of a set of tasks per release,
  such that a release carries what it holds, a superseded one has a later successor
  that is not superseded and holds as much, every merged task is held or still coming
  (or its opening was reported or died), and every call in flight hands on what it
  replaces. Every step but two keeps the choice (`FlowsOn`, and `Quiet` where the
  carried tasks stay as well); `Create` and the `Join` of a draft extend it.
  Assumptions: the tasks are finite, the worlds are worlds, neither the person nor the
  sweeper is a task, and `MaxHandBacks` is a natural number.

## 6 What is only model-checked, and what is not modelled

Only model-checked: the liveness properties (`CancelledReturns`, `AllAdmitted`,
`RunsEnd`, `StopReachesRun`, `DrainReturns`, `LostRunRecovered`, `ParkedStarts`,
`ParkResumes`, `ReviewSettles`, `PendingClaimed`, `ParkEnds`, `HandBackAnswered`), which
the prover cannot reach because fairness needs `ENABLED`. Every invariant, action
property and refinement that a passing run checks is also proved, under the hypotheses
of section 5. Only proved: the types of `JobQueue`.

Not modelled in the components that have a module: the execution itself and its stage
advance (`BoardRunner`, an arbitrary verdict); the tasks' columns and plan settlement
(`RunFleet`); store errors, the limit of 100 parked tasks per pass, a
race of two cycle guards, tasks without an assignee, and other parks on the same row
(`WorkOrder`); the batches of the sweepers, the reset time of a quota, and the parks of
the release watch, which are `Release`'s (`TaskPark`); human approvals and criteria
(`ReviewRound`); the prompt and the callback of a job (`JobQueue`); what `Release` lists
above. Components without a module are listed with the reason in `PROJECT.json`; most
are I/O, rendering or transformations of source text.

`PROJECT.json` lists the hazards of the code at their lines. Those without a property
say why.

## 7 Plan

Done: `SlotSemaphore`, `SlotGate`, `BoardRunner`, `RunFleet`, `WorkOrder`, `TaskPark`,
`ReviewRound`, `JobQueue`, `Release` with `ReleaseMachine`, and the proofs of each.
Next, in this order:

1. `Relations`: two cycle guards racing, the walk limit of 512 visits as a constant
   (`application/repository/workorder.go:96`), both directions of the order. The walk
   against reachability on graphs of three and four tasks. To prove: an atomic guard
   keeps the order acyclic.
2. `DispatchGates`: the order of the dispatcher's gates, two events at once, the
   pending-run index. Composes `WorkOrder`'s gate and `RunFleet`'s insertion.
3. `Orchestrator`: waves against a reference order, replanning, resumed plans.
4. Sessions and parked turns, on the pattern of `TaskPark`.
5. The pipeline gate and the criteria guards, around `ReviewRound`.
6. `Retry`: delays and attempts as operators, the LRU cache against a reference map.
7. The device hub, if the earlier ones leave room.

Theorems to add to the modules that exist: `BoardRunner`'s two gates as two
`SlotSemaphore`s, and `RunFleet` as a lease of the task, with at most one holder, lost
only by silence.
