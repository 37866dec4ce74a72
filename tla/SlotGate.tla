------------------------------ MODULE SlotGate ------------------------------
(***************************************************************************)
(* application/board/slot_gate.go: the counting gate the board runner uses *)
(* for its agent slots and its task slots.  A mutex, a condition variable  *)
(* and two integers; a waiter's context is tied to the condition variable  *)
(* by context.AfterFunc, whose callback broadcasts WITHOUT the mutex.      *)
(*                                                                         *)
(* One step is one critical section, except that a waiter that found the   *)
(* gate full keeps the mutex from its test to its enrolment in the         *)
(* condition variable's notify list: the unlocked broadcast can fall       *)
(* between the two.  sync.Cond and context are modelled from how this file *)
(* uses them: Signal wakes the waiter enrolled first, a cancelled context  *)
(* starts its callback in a goroutine of its own, and stop() prevents a    *)
(* callback that was not started yet.                                      *)
(***************************************************************************)
EXTENDS Naturals, Sequences, FiniteSets

CONSTANTS Callers,      \* goroutines, each calling acquire at most once
          Limits,       \* the values setLimit is called with
          Cancellable,  \* the callers whose context may be cancelled
          NoOne         \* the mutex is free

ASSUME CallersAssumption == IsFiniteSet(Callers) /\ NoOne \notin Callers
ASSUME LimitsAssumption  == Limits \subseteq Nat

VARIABLES
    limit,      \* g.limit
    used,       \* g.used
    mu,         \* the caller that holds g.mu between two steps
    notify,     \* the notify list of g.cond, first enrolled first
    cancelled,  \* callers whose context is cancelled
    hook,       \* the AfterFunc of each caller's acquire
    at          \* where each caller is

gateVars == <<limit, used, mu, notify, cancelled, hook, at>>

GatePCs == {"out", "locking", "enrolling", "waiting", "granting", "refusing",
            "admitted", "refused", "gone"}

\* Counted in g.used: from the increment to the release.
Counted(c) == at[c] \in {"granting", "admitted"}
Holders    == {c \in Callers : Counted(c)}

Full == limit > 0 /\ used >= limit

GateInit == /\ limit = 0
            /\ used = 0
            /\ mu = NoOne
            /\ notify = <<>>
            /\ cancelled = {}
            /\ hook = [c \in Callers |-> "none"]
            /\ at = [c \in Callers |-> "out"]
-----------------------------------------------------------------------------
\* (mutant: the new limit is not broadcast)
SetLimitSilently ==
    /\ mu = NoOne
    /\ limit' \in Limits
    /\ UNCHANGED <<used, mu, notify, cancelled, hook, at>>
\* setLimit: every waiter re-tests the new limit.
SetLimit == /\ mu = NoOne
            /\ limit' \in Limits
            /\ notify' = <<>>
            /\ UNCHANGED <<used, mu, cancelled, hook, at>>

\* acquire, up to its Lock: the callback is registered on the context.
Acquire(c) == /\ at[c] = "out"
              /\ at' = [at EXCEPT ![c] = "locking"]
              /\ hook' = [hook EXCEPT ![c] = "armed"]
              /\ UNCHANGED <<limit, used, mu, notify, cancelled>>

\* The loop test is evaluated with the mutex held: on entry, and again by a
\* waiter that is no longer on the notify list.
InNotify(c) == \E i \in DOMAIN notify : notify[i] = c
AtTest(c) == /\ mu = NoOne
             /\ \/ at[c] = "locking"
                \/ at[c] = "waiting" /\ ~InNotify(c)

\* (mutant: a refused caller gives back a slot it never took)
RefuseReleases(c) ==
    /\ AtTest(c)
    /\ c \in cancelled
    /\ used' = used - 1
    /\ at' = [at EXCEPT ![c] = "refusing"]
    /\ UNCHANGED <<limit, mu, notify, cancelled, hook>>
\* (mutant: the cancelled path is checked after the increment)
RefuseCounted(c) ==
    /\ AtTest(c)
    /\ c \in cancelled
    /\ used' = used + 1
    /\ at' = [at EXCEPT ![c] = "refusing"]
    /\ UNCHANGED <<limit, mu, notify, cancelled, hook>>
Refuse(c) == /\ AtTest(c)
             /\ c \in cancelled
             /\ at' = [at EXCEPT ![c] = "refusing"]
             /\ UNCHANGED <<limit, used, mu, notify, cancelled, hook>>

\* (mutant: the loop is an if, a woken waiter goes straight in)
AdmitOnWake(c) ==
    /\ AtTest(c)
    /\ c \notin cancelled
    /\ ~Full \/ at[c] = "waiting"
    /\ used' = used + 1
    /\ at' = [at EXCEPT ![c] = "granting"]
    /\ UNCHANGED <<limit, mu, notify, cancelled, hook>>
GateAdmit(c) == /\ AtTest(c)
                /\ c \notin cancelled
                /\ ~Full
                /\ used' = used + 1
                /\ at' = [at EXCEPT ![c] = "granting"]
                /\ UNCHANGED <<limit, mu, notify, cancelled, hook>>

\* The gate is full: cond.Wait is entered with the mutex still held ...
MustWait(c) == /\ AtTest(c)
               /\ c \notin cancelled
               /\ Full
               /\ mu' = c
               /\ at' = [at EXCEPT ![c] = "enrolling"]
               /\ UNCHANGED <<limit, used, notify, cancelled, hook>>

\* ... enrols the caller, and only then unlocks.
Enrol(c) == /\ at[c] = "enrolling"
            /\ notify' = Append(notify, c)
            /\ mu' = NoOne
            /\ at' = [at EXCEPT ![c] = "waiting"]
            /\ UNCHANGED <<limit, used, cancelled, hook>>

\* The deferred stop(), which runs after the deferred Unlock.
Leave(c) == /\ at[c] \in {"granting", "refusing"}
            /\ at' = [at EXCEPT ![c] = IF @ = "granting" THEN "admitted" ELSE "refused"]
            /\ hook' = [hook EXCEPT ![c] = IF @ = "armed" THEN "none" ELSE @]
            /\ UNCHANGED <<limit, used, mu, notify, cancelled>>

\* (mutant: nobody is woken)
ReleaseSilently(c) ==
    /\ at[c] = "admitted"
    /\ mu = NoOne
    /\ used' = IF used > 0 THEN used - 1 ELSE used
    /\ at' = [at EXCEPT ![c] = "gone"]
    /\ UNCHANGED <<limit, mu, notify, cancelled, hook>>
\* release: give the slot back and wake the waiter enrolled first.
Release(c) == /\ at[c] = "admitted"
              /\ mu = NoOne
              /\ used' = IF used > 0 THEN used - 1 ELSE used
              /\ notify' = IF notify = <<>> THEN notify ELSE Tail(notify)
              /\ at' = [at EXCEPT ![c] = "gone"]
              /\ UNCHANGED <<limit, mu, cancelled, hook>>
-----------------------------------------------------------------------------
\* The context package, outside the mutex.

\* A stop, a drain deadline or a shutdown cancels the caller's context.
Cancel(c) == /\ c \in Cancellable \ cancelled
             /\ cancelled' = cancelled \union {c}
             /\ UNCHANGED <<limit, used, mu, notify, hook, at>>

\* The cancelled context starts the registered callback.
StartHook(c) == /\ c \in cancelled
                /\ hook[c] = "armed"
                /\ hook' = [hook EXCEPT ![c] = "started"]
                /\ UNCHANGED <<limit, used, mu, notify, cancelled, at>>

\* (mutant: the callback reports nothing)
BroadcastNothing(c) ==
    /\ hook[c] = "started"
    /\ hook' = [hook EXCEPT ![c] = "none"]
    /\ UNCHANGED <<limit, used, mu, notify, cancelled, at>>
\* The callback: g.cond.Broadcast(), without g.mu.
Broadcast(c) == /\ hook[c] = "started"
                /\ hook' = [hook EXCEPT ![c] = "none"]
                /\ notify' = <<>>
                /\ UNCHANGED <<limit, used, mu, cancelled, at>>
-----------------------------------------------------------------------------
Enter(c)    == \/ Refuse(c) \/ GateAdmit(c) \/ MustWait(c)
               \/ Enrol(c) \/ Leave(c)
Callback(c) == StartHook(c) \/ Broadcast(c)

GateNext == \/ SetLimit
            \/ \E c \in Callers : \/ Acquire(c) \/ Enter(c) \/ Release(c)
                                  \/ Cancel(c) \/ Callback(c)

GateSpec == GateInit /\ [][GateNext]_gateVars

\* A runnable goroutine runs, an admitted run ends (the agent sessions a slot
\* is held for are bounded by their own timeouts), and sync.Mutex hands itself
\* to a waiter it has starved, hence SF for what needs the mutex.  No fairness
\* on the callers' arrival, on setLimit or on cancellation.
GateFairSpec == /\ GateSpec
                /\ \A c \in Callers : /\ SF_gateVars(Enter(c))
                                      /\ SF_gateVars(Release(c))
                                      /\ WF_gateVars(Callback(c))
-----------------------------------------------------------------------------
GateTypeOK == /\ limit \in Nat
              /\ used \in Nat
              /\ mu \in Callers \union {NoOne}
              /\ notify \in Seq(Callers)
              /\ cancelled \subseteq Callers
              /\ hook \in [Callers -> {"none", "armed", "started"}]
              /\ at \in [Callers -> GatePCs]

\* g.used counts exactly the callers that were let in and have not released:
\* a refused caller leaves no slot behind, an admitted one gives back one.
CountIsHolders == used = Cardinality(Holders)

\* The gate with its mutex, its notify list and its callbacks is a semaphore.
Semaphore == INSTANCE SlotSemaphore WITH holders <- Holders
ImplementsSemaphore == Semaphore!Spec

\* No lost wake-up: while callers sleep on the notify list, every free slot has
\* a woken waiter on its way to it.  It holds as long as no context is
\* cancelled: a cancelled waiter takes a Signal with it.
Woken == {c \in Callers : at[c] = "waiting" /\ ~InNotify(c)}
WakeupPending ==
    notify # <<>> /\ cancelled = {}
        => limit > 0 /\ limit <= used + Cardinality(Woken)

\* A caller that is not cancelled gets its slot once the holders give theirs
\* back, whatever the settings do to the limit and the others do meanwhile.
WaiterAdmitted ==
    \A c \in Callers \ Cancellable :
        at[c] = "waiting" ~> at[c] \in {"granting", "admitted", "gone"}

\* The same while nobody's context is cancelled.
AllAdmitted ==
    [](cancelled = {}) =>
        \A c \in Callers :
            at[c] = "waiting" ~> at[c] \in {"granting", "admitted", "gone"}

\* acquire returns once its context is cancelled.
CancelledReturns ==
    \A c \in Cancellable :
        c \in cancelled /\ at[c] = "waiting" ~> at[c] # "waiting"
=============================================================================
