--------------------------- MODULE SlotGateProofs ---------------------------
(***************************************************************************)
(* Proofs about SlotGate for any finite set of callers and any limits:     *)
(* type correctness, g.used counts the holders, the gate implements        *)
(* SlotSemaphore, and no wake-up is lost.                                  *)
(***************************************************************************)
EXTENDS SlotGate, FiniteSetTheorems, SequenceTheorems, TLAPS

USE DEF GatePCs

\* Every reachable state of the gate has its types: the mutex is held by a
\* caller or by nobody, the notify list names callers only.
THEOREM TypeCorrect == GateSpec => []GateTypeOK
<1>1. GateInit => GateTypeOK
  BY LimitsAssumption DEF GateInit, GateTypeOK
<1>2. GateTypeOK /\ [GateNext]_gateVars => GateTypeOK'
  <2> SUFFICES ASSUME GateTypeOK, [GateNext]_gateVars PROVE GateTypeOK'
    OBVIOUS
  <2> USE DEF GateTypeOK
  <2>1. CASE UNCHANGED gateVars
    BY <2>1 DEF gateVars
  <2>2. CASE SetLimit
    BY <2>2, LimitsAssumption DEF SetLimit
  <2>3. ASSUME NEW c \in Callers, Acquire(c) PROVE GateTypeOK'
    BY <2>3 DEF Acquire
  <2>4. ASSUME NEW c \in Callers, Enter(c) PROVE GateTypeOK'
    <3>1. CASE Refuse(c)
      BY <3>1 DEF Refuse
    <3>2. CASE GateAdmit(c)
      BY <3>2 DEF GateAdmit
    <3>3. CASE MustWait(c)
      BY <3>3 DEF MustWait
    <3>4. CASE Enrol(c)
      BY <3>4 DEF Enrol
    <3>5. CASE Leave(c)
      BY <3>5 DEF Leave
    <3> QED
      BY <2>4, <3>1, <3>2, <3>3, <3>4, <3>5 DEF Enter
  <2>5. ASSUME NEW c \in Callers, Release(c) PROVE GateTypeOK'
    <3>1. notify' \in Seq(Callers)
      BY <2>5, HeadTailProperties DEF Release
    <3> QED
      BY <2>5, <3>1 DEF Release
  <2>6. ASSUME NEW c \in Callers, Cancel(c) PROVE GateTypeOK'
    BY <2>6 DEF Cancel
  <2>7. ASSUME NEW c \in Callers, Callback(c) PROVE GateTypeOK'
    <3>1. CASE StartHook(c)
      BY <3>1 DEF StartHook
    <3>2. CASE Broadcast(c)
      BY <3>2 DEF Broadcast
    <3> QED
      BY <2>7, <3>1, <3>2 DEF Callback
  <2> QED
    BY <2>1, <2>2, <2>3, <2>4, <2>5, <2>6, <2>7 DEF GateNext
<1> QED
  BY <1>1, <1>2, PTL DEF GateSpec
-----------------------------------------------------------------------------
\* The set of holders is finite, so its cardinality moves by one with it.
LEMMA HoldersFinite == IsFiniteSet(Holders)
  BY CallersAssumption, FS_Subset DEF Holders

\* What a step does to the holders: letting one in, letting one out, nothing.
LEMMA HoldersStep ==
  ASSUME GateTypeOK, [GateNext]_gateVars
  PROVE  \/ \E c \in Callers \ Holders :
               GateAdmit(c) /\ Holders' = Holders \union {c}
         \/ \E c \in Holders : Release(c) /\ Holders' = Holders \ {c}
         \/ Holders' = Holders /\ used' = used
<1> USE DEF GateTypeOK, Holders, Counted
<1>1. CASE UNCHANGED gateVars
  BY <1>1 DEF gateVars
<1>2. CASE SetLimit
  BY <1>2 DEF SetLimit
<1>3. ASSUME NEW c \in Callers, Acquire(c) \/ Cancel(c) \/ Callback(c)
      PROVE  Holders' = Holders /\ used' = used
  BY <1>3 DEF Acquire, Cancel, Callback, StartHook, Broadcast
<1>4. ASSUME NEW c \in Callers, GateAdmit(c)
      PROVE  c \in Callers \ Holders /\ Holders' = Holders \union {c}
  BY <1>4 DEF GateAdmit, AtTest
<1>5. ASSUME NEW c \in Callers,
             Refuse(c) \/ MustWait(c) \/ Enrol(c) \/ Leave(c)
      PROVE  Holders' = Holders /\ used' = used
  BY <1>5 DEF Refuse, MustWait, Enrol, Leave, AtTest
<1>6. ASSUME NEW c \in Callers, Release(c)
      PROVE  c \in Holders /\ Holders' = Holders \ {c}
  BY <1>6 DEF Release
<1> QED
  BY <1>1, <1>2, <1>3, <1>4, <1>5, <1>6 DEF GateNext, Enter

\* g.used is the number of callers between their increment and their release,
\* in every state: no path through acquire leaks a slot or frees one twice.
THEOREM CountCorrect == GateSpec => []CountIsHolders
<1>1. GateInit => CountIsHolders
  <2> SUFFICES ASSUME GateInit PROVE CountIsHolders
    OBVIOUS
  <2>1. Holders = {}
    BY DEF GateInit, Holders, Counted
  <2> QED
    BY <2>1, FS_EmptySet DEF GateInit, CountIsHolders
<1>2. GateTypeOK /\ CountIsHolders /\ [GateNext]_gateVars => CountIsHolders'
  <2> SUFFICES ASSUME GateTypeOK, CountIsHolders, [GateNext]_gateVars
               PROVE  CountIsHolders'
    OBVIOUS
  <2>1. ASSUME NEW c \in Callers \ Holders,
               GateAdmit(c), Holders' = Holders \union {c}
        PROVE  CountIsHolders'
    <3>1. Cardinality(Holders \union {c}) = Cardinality(Holders) + 1
      BY HoldersFinite, FS_AddElement
    <3> QED
      BY <2>1, <3>1 DEF GateAdmit, CountIsHolders
  <2>2. ASSUME NEW c \in Holders, Release(c), Holders' = Holders \ {c}
        PROVE  CountIsHolders'
    <3>1. Cardinality(Holders \ {c}) = Cardinality(Holders) - 1
      BY HoldersFinite, FS_RemoveElement
    <3>2. Cardinality(Holders) > 0
      BY HoldersFinite, FS_EmptySet, FS_CardinalityType
    <3> QED
      BY <2>2, <3>1, <3>2 DEF Release, CountIsHolders
  <2>3. CASE Holders' = Holders /\ used' = used
    BY <2>3 DEF CountIsHolders
  <2> QED
    BY <2>1, <2>2, <2>3, HoldersStep
<1> QED
  BY <1>1, <1>2, TypeCorrect, PTL DEF GateSpec
-----------------------------------------------------------------------------
\* The instance counts with the same cardinality.
LEMMA SameCardinality == Semaphore!Cardinality(Holders) = Cardinality(Holders)
  BY DEF Semaphore!Cardinality, Cardinality

\* Behind its mutex, its notify list and its unlocked callbacks the gate grants
\* slots exactly as the semaphore does: never past the limit in force.
THEOREM Refinement == GateSpec => ImplementsSemaphore
<1>1. GateInit => Semaphore!Init
  BY DEF GateInit, Semaphore!Init, Holders, Counted
<1>2. GateTypeOK /\ CountIsHolders /\ [GateNext]_gateVars
        => [Semaphore!Next]_(Semaphore!vars)
  <2> SUFFICES ASSUME GateTypeOK, CountIsHolders, [GateNext]_gateVars
               PROVE  Semaphore!Next \/ UNCHANGED <<Holders, limit>>
    BY DEF Semaphore!vars
  <2>1. ASSUME NEW c \in Callers \ Holders,
               GateAdmit(c), Holders' = Holders \union {c}
        PROVE  Semaphore!Grant(c)
    BY <2>1, HoldersFinite, FS_CardinalityType, SameCardinality
       DEF GateAdmit, Full, Semaphore!Grant, CountIsHolders, GateTypeOK
  <2>2. ASSUME NEW c \in Holders, Release(c), Holders' = Holders \ {c}
        PROVE  Semaphore!Return(c)
    BY <2>2 DEF Release, Semaphore!Return
  <2>3. ASSUME Holders' = Holders
        PROVE  Semaphore!SetLimit \/ UNCHANGED <<Holders, limit>>
    <3>1. CASE SetLimit
      BY <2>3, <3>1 DEF SetLimit, Semaphore!SetLimit
    <3>2. CASE ~SetLimit
      <4>1. limit' = limit
        BY <3>2 DEF GateNext, gateVars, Acquire, Enter, Refuse, GateAdmit,
                    MustWait, Enrol, Leave, Release, Cancel, Callback, StartHook, Broadcast
      <4> QED
        BY <2>3, <4>1
    <3> QED
      BY <3>1, <3>2
  <2> QED
    BY <2>1, <2>2, <2>3, HoldersStep DEF Semaphore!Next, Holders
<1> QED
  BY <1>1, <1>2, TypeCorrect, CountCorrect, PTL
     DEF GateSpec, ImplementsSemaphore, Semaphore!Spec
-----------------------------------------------------------------------------
\* WakeupPending alone is not inductive: a caller leaves its test with the mutex
\* and enrols later, and a Signal must reach somebody who sleeps.

\* The notify list: its callers sleep, each of them is in it once.
Listed == \A i \in DOMAIN notify :
             /\ at[notify[i]] = "waiting"
             /\ \A k \in DOMAIN notify : notify[i] = notify[k] => i = k

\* A caller that enrols holds the mutex, and the gate is still full.
EnrolsFull == \A c \in Callers : at[c] = "enrolling" => mu = c /\ Full

WakeInv == GateTypeOK /\ CountIsHolders /\ Listed /\ EnrolsFull /\ WakeupPending

LEMMA NotifyProperties ==
  ASSUME GateTypeOK
  PROVE  /\ DOMAIN notify = 1..Len(notify) /\ Len(notify) \in Nat
         /\ \A i \in DOMAIN notify : notify[i] \in Callers
         /\ notify = <<>> <=> Len(notify) = 0
  BY LenProperties, ElementOfSeq, EmptySeq DEF GateTypeOK

\* Nobody sleeps on an empty list.
LEMMA EmptyWakes == ASSUME notify' = <<>> PROVE Listed' /\ WakeupPending'
  BY DEF Listed, WakeupPending

\* Who tests is not on the list.
LEMMA TesterAwake == ASSUME Listed, NEW c \in Callers, AtTest(c) PROVE ~InNotify(c)
  BY DEF Listed, AtTest, InNotify

\* What Signal does: the head of the list is awake, the others still sleep.
LEMMA SignalWakes ==
  ASSUME GateTypeOK, Listed, notify # <<>>,
         NEW c \in Callers, Release(c)
  PROVE  /\ Listed'
         /\ Head(notify) \in Callers \ Woken
         /\ Woken' = Woken \union {Head(notify)}
<1> DEFINE h == Head(notify)
<1>1. /\ notify \in Seq(Callers) /\ h \in Callers /\ notify[1] = h
      /\ notify' = Tail(notify) /\ notify' \in Seq(Callers)
      /\ Len(notify') = Len(notify) - 1 /\ Len(notify) \in Nat \ {0}
      /\ \A i \in 1..Len(notify') : notify'[i] = notify[i + 1]
  BY HeadTailProperties, NotifyProperties DEF GateTypeOK, Release
<1>2. DOMAIN notify = 1..Len(notify) /\ DOMAIN notify' = 1..Len(notify')
  BY <1>1, LenProperties
<1>3. Listed'
  <2> SUFFICES ASSUME NEW i \in DOMAIN notify'
               PROVE  /\ at'[notify'[i]] = "waiting"
                      /\ \A k \in DOMAIN notify' : notify'[i] = notify'[k] => i = k
    BY DEF Listed
  <2>1. i + 1 \in DOMAIN notify /\ notify'[i] = notify[i + 1] /\ notify[i + 1] # c
    BY <1>1, <1>2 DEF Listed, Release
  <2>2. at'[notify'[i]] = "waiting"
    BY <2>1 DEF Listed, Release
  <2>3. ASSUME NEW k \in DOMAIN notify', notify'[i] = notify'[k] PROVE i = k
    <3>1. k + 1 \in DOMAIN notify /\ notify'[k] = notify[k + 1]
      BY <1>1, <1>2
    <3>2. i + 1 = k + 1
      BY <2>1, <2>3, <3>1 DEF Listed
    <3> QED BY <3>2, <1>1, <1>2
  <2> QED BY <2>2, <2>3
<1>4. at[h] = "waiting" /\ InNotify(h)
  BY <1>1, <1>2 DEF Listed, InNotify
<1>5. \A d \in Callers : InNotify(d)' <=> InNotify(d) /\ d # h
  <2> SUFFICES ASSUME NEW d \in Callers PROVE InNotify(d)' <=> InNotify(d) /\ d # h
    OBVIOUS
  <2>1. ASSUME NEW i \in DOMAIN notify', notify'[i] = d PROVE InNotify(d) /\ d # h
    <3>1. i + 1 \in DOMAIN notify /\ notify[i + 1] = d /\ i + 1 # 1 /\ 1 \in DOMAIN notify
      BY <1>1, <1>2, <2>1
    <3> QED BY <3>1, <1>1 DEF Listed, InNotify
  <2>2. ASSUME NEW i \in DOMAIN notify, notify[i] = d, d # h PROVE InNotify(d)'
    <3>1. i - 1 \in DOMAIN notify' /\ notify'[i - 1] = notify[i]
      BY <1>1, <1>2, <2>2
    <3> QED BY <3>1, <2>2 DEF InNotify
  <2> QED BY <2>1, <2>2 DEF InNotify
<1>6. \A d \in Callers : at'[d] = "waiting" <=> at[d] = "waiting"
  BY DEF Release, GateTypeOK
<1>7. Woken' = Woken \union {h}
  BY <1>1, <1>4, <1>5, <1>6 DEF Woken
<1> QED BY <1>1, <1>3, <1>4, <1>7 DEF Woken

\* A step that neither lists nor wakes anybody.
LEMMA QuietWakes ==
  ASSUME GateTypeOK, Listed, WakeupPending,
         UNCHANGED <<limit, used, notify, cancelled>>,
         \A d \in Callers : at'[d] = "waiting" <=> at[d] = "waiting"
  PROVE  Listed' /\ WakeupPending'
<1>1. Listed'
  BY NotifyProperties DEF Listed
<1>2. Woken' = Woken
  BY DEF Woken, InNotify
<1> QED BY <1>1, <1>2 DEF WakeupPending

\* No wake-up is lost, for any callers and limits, as long as nobody's context is
\* cancelled: while callers sleep, woken ones are on their way to what is free.
THEOREM WakeNeverLost == GateSpec => []WakeupPending
<1>1. GateInit => WakeInv
  <2> SUFFICES ASSUME GateInit PROVE WakeInv
    OBVIOUS
  <2>1. Holders = {}
    BY DEF GateInit, Holders, Counted
  <2>2. GateTypeOK
    BY LimitsAssumption DEF GateInit, GateTypeOK
  <2> QED
    BY <2>1, <2>2, FS_EmptySet
       DEF GateInit, WakeInv, CountIsHolders, Listed, EnrolsFull, WakeupPending
<1>2. GateTypeOK' /\ CountIsHolders' /\ WakeInv /\ [GateNext]_gateVars => WakeInv'
  <2> SUFFICES ASSUME WakeInv, [GateNext]_gateVars
               PROVE  Listed' /\ EnrolsFull' /\ WakeupPending'
    BY DEF WakeInv
  <2> USE DEF WakeInv
  <2> /\ IsFiniteSet(Woken) /\ Cardinality(Woken) \in Nat
      /\ limit \in Nat /\ used \in Nat
    BY CallersAssumption, FS_Subset, FS_CardinalityType DEF Woken, GateTypeOK
  <2>1. CASE UNCHANGED gateVars
    BY <2>1, QuietWakes DEF gateVars, EnrolsFull, Full
  <2>2. CASE SetLimit
    <3>1. EnrolsFull'
      BY <2>2, CallersAssumption DEF SetLimit, EnrolsFull
    <3> QED BY <2>2, <3>1, EmptyWakes DEF SetLimit
  <2>3. ASSUME NEW c \in Callers,
               Acquire(c) \/ Refuse(c) \/ Leave(c) \/ Cancel(c) \/ StartHook(c)
        PROVE  Listed' /\ EnrolsFull' /\ WakeupPending'
    <3> USE DEF GateTypeOK
    <3>1. EnrolsFull'
      BY <2>3 DEF EnrolsFull, Full, Acquire, Refuse, Leave, Cancel, StartHook
    <3>2. CASE Acquire(c) \/ Leave(c) \/ StartHook(c)
      BY <3>1, <3>2, QuietWakes DEF Acquire, Leave, StartHook
    <3>3. CASE Refuse(c) \/ Cancel(c)
      <4>1. cancelled' # {} /\ notify' = notify
        BY <3>3 DEF Refuse, Cancel
      <4>2. \A d \in Callers : InNotify(d) => at'[d] = at[d]
        BY <3>3, TesterAwake DEF Refuse, Cancel
      <4>3. Listed'
        BY <4>1, <4>2, NotifyProperties DEF Listed, InNotify
      <4> QED BY <3>1, <4>1, <4>3 DEF WakeupPending
    <3> QED BY <2>3, <3>2, <3>3
  <2>4. ASSUME NEW c \in Callers, GateAdmit(c)
        PROVE  Listed' /\ EnrolsFull' /\ WakeupPending'
    <3> USE DEF GateTypeOK
    <3>1. EnrolsFull'
      BY <2>4, CallersAssumption DEF EnrolsFull, GateAdmit, AtTest
    <3>2. \A d \in Callers : InNotify(d) => at'[d] = at[d]
      BY <2>4, TesterAwake DEF GateAdmit
    <3>3. Listed'
      BY <2>4, <3>2, NotifyProperties DEF Listed, InNotify, GateAdmit
    <3>4. Woken' = Woken \ {c}
      BY <2>4 DEF Woken, InNotify, GateAdmit
    <3>5. Cardinality(Woken') >= Cardinality(Woken) - 1
      <4>1. Cardinality(Woken \ {c}) \in {Cardinality(Woken), Cardinality(Woken) - 1}
        BY FS_RemoveElement
      <4> QED BY <3>4, <4>1
    <3>6. Cardinality(Woken') \in Nat
      BY <3>4, FS_RemoveElement, FS_CardinalityType
    <3>7. WakeupPending'
      BY <2>4, <3>5, <3>6 DEF WakeupPending, GateAdmit
    <3> QED BY <3>1, <3>3, <3>7
  <2>5. ASSUME NEW c \in Callers, MustWait(c)
        PROVE  Listed' /\ EnrolsFull' /\ WakeupPending'
    <3> USE DEF GateTypeOK
    <3>1. EnrolsFull'
      BY <2>5, CallersAssumption DEF EnrolsFull, Full, MustWait, AtTest
    <3>2. \A d \in Callers : InNotify(d) => at'[d] = at[d]
      BY <2>5, TesterAwake DEF MustWait
    <3>3. Listed'
      BY <2>5, <3>2, NotifyProperties DEF Listed, InNotify, MustWait
    <3>4. Woken' \subseteq Woken
      BY <2>5 DEF Woken, InNotify, MustWait
    <3>5. Cardinality(Woken') \in Nat
      BY <3>4, FS_Subset, FS_CardinalityType
    <3>6. WakeupPending'
      BY <2>5, <3>5 DEF WakeupPending, MustWait, Full
    <3> QED BY <3>1, <3>3, <3>6
  <2>6. ASSUME NEW c \in Callers, Enrol(c)
        PROVE  Listed' /\ EnrolsFull' /\ WakeupPending'
    <3> USE DEF GateTypeOK
    <3>1. Full
      BY <2>6 DEF EnrolsFull, Enrol
    <3>2. EnrolsFull'
      BY <2>6 DEF EnrolsFull, Enrol
    <3>3. /\ DOMAIN notify' = 1..(Len(notify) + 1) /\ notify'[Len(notify) + 1] = c
          /\ \A i \in 1..Len(notify) : notify'[i] = notify[i]
      BY <2>6, AppendProperties, LenProperties DEF Enrol
    <3>4. \A i \in 1..Len(notify) : notify[i] # c
      BY <2>6, NotifyProperties DEF Listed, Enrol
    <3>5. Listed'
      <4>1. \A i \in DOMAIN notify' : at'[notify'[i]] = "waiting"
        BY <2>6, <3>3, NotifyProperties DEF Listed, Enrol
      <4>2. ASSUME NEW i \in DOMAIN notify', NEW k \in DOMAIN notify', notify'[i] = notify'[k]
            PROVE  i = k
        BY <4>2, <3>3, <3>4, NotifyProperties DEF Listed
      <4> QED BY <4>1, <4>2 DEF Listed
    <3>6. Cardinality(Woken') \in Nat
      BY CallersAssumption, FS_Subset, FS_CardinalityType DEF Woken
    <3>7. WakeupPending'
      BY <2>6, <3>1, <3>6 DEF WakeupPending, Enrol, Full
    <3> QED BY <3>2, <3>5, <3>7
  <2>7. ASSUME NEW c \in Callers, Release(c)
        PROVE  Listed' /\ EnrolsFull' /\ WakeupPending'
    <3>1. EnrolsFull'
      BY <2>7, CallersAssumption DEF EnrolsFull, Release, GateTypeOK
    <3>2. CASE notify = <<>>
      BY <2>7, <3>1, <3>2, EmptyWakes DEF Release
    <3>3. CASE notify # <<>>
      <4>1. /\ Listed'
            /\ Cardinality(Woken') = Cardinality(Woken) + 1
        BY <2>7, <3>3, SignalWakes, FS_AddElement
      <4>2. used' = used - 1
        <5>1. c \in Holders
          BY <2>7 DEF Holders, Counted, Release
        <5>2. used > 0
          BY <5>1, HoldersFinite, FS_EmptySet, FS_CardinalityType DEF CountIsHolders
        <5> QED BY <2>7, <5>2 DEF Release
      <4>3. WakeupPending'
        BY <2>7, <3>3, <4>1, <4>2 DEF WakeupPending, Release
      <4> QED BY <3>1, <4>1, <4>3
    <3> QED BY <3>2, <3>3
  <2>8. ASSUME NEW c \in Callers, Broadcast(c)
        PROVE  Listed' /\ EnrolsFull' /\ WakeupPending'
    BY <2>8, EmptyWakes DEF Broadcast, EnrolsFull, Full
  <2> QED
    BY <2>1, <2>2, <2>3, <2>4, <2>5, <2>6, <2>7, <2>8 DEF GateNext, Enter, Callback
<1> QED
  BY <1>1, <1>2, TypeCorrect, CountCorrect, PTL DEF GateSpec, WakeInv
=============================================================================
