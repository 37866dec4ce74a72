------------------------- MODULE ReviewRoundProofs -------------------------
(***************************************************************************)
(* The code review of a task for any finite set of reviewers, any          *)
(* disturbances and any limit of the loop guard: its types, with one       *)
(* verdict per round and reviewer, and that a review is approved by all or *)
(* not at all.                                                             *)
(***************************************************************************)
EXTENDS ReviewRound, FiniteSetTheorems, TLAPS

USE DEF card, visits, review, reviewVars

\* The calls of UpdateTask in flight, and whose they are.  The run's is a verdict
\* until it is weighed; only an edit of a blocked card writes "blocked".
Steps == {"spans", "record", "weigh", "write", "emit", "gate"}
Calls == [step : Steps, from : ReviewColumns, to : ReviewColumns, round : Nat]
CallTypes == call \in [Callers -> Calls \union {NoCall}] /\ torn \in BOOLEAN
RunCall ==
    LET now == call["run"]
    IN  /\ now.step # "none" => /\ executes # NoOne
                                /\ now.from # "blocked"
                                /\ now.to = "ready_for_qa" => executes \in Reviewers
        /\ now.step \in {"spans", "record", "weigh"} => /\ executes \in Reviewers
                                                        /\ now.from = "code_review"
                                                        /\ now.to # "code_review"
        /\ now.step \in {"record", "weigh"} => now.round \in 1..round
PersonCall == call["person"].step \notin {"spans", "record", "weigh"}
WritesBlocked ==
    \A c \in Callers : call[c].step # "none" /\ call[c].to = "blocked"
                           => call[c].from = "blocked" /\ call[c].step = "write"

\* A round that counts has begun, and a card parked on a resource has a way back.
Visited == /\ within => round >= 1
           /\ span = "code_review" => within
           /\ stamp = "device" => origin \in ReviewColumns \ {"blocked"}

Typed == /\ ReviewTypes /\ CallTypes /\ RunCall /\ PersonCall /\ WritesBlocked
         /\ Visited

\* A call in flight has its fields.
LEMMA CallFields ==
    ASSUME CallTypes, NEW c \in Callers
    PROVE  /\ call[c].step \in Steps \union {"none"}
           /\ call[c].step = "none" <=> call[c] = NoCall
           /\ call[c].step # "none" => call[c] \in Calls
BY DEF CallTypes, Calls, NoCall, Steps

\* RecordMove: a span opens, and a round begins where a column other than blocked
\* lay between.
LEMMA EntersTypes ==
    ASSUME ReviewTypes, Visited, NEW c \in ReviewColumns, Enters(c)
    PROVE  /\ span' \in ReviewColumns /\ round' \in Nat /\ within' \in BOOLEAN
           /\ round <= round'
           /\ within' => round' >= 1
           /\ span' = "code_review" => within'
<1> USE DEF ReviewTypes, Visited, Enters, ReviewColumns
<1>1. CASE c = "code_review"
  <2>1. span' = c /\ within' = TRUE
    BY <1>1
  <2>2. CASE within
    BY <1>1, <2>1, <2>2
  <2>3. CASE ~within
    BY <1>1, <2>1, <2>3
  <2> QED
    BY <2>2, <2>3
<1>2. CASE c = "blocked"
  BY <1>2
<1>3. CASE c # "code_review" /\ c # "blocked"
  <2>1. span' = c /\ round' = round /\ within' = FALSE
    BY <1>3
  <2> QED
    BY <1>3, <2>1
<1> QED
  BY <1>1, <1>2, <1>3

\* The verdicts of the rounds so far stay verdicts of the rounds so far.
LEMMA VerdictsKept ==
    ASSUME ReviewTypes, verdicts' \subseteq verdicts, round' \in Nat, round <= round'
    PROVE  /\ \A v \in verdicts' : /\ v.round \in 1..round'
                                   /\ v.agent \in Reviewers
                                   /\ v.verdict \in {"approve", "reject"}
           /\ \A v, u \in verdicts' : v.round = u.round /\ v.agent = u.agent => v = u
BY DEF ReviewTypes

\* A move dispatches agents of the task.
LEMMA StageTypes ==
    ASSUME ReviewTypes, NEW c
    PROVE  Stage(c) \subseteq Reviewers \union {Dev}
BY DEF ReviewTypes, Stage

LEMMA TypedInit == ReviewInit => Typed
<1> SUFFICES ASSUME ReviewInit PROVE Typed
  OBVIOUS
<1>1. \A c \in Callers : call[c] = NoCall /\ call[c].step = "none"
  BY DEF ReviewInit, NoCall
<1>2. ReviewTypes /\ Visited
  BY DEF ReviewInit, ReviewTypes, ReviewColumns, Visited
<1>3. CallTypes
  BY DEF ReviewInit, CallTypes
<1>4. RunCall /\ PersonCall /\ WritesBlocked
  BY <1>1 DEF RunCall, PersonCall, WritesBlocked, Callers
<1> QED
  BY <1>2, <1>3, <1>4 DEF Typed

\* A call begins.
LEMMA CalledTypes ==
    ASSUME Typed, NEW c \in Callers, NEW first \in {"spans", "write"},
           NEW to \in ReviewColumns, Called(c, first, to)
    PROVE  /\ CallTypes'
           /\ call[c].step = "none"
           /\ call'[c] = [step |-> first, from |-> column, to |-> to, round |-> 0]
           /\ \A o \in Callers \ {c} : call'[o] = call[o]
<1> USE DEF Typed
<1>1. [step |-> first, from |-> column, to |-> to, round |-> 0] \in Calls
  BY DEF Calls, Steps, ReviewTypes
<1>2. call[c] = NoCall
      /\ call' = [call EXCEPT ![c] = [step |-> first, from |-> column, to |-> to,
                                      round |-> 0]]
      /\ torn' = (torn \/ CallInFlight)
  BY DEF Called
<1>3. call \in [Callers -> Calls \union {NoCall}]
  BY DEF CallTypes
<1>4. call' \in [Callers -> Calls \union {NoCall}]
  BY <1>1, <1>2, <1>3
<1>5. torn' \in BOOLEAN
  BY <1>2
<1> QED
  BY <1>2, <1>3, <1>4, <1>5, CallFields DEF CallTypes

\* The steps that leave the card, the verdicts and the calls alone.
LEMMA TypedAround ==
    ASSUME Typed,
           \/ Assign \/ PersonComments \/ EndReviewRun
           \/ \E a \in Reviewers \union {Dev} : Begin(a)
           \/ \E a \in Reviewers : Subscribe(a)
    PROVE  Typed'
<1> USE DEF Typed, ReviewTypes
<1>1. CASE Assign
  BY <1>1 DEF Assign, CallTypes, RunCall, PersonCall, WritesBlocked, Visited
<1>2. CASE PersonComments
  BY <1>2, StageTypes
  DEF PersonComments, Disturbs, CallTypes, RunCall, PersonCall, WritesBlocked, Visited
<1>3. CASE EndReviewRun
  BY <1>3, CallFields
  DEF EndReviewRun, CallTypes, RunCall, PersonCall, WritesBlocked, Visited, Callers
<1>4. ASSUME NEW a \in Reviewers \union {Dev}, Begin(a) PROVE Typed'
  <2>1. call["run"].step = "none"
    BY <1>4 DEF Begin, RunCall
  <2>2. RunCall'
    BY <1>4, <2>1 DEF Begin, RunCall
  <2>3. verdicts' \subseteq verdicts /\ UNCHANGED round
    BY <1>4 DEF Begin, Given
  <2>4. /\ \A v \in verdicts' : /\ v.round \in 1..round'
                                /\ v.agent \in Reviewers
                                /\ v.verdict \in {"approve", "reject"}
        /\ \A v, u \in verdicts' : v.round = u.round /\ v.agent = u.agent => v = u
    BY <2>3
  <2>5. ReviewTypes'
    BY <1>4, <2>4 DEF Begin
  <2> QED
    BY <1>4, <2>2, <2>5 DEF Begin, CallTypes, PersonCall, WritesBlocked, Visited
<1>5. ASSUME NEW a \in Reviewers, Subscribe(a) PROVE Typed'
  BY <1>5 DEF Subscribe, Disturbs, CallTypes, RunCall, PersonCall, WritesBlocked, Visited
<1> QED
  BY <1>1, <1>2, <1>3, <1>4, <1>5

\* A call of UpdateTask begins: the developer's, a reviewer's, or a person's.
LEMMA TypedCalls ==
    ASSUME Typed, SubmitWork \/ Verdict \/ PersonCalls
    PROVE  Typed'
<1> USE DEF Typed, Callers
<1>1. ASSUME SubmitWork \/ Verdict PROVE Typed'
  <2>1. PICK first \in {"spans", "write"}, to \in ReviewColumns \ {"blocked"} :
            /\ Called("run", first, to)
            /\ first = "spans" => executes \in Reviewers /\ column = "code_review" /\ to # column
            /\ to = "ready_for_qa" => executes \in Reviewers
            /\ column # "blocked" /\ executes # NoOne
    BY <1>1, ReviewersAssumption DEF SubmitWork, Verdict, ReviewColumns
  <2>2. UNCHANGED <<card, review, queue, executes>>
    BY <1>1 DEF SubmitWork, Verdict
  <2>3. CallTypes' /\ call'["run"] = [step |-> first, from |-> column, to |-> to, round |-> 0]
        /\ call'["person"] = call["person"]
    BY <2>1, CalledTypes
  <2>4. RunCall'
    BY <2>1, <2>2, <2>3 DEF RunCall
  <2>5. PersonCall' /\ WritesBlocked'
    BY <2>1, <2>3 DEF PersonCall, WritesBlocked
  <2> QED
    BY <2>2, <2>3, <2>4, <2>5 DEF ReviewTypes, Visited
<1>2. ASSUME PersonCalls PROVE Typed'
  <2>1. PICK to \in (ReviewColumns \ {"blocked"}) \union {column} : Called("person", "write", to)
    BY <1>2 DEF PersonCalls
  <2>2. UNCHANGED <<card, review, queue, executes>>
    BY <1>2 DEF PersonCalls
  <2>3. to \in ReviewColumns /\ (to = "blocked" => column = "blocked")
    BY <2>1 DEF ReviewTypes
  <2>4. CallTypes' /\ call'["run"] = call["run"]
        /\ call'["person"] = [step |-> "write", from |-> column, to |-> to, round |-> 0]
    BY <2>1, <2>3, CalledTypes
  <2>5. RunCall' /\ PersonCall' /\ WritesBlocked'
    BY <2>2, <2>3, <2>4 DEF RunCall, PersonCall, WritesBlocked
  <2> QED
    BY <2>2, <2>4, <2>5 DEF ReviewTypes, Visited
<1> QED
  BY <1>1, <1>2

\* The run's call up to its write: the spans, the verdict, the weighing.
LEMMA TypedVerdict ==
    ASSUME Typed, ReadRound \/ Record \/ Weigh
    PROVE  Typed'
<1> USE DEF Typed, Callers
<1> DEFINE now == call["run"]
<1>1. now.step \in {"spans", "record", "weigh"} /\ now \in Calls
  BY CallFields DEF ReadRound, Record, Weigh
<1>2. /\ executes \in Reviewers /\ executes # NoOne
      /\ now.from = "code_review" /\ now.to # "code_review" /\ now.to # "blocked"
  BY <1>1, ReviewersAssumption DEF RunCall, WritesBlocked
<1>3. CASE ReadRound
  <2>1. /\ call'["run"].step = IF RoundOpen THEN "record" ELSE "write"
        /\ call'["run"].from = now.from /\ call'["run"].to = now.to
        /\ call'["run"].round = round
        /\ call'["person"] = call["person"]
    BY <1>1, <1>3 DEF ReadRound, Calls, CallTypes
  <2>2. RoundOpen => round \in 1..round
    BY DEF RoundOpen, Visited, ReviewTypes
  <2>3. CallTypes'
    BY <1>1, <1>3 DEF ReadRound, CallTypes, Calls, Steps, ReviewTypes
  <2>4. RunCall' /\ PersonCall' /\ WritesBlocked'
    BY <1>2, <1>3, <2>1, <2>2 DEF ReadRound, RunCall, PersonCall, WritesBlocked
  <2> QED
    BY <1>3, <2>3, <2>4 DEF ReadRound, ReviewTypes, Visited
<1>4. CASE Record
  <2>1. /\ call'["run"].step = "weigh" /\ call'["run"].from = now.from
        /\ call'["run"].to = now.to /\ call'["run"].round = now.round
        /\ call'["person"] = call["person"]
    BY <1>1, <1>4 DEF Record, Calls, CallTypes
  <2>2. CallTypes'
    BY <1>1, <1>4 DEF Record, CallTypes, Calls, Steps
  <2>3. now.round \in 1..round
    BY <1>4 DEF Record, RunCall
  <2>4. RunCall' /\ PersonCall' /\ WritesBlocked'
    BY <1>2, <1>4, <2>1, <2>3 DEF Record, RunCall, PersonCall, WritesBlocked
  <2>5. /\ Voted.round \in 1..round /\ Voted.agent = executes
        /\ Voted.verdict \in {"approve", "reject"}
    BY <2>3 DEF Voted
  <2>6. verdicts' = {v \in verdicts : v.round # Voted.round \/ v.agent # executes}
                        \union {Voted}
    BY <1>4 DEF Record
  <2> HIDE DEF Voted
  <2>7. \A v \in verdicts' : /\ v.round \in 1..round
                             /\ v.agent \in Reviewers
                             /\ v.verdict \in {"approve", "reject"}
    BY <1>2, <2>5, <2>6 DEF ReviewTypes
  <2>8. \A v, u \in verdicts' : v.round = u.round /\ v.agent = u.agent => v = u
    BY <2>5, <2>6 DEF ReviewTypes
  <2>9. ReviewTypes'
    BY <1>4, <2>7, <2>8 DEF Record, ReviewTypes
  <2> QED
    BY <1>4, <2>2, <2>4, <2>9 DEF Record, Visited
<1>5. CASE Weigh
  <2>1. PICK new : /\ call' = [call EXCEPT !["run"] = new]
                   /\ \/ new = NoCall
                      \/ \E to \in {now.to, "need_revision"} :
                             new = [now EXCEPT !.step = "write", !.to = to]
    BY <1>5 DEF Weigh
  <2>2. \/ new = NoCall
        \/ /\ new \in Calls /\ new.step = "write" /\ new.from = now.from
           /\ new.to \in {now.to, "need_revision"}
    BY <1>1, <2>1 DEF Calls, Steps, ReviewColumns
  <2>3. CallTypes' /\ call'["run"] = new /\ call'["person"] = call["person"]
    BY <1>5, <2>1, <2>2 DEF Weigh, CallTypes
  <2>4. RunCall' /\ PersonCall' /\ WritesBlocked'
    BY <1>2, <1>5, <2>2, <2>3 DEF Weigh, RunCall, PersonCall, WritesBlocked, NoCall
  <2> QED
    BY <1>5, <2>3, <2>4 DEF Weigh, ReviewTypes, Visited
<1> QED
  BY <1>3, <1>4, <1>5

\* The call goes on as in now, or ends: the other caller's call is as it was.
LEMMA CallMoves ==
    ASSUME Typed, NEW c \in Callers, call[c].step \in {"write", "emit"},
           NEW next \in {"emit", "gate"},
           call[c].to # "blocked",
           \/ call' = [call EXCEPT ![c].step = next]
           \/ call' = [call EXCEPT ![c] = [call[c] EXCEPT !.step = next]],
           UNCHANGED <<torn, executes>>, round' \in Nat, round <= round'
    PROVE  /\ CallTypes' /\ RunCall' /\ PersonCall' /\ WritesBlocked'
           /\ call'[c].step = next /\ call'[c].from = call[c].from
           /\ call'[c].to = call[c].to /\ call'[c].round = call[c].round
           /\ \A o \in Callers \ {c} : call'[o] = call[o]
<1> USE DEF Typed
<1>1. call[c] \in Calls /\ call \in [Callers -> Calls \union {NoCall}]
  BY CallFields DEF CallTypes, Calls, NoCall
<1>2. [call[c] EXCEPT !.step = next] \in Calls
  BY <1>1 DEF Calls, Steps
<1>3. call' = [call EXCEPT ![c] = [call[c] EXCEPT !.step = next]]
  BY <1>1
<1>4. CallTypes'
  BY <1>1, <1>2, <1>3 DEF CallTypes
<1>5. /\ call'[c].step = next /\ call'[c].from = call[c].from
      /\ call'[c].to = call[c].to /\ call'[c].round = call[c].round
      /\ \A o \in Callers \ {c} : call'[o] = call[o]
  BY <1>1, <1>3 DEF Calls
<1>6. round \in Nat
  BY DEF ReviewTypes
<1>7. RunCall' /\ PersonCall' /\ WritesBlocked'
  <2>1. CASE c = "run"
    BY <1>5, <2>1 DEF RunCall, PersonCall, WritesBlocked, Callers
  <2>2. CASE c = "person"
    BY <1>5, <1>6, <2>2 DEF RunCall, PersonCall, WritesBlocked, Callers
  <2> QED
    BY <2>1, <2>2 DEF Callers
<1> QED
  BY <1>4, <1>5, <1>7

LEMMA CallEnds ==
    ASSUME Typed, NEW c \in Callers, call' = [call EXCEPT ![c] = NoCall],
           torn' \in BOOLEAN, UNCHANGED executes \/ c = "run",
           round' \in Nat, round <= round'
    PROVE  /\ CallTypes' /\ RunCall' /\ PersonCall' /\ WritesBlocked'
           /\ call'[c].step = "none"
           /\ \A o \in Callers \ {c} : call'[o] = call[o]
<1> USE DEF Typed
<1>1. call'[c].step = "none" /\ \A o \in Callers \ {c} : call'[o] = call[o]
  BY DEF CallTypes, NoCall
<1>2. CallTypes'
  BY DEF CallTypes
<1>3. round \in Nat
  BY DEF ReviewTypes
<1>4. RunCall' /\ PersonCall' /\ WritesBlocked'
  BY <1>1, <1>3 DEF RunCall, PersonCall, WritesBlocked, Callers
<1> QED
  BY <1>1, <1>2, <1>4

\* The write, the event with its span, the guard and the runs.
LEMMA TypedServes ==
    ASSUME Typed, NEW c \in Callers, Serves(c)
    PROVE  Typed'
<1> USE DEF Typed
<1> DEFINE now == call[c]
<1>1. now.step \in {"write", "emit", "gate"} /\ now \in Calls /\ now.to \in ReviewColumns
  BY CallFields DEF Serves, Write, Emit, Gate, Calls
<1>2. round \in Nat
  BY DEF ReviewTypes
<1>3. CASE Write(c)
  <2>1. ReviewTypes' /\ Visited'
    <3>1. ReviewTypes'
      BY <1>1, <1>3 DEF Write, ReviewTypes
    <3>2. Visited'
      BY <1>1, <1>3 DEF Write, Visited
    <3> QED
      BY <3>1, <3>2
  <2>2. CASE now.to = now.from
    <3>1. call' = [call EXCEPT ![c] = NoCall] /\ UNCHANGED <<executes, torn, round>>
      BY <1>3, <2>2 DEF Write
    <3>2. torn' \in BOOLEAN /\ round' \in Nat /\ round <= round'
      BY <1>2, <3>1 DEF CallTypes
    <3> QED
      BY <2>1, <3>1, <3>2, CallEnds
  <2>3. CASE now.to # now.from
    <3>1. now.to # "blocked"
      BY <1>1, <2>3 DEF WritesBlocked
    <3>2. /\ call' = [call EXCEPT ![c] = [call[c] EXCEPT !.step = "emit"]]
          /\ UNCHANGED <<torn, executes, round>> /\ call[c].step = "write"
      BY <1>3, <2>3 DEF Write
    <3>3. round' \in Nat /\ round <= round'
      BY <1>2, <3>2
    <3> QED
      BY <2>1, <3>1, <3>2, <3>3, CallMoves
  <2> QED
    BY <2>2, <2>3
<1>4. CASE Emit(c)
  <2>1. now.to # "blocked" /\ now.step = "emit"
    BY <1>1, <1>4 DEF WritesBlocked, Emit
  <2>2. UNCHANGED <<card, verdicts, required, queue, executes, torn, scene, events>>
        /\ call' = [call EXCEPT ![c].step = "gate"] /\ Enters(now.to)
    BY <1>4 DEF Emit
  <2>3. /\ span' \in ReviewColumns /\ round' \in Nat /\ within' \in BOOLEAN
        /\ round <= round' /\ (within' => round' >= 1)
        /\ (span' = "code_review" => within')
    BY <1>1, <2>2, EntersTypes
  <2>4. entries' \in Nat
    BY <1>4 DEF Emit, ReviewTypes
  <2>5. ReviewTypes' /\ Visited'
    <3>1. ReviewTypes'
      BY <2>2, <2>3, <2>4, VerdictsKept DEF ReviewTypes
    <3>2. Visited'
      BY <2>2, <2>3 DEF Visited
    <3> QED
      BY <3>1, <3>2
  <2> QED
    BY <2>1, <2>2, <2>3, <2>5, CallMoves
<1>5. CASE Gate(c)
  <2>1. /\ UNCHANGED <<verdicts, required, entries, executes, torn, scene, events>>
        /\ call' = [call EXCEPT ![c] = NoCall]
    BY <1>5 DEF Gate
  <2>2. CASE now.to = "need_revision" /\ entries >= LoopLimit
    <3>1. /\ column' = "blocked" /\ stamp' = "human" /\ UNCHANGED queue
          /\ origin' = IF column = "blocked" THEN origin ELSE column
          /\ Enters("blocked")
      BY <1>5, <2>2 DEF Gate
    <3>2. "blocked" \in ReviewColumns
      BY DEF ReviewColumns
    <3>3. /\ span' \in ReviewColumns /\ round' \in Nat /\ within' \in BOOLEAN
          /\ round <= round' /\ (within' => round' >= 1)
          /\ (span' = "code_review" => within')
      BY <3>1, <3>2, EntersTypes
    <3>4. ReviewTypes' /\ Visited'
      <4>1. ReviewTypes'
        BY <2>1, <3>1, <3>2, <3>3, VerdictsKept DEF ReviewTypes
      <4>2. Visited'
        BY <3>1, <3>3 DEF Visited
      <4> QED
        BY <4>1, <4>2
    <3>5. torn' \in BOOLEAN
      BY <2>1 DEF CallTypes
    <3> QED
      BY <2>1, <3>3, <3>4, <3>5, CallEnds
  <2>3. CASE ~(now.to = "need_revision" /\ entries >= LoopLimit)
    <3>1. queue' = queue \union (Stage(now.to) \ (IF c = "run" THEN {executes} ELSE {}))
          /\ UNCHANGED <<card, visits>>
      BY <1>5, <2>3 DEF Gate
    <3>2. queue' \subseteq Reviewers \union {Dev}
      BY <3>1, StageTypes DEF ReviewTypes
    <3>3. ReviewTypes' /\ Visited'
      BY <2>1, <3>1, <3>2 DEF ReviewTypes, Visited
    <3>4. torn' \in BOOLEAN /\ round' \in Nat /\ round <= round'
      BY <1>2, <2>1, <3>1 DEF CallTypes
    <3> QED
      BY <2>1, <3>3, <3>4, CallEnds
  <2> QED
    BY <2>2, <2>3
<1> QED
  BY <1>3, <1>4, <1>5 DEF Serves

\* A park, its resume, and a call that dies.
LEMMA TypedDisturbed ==
    ASSUME Typed, ParkReview \/ Resume \/ Fault
    PROVE  Typed'
<1> USE DEF Typed
<1>1. CASE ParkReview
  <2>1. /\ call["run"] = NoCall /\ column # "blocked" /\ executes' = NoOne
        /\ column' = "blocked" /\ origin' = column /\ stamp' = "device"
        /\ Enters("blocked") /\ torn' = (torn \/ CallInFlight)
        /\ UNCHANGED <<verdicts, required, entries, queue, call, scene>>
    BY <1>1 DEF ParkReview
  <2>2. "blocked" \in ReviewColumns
    BY DEF ReviewColumns
  <2>3. /\ span' \in ReviewColumns /\ round' \in Nat /\ within' \in BOOLEAN
        /\ round <= round' /\ (within' => round' >= 1)
        /\ (span' = "code_review" => within')
    BY <2>1, <2>2, EntersTypes
  <2>4. ReviewTypes'
    BY <2>1, <2>2, <2>3, VerdictsKept DEF ReviewTypes
  <2>5. Visited'
    BY <2>1, <2>3 DEF Visited, ReviewTypes
  <2>6. CallTypes'
    BY <2>1 DEF CallTypes
  <2>7. RunCall' /\ PersonCall' /\ WritesBlocked'
    BY <2>1 DEF RunCall, PersonCall, WritesBlocked, NoCall
  <2> QED
    BY <2>4, <2>5, <2>6, <2>7
<1>2. CASE Resume
  <2>1. /\ column' = origin /\ origin' = "none" /\ stamp' = "none" /\ stamp = "device"
        /\ Enters(origin) /\ queue' = queue \union Stage(origin)
        /\ UNCHANGED <<verdicts, required, entries, executes, call, torn, scene, events>>
    BY <1>2 DEF Resume
  <2>2. origin \in ReviewColumns
    BY <2>1 DEF Visited
  <2>3. /\ span' \in ReviewColumns /\ round' \in Nat /\ within' \in BOOLEAN
        /\ round <= round' /\ (within' => round' >= 1)
        /\ (span' = "code_review" => within')
    BY <2>1, <2>2, EntersTypes
  <2>4. queue' \subseteq Reviewers \union {Dev}
    BY <2>1, StageTypes DEF ReviewTypes
  <2>5. ReviewTypes'
    BY <2>1, <2>2, <2>3, <2>4, VerdictsKept DEF ReviewTypes
  <2>6. Visited'
    BY <2>1, <2>3 DEF Visited
  <2>7. CallTypes' /\ RunCall' /\ PersonCall' /\ WritesBlocked'
    <3>1. round \in Nat
      BY DEF ReviewTypes
    <3>2. CallTypes' /\ PersonCall' /\ WritesBlocked'
      BY <2>1 DEF CallTypes, PersonCall, WritesBlocked
    <3>3. RunCall'
      BY <2>1, <2>3, <3>1 DEF RunCall
    <3> QED
      BY <3>2, <3>3
  <2> QED
    BY <2>5, <2>6, <2>7
<1>3. CASE Fault
  <2>1. /\ call' = [call EXCEPT !["run"] = NoCall] /\ executes # NoOne
        /\ torn' = (torn \/ call["run"].step = "emit")
        /\ queue' = queue \union {executes} /\ executes' = NoOne
        /\ UNCHANGED <<card, review, scene>>
    BY <1>3 DEF Fault
  <2>2. ReviewTypes' /\ Visited'
    BY <2>1 DEF ReviewTypes, Visited
  <2>3. torn' \in BOOLEAN /\ round' \in Nat /\ round <= round'
    BY <2>1 DEF ReviewTypes
  <2> QED
    BY <2>1, <2>2, <2>3, CallEnds DEF Callers
<1> QED
  BY <1>1, <1>2, <1>3

LEMMA TypedStep == Typed /\ [ReviewNext]_reviewVars => Typed'
<1> SUFFICES ASSUME Typed, [ReviewNext]_reviewVars PROVE Typed'
  OBVIOUS
<1>1. CASE UNCHANGED reviewVars
  BY <1>1
  DEF Typed, ReviewTypes, CallTypes, RunCall, PersonCall, WritesBlocked, Visited
<1>2. CASE ReviewNext
  BY <1>2, TypedAround, TypedCalls, TypedVerdict, TypedServes, TypedDisturbed
  DEF ReviewNext, RunStep
<1> QED
  BY <1>1, <1>2

\* ReviewTypes: a card, its spans and its verdicts have their types, and a
\* reviewer has one verdict in a round however often it votes
\* (ReviewQuorum.Decide, RecordReviewVerdict's ON CONFLICT), whatever crashes,
\* parks and persons do between the steps of a call.
THEOREM ReviewTyped == ReviewSpec => []ReviewTypes
<1>1. ReviewInit => Typed
  BY TypedInit
<1>2. Typed /\ [ReviewNext]_reviewVars => Typed'
  BY TypedStep
<1>3. Typed => ReviewTypes
  BY DEF Typed
<1> QED
  BY <1>1, <1>2, <1>3, PTL DEF ReviewSpec
-----------------------------------------------------------------------------
\* Unless a move was missed or misplaced by the spans, the two calls of
\* UpdateTask do not overlap, ...
Alone == call["run"].step = "none" \/ call["person"].step = "none"
\* ... a call finds the card where it read it or where it put it (a sweeper may
\* resume a card while a person edits it), ...
CardFollows ==
    /\ call["run"].step \in {"spans", "record", "weigh", "write"}
           => column = call["run"].from
    /\ call["person"].step = "write"
           => column = call["person"].from \/ call["person"].from = "blocked"
    /\ \A c \in Callers : call[c].step \in {"emit", "gate"} => column = call[c].to
\* ... the open span is the card's column but between a write and its event, ...
SpanFollows ==
    (\A c \in Callers : call[c].step # "emit") => span = column \/ column = "blocked"
\* ... and the run's verdict counts in the round that goes on: an approval is
\* recorded before it is weighed, and weighed before it is written.
Counted ==
    LET now == call["run"]
    IN  /\ now.step \in {"record", "weigh"} => now.round = round
        /\ now.step = "weigh" /\ now.to = "ready_for_qa"
               => \E v \in Given(round) : v.agent = executes /\ v.verdict = "approve"
        /\ now.step = "write" /\ now.to = "ready_for_qa" /\ "subscribe" \notin scene
               => required \subseteq Decided(round) /\ Rejecting(round) = {}
Subscribed == "subscribe" \notin scene => required = Reviewers
Solo == ~torn => Alone /\ CardFollows /\ SpanFollows /\ Counted

\* The reviewers change in their environment only.
LEMMA SubscribedStep == Subscribed /\ [ReviewNext]_reviewVars => Subscribed'
<1> SUFFICES ASSUME Subscribed, [ReviewNext]_reviewVars PROVE Subscribed'
  OBVIOUS
<1> USE DEF Subscribed
<1>1. CASE Assign
  BY <1>1 DEF Assign
<1>2. ASSUME NEW a \in Reviewers, Subscribe(a) PROVE Subscribed'
  BY <1>2 DEF Subscribe, Disturbs
<1>3. CASE RunStep
  BY <1>3 DEF RunStep, Begin, SubmitWork, Verdict, EndReviewRun, ReadRound, Record, Weigh
<1>4. CASE Resume \/ ParkReview \/ Fault \/ PersonCalls \/ PersonComments
  BY <1>4 DEF Resume, ParkReview, Fault, PersonCalls, PersonComments
<1>5. CASE \E c \in Callers : Serves(c)
  BY <1>5 DEF Serves, Write, Emit, Gate
<1>6. CASE UNCHANGED reviewVars
  BY <1>6
<1> QED
  BY <1>1, <1>2, <1>3, <1>4, <1>5, <1>6 DEF ReviewNext

\* Without a call, a card whose span is open has nothing more to answer for.
LEMMA Idle ==
    ASSUME call["run"].step = "none", call["person"].step = "none",
           span = column \/ column = "blocked"
    PROVE  Alone /\ CardFollows /\ SpanFollows /\ Counted
BY DEF Alone, CardFollows, SpanFollows, Counted, Callers

\* The lone reviewer's approval is the verdict of all; a quorum's is weighed.
LEMMA WeighedByAll ==
    ASSUME Typed, Subscribed, Solo, ~torn, Weigh, "subscribe" \notin scene,
           call'["run"].step = "write", call'["run"].to = "ready_for_qa"
    PROVE  required \subseteq Decided(round) /\ Rejecting(round) = {}
<1> DEFINE now == call["run"]
<1> USE DEF Typed, Callers
<1>1. now.step = "weigh" /\ now \in Calls /\ executes \in Reviewers
  BY CallFields DEF Weigh, RunCall
<1>2. now.round = round
  BY <1>1 DEF Solo, Counted
<1>3. call \in [Callers -> Calls \union {NoCall}]
  BY DEF CallTypes
<1>4. CASE Cardinality(required) >= 2
  <2>1. required \subseteq Decided(round)
    BY <1>1, <1>2, <1>3, <1>4 DEF Weigh, NoCall
  <2>2. Rejecting(round) = {}
    BY <1>1, <1>2, <1>3, <1>4 DEF Weigh, NoCall, Calls
  <2> QED
    BY <2>1, <2>2
<1>5. CASE ~(Cardinality(required) >= 2)
  <2>1. now.to = "ready_for_qa"
    BY <1>1, <1>3, <1>5 DEF Weigh, NoCall, Calls
  <2>2. PICK v \in Given(round) : v.agent = executes /\ v.verdict = "approve"
    BY <1>1, <2>1 DEF Solo, Counted
  <2>3. required = Reviewers /\ IsFiniteSet(Reviewers)
    BY ReviewersAssumption DEF Subscribed
  <2>4. Reviewers = {executes}
    <3>1. SUFFICES ASSUME NEW a \in Reviewers, a # executes PROVE FALSE
      BY <1>1
    <3>2. {a, executes} \subseteq Reviewers
      BY <1>1
    <3>3. Cardinality({a, executes}) = 2
      <4>1. IsFiniteSet({executes}) /\ Cardinality({executes}) = 1
        BY FS_Singleton
      <4>2. Cardinality({executes} \union {a}) = 2
        BY <3>1, <4>1, FS_AddElement
      <4>3. {executes} \union {a} = {a, executes}
        OBVIOUS
      <4> QED
        BY <4>2, <4>3
    <3>4. Cardinality({a, executes}) <= Cardinality(Reviewers)
      BY <2>3, <3>2, FS_Subset
    <3>5. Cardinality(Reviewers) \in Nat
      BY <2>3, FS_CardinalityType
    <3> QED
      BY <1>5, <2>3, <3>3, <3>4, <3>5
  <2>5. required \subseteq Decided(round)
    BY <2>2, <2>3, <2>4 DEF Decided
  <2>6. ASSUME NEW u \in Rejecting(round) PROVE FALSE
    <3>1. u \in verdicts /\ v \in verdicts /\ u.round = v.round /\ u.verdict = "reject"
      BY <2>2 DEF Rejecting, Given
    <3>2. u.agent = v.agent
      BY <2>2, <2>4, <3>1 DEF ReviewTypes
    <3>3. u = v
      BY <3>1, <3>2 DEF ReviewTypes
    <3> QED
      BY <2>2, <3>1, <3>3
  <2> QED
    BY <2>5, <2>6
<1> QED
  BY <1>4, <1>5

\* The runs that start and end, the comments, and the changes of reviewers.
LEMMA SoloAround ==
    ASSUME Typed, Solo,
           \/ Assign \/ PersonComments \/ EndReviewRun
           \/ \E a \in Reviewers \union {Dev} : Begin(a)
           \/ \E a \in Reviewers : Subscribe(a)
    PROVE  Solo'
<1> SUFFICES ASSUME ~torn' PROVE (Alone /\ CardFollows /\ SpanFollows /\ Counted)'
  BY DEF Solo
<1>1. /\ UNCHANGED <<column, span, round, call, torn>>
  BY DEF Assign, PersonComments, EndReviewRun, Begin, Subscribe
<1>2. ~torn /\ Alone /\ CardFollows /\ SpanFollows /\ Counted
  BY <1>1 DEF Solo
<1>3. (Alone /\ CardFollows /\ SpanFollows)'
  BY <1>1, <1>2 DEF Alone, CardFollows, SpanFollows
<1>4. Counted'
  <2>1. CASE Assign
    BY <1>1, <1>2, <2>1 DEF Assign, Counted, Given, Decided, Rejecting
  <2>2. CASE PersonComments
    BY <1>1, <1>2, <2>2 DEF PersonComments, Counted, Given, Decided, Rejecting
  <2>3. CASE EndReviewRun
    <3>1. call'["run"].step = "none"
      BY <1>1, <2>3 DEF EndReviewRun, NoCall
    <3> QED
      BY <3>1 DEF Counted
  <2>4. ASSUME NEW a \in Reviewers \union {Dev}, Begin(a) PROVE Counted'
    <3>1. call'["run"].step = "none"
      BY <1>1, <2>4 DEF Begin, Typed, RunCall
    <3> QED
      BY <3>1 DEF Counted
  <2>5. ASSUME NEW a \in Reviewers, Subscribe(a) PROVE Counted'
    BY <1>1, <1>2, <2>5 DEF Subscribe, Disturbs, Counted, Given, Decided, Rejecting
  <2> QED
    BY <2>1, <2>2, <2>3, <2>4, <2>5
<1> QED
  BY <1>3, <1>4

\* A call begins where no other is, or tears the spans.
LEMMA SoloCalls ==
    ASSUME Typed, Solo, SubmitWork \/ Verdict \/ PersonCalls
    PROVE  Solo'
<1> SUFFICES ASSUME ~torn' PROVE (Alone /\ CardFollows /\ SpanFollows /\ Counted)'
  BY DEF Solo
<1> USE DEF Typed, Callers
<1>1. PICK c \in Callers, first \in {"spans", "write"}, to \in ReviewColumns :
          /\ Called(c, first, to)
          /\ c = "run" /\ first = "write" => to # "ready_for_qa"
  BY DEF SubmitWork, Verdict, PersonCalls, ReviewColumns, ReviewTypes
<1>2. /\ call'[c] = [step |-> first, from |-> column, to |-> to, round |-> 0]
      /\ \A o \in Callers \ {c} : call'[o] = call[o]
  BY <1>1, CalledTypes
<1>3. ~torn /\ ~CallInFlight
  BY <1>1 DEF Called, CallTypes
<1>4. \A o \in Callers : call[o].step = "none"
  BY <1>3, CallFields DEF CallInFlight
<1>5. UNCHANGED <<card, review, queue, executes>>
  BY DEF SubmitWork, Verdict, PersonCalls
<1>6. span = column \/ column = "blocked"
  BY <1>3, <1>4 DEF Solo, SpanFollows
<1>7. call'[c].step = first /\ call'[c].from = column /\ call'[c].to = to
      /\ \A o \in Callers \ {c} : call'[o].step = "none"
  BY <1>2, <1>4
<1>8. CASE c = "run"
  BY <1>1, <1>5, <1>6, <1>7, <1>8 DEF Alone, CardFollows, SpanFollows, Counted
<1>9. CASE c = "person"
  BY <1>1, <1>5, <1>6, <1>7, <1>9 DEF Alone, CardFollows, SpanFollows, Counted
<1> QED
  BY <1>8, <1>9

\* The verdict is recorded and weighed in the round that was read.
LEMMA SoloVerdict ==
    ASSUME Typed, Subscribed, Solo, ReadRound \/ Record \/ Weigh
    PROVE  Solo'
<1> SUFFICES ASSUME ~torn' PROVE (Alone /\ CardFollows /\ SpanFollows /\ Counted)'
  BY DEF Solo
<1> DEFINE now == call["run"]
           new == call'["run"]
<1> USE DEF Typed, Callers
<1>1. /\ now.step \in {"spans", "record", "weigh"} /\ now \in Calls
      /\ executes \in Reviewers /\ now.from = "code_review"
      /\ call \in [Callers -> Calls \union {NoCall}]
  BY CallFields DEF ReadRound, Record, Weigh, RunCall, CallTypes
<1>2. UNCHANGED <<card, visits, required, executes, torn, scene>>
  BY DEF ReadRound, Record, Weigh
<1>3. Alone /\ CardFollows /\ SpanFollows /\ Counted /\ ~torn
  BY <1>2 DEF Solo
<1>4. call["person"].step = "none" /\ column = now.from
  BY <1>1, <1>3 DEF Alone, CardFollows
<1>5. span = column \/ column = "blocked"
  BY <1>1, <1>3, <1>4 DEF SpanFollows
<1>6. CASE ReadRound
  <2>1. new.step = "record" /\ new.from = now.from /\ new.to = now.to /\ new.round = round
        /\ call'["person"] = call["person"]
    BY <1>1, <1>4, <1>5, <1>6 DEF ReadRound, RoundOpen, Calls
  <2> QED
    BY <1>2, <1>4, <1>5, <2>1 DEF Alone, CardFollows, SpanFollows, Counted
<1>7. CASE Record
  <2>1. new.step = "weigh" /\ new.from = now.from /\ new.to = now.to
        /\ new.round = now.round /\ call'["person"] = call["person"] /\ now.step = "record"
    BY <1>1, <1>7 DEF Record, Calls
  <2>2. now.round = round
    BY <1>3, <2>1 DEF Counted
  <2>3. (Alone /\ CardFollows /\ SpanFollows)'
    BY <1>2, <1>4, <1>5, <2>1 DEF Alone, CardFollows, SpanFollows
  <2>4. Voted \in verdicts' /\ Voted.round = round /\ Voted.agent = executes
        /\ (now.to = "ready_for_qa" => Voted.verdict = "approve")
    BY <1>7, <2>2 DEF Record, Voted
  <2>5. new.to = "ready_for_qa"
            => \E v \in Given(round)' : v.agent = executes' /\ v.verdict = "approve"
    BY <1>2, <2>1, <2>4 DEF Given
  <2> QED
    BY <1>2, <2>1, <2>2, <2>3, <2>5 DEF Counted
<1>8. CASE Weigh
  <2>1. PICK next : /\ call' = [call EXCEPT !["run"] = next]
                    /\ \/ next = NoCall
                       \/ \E to \in {now.to, "need_revision"} :
                              next = [now EXCEPT !.step = "write", !.to = to]
    BY <1>8 DEF Weigh
  <2>2. \/ next.step = "none"
        \/ next.step = "write" /\ next.from = now.from
    <3>1. CASE next = NoCall
      BY <3>1 DEF NoCall
    <3>2. ASSUME NEW to, next = [now EXCEPT !.step = "write", !.to = to]
          PROVE  next.step = "write" /\ next.from = now.from
      BY <1>1, <3>2 DEF Calls
    <3> QED
      BY <2>1, <3>1, <3>2
  <2>3. new = next /\ call'["person"] = call["person"]
    BY <1>1, <2>1
  <2>4. (Alone /\ CardFollows /\ SpanFollows)'
    BY <1>2, <1>4, <1>5, <2>2, <2>3 DEF Alone, CardFollows, SpanFollows
  <2>5. UNCHANGED verdicts
    BY <1>8 DEF Weigh
  <2>6. ASSUME new.step = "write", new.to = "ready_for_qa", "subscribe" \notin scene
        PROVE  required \subseteq Decided(round) /\ Rejecting(round) = {}
    BY <1>3, <1>8, <2>6, WeighedByAll
  <2>7. Counted'
    BY <1>2, <2>2, <2>3, <2>5, <2>6 DEF Counted, Given, Decided, Rejecting
  <2> QED
    BY <2>4, <2>7
<1> QED
  BY <1>6, <1>7, <1>8

\* The move, its event and its span.
LEMMA SoloServes ==
    ASSUME Typed, Solo, NEW c \in Callers, Serves(c)
    PROVE  Solo'
<1> SUFFICES ASSUME ~torn' PROVE (Alone /\ CardFollows /\ SpanFollows /\ Counted)'
  BY DEF Solo
<1> DEFINE now == call[c]
           new == call'[c]
<1> USE DEF Typed, Callers
<1>1. /\ now.step \in {"write", "emit", "gate"} /\ now \in Calls
      /\ call \in [Callers -> Calls \union {NoCall}]
  BY CallFields DEF Serves, Write, Emit, Gate, CallTypes
<1>2. UNCHANGED <<verdicts, required, executes, torn, scene>>
  BY DEF Serves, Write, Emit, Gate
<1>3. Alone /\ CardFollows /\ SpanFollows /\ Counted /\ ~torn
  BY <1>2 DEF Solo
<1>4. \A o \in Callers \ {c} : call[o].step = "none"
  BY <1>1, <1>3 DEF Alone
<1>5. ASSUME \A o \in Callers \ {c} : call'[o] = call[o],
             \/ new.step = "none" /\ (span' = column' \/ column' = "blocked")
             \/ new.step = "emit" /\ column' = new.to
             \/ new.step = "gate" /\ column' = new.to /\ span' = column'
      PROVE  (Alone /\ CardFollows /\ SpanFollows /\ Counted)'
  <2>1. \A o \in Callers \ {c} : call'[o].step = "none"
    BY <1>4, <1>5
  <2>2. CASE c = "run"
    BY <1>5, <2>1, <2>2 DEF Alone, CardFollows, SpanFollows, Counted
  <2>3. CASE c = "person"
    BY <1>5, <2>1, <2>3 DEF Alone, CardFollows, SpanFollows, Counted
  <2> QED
    BY <2>2, <2>3
<1>6. CASE Write(c)
  <2>1. now.step = "write" /\ column' = now.to /\ UNCHANGED span
    BY <1>6 DEF Write
  <2>2. CASE now.to = now.from
    <3>1. new.step = "none" /\ \A o \in Callers \ {c} : call'[o] = call[o]
      BY <1>1, <1>6, <2>2 DEF Write, NoCall
    <3>2. column = now.from \/ now.from = "blocked"
      BY <1>3, <2>1 DEF CardFollows
    <3>3. span = column \/ column = "blocked"
      BY <1>3, <1>4, <2>1 DEF SpanFollows
    <3> QED
      BY <1>5, <2>1, <2>2, <3>1, <3>2, <3>3
  <2>3. CASE now.to # now.from
    <3>1. new.step = "emit" /\ new.to = now.to /\ \A o \in Callers \ {c} : call'[o] = call[o]
      BY <1>1, <1>6, <2>3 DEF Write, Calls
    <3> QED
      BY <1>5, <2>1, <3>1
  <2> QED
    BY <2>2, <2>3
<1>7. CASE Emit(c)
  <2>1. now.step = "emit" /\ UNCHANGED column /\ span' = now.to
    BY <1>7 DEF Emit, Enters
  <2>2. new.step = "gate" /\ new.to = now.to /\ \A o \in Callers \ {c} : call'[o] = call[o]
    BY <1>1, <1>7 DEF Emit, Calls
  <2>3. column = now.to
    BY <1>3, <2>1 DEF CardFollows
  <2> QED
    BY <1>5, <2>1, <2>2, <2>3
<1>8. CASE Gate(c)
  <2>1. new.step = "none" /\ (\A o \in Callers \ {c} : call'[o] = call[o]) /\ now.step = "gate"
    BY <1>1, <1>8 DEF Gate, NoCall
  <2>2. column' = "blocked" \/ UNCHANGED <<column, span>>
    BY <1>8 DEF Gate
  <2>3. span = column \/ column = "blocked"
    BY <1>3, <1>4, <2>1 DEF SpanFollows
  <2> QED
    BY <1>5, <2>1, <2>2, <2>3
<1> QED
  BY <1>6, <1>7, <1>8 DEF Serves

\* A park, its resume, and a call that dies.
LEMMA SoloDisturbed ==
    ASSUME Typed, Solo, ParkReview \/ Resume \/ Fault
    PROVE  Solo'
<1> SUFFICES ASSUME ~torn' PROVE (Alone /\ CardFollows /\ SpanFollows /\ Counted)'
  BY DEF Solo
<1> USE DEF Typed, Callers
<1>1. CASE ParkReview
  <2>1. ~CallInFlight /\ UNCHANGED call /\ span' = "blocked" /\ column' = "blocked"
    BY <1>1 DEF ParkReview, Enters
  <2>2. call["run"].step = "none" /\ call["person"].step = "none"
    BY <2>1 DEF CallInFlight, NoCall
  <2> QED
    BY <2>1, <2>2 DEF Alone, CardFollows, SpanFollows, Counted
<1>2. CASE Resume
  <2>1. column = "blocked" /\ UNCHANGED <<call, torn>> /\ span' = column'
    BY <1>2 DEF Resume, Enters
  <2>2. ~torn /\ Alone /\ CardFollows
    BY <2>1 DEF Solo
  <2>3. /\ call["run"].step \notin {"spans", "record", "weigh", "write"}
        /\ call["person"].step = "write" => call["person"].from = "blocked"
        /\ \A c \in Callers : call[c].step \notin {"emit", "gate"}
    BY <2>1, <2>2 DEF CardFollows, RunCall, WritesBlocked
  <2> QED
    BY <2>1, <2>2, <2>3 DEF Alone, CardFollows, SpanFollows, Counted
<1>3. CASE Fault
  <2>1. /\ call' = [call EXCEPT !["run"] = NoCall]
        /\ ~torn /\ call["run"].step # "emit" /\ UNCHANGED <<column, span>>
    BY <1>3 DEF Fault, CallTypes
  <2>2. call'["run"].step = "none" /\ call'["person"] = call["person"]
    BY <2>1 DEF CallTypes, NoCall
  <2>3. CardFollows /\ SpanFollows
    BY <2>1 DEF Solo
  <2> QED
    BY <2>1, <2>2, <2>3 DEF Alone, CardFollows, SpanFollows, Counted
<1> QED
  BY <1>1, <1>2, <1>3

LEMMA SoloStep == Typed /\ Subscribed /\ Solo /\ [ReviewNext]_reviewVars => Solo'
<1> SUFFICES ASSUME Typed, Subscribed, Solo, [ReviewNext]_reviewVars PROVE Solo'
  OBVIOUS
<1>1. CASE UNCHANGED reviewVars
  BY <1>1
  DEF Solo, Alone, CardFollows, SpanFollows, Counted, Given, Decided, Rejecting
<1>2. CASE ReviewNext
  BY <1>2, SoloAround, SoloCalls, SoloVerdict, SoloServes, SoloDisturbed
  DEF ReviewNext, RunStep
<1> QED
  BY <1>1, <1>2

LEMMA SoloInit == ReviewInit => Subscribed /\ Solo
<1> SUFFICES ASSUME ReviewInit PROVE Subscribed /\ Solo
  OBVIOUS
<1>1. call["run"].step = "none" /\ call["person"].step = "none"
  BY DEF ReviewInit, Callers, NoCall
<1>2. span = column
  BY DEF ReviewInit
<1> QED
  BY <1>1, <1>2, Idle DEF ReviewInit, Subscribed, Solo

\* ApprovedByAll: a run's move out of code_review to ready_for_qa is written only
\* when every required reviewer's latest verdict of the round is an approval
\* (ReviewQuorum.Decide with LatestVerdictPerReviewer), for any number of
\* reviewers, in any order of their runs, verdicts, parks and deaths.
THEOREM ReviewApproved == ReviewSpec => ApprovedByAll
<1> DEFINE Approval == /\ column = "code_review"
                       /\ column' = "ready_for_qa"
                       /\ call["run"].step = "write"
                       /\ call'["run"].step = "emit"
                       /\ ~torn
                       /\ "subscribe" \notin scene
                       => /\ required \subseteq Decided(round)
                          /\ Rejecting(round) = {}
<1>1. ReviewInit => Typed /\ Subscribed /\ Solo
  BY TypedInit, SoloInit
<1>2. Typed /\ Subscribed /\ Solo /\ [ReviewNext]_reviewVars
          => (Typed /\ Subscribed /\ Solo)'
  BY TypedStep, SubscribedStep, SoloStep
<1>3. Solo /\ Typed /\ [ReviewNext]_reviewVars => Approval
  <2> SUFFICES ASSUME Solo, Typed, [ReviewNext]_reviewVars,
                      column = "code_review", column' = "ready_for_qa",
                      call["run"].step = "write", call'["run"].step = "emit",
                      ~torn, "subscribe" \notin scene
               PROVE  required \subseteq Decided(round) /\ Rejecting(round) = {}
    OBVIOUS
  <2>1. Counted /\ Alone
    BY DEF Solo
  <2>2. call["person"].step = "none"
    BY <2>1 DEF Alone
  <2>3. Serves("run")
    <3>1. column' # column /\ column # "blocked"
      OBVIOUS
    <3>2. CASE RunStep \/ Assign \/ PersonCalls \/ PersonComments
                   \/ \E a \in Reviewers : Subscribe(a)
      BY <3>1, <3>2
      DEF RunStep, Begin, SubmitWork, Verdict, EndReviewRun, ReadRound, Record, Weigh,
          Assign, PersonCalls, PersonComments, Subscribe
    <3>3. CASE ParkReview \/ Resume \/ Fault
      BY <3>1, <3>3 DEF ParkReview, Resume, Fault
    <3>4. CASE UNCHANGED reviewVars
      BY <3>1, <3>4
    <3>5. ~Serves("person")
      BY <2>2 DEF Serves, Write, Emit, Gate
    <3> QED
      BY <3>2, <3>3, <3>4, <3>5 DEF ReviewNext, Callers
  <2>4. Write("run")
    BY <2>3 DEF Serves, Emit, Gate
  <2>5. call["run"].to = "ready_for_qa"
    BY <2>4 DEF Write
  <2> QED
    BY <2>1, <2>5 DEF Counted
<1> QED
  BY <1>1, <1>2, <1>3, PTL DEF ReviewSpec, ApprovedByAll
=============================================================================
