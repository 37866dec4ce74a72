----------------------------- MODULE MCServices -----------------------------
(***************************************************************************)
(* TLC instances of two components: the parks of a card, and the code      *)
(* review.  They are checked as a sum: a behaviour is one of the component *)
(* it starts as (service), while the other rests where it starts and owes  *)
(* nothing, so a property of one says here what it says there.             *)
(***************************************************************************)
EXTENDS TaskPark, ReviewRound

CONSTANTS a, r1, r2

VARIABLE service  \* which component this behaviour is of

\* One agent works the card.  Dragging is what lets a card be worked on while it
\* is parked, so it comes with whatever else needs a parked card that moves.
Alone    == [c \in Working |-> {a}]
Everyday == {{"stop", "edit", "crash"}, {"drag", "edit"}, {"comment"},
             {"order"}, {"slow edit"}, {"slow answer"}}

\* What may disturb a review: its resources with the machine or with changing
\* subscriptions, or the people at the board.
Disturbances == {{"park"}, {"fault", "park"}, {"people"}, {"subscribe", "park"}}
Bounds == [park |-> 2, fault |-> 2, people |-> 1, subscribe |-> 2]

\* The parks rest in one of their initial states; the review has only one.
ParkRests == env = {"comment"}

SumInit ==
    /\ Init /\ ReviewInit
    /\ service \in {"park", "review"}
    /\ service # "park" => ParkRests

ParkAlone   == service = "park" /\ Next /\ UNCHANGED <<reviewVars, service>>
ReviewAlone == service = "review" /\ ReviewNext /\ UNCHANGED <<vars, service>>

\* The fairness of each part, of its own behaviours.
SumSpec == /\ SumInit
           /\ [][ParkAlone \/ ReviewAlone]_<<vars, reviewVars, service>>
           /\ WF_vars(service = "park" /\ Handlers)
           /\ \A e \in Events : WF_vars(service = "park" /\ \E c \in Working : DispatchOf(e, c))
           /\ WF_vars(service = "park" /\ Sweeper)
           /\ WF_vars(service = "park" /\ \E w \in Agents : Claim(w))
           /\ WF_reviewVars(service = "review" /\ RunStep)
           /\ SF_reviewVars(service = "review" /\ EndReviewRun)
           /\ \A c \in Callers : WF_reviewVars(service = "review" /\ Serves(c))
           /\ WF_reviewVars(service = "review" /\ Resume)
=============================================================================
