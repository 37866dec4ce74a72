--------------------------- MODULE ReleaseMachine ---------------------------
(***************************************************************************)
(* What the releases of a component promise whoever reads their status     *)
(* (domain/release.go): a release moves along Edges, one at a time, in one *)
(* order for all who advance it.  It is judged only after it was deployed, *)
(* undone only once it may have reached production, and nothing revives    *)
(* one that was rolled back or taken over.                                 *)
(***************************************************************************)
CONSTANT Releases

VARIABLE status

Edges == [none             |-> {"draft", "pending", "deploying"},
          draft            |-> {"pending", "superseded"},
          pending          |-> {"deploying", "superseded"},
          deploying        |-> {"pending", "verifying", "awaiting_verdict",
                                "failed", "superseded"},
          verifying        |-> {"awaiting_verdict", "superseded"},
          awaiting_verdict |-> {"released", "rolling_back", "superseded"},
          failed           |-> {"released", "rolling_back"},
          released         |-> {"rolling_back"},
          rolling_back     |-> {"rolled_back", "failed"},
          rolled_back      |-> {},
          superseded       |-> {}]

Init == status = [r \in Releases |-> "none"]

Move(r) == \E s \in Edges[status[r]] : status' = [status EXCEPT ![r] = s]

Next == \E r \in Releases : Move(r)

Spec == Init /\ [][Next]_status
=============================================================================
