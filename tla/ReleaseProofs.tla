--------------------------- MODULE ReleaseProofs ---------------------------
(***************************************************************************)
(* The releases of a component for every set of tasks, worlds and bounds:  *)
(* RollbackExclusive, CarriedIsShipped and the refinement of               *)
(* ReleaseMachine from one invariant, Inv, of the rows and the calls that  *)
(* know of them; TypeOK; and NoTaskStranded, from what each release holds. *)
(***************************************************************************)
EXTENDS Release, FiniteSetTheorems, SequenceTheorems, TLAPS

Edge(s, t) == s = t \/ t \in Machine!Edges[s]

\* The edges that steps of the code take.
LEMMA Edges ==
    /\ \A s \in {"draft", "pending", "deploying"} : Edge("none", s)
    /\ \A s \in Open : Edge(s, "superseded")
    /\ \A s \in {"draft", "pending"} : Edge(s, "pending")
    /\ Edge("pending", "deploying") /\ Edge("verifying", "awaiting_verdict")
    /\ \A s \in {"pending", "failed", "verifying", "awaiting_verdict"} : Edge("deploying", s)
    /\ \A s \in {"awaiting_verdict", "failed"} : Edge(s, "released")
    /\ \A s \in {"awaiting_verdict", "failed", "released"} : Edge(s, "rolling_back")
    /\ \A s \in {"rolled_back", "failed"} : Edge("rolling_back", s)
    /\ \A s \in Statuses : Edge(s, s)
    /\ \A s, t \in Statuses : Edge(s, t) /\ s # "none" => t # "none"
  BY DEF Edge, Machine!Edges, Open, Statuses, Watched, Terminal

\* What a call has read before, and what its next statement relies on.
Later == {"join", "supersede", "reread", "unpark", "cut", "dispatch", "rollback", "stamp"}
             \cup Undoing
Knows(c) ==
    /\ c.at \in Opening => c.by \in Tasks
    /\ c.at \in Later => c.rel \in Releases
    /\ c.rel \in Releases => row[c.rel].status # "none"
    /\ c.at = "find" => c.rel = 0
    /\ c.at \in {"join", "cut"} => mode = "batch"
    /\ (c.at = "create" /\ c.rel # 0) \/ c.at = "supersede" => c.copy.status \in Open
    /\ c.at = "cut" => c.copy.status \in {"draft", "pending"}
    /\ c.at = "dispatch" => c.copy.status = "deploying"
    /\ c.at = "rollback" => c.copy.status \in {"failed", "awaiting_verdict", "released"}
    /\ c.at \in Undoing => c.copy.status = "rolling_back"
    /\ c.at = "stamp" => c.copy.status \in {"failed", "awaiting_verdict", "pending"}

\* Outside of batches a release keeps its commit, a copy has the release's, and
\* an opening takes over what its own merge contains.
Copying == {"create", "supersede", "dispatch", "rollback", "stamp"} \cup Undoing
Ships(c) ==
    mode # "batch" =>
       /\ c.at \in Copying /\ c.rel \in Releases => c.copy.content = row[c.rel].content
       /\ c.at \in Opening => c.by \in base[c.by] /\ c.carried \subseteq base[c.by]
       /\ c.at \in Opening /\ c.rel \in Releases => row[c.rel].content \subseteq base[c.by]
       /\ c.at \in {"supersede", "reread"} => /\ c.new \in Releases
                                              /\ row[c.new].status # "none"
                                              /\ row[c.new].content = base[c.by]

\* Whoever undoes a release holds the claim: no other call does, and the sweeper
\* has nothing to settle.
Holds(c) ==
    c.at \in Undoing =>
       /\ row[c.rel].status = "rolling_back" /\ row[c.rel].rollback # "restored"
       /\ \A d \in calls : d.at \in Undoing /\ d.rel = c.rel => d = c

Types == /\ mode \in Modes
         /\ row \in [Releases -> Rows]
         /\ carries \in [Releases -> Commits]
         /\ base \in [Tasks -> Commits]
         /\ calls \subseteq Calls

Inv == /\ Types
       /\ \A c \in calls : Knows(c) /\ Ships(c) /\ Holds(c)
       /\ CarriedIsShipped

LEMMA Numbered == 0 \notin Releases
  BY TasksAssumption, FS_CardinalityType DEF Releases
-----------------------------------------------------------------------------
(* Most steps write one existing row along an edge, or none, and leave no   *)
(* call behind that undoes the release of that row; what they start knows   *)
(* what it needs.                                                          *)
Written(r, new) ==
    /\ row' = [row EXCEPT ![r] = new]
    /\ row[r].status # "none" /\ Edge(row[r].status, new.status)
    /\ mode # "batch" => new.content = row[r].content
    /\ \A d \in calls' : d.at \in Undoing => d.rel # r
Lawful == row' = row \/ \E r \in Releases, new \in Rows : Written(r, new)
Good(d) == d \in Calls /\ d.at \notin Undoing /\ Knows(d)' /\ Ships(d)'
Brings  == \A d \in calls' : d \in calls \/ Good(d)
Kept ==
    /\ mode' = mode
    /\ carries' \in [Releases -> Commits]
    /\ mode # "batch" => \A r \in Releases : carries'[r] \subseteq row[r].content
    /\ base' \in [Tasks -> Commits]
    /\ \A t \in Tasks : t \in base[t] => base'[t] = base[t]

\* Rows keep their commits and do not go away.
LEMMA RowsStay ==
    ASSUME Inv, Lawful
    PROVE  /\ row' \in [Releases -> Rows]
           /\ \A r \in Releases :
                 /\ row[r].status # "none" => row'[r].status # "none"
                 /\ mode # "batch" => row'[r].content = row[r].content
                 /\ \/ row'[r] = row[r]
                    \/ \A d \in calls' : d.at \in Undoing => d.rel # r
<1>1. CASE row' = row
  BY <1>1 DEF Inv, Types
<1>2. ASSUME NEW s \in Releases, NEW new \in Rows, Written(s, new)
      PROVE  /\ row' \in [Releases -> Rows]
             /\ \A r \in Releases : r # s => row'[r] = row[r]
             /\ row'[s] = new /\ new.status # "none"
             /\ mode # "batch" => new.content = row[s].content
             /\ \A d \in calls' : d.at \in Undoing => d.rel # s
  BY <1>2, Edges DEF Inv, Types, Written, Rows
<1> QED BY <1>1, <1>2 DEF Lawful

\* Such a step preserves the invariant.
LEMMA LawfulKeeps == Inv /\ Lawful /\ Brings /\ Kept => Inv'
<1> SUFFICES ASSUME Inv, Lawful, Brings, Kept PROVE Inv'
  OBVIOUS
<1> USE DEF Inv, Types, Kept
<1>2. /\ row' \in [Releases -> Rows]
      /\ \A r \in Releases :
            /\ row[r].status # "none" => row'[r].status # "none"
            /\ mode # "batch" => row'[r].content = row[r].content
            /\ \/ row'[r] = row[r]
               \/ \A d \in calls' : d.at \in Undoing => d.rel # r
  BY RowsStay
<1>3. calls' \subseteq Calls
  BY DEF Brings, Good
<1>4. \A d \in calls' : Knows(d)' /\ Ships(d)'
  <2> SUFFICES ASSUME NEW d \in calls', d \in calls PROVE Knows(d)' /\ Ships(d)'
    BY DEF Brings, Good
  <2>1. Knows(d)'
    BY <1>2 DEF Knows
  <2>2. Ships(d)'
    BY <1>2 DEF Ships, Knows, Later, Opening
  <2> QED BY <2>1, <2>2
<1>5. \A d \in calls' : Holds(d)'
  <2> SUFFICES ASSUME NEW d \in calls', d.at \in Undoing PROVE Holds(d)'
    BY DEF Holds
  <2>1. d \in calls /\ Holds(d) /\ d.rel \in Releases /\ row'[d.rel] = row[d.rel]
    BY <1>2 DEF Brings, Good, Knows, Later
  <2> QED BY <2>1 DEF Holds, Brings, Good
<1>6. CarriedIsShipped'
  BY <1>2 DEF CarriedIsShipped
<1> QED BY <1>2, <1>3, <1>4, <1>5, <1>6

\* A step that leaves the rows, what they carry and the merges alone.
LEMMA Still ==
    ASSUME Inv, UNCHANGED <<mode, row, carries, base>>
    PROVE  Lawful /\ Kept
  BY DEF Inv, Types, Lawful, Kept, CarriedIsShipped

\* One that writes one of them.
LEMMA StillBut ==
    ASSUME Inv, UNCHANGED <<mode, carries, base>>
    PROVE  Kept
  BY DEF Inv, Types, Kept, CarriedIsShipped
-----------------------------------------------------------------------------
(* Rows and calls in general.                                              *)

\* Any other call holds no release that is about to be written.
LEMMA UpdateLawful ==
    ASSUME Inv, NEW c \in calls, NEW new \in Rows, NEW then, NEW else,
           Update(c, new, then, else),
           c.at \in (Later \cap Copying) \/ mode = "batch",
           c.at \in Later, new.content = c.copy.content \/ mode = "batch",
           c.copy.status # "rolling_back" \/ c.at \in Undoing,
           Edge(c.copy.status, new.status),
           \A d \in then \cup else : d.at \notin Undoing
    PROVE  Lawful
<1>1. CASE Won(c)
  <2>1. c.rel \in Releases /\ row[c.rel].status # "none"
    BY DEF Inv, Knows
  <2>2. row' = [row EXCEPT ![c.rel] = new] /\ calls' = (calls \ {c}) \cup then
    BY <1>1 DEF Update, Put, Goes
  <2>3. mode # "batch" => new.content = row[c.rel].content
    BY <2>1 DEF Inv, Ships
  <2>4. ASSUME NEW d \in calls', d.at \in Undoing PROVE d.rel # c.rel
    BY <1>1, <2>2, <2>4 DEF Inv, Holds, Won
  <2> QED BY <1>1, <2>1, <2>2, <2>3, <2>4 DEF Lawful, Written, Won
<1>2. CASE ~Won(c)
  BY <1>2 DEF Update, Lawful
<1> QED BY <1>1, <1>2

LEMMA WriteLawful ==
    ASSUME Inv, NEW r \in Releases, NEW new \in Rows, NEW then, Write(r, new, then),
           row[r].status # "none", new.content = row[r].content,
           \A d \in calls : d.at \in Undoing => d.rel # r,
           Edge(row[r].status, new.status),
           \A d \in then : d.at \notin Undoing
    PROVE  Lawful
  BY DEF Write, Put, Lawful, Written

\* Nobody undoes a release that is not rolling back.
LEMMA NotUndone ==
    ASSUME Inv, NEW r \in Releases, row[r].status # "rolling_back"
    PROVE  \A d \in calls : d.at \in Undoing => d.rel # r
  BY DEF Inv, Holds

LEMMA UpdateBrings ==
    ASSUME NEW c, NEW new, NEW then, NEW else, Update(c, new, then, else),
           \A d \in then : Won(c) => Good(d), \A d \in else : ~Won(c) => Good(d)
    PROVE  Brings
  BY DEF Update, Goes, Brings

LEMMA WriteBrings ==
    ASSUME NEW r, NEW new, NEW then, Write(r, new, then), \A d \in then : Good(d)
    PROVE  Brings
  BY DEF Write, Brings

LEMMA GoesBrings ==
    ASSUME NEW c, NEW then, Goes(c, then), \A d \in then : Good(d)
    PROVE  Brings
  BY DEF Goes, Brings

\* What follows a statement about the same release, and what wakes an agent.
Follows == {"unpark", "ship", "reopen", "released", "need_revision"}
LEMMA OnGood ==
    ASSUME Inv, Lawful, mode' = mode, NEW c \in calls, NEW at \in Follows,
           at = "unpark" => c.rel \in Releases
    PROVE  Good(On(c, at)) /\ On(c, at).at \notin Undoing
<1> DEFINE d == On(c, at)
<1>1. c \in Calls /\ Knows(c)
  BY DEF Inv, Types
<1>2. d \in Calls /\ d.at = at /\ d.rel = c.rel
  BY <1>1 DEF On, Call, Calls, Ats, Follows, NoRow, Rows, Statuses, Commits
<1>3. d.rel \in Releases => row'[d.rel].status # "none"
  BY <1>1, <1>2, RowsStay DEF Knows
<1>4. Knows(d)' /\ Ships(d)' /\ d.at \notin Undoing
  BY <1>2, <1>3 DEF Knows, Ships, Follows, Opening, Later, Undoing, Copying
<1> QED BY <1>2, <1>4 DEF Good

LEMMA WakeupGood ==
    ASSUME NEW t \in Tasks
    PROVE  Good(Wakeup(t)) /\ Wakeup(t).at \notin Undoing
<1> DEFINE d == Wakeup(t)
<1>1. d \in Calls /\ d.at = "wake" /\ d.rel = 0
  BY DEF Wakeup, Call, Calls, Ats, NoRow, Rows, Statuses, Commits
<1>2. Knows(d)' /\ Ships(d)' /\ d.at \notin Undoing
  BY <1>1, Numbered DEF Knows, Ships, Opening, Later, Undoing, Copying
<1> QED BY <1>1, <1>2 DEF Good
-----------------------------------------------------------------------------
(* The openings.                                                           *)

LEMMA MergeStep ==
    ASSUME Inv, NEW t \in Tasks, Merge(t)
    PROVE  Lawful /\ Brings /\ Kept
<1> USE DEF Inv, Types, Merge, Merged, world, rows, asked
<1> DEFINE c == Call(t, "find", 0, NoRow)
<1>1. Lawful
  BY DEF Lawful
<1>2. Kept
  BY DEF Kept, CarriedIsShipped, Commits
<1>3. c \in Calls
  BY DEF Calls, Call, Ats, Opening, NoRow, Rows, Statuses, Commits
<1>4. Knows(c)' /\ Ships(c)' /\ c.at \notin Undoing
  BY Numbered DEF Knows, Ships, Call, Opening, Later, Undoing, Copying
<1>5. Brings
  BY <1>3, <1>4 DEF Brings, Good
<1> QED BY <1>1, <1>2, <1>5

\* Find starts nothing it does not know enough of.
LEMMA FindStep ==
    ASSUME Inv, NEW c \in calls, Find(c)
    PROVE  Lawful /\ Brings /\ Kept
<1> USE DEF Inv, Types, Find, Goes, Calm, world, rows, asked
<1>1. Lawful /\ Kept
  BY Still
<1>2. c \in Calls /\ Knows(c) /\ Ships(c) /\ c.at = "find"
  OBVIOUS
<1>3. ASSUME NEW d, d = [c EXCEPT !.at = "create"], calls' = (calls \ {c}) \cup {d}
      PROVE  Brings
  <2>1. d \in Calls /\ d.at = "create"
    BY <1>2, <1>3 DEF Calls, Ats, Opening
  <2>2. Knows(d)' /\ Ships(d)'
    BY <1>2, <1>3, <2>1, Numbered DEF Knows, Ships, Calls, Opening, Later, Undoing, Copying
  <2> QED BY <1>3, <2>1, <2>2 DEF Brings, Good, Undoing
<1>4. ASSUME NEW r \in Newest(With(IF mode = "batch" THEN {"draft"} ELSE Open)),
             mode = "batch" \/ Ancestor(r, c.by),
             NEW d, d = [c EXCEPT !.at = IF mode = "batch" THEN "join" ELSE "create",
                                  !.rel = r, !.copy = row[r], !.carried = carries[r]],
             calls' = (calls \ {c}) \cup {d}
      PROVE  Brings
  <2>1. r \in Releases /\ row[r].status \in (IF mode = "batch" THEN {"draft"} ELSE Open)
    BY <1>4 DEF Newest, With
  <2>2. /\ d \in Calls /\ d.rel = r /\ d.copy = row[r] /\ d.carried = carries[r] /\ d.by = c.by
        /\ d.at = IF mode = "batch" THEN "join" ELSE "create"
    BY <1>2, <1>4, <2>1 DEF Calls, Ats, Opening
  <2>3. Knows(d)'
    BY <1>2, <2>1, <2>2 DEF Knows, Opening, Later, Undoing, Open
  <2>4. mode # "batch" => row[r].content \subseteq base[c.by] /\ carries[r] \subseteq row[r].content
    BY <1>4, <2>1 DEF Ancestor, CarriedIsShipped
  <2>5. Ships(d)'
    BY <1>2, <2>1, <2>2, <2>4 DEF Ships, Opening, Undoing, Copying
  <2>6. d.at \notin Undoing
    BY <2>2 DEF Undoing
  <2>7. calls' = (calls \ {c}) \cup {d}
    BY <1>4
  <2> HIDE DEF Inv, Types, Find
  <2> QED BY <2>2, <2>3, <2>5, <2>6, <2>7 DEF Brings, Good
<1>5. Brings
  <2> DEFINE found == {r \in Newest(With(IF mode = "batch" THEN {"draft"} ELSE Open)) :
                          mode = "batch" \/ Ancestor(r, c.by)}
             new(r) == [c EXCEPT !.at = IF mode = "batch" THEN "join" ELSE "create",
                                 !.rel = r, !.copy = row[r], !.carried = carries[r]]
  <2>1. \/ calls' = (calls \ {c}) \cup {[c EXCEPT !.at = "create"]}
        \/ \E r \in found : calls' = (calls \ {c}) \cup {new(r)}
    OBVIOUS
  <2>2. ASSUME NEW r \in found, calls' = (calls \ {c}) \cup {new(r)} PROVE Brings
    BY <2>2, <1>4
  <2> QED BY <2>1, <2>2, <1>3
<1> QED BY <1>1, <1>5

\* A find that starts over.
LEMMA RetryBrings ==
    ASSUME Inv, Lawful, Kept, NEW c \in calls, c.by \in Tasks, Retry(c), base' = base,
           mode # "batch" => c.by \in base[c.by]
    PROVE  Brings
<1> DEFINE d == [Call(c.by, "find", 0, NoRow) EXCEPT !.flag = FALSE]
<1>1. /\ d \in Calls /\ d.at = "find" /\ d.rel = 0 /\ d.by = c.by /\ d.carried = {}
  BY DEF Calls, Call, Ats, Opening, NoRow, Rows, Statuses, Commits
<1>2. Knows(d)'
  BY <1>1, Numbered DEF Knows, Opening, Later, Undoing
<1>3. Ships(d)'
  BY <1>1, Numbered DEF Ships, Kept, Opening, Undoing, Copying
<1>4. Good(d)
  BY <1>1, <1>2, <1>3 DEF Good, Undoing
<1>5. calls' = (calls \ {c}) \cup {d} \/ calls' = (calls \ {c}) \cup {}
  BY DEF Retry, Goes
<1> QED BY <1>4, <1>5 DEF Brings

LEMMA JoinStep ==
    ASSUME Inv, NEW c \in calls, Join(c)
    PROVE  Lawful /\ Brings /\ Kept
<1>1. c.by \in Tasks /\ c.rel \in Releases /\ mode = "batch" /\ c \in Calls
  BY DEF Inv, Types, Join, Knows, Opening, Later
<1>2. mode' = mode /\ row' = row /\ base' = base
  BY DEF Join, world, asked
<1>3. carries' \in [Releases -> Commits]
  BY <1>1 DEF Join, Inv, Types, Retry, Commits
<1>4. Lawful /\ Kept
  BY <1>1, <1>2, <1>3 DEF Lawful, Kept, Inv, Types
<1>5. CASE Retry(c)
  BY <1>1, <1>2, <1>4, <1>5, RetryBrings
<1>6. CASE Goes(c, {})
  BY <1>4, <1>6 DEF Goes, Brings
<1> QED BY <1>4, <1>5, <1>6 DEF Join

LEMMA CreateFailsStep ==
    ASSUME Inv, NEW c \in calls, CreateFails(c)
    PROVE  Lawful /\ Brings /\ Kept
<1>1. c.by \in Tasks /\ (mode # "batch" => c.by \in base[c.by])
  BY DEF Inv, CreateFails, Knows, Ships, Opening
<1>2. mode' = mode /\ row' = row /\ base' = base /\ carries' = carries
  BY DEF CreateFails, world, rows
<1>3. Lawful /\ Kept
  BY <1>2, Still
<1>4. CASE Retry(c)
  BY <1>1, <1>2, <1>3, <1>4, RetryBrings
<1>5. CASE Goes(c, {})
  BY <1>3, <1>5 DEF Goes, Brings
<1> QED BY <1>3, <1>4, <1>5 DEF CreateFails

\* The second try goes to the release that was read again.
LEMMA SupersedeStep ==
    ASSUME Inv, NEW c \in calls, Supersede(c)
    PROVE  Lawful /\ Brings /\ Kept
<1> DEFINE new == [c.copy EXCEPT !.status = "superseded"]
           d == [c EXCEPT !.at = "reread"]
<1>1. /\ c \in Calls /\ Knows(c) /\ Ships(c) /\ c.at = "supersede" /\ c.rel \in Releases
      /\ c.copy \in Rows /\ c.copy.status \in Open /\ c.by \in Tasks
  BY DEF Inv, Types, Supersede, Calls, Knows, Later, Opening
<1>2. mode' = mode /\ base' = base /\ carries' = carries /\ Kept
  BY StillBut DEF Supersede, world
<1>3. new \in Rows /\ new.content = c.copy.content /\ new.status = "superseded"
  BY <1>1 DEF Rows, Statuses, Terminal
<1>4. d \in Calls /\ d.at = "reread" /\ d.rel = c.rel /\ d.by = c.by /\ d.new = c.new /\ d.carried = c.carried
  BY <1>1 DEF Calls, Ats, Opening
<1>5. Update(c, new, {On(c, "unpark")}, {d})
  BY DEF Supersede
<1>6. On(c, "unpark").at \notin Undoing /\ d.at \notin Undoing
  BY <1>4 DEF On, Call, Undoing
<1>7. Lawful
  <2>1. Edge(c.copy.status, new.status)
    BY <1>1, <1>3, Edges
  <2>2. c.at \in (Later \cap Copying) /\ c.at \in Later /\ c.copy.status # "rolling_back"
    BY <1>1 DEF Later, Copying, Open
  <2>3. \A e \in {On(c, "unpark")} \cup {d} : e.at \notin Undoing
    BY <1>6
  <2> HIDE DEF new, d
  <2> QED BY <1>3, <1>5, <2>1, <2>2, <2>3, UpdateLawful
<1>8. Good(On(c, "unpark"))
  BY <1>1, <1>2, <1>7, OnGood DEF Follows
<1>9. Good(d)
  <2>1. /\ \A r \in Releases : /\ row[r].status # "none" => row'[r].status # "none"
                               /\ mode # "batch" => row'[r].content = row[r].content
    BY <1>7, RowsStay
  <2>2. Knows(d)'
    BY <1>1, <1>4, <2>1 DEF Knows, Opening, Later, Undoing
  <2>3. Ships(d)'
    BY <1>1, <1>2, <1>4, <2>1 DEF Ships, Opening, Undoing, Copying
  <2> QED BY <1>4, <1>6, <2>2, <2>3 DEF Good
<1>10. Brings
  BY <1>5, <1>8, <1>9, UpdateBrings
<1> QED BY <1>2, <1>7, <1>10

LEMMA RereadStep ==
    ASSUME Inv, NEW c \in calls, Reread(c)
    PROVE  Lawful /\ Brings /\ Kept
<1> DEFINE d == [c EXCEPT !.at = "supersede", !.copy = row[c.rel], !.flag = FALSE]
<1>1. /\ c \in Calls /\ Knows(c) /\ Ships(c) /\ c.at = "reread" /\ c.rel \in Releases
      /\ row[c.rel] \in Rows /\ c.by \in Tasks /\ c.new \in Releases \cup {0}
  BY DEF Inv, Types, Reread, Calls, Knows, Later, Opening
<1>2. mode' = mode /\ base' = base /\ row' = row
  BY DEF Reread, world, asked
<1>3. \/ carries' = carries
      \/ carries' = [carries EXCEPT ![c.new] = @ \cup carries[c.rel]]
  BY DEF Reread, Inv, Types
<1>4. Kept
  <2>1. carries' \in [Releases -> Commits]
    BY <1>1, <1>3 DEF Inv, Types, Commits
  <2>2. mode # "batch" => carries[c.rel] \subseteq row[c.new].content
    BY <1>1 DEF Inv, CarriedIsShipped, Ships, Opening
  <2>3. mode # "batch" => \A r \in Releases : carries'[r] \subseteq row[r].content
    BY <1>1, <1>3, <2>2 DEF Inv, Types, CarriedIsShipped
  <2> QED BY <1>2, <2>1, <2>3 DEF Kept, Inv, Types
<1>5. Lawful
  BY <1>2 DEF Lawful
<1>6. CASE row[c.rel].status \in Open /\ calls' = (calls \ {c}) \cup {d}
  <2>1. /\ d \in Calls /\ d.at = "supersede" /\ d.rel = c.rel /\ d.by = c.by /\ d.new = c.new
        /\ d.copy = row[c.rel] /\ d.carried = c.carried
    BY <1>1 DEF Calls, Ats, Opening
  <2>2. Knows(d)'
    BY <1>1, <1>2, <1>6, <2>1 DEF Knows, Opening, Later, Undoing, Open
  <2>3. Ships(d)'
    BY <1>1, <1>2, <2>1 DEF Ships, Opening, Undoing, Copying
  <2>4. Good(d)
    BY <2>1, <2>2, <2>3 DEF Good, Undoing
  <2> QED BY <1>4, <1>5, <1>6, <2>4 DEF Brings
<1>7. CASE calls' = (calls \ {c}) \cup {}
  BY <1>4, <1>5, <1>7 DEF Brings
<1>8. \/ row[c.rel].status \in Open /\ calls' = (calls \ {c}) \cup {d}
      \/ calls' = (calls \ {c}) \cup {}
  BY DEF Reread, Goes
<1> QED BY <1>4, <1>5, <1>6, <1>7, <1>8

LEMMA UnparkStep ==
    ASSUME Inv, NEW c \in calls, Unpark(c) \/ MoveAll(c) \/ Dispatched(c)
    PROVE  Lawful /\ Brings /\ Kept
<1>1. UNCHANGED <<mode, row, carries, base>> /\ calls' = (calls \ {c}) \cup {}
  BY DEF Unpark, MoveAll, Dispatched, Goes, world, rows
<1> QED BY <1>1, Still DEF Brings

-----------------------------------------------------------------------------
(* What agents and people do, and its answers.                             *)

LEMMA AskCutStep ==
    ASSUME Inv, NEW r \in Releases, AskCut(r)
    PROVE  Lawful /\ Brings /\ Kept
<1>1. /\ UNCHANGED <<mode, row, carries, base>> /\ mode = "batch"
      /\ row[r].status \in {"draft", "pending"} /\ row[r] \in Rows
      /\ calls' = calls \cup {Call(Person, "cut", r, [row[r] EXCEPT !.content = Merged])}
  BY DEF AskCut, world, rows, Inv, Types
<1>2. ASSUME NEW d, d = Call(Person, "cut", r, [row[r] EXCEPT !.content = Merged])
      PROVE  Good(d)
  <2>1. d \in Calls /\ d.at = "cut" /\ d.rel = r /\ d.copy.status = row[r].status
    BY <1>1, <1>2 DEF Call, Calls, Ats, Rows, Merged, Commits
  <2>2. Knows(d)' /\ Ships(d)'
    BY <1>1, <2>1 DEF Knows, Ships, Opening, Later, Undoing, Copying
  <2> QED BY <2>1, <2>2 DEF Good, Undoing
<1> QED BY <1>1, <1>2, Still DEF Brings

LEMMA AskRollbackStep ==
    ASSUME Inv, NEW r \in Releases, NEW by \in Tasks \cup {Person}, AskRollback(r, by),
           UNCHANGED <<mode, base>>
    PROVE  Lawful /\ Brings /\ Kept
<1> DEFINE d == Call(by, "rollback", r, row[r])
<1>1. UNCHANGED <<mode, row, carries, base>> /\ calls' = calls \cup {d}
      /\ row[r].status \in {"failed", "awaiting_verdict", "released"} /\ row[r] \in Rows
  BY DEF AskRollback, MayUndo, rows, Inv, Types
<1>2. d \in Calls /\ d.at = "rollback" /\ d.rel = r /\ d.copy = row[r]
  BY <1>1 DEF Call, Calls, Ats, Commits
<1>3. Knows(d)' /\ Ships(d)'
  BY <1>1, <1>2 DEF Knows, Ships, Opening, Later, Undoing, Copying
<1> QED BY <1>1, <1>2, <1>3, Still DEF Brings, Good, Undoing

LEMMA DeployStep ==
    ASSUME Inv, NEW r \in Releases, NEW by \in Tasks \cup {Person}, Deploy(r, by),
           UNCHANGED <<mode, base>>
    PROVE  Lawful /\ Brings /\ Kept
<1> DEFINE new == [row[r] EXCEPT !.status = "deploying"]
           d == Call(by, "dispatch", r, new)
<1>1. row[r].status = "pending" /\ row[r] \in Rows /\ row \in [Releases -> Rows]
  BY DEF Deploy, Inv, Types
<1>2. /\ new \in Rows /\ new.status = "deploying" /\ new.content = row[r].content
  BY <1>1 DEF Rows, Statuses, Open
<1>3. Write(r, new, {d}) /\ carries' = carries
  BY DEF Deploy
<1>4. d \in Calls /\ d.at = "dispatch" /\ d.rel = r /\ d.copy = new
  BY <1>2 DEF Call, Calls, Ats, Commits
<1>5. row'[r] = new
  BY <1>1, <1>3 DEF Write, Put
<1>6. Knows(d)' /\ Ships(d)'
  BY <1>2, <1>4, <1>5 DEF Knows, Ships, Opening, Later, Undoing, Copying
<1>7. Good(d)
  BY <1>4, <1>6 DEF Good, Undoing
<1>8. Edge(row[r].status, new.status) /\ d.at \notin Undoing
  BY <1>1, <1>2, <1>4, Edges DEF Undoing
<1> HIDE DEF new, d
<1> QED BY <1>1, <1>2, <1>3, <1>7, <1>8, NotUndone, WriteLawful, WriteBrings, StillBut

LEMMA FinishStep ==
    ASSUME Inv, NEW r \in Releases, NEW by \in Tasks \cup {Person}, Finish(r, by),
           UNCHANGED <<mode, base>>
    PROVE  Lawful /\ Brings /\ Kept
<1> DEFINE new == [row[r] EXCEPT !.status = "released"]
           d == Call(by, "ship", r, NoRow)
<1>1. row[r].status \in {"awaiting_verdict", "failed"} /\ row[r] \in Rows /\ row \in [Releases -> Rows]
  BY DEF Finish, MayFinish, Inv, Types
<1>2. /\ new \in Rows /\ new.status = "released" /\ new.content = row[r].content
  BY <1>1 DEF Rows, Statuses, Terminal
<1>3. Write(r, new, {d}) /\ carries' = carries
  BY DEF Finish
<1>4. d \in Calls /\ d.at = "ship" /\ d.rel = r
  BY DEF Call, Calls, Ats, NoRow, Rows, Statuses, Commits
<1>5. row'[r] = new
  BY <1>1, <1>3 DEF Write, Put
<1>6. Knows(d)' /\ Ships(d)'
  BY <1>2, <1>4, <1>5 DEF Knows, Ships, Opening, Later, Undoing, Copying
<1>7. Good(d)
  BY <1>4, <1>6 DEF Good, Undoing
<1>8. Edge(row[r].status, new.status) /\ d.at \notin Undoing
  BY <1>1, <1>2, <1>4, Edges DEF Undoing
<1> HIDE DEF new, d
<1> QED BY <1>1, <1>2, <1>3, <1>7, <1>8, NotUndone, WriteLawful, WriteBrings, StillBut

LEMMA PersonStep ==
    ASSUME Inv, NEW r \in Releases, PersonActs(r)
    PROVE  Lawful /\ Brings /\ Kept
<1>1. UNCHANGED <<mode, base>> /\ (Deploy(r, Person) \/ Finish(r, Person) \/ AskRollback(r, Person))
  BY DEF PersonActs, world
<1> QED BY <1>1, DeployStep, FinishStep, AskRollbackStep

LEMMA AgentStep ==
    ASSUME Inv, NEW t \in Tasks, AgentActs(t)
    PROVE  Lawful /\ Brings /\ Kept
<1>1. UNCHANGED <<mode, base>>
  BY DEF AgentActs, world
<1>2. PICK r \in ForTask(t) : Deploy(r, t) \/ Finish(r, t) \/ AskRollback(r, t)
  BY DEF AgentActs
<1>3. r \in Releases
  BY DEF ForTask, Newest, Carrying
<1> QED BY <1>1, <1>2, <1>3, DeployStep, FinishStep, AskRollbackStep

\* Looking, watching, parking and ending write no row and start no call.
LEMMA AgentStill ==
    ASSUME Inv, NEW t \in Tasks,
           AgentLooks(t) \/ AgentWatches(t) \/ Park(t) \/ AgentEnds(t)
    PROVE  Lawful /\ Brings /\ Kept
<1>1. UNCHANGED <<mode, row, carries, base, calls>>
  BY DEF AgentLooks, AgentWatches, Park, AgentEnds, world, rows
<1> QED BY <1>1, Still DEF Brings

LEMMA CutStep ==
    ASSUME Inv, NEW c \in calls, Cut(c)
    PROVE  Lawful /\ Brings /\ Kept
<1> DEFINE new == [c.copy EXCEPT !.status = "pending"]
           then == {Wakeup(t) : t \in Latest(InDone(carries[c.rel]))}
<1>1. /\ c \in Calls /\ c.at = "cut" /\ mode = "batch" /\ c.rel \in Releases /\ c.copy \in Rows
      /\ c.copy.status \in {"draft", "pending"}
  BY DEF Cut, Inv, Types, Calls, Knows, Later
<1>2. UNCHANGED <<mode, base, carries>> /\ Update(c, new, then, {})
  BY DEF Cut, world
<1>3. new \in Rows /\ new.status = "pending"
  BY <1>1 DEF Rows, Statuses, Open
<1>4. \A d \in then : Good(d) /\ d.at \notin Undoing
  BY <1>1, WakeupGood DEF Latest, InDone, Inv, Types, Commits
<1>5. Edge(c.copy.status, new.status) /\ c.at \in Later /\ c.copy.status # "rolling_back"
  BY <1>1, <1>3, Edges DEF Later
<1> HIDE DEF new, then
<1>6. Lawful
  BY <1>1, <1>2, <1>3, <1>4, <1>5, UpdateLawful
<1> QED BY <1>2, <1>4, <1>6, UpdateBrings, StillBut

\* A release that is handed back.
LEMMA StampGood ==
    ASSUME Inv, Lawful, mode' = mode, NEW by \in Tasks \cup {Person, Sweeper},
           NEW r \in Releases, row[r].status # "none", NEW new \in Rows,
           new.status \in {"failed", "awaiting_verdict", "pending"},
           mode # "batch" => new.content = row[r].content,
           NEW d, d = Call(by, "stamp", r, new)
    PROVE  Good(d) /\ d.at \notin Undoing
<1>1. d \in Calls /\ d.at = "stamp" /\ d.rel = r /\ d.copy = new
  BY DEF Call, Calls, Ats, Commits
<1>2. row'[r].status # "none" /\ (mode # "batch" => row'[r].content = row[r].content)
  BY RowsStay
<1>3. Knows(d)' /\ Ships(d)' /\ d.at \notin Undoing
  BY <1>1, <1>2 DEF Knows, Ships, Opening, Later, Undoing, Copying
<1> QED BY <1>1, <1>3 DEF Good

LEMMA DispatchRefusedStep ==
    ASSUME Inv, NEW c \in calls, DispatchRefused(c)
    PROVE  Lawful /\ Brings /\ Kept
<1> DEFINE new == [c.copy EXCEPT !.status = "failed"]
<1>1. /\ c \in Calls /\ c.at = "dispatch" /\ c.rel \in Releases /\ row[c.rel].status # "none"
      /\ c.copy \in Rows /\ c.copy.status = "deploying" /\ row \in [Releases -> Rows]
      /\ mode # "batch" => c.copy.content = row[c.rel].content
  BY DEF DispatchRefused, Inv, Types, Calls, Knows, Later, Ships, Copying
<1>2. UNCHANGED <<mode, base, carries>> /\ Update(c, new, {Stamp(c)}, {})
  BY DEF DispatchRefused, world
<1>3. new \in Rows /\ new.status = "failed" /\ new.content = c.copy.content
  BY <1>1 DEF Rows, Statuses
<1>4. Edge(c.copy.status, new.status) /\ c.at \in (Later \cap Copying)
  BY <1>1, <1>3, Edges DEF Later, Copying
<1>5. \A d \in {Stamp(c)} \cup {} : d.at \notin Undoing
  BY DEF Stamp, Call, Undoing
<1>6. Won(c) => row'[c.rel] = new
  BY <1>1, <1>2 DEF Update, Put
<1> HIDE DEF new
<1>7. Lawful
  BY <1>1, <1>2, <1>3, <1>4, <1>5, UpdateLawful
<1>8. ASSUME Won(c), NEW d, d = Stamp(c) PROVE Good(d)
  <2>1. d = Call(c.by, "stamp", c.rel, new) /\ c.by \in Tasks \cup {Person, Sweeper}
    BY <1>1, <1>6, <1>8 DEF Stamp, Calls
  <2> QED BY <1>1, <1>2, <1>3, <1>7, <2>1, StampGood
<1>9. Brings
  BY <1>2, <1>8, UpdateBrings
<1> QED BY <1>2, <1>7, <1>9, StillBut

LEMMA DispatchFailsStep ==
    ASSUME Inv, NEW c \in calls, DispatchFails(c)
    PROVE  Lawful /\ Brings /\ Kept
<1> DEFINE new == [c.copy EXCEPT !.status = "pending"]
<1>1. /\ c \in Calls /\ c.at = "dispatch" /\ c.rel \in Releases /\ c.copy \in Rows
      /\ c.copy.status = "deploying" /\ row[c.rel].status = "deploying"
      /\ mode # "batch" => c.copy.content = row[c.rel].content
  BY DEF DispatchFails, Won, Inv, Types, Calls, Knows, Later, Ships, Copying
<1>2. /\ UNCHANGED <<mode, base, carries>> /\ row' = [row EXCEPT ![c.rel] = new]
      /\ calls' = (calls \ {c}) \cup {}
  BY DEF DispatchFails, Goes, world
<1>3. new \in Rows /\ new.status = "pending" /\ new.content = c.copy.content
  BY <1>1 DEF Rows, Statuses, Open
<1>4. \A d \in calls' : d.at \in Undoing => d.rel # c.rel
  BY <1>1, <1>2, NotUndone
<1>5. Edge(row[c.rel].status, new.status)
  BY <1>1, <1>3, Edges
<1> HIDE DEF new
<1>6. Lawful
  BY <1>1, <1>2, <1>3, <1>4, <1>5 DEF Lawful, Written
<1>7. Brings
  BY <1>2 DEF Brings
<1> QED BY <1>2, <1>6, <1>7, StillBut

LEMMA TakeAllStep ==
    ASSUME Inv, NEW c \in calls, TakeAll(c)
    PROVE  Lawful /\ Brings /\ Kept
<1> DEFINE at == IF c.at = "ship" THEN "released" ELSE "need_revision"
<1>1. UNCHANGED <<mode, row, carries, base>> /\ calls' = (calls \ {c}) \cup {On(c, at)}
  BY DEF TakeAll, Goes, world, rows
<1>2. Lawful /\ Kept
  BY <1>1, Still
<1>3. at \in Follows /\ at # "unpark"
  BY DEF Follows
<1>4. Good(On(c, at))
  BY <1>1, <1>2, <1>3, OnGood
<1> QED BY <1>1, <1>2, <1>4 DEF Brings

LEMMA WakeStep ==
    ASSUME Inv, NEW c \in calls, Wake(c)
    PROVE  Lawful /\ Brings /\ Kept
<1>1. UNCHANGED <<mode, row, carries, base>> /\ calls' = (calls \ {c}) \cup {}
  BY DEF Wake, Goes, world, rows
<1> QED BY <1>1, Still DEF Brings

\* The copy that is stamped has the status of the row.
LEMMA HandBackStep ==
    ASSUME Inv, NEW c \in calls, HandBack(c)
    PROVE  Lawful /\ Brings /\ Kept
<1> DEFINE held == carries[c.rel] \cap parked
           woken == IF held # {} THEN First(held) ELSE Latest(InDone(carries[c.rel]))
<1>1. /\ c.rel \in Releases /\ c.copy \in Rows /\ row[c.rel].status # "none"
      /\ c.copy.status \in {"failed", "awaiting_verdict", "pending"}
      /\ mode # "batch" => c.copy.content = row[c.rel].content
  BY DEF HandBack, Inv, Types, Calls, Knows, Later, Ships, Copying
<1>2. /\ UNCHANGED <<mode, base, carries>> /\ Stamped(c.copy, c.rel)
      /\ calls' = (calls \ {c}) \cup {Wakeup(t) : t \in woken}
  BY DEF HandBack, Goes, world
<1>3. woken \subseteq Tasks
  BY <1>1 DEF First, Latest, InDone, Inv, Types, Commits
<1> HIDE DEF woken
<1>4. \A d \in {Wakeup(t) : t \in woken} : Good(d) /\ d.at \notin Undoing
  BY <1>3, WakeupGood
<1>5. CASE row[c.rel].status = c.copy.status /\ row' = [row EXCEPT ![c.rel] = c.copy]
  <2>1. \A d \in calls : d.at \in Undoing => d.rel # c.rel
    BY <1>1, <1>5, NotUndone
  <2>2. Edge(row[c.rel].status, c.copy.status)
    BY <1>5 DEF Edge
  <2>3. Written(c.rel, c.copy)
    BY <1>1, <1>2, <1>4, <1>5, <2>1, <2>2 DEF Written
  <2>4. Lawful
    BY <1>1, <2>3 DEF Lawful
  <2> QED BY <1>2, <1>4, <2>4, StillBut DEF Brings
<1>6. CASE row' = row
  BY <1>2, <1>4, <1>6, Still DEF Brings
<1> QED BY <1>2, <1>5, <1>6 DEF Stamped

LEMMA FreeParkStep ==
    ASSUME Inv, NEW t \in Tasks, FreePark(t)
    PROVE  Lawful /\ Brings /\ Kept
<1>1. PICK r \in ForTask(t) : Stamped(row[r], r) /\ calls' = calls \cup {Wakeup(t)}
  BY DEF FreePark
<1>2. r \in Releases
  BY DEF ForTask, Newest, Carrying
<1>3. UNCHANGED <<mode, row, carries, base>>
  BY <1>1, <1>2 DEF FreePark, Stamped, world, Inv, Types
<1> QED BY <1>1, <1>3, Still, WakeupGood DEF Brings

LEMMA RewakeStep ==
    ASSUME Inv, NEW r \in Releases, Rewake(r)
    PROVE  Lawful /\ Brings /\ Kept
<1>1. /\ UNCHANGED <<mode, row, carries, base>>
      /\ calls' = calls \cup {Call(Sweeper, "stamp", r, row[r])}
      /\ row[r] \in Rows /\ row[r].status \in {"failed", "awaiting_verdict", "pending"}
  BY DEF Rewake, Due, world, rows, Inv, Types
<1>2. Lawful /\ Kept
  BY <1>1, Still
<1>3. ASSUME NEW d, d = Call(Sweeper, "stamp", r, row[r]) PROVE Good(d)
  BY <1>1, <1>2, <1>3, StampGood
<1> QED BY <1>1, <1>2, <1>3 DEF Brings

LEMMA CrashStep ==
    ASSUME Inv, Crash
    PROVE  Lawful /\ Brings /\ Kept
<1>1. UNCHANGED <<mode, row, carries, base>> /\ calls' = {}
  BY DEF Crash, world, rows
<1> QED BY <1>1, Still DEF Brings

\* What the sweeper finds of a release that rolls back it writes only where no
\* call undoes the release.
LEMMA SweepStep ==
    ASSUME Inv, NEW r \in Releases, Sweep(r)
    PROVE  Lawful /\ Brings /\ Kept
<1>1. PICK new \in Findings(r) :
         Write(r, new, CASE new.status = "verifying"   -> {}
                         [] new.status = "rolled_back" -> {Call(Sweeper, "reopen", r, NoRow)}
                         [] OTHER                      -> {Call(Sweeper, "stamp", r, new)})
  BY DEF Sweep
<1>2. UNCHANGED <<mode, base, carries>> /\ row[r] \in Rows /\ row \in [Releases -> Rows]
  BY DEF Sweep, world, Inv, Types
<1>3. /\ new \in Rows /\ new.content = row[r].content
      /\ new.status \in {"verifying", "rolled_back", "failed", "awaiting_verdict"}
      /\ row[r].status # "none"
  BY <1>2 DEF Findings, Rows, Statuses, Open, Watched, Terminal
<1>4. Edge(row[r].status, new.status)
  BY <1>2, Edges DEF Findings, Rows
<1>5. \A d \in calls : d.at \in Undoing => d.rel # r
  <2>1. CASE row[r].status = "rolling_back"
    <3>1. row[r].rollback = "restored" \/ ~Working(r, Undoing)
      BY <2>1 DEF Findings
    <3> QED BY <3>1 DEF Working, Inv, Holds
  <2> QED BY <2>1, NotUndone
<1> DEFINE then == CASE new.status = "verifying"   -> {}
                     [] new.status = "rolled_back" -> {Call(Sweeper, "reopen", r, NoRow)}
                     [] OTHER                      -> {Call(Sweeper, "stamp", r, new)}
<1>6. Write(r, new, then)
  BY <1>1
<1>7. ASSUME NEW d \in then
      PROVE  \/ d = Call(Sweeper, "reopen", r, NoRow)
             \/ /\ d = Call(Sweeper, "stamp", r, new)
                /\ new.status \in {"failed", "awaiting_verdict"}
  <2>1. CASE new.status = "verifying"
    BY <2>1, <1>7
  <2>2. CASE new.status = "rolled_back"
    BY <2>2, <1>7
  <2>3. CASE new.status \in {"failed", "awaiting_verdict"}
    BY <2>3, <1>7
  <2> QED BY <1>3, <2>1, <2>2, <2>3
<1> HIDE DEF then
<1>8. \A d \in then : d.at \notin Undoing
  BY <1>7 DEF Call, Undoing
<1>9. Lawful
  BY <1>2, <1>3, <1>4, <1>5, <1>6, <1>8, WriteLawful
<1>10. ASSUME NEW d \in then PROVE Good(d)
  <2>1. CASE d = Call(Sweeper, "reopen", r, NoRow)
    <3>1. d \in Calls /\ d.at = "reopen" /\ d.rel = r
      BY <2>1 DEF Call, Calls, Ats, NoRow, Rows, Statuses, Commits
    <3>2. row'[r].status # "none"
      BY <1>3, <1>9, RowsStay
    <3>3. Knows(d)' /\ Ships(d)'
      BY <3>1, <3>2 DEF Knows, Ships, Opening, Later, Undoing, Copying
    <3> QED BY <3>1, <3>3 DEF Good, Undoing
  <2>2. CASE /\ d = Call(Sweeper, "stamp", r, new)
             /\ new.status \in {"failed", "awaiting_verdict"}
    BY <1>2, <1>3, <1>9, <2>2, StampGood
  <2> QED BY <1>7, <2>1, <2>2
<1>11. Brings
  BY <1>6, <1>10, WriteBrings
<1> QED BY <1>2, <1>9, <1>11, StillBut

LEMMA RedeployStep ==
    ASSUME Inv, NEW c \in calls, Redeploy(c)
    PROVE  Lawful /\ Brings /\ Kept
<1>1. /\ c \in Calls /\ c.at = "redeploy" /\ c.rel \in Releases /\ row[c.rel].status # "none"
      /\ c.copy \in Rows /\ c.copy.status = "rolling_back" /\ row \in [Releases -> Rows]
      /\ mode # "batch" => c.copy.content = row[c.rel].content
  BY DEF Redeploy, Inv, Types, Calls, Knows, Later, Ships, Copying, Undoing
<1>2. UNCHANGED <<mode, base, carries>> /\ Kept
  BY StillBut DEF Redeploy, world
<1>3. ASSUME NEW new \in Rows, new.content = c.copy.content, NEW then, Update(c, new, then, {}),
             new.status \in {"rolling_back", "rolled_back", "failed"},
             \A d \in then : d.at \notin Undoing
      PROVE  Lawful
  <2>1. Edge(c.copy.status, new.status) /\ c.at \in (Later \cap Copying) /\ c.at \in Undoing
    BY <1>1, <1>3, Edges DEF Later, Copying, Undoing, Statuses, Watched
  <2>2. \A d \in then \cup {} : d.at \notin Undoing
    BY <1>3
  <2> QED BY <1>3, <2>1, <2>2, UpdateLawful
<1>4. CASE Update(c, [c.copy EXCEPT !.status = "rolled_back"], {On(c, "reopen")}, {})
  <2> DEFINE new == [c.copy EXCEPT !.status = "rolled_back"]
  <2>1. new \in Rows /\ new.content = c.copy.content /\ new.status = "rolled_back"
    BY <1>1 DEF Rows, Statuses, Terminal
  <2>2. \A d \in {On(c, "reopen")} : d.at \notin Undoing
    BY DEF On, Call, Undoing
  <2> HIDE DEF new
  <2>3. Update(c, new, {On(c, "reopen")}, {})
    BY <1>4 DEF new
  <2>4. Lawful
    BY <1>3, <2>1, <2>2, <2>3
  <2>5. Good(On(c, "reopen"))
    BY <1>2, <2>4, OnGood DEF Follows
  <2> QED BY <1>2, <2>3, <2>4, <2>5, UpdateBrings
<1>5. CASE Update(c, [c.copy EXCEPT !.rollback = "restored"], {}, {})
  <2> DEFINE new == [c.copy EXCEPT !.rollback = "restored"]
  <2>1. new \in Rows /\ new.content = c.copy.content /\ new.status = "rolling_back"
    BY <1>1 DEF Rows
  <2> HIDE DEF new
  <2>2. Update(c, new, {}, {})
    BY <1>5 DEF new
  <2> QED BY <1>2, <1>3, <2>1, <2>2, UpdateBrings
<1>6. CASE Update(c, [c.copy EXCEPT !.status = "failed", !.rollback = "restored"], {Stamp(c)}, {})
  <2> DEFINE new == [c.copy EXCEPT !.status = "failed", !.rollback = "restored"]
  <2>1. new \in Rows /\ new.content = c.copy.content /\ new.status = "failed"
    BY <1>1 DEF Rows, Statuses
  <2>2. \A d \in {Stamp(c)} : d.at \notin Undoing
    BY DEF Stamp, Call, Undoing
  <2> HIDE DEF new
  <2>3. Update(c, new, {Stamp(c)}, {})
    BY <1>6 DEF new
  <2>4. Lawful
    BY <1>3, <2>1, <2>2, <2>3
  <2>5. Won(c) => row'[c.rel] = new
    BY <1>1, <2>3 DEF Update, Put
  <2>6. ASSUME Won(c), NEW d, d = Stamp(c) PROVE Good(d)
    <3>1. d = Call(c.by, "stamp", c.rel, new) /\ c.by \in Tasks \cup {Person, Sweeper}
      BY <1>1, <2>5, <2>6 DEF Stamp, Calls
    <3> QED BY <1>1, <1>2, <2>1, <2>4, <3>1, StampGood
  <2> QED BY <1>2, <2>3, <2>4, <2>6, UpdateBrings
<1> QED BY <1>4, <1>5, <1>6 DEF Redeploy

-----------------------------------------------------------------------------
(* The steps that are not Lawful: a new row, and a call that holds a claim. *)

\* A call takes, or keeps, the claim on a release that no other call undoes.
LEMMA ClaimKeeps ==
    ASSUME Inv, UNCHANGED <<mode, base, carries>>,
           NEW c \in calls, c.rel \in Releases, row[c.rel].status # "none",
           NEW new \in Rows, new.status = "rolling_back", new.rollback # "restored",
           mode # "batch" => new.content = row[c.rel].content,
           row' = [row EXCEPT ![c.rel] = new],
           NEW d \in Calls, d.at \in Undoing, d.rel = c.rel, d.copy = new,
           calls' = (calls \ {c}) \cup {d},
           \A e \in calls \ {c} : e.at \in Undoing => e.rel # c.rel
    PROVE  Inv'
<1>1. /\ row' \in [Releases -> Rows] /\ row'[c.rel] = new
      /\ \A r \in Releases : r # c.rel => row'[r] = row[r]
      /\ \A r \in Releases : /\ row[r].status # "none" => row'[r].status # "none"
                             /\ mode # "batch" => row'[r].content = row[r].content
  BY DEF Inv, Types
<1>2. Types'
  BY <1>1 DEF Inv, Types
<1>3. Knows(d)' /\ Ships(d)'
  BY <1>1 DEF Knows, Ships, Undoing, Opening, Later, Copying
<1>4. ASSUME NEW e \in calls PROVE Knows(e)' /\ Ships(e)'
  <2>1. Knows(e) /\ Ships(e)
    BY DEF Inv
  <2>2. Knows(e)'
    BY <1>1, <2>1 DEF Knows
  <2>3. Ships(e)'
    BY <1>1, <2>1 DEF Ships, Knows, Later, Opening
  <2> QED BY <2>2, <2>3
<1>5. Holds(d)'
  BY <1>1 DEF Holds
<1>6. ASSUME NEW e \in calls \ {c} PROVE Holds(e)'
  <2> SUFFICES ASSUME e.at \in Undoing PROVE Holds(e)'
    BY DEF Holds
  <2>1. Holds(e) /\ e.rel \in Releases /\ e.rel # c.rel
    BY DEF Inv, Knows, Later
  <2> QED BY <1>1, <2>1 DEF Holds
<1>7. CarriedIsShipped'
  BY <1>1 DEF Inv, CarriedIsShipped
<1> QED BY <1>2, <1>3, <1>4, <1>5, <1>6, <1>7 DEF Inv

\* A step of the machine, or none.
Moves == \/ row' = row
         \/ \E r \in Releases, new \in Rows : /\ row' = [row EXCEPT ![r] = new]
                                              /\ Edge(row[r].status, new.status)

LEMMA LawfulMoves == Lawful => Moves
  BY DEF Lawful, Written, Moves

LEMMA RollbackStep ==
    ASSUME Inv, NEW c \in calls, Rollback(c)
    PROVE  Inv' /\ Moves
<1> DEFINE new == Claimed(c.copy)
<1>1. /\ c \in Calls /\ c.at = "rollback" /\ c.rel \in Releases /\ row[c.rel].status # "none"
      /\ c.copy \in Rows /\ c.copy.status \in {"failed", "awaiting_verdict", "released"}
      /\ mode # "batch" => c.copy.content = row[c.rel].content
  BY DEF Rollback, Inv, Types, Calls, Knows, Later, Ships, Copying
<1>2. UNCHANGED <<mode, base, carries>> /\ Update(c, new, {Undo(c)}, {})
  BY DEF Rollback, world
<1>3. /\ new \in Rows /\ new.status = "rolling_back" /\ new.rollback # "restored"
      /\ new.content = c.copy.content
  BY <1>1 DEF Claimed, Rows, Statuses, Watched
<1>4. CASE Won(c)
  <2>1. row[c.rel].status = c.copy.status /\ row' = [row EXCEPT ![c.rel] = new]
        /\ calls' = (calls \ {c}) \cup {Undo(c)}
    BY <1>2, <1>4 DEF Update, Won, Put, Goes
  <2>2. /\ Undo(c) \in Calls /\ Undo(c).at \in Undoing /\ Undo(c).rel = c.rel
        /\ Undo(c).copy = new
    <3>1. NeverDeployed(c.copy) \in BOOLEAN
      BY DEF NeverDeployed
    <3> HIDE DEF new
    <3>2. Undo(c) = [c EXCEPT !.at = IF Landed(c.copy) THEN "redeploy" ELSE "revert",
                              !.copy = new, !.flag = NeverDeployed(c.copy)]
      BY DEF Undo, new
    <3> QED BY <1>1, <1>3, <3>1, <3>2 DEF Calls, Ats, Undoing
  <2>3. \A e \in calls : e.at \in Undoing => e.rel # c.rel
    BY <1>1, <2>1, NotUndone
  <2>4. Edge(row[c.rel].status, new.status)
    BY <1>1, <1>3, <2>1, Edges
  <2> HIDE DEF new
  <2>5. PICK d : d = Undo(c)
    OBVIOUS
  <2>6. Inv'
    BY <1>1, <1>2, <1>3, <2>1, <2>2, <2>3, <2>5, ClaimKeeps
  <2> QED BY <1>1, <1>3, <2>1, <2>4, <2>6 DEF Moves
<1>5. CASE ~Won(c)
  <2>1. UNCHANGED <<mode, row, carries, base>> /\ calls' = (calls \ {c}) \cup {}
    BY <1>2, <1>5 DEF Update, Goes
  <2> QED BY <2>1, Still, LawfulKeeps, LawfulMoves DEF Brings
<1> QED BY <1>4, <1>5

LEMMA RevertStep ==
    ASSUME Inv, NEW c \in calls, Revert(c)
    PROVE  Inv' /\ Moves
<1>1. /\ c \in Calls /\ c.at = "revert" /\ c.rel \in Releases /\ row[c.rel].status # "none"
      /\ c.copy \in Rows /\ c.copy.status = "rolling_back" /\ row \in [Releases -> Rows]
      /\ mode # "batch" => c.copy.content = row[c.rel].content
      /\ c.at \in Undoing
      /\ row[c.rel].status = "rolling_back"
      /\ \A d \in calls \ {c} : d.at \in Undoing => d.rel # c.rel
  <2>1. Knows(c) /\ Ships(c) /\ Holds(c) /\ c.at = "revert" /\ c.at \in Undoing
    BY DEF Inv, Revert, Undoing
  <2>2. c.rel \in Releases
    BY <2>1 DEF Knows, Later
  <2> QED BY <2>1, <2>2 DEF Inv, Types, Calls, Knows, Ships, Copying, Holds
<1>2. UNCHANGED <<mode, base, carries>> /\ Kept
  BY StillBut DEF Revert, world
<1>3. CASE Update(c, [c.copy EXCEPT !.rollback = "reverted"],
                  Then(c, "redeploy", [c.copy EXCEPT !.rollback = "reverted"]), {})
  <2> DEFINE new == [c.copy EXCEPT !.rollback = "reverted"]
             d == [c EXCEPT !.at = "redeploy", !.copy = new]
  <2>1. /\ new \in Rows /\ new.content = c.copy.content /\ new.status = "rolling_back"
        /\ new.rollback # "restored"
    BY <1>1 DEF Rows
  <2> HIDE DEF new
  <2>2. d \in Calls /\ d.at \in Undoing /\ d.rel = c.rel /\ d.copy = new
    BY <1>1, <2>1 DEF Calls, Ats, Undoing
  <2>3. row' = [row EXCEPT ![c.rel] = new] /\ calls' = (calls \ {c}) \cup {d}
    BY <1>1, <1>3 DEF Update, Won, Put, Goes, Then, new
  <2> HIDE DEF d
  <2>4. Inv'
    BY <1>1, <1>2, <2>1, <2>2, <2>3, ClaimKeeps
  <2>5. Edge(row[c.rel].status, new.status)
    BY <1>1, <2>1 DEF Edge
  <2> QED BY <1>1, <2>1, <2>3, <2>4, <2>5 DEF Moves
<1>4. CASE Update(c, [c.copy EXCEPT !.status = "failed"], {Stamp(c)}, {})
  <2> DEFINE new == [c.copy EXCEPT !.status = "failed"]
  <2>1. new \in Rows /\ new.content = c.copy.content /\ new.status = "failed"
    BY <1>1 DEF Rows, Statuses
  <2> HIDE DEF new
  <2>2. Update(c, new, {Stamp(c)}, {})
    BY <1>4 DEF new
  <2>3. Edge(c.copy.status, new.status) /\ c.at \in (Later \cap Copying)
    BY <1>1, <2>1, Edges DEF Later, Copying
  <2>4. \A d \in {Stamp(c)} \cup {} : d.at \notin Undoing
    BY DEF Stamp, Call, Undoing
  <2>5. Lawful
    BY <1>1, <2>1, <2>2, <2>3, <2>4, UpdateLawful
  <2>6. Won(c) => row'[c.rel] = new
    BY <1>1, <2>2 DEF Update, Put
  <2>7. ASSUME Won(c), NEW d, d = Stamp(c) PROVE Good(d)
    <3>1. d = Call(c.by, "stamp", c.rel, new) /\ c.by \in Tasks \cup {Person, Sweeper}
      BY <1>1, <2>6, <2>7 DEF Stamp, Calls
    <3> QED BY <1>1, <1>2, <2>1, <2>5, <3>1, StampGood
  <2>8. Brings
    BY <2>2, <2>7, UpdateBrings
  <2> QED BY <1>2, <2>5, <2>8, LawfulKeeps, LawfulMoves
<1> QED BY <1>3, <1>4 DEF Revert

\* Nobody knows the new row before it is inserted.
LEMMA CreateStep ==
    ASSUME Inv, NEW c \in calls, Create(c)
    PROVE  Inv' /\ Moves
<1>1. /\ c \in Calls /\ Knows(c) /\ Ships(c) /\ c.at = "create" /\ c.by \in Tasks
      /\ c.carried \in Commits /\ c.rel \in Releases \cup {0}
  BY DEF Inv, Types, Create, Knows, Opening, Calls
<1>2. PICK new \in Unused : Inserted(c, new, c.carried \cup {c.by})
  BY DEF Create
<1>3. new \in Releases /\ row[new].status = "none"
  BY <1>2 DEF Unused, Created
<1> DEFINE fresh == [NoRow EXCEPT !.status = Starts[mode],
                                  !.content = IF mode = "batch" THEN {} ELSE base[c.by]]
           d == [c EXCEPT !.at = "supersede", !.new = new]
<1>4. fresh \in Rows /\ fresh.status \in {"draft", "pending", "deploying"}
      /\ (mode # "batch" => fresh.content = base[c.by])
  <2>1. Starts[mode] \in {"draft", "pending", "deploying"}
    BY DEF Inv, Types, Modes, Starts
  <2>2. base[c.by] \in Commits /\ {} \in Commits
    BY <1>1 DEF Inv, Types, Commits
  <2> QED BY <2>1, <2>2 DEF NoRow, Rows, Statuses, Open
<1>5. d \in Calls /\ d.at = "supersede" /\ d.rel = c.rel /\ d.new = new /\ d.by = c.by
      /\ d.copy = c.copy /\ d.carried = c.carried
  BY <1>1, <1>3 DEF Calls, Ats, Opening
<1>6. /\ row' = [row EXCEPT ![new] = fresh]
      /\ carries' = [carries EXCEPT ![new] = c.carried \cup {c.by}]
      /\ \/ calls' = (calls \ {c}) \cup {}
         \/ c.rel # 0 /\ calls' = (calls \ {c}) \cup {d}
      /\ UNCHANGED <<mode, base>>
  BY <1>2 DEF Create, Inserted, Goes, world
<1> HIDE DEF fresh, d
<1>7. /\ row' \in [Releases -> Rows] /\ row'[new] = fresh
      /\ \A r \in Releases : r # new => row'[r] = row[r]
  BY <1>3, <1>4, <1>6 DEF Inv, Types
<1>8. carries' \in [Releases -> Commits]
  BY <1>1, <1>3, <1>6 DEF Inv, Types, Commits
<1>9. calls' \subseteq Calls
  BY <1>5, <1>6 DEF Inv, Types
<1>10. CarriedIsShipped'
  <2>1. mode # "batch" => c.carried \cup {c.by} \subseteq base[c.by]
    BY <1>1 DEF Ships, Opening
  <2> QED BY <1>3, <1>4, <1>6, <1>7, <2>1 DEF Inv, Types, CarriedIsShipped
<1>11. ASSUME NEW e \in calls PROVE Knows(e)' /\ Ships(e)' /\ (e.rel \in Releases => e.rel # new)
  <2>1. Knows(e) /\ Ships(e)
    BY DEF Inv
  <2>2. e.rel \in Releases => e.rel # new
    BY <1>3, <2>1 DEF Knows
  <2>3. Knows(e)'
    BY <1>6, <1>7, <2>1, <2>2 DEF Knows
  <2>4. Ships(e)'
    BY <1>3, <1>6, <1>7, <2>1, <2>2 DEF Ships
  <2> QED BY <2>2, <2>3, <2>4
<1>12. ASSUME c.rel # 0 PROVE Knows(d)' /\ Ships(d)'
  <2>1. c.rel \in Releases /\ c.rel # new /\ row'[c.rel] = row[c.rel]
        /\ row[c.rel].status # "none" /\ c.copy.status \in Open
    BY <1>1, <1>7, <1>11, <1>12 DEF Knows
  <2>2. Knows(d)'
    BY <1>1, <1>5, <2>1 DEF Knows, Opening, Later, Undoing
  <2>3. Ships(d)'
    BY <1>1, <1>3, <1>4, <1>5, <1>6, <1>7, <2>1 DEF Ships, Opening, Undoing, Copying, Open
  <2> QED BY <2>2, <2>3
<1>13. \A e \in calls' : Holds(e)'
  <2> SUFFICES ASSUME NEW e \in calls', e.at \in Undoing PROVE Holds(e)'
    BY DEF Holds
  <2>1. e \in calls /\ Holds(e) /\ e.rel \in Releases /\ e.rel # new
    BY <1>5, <1>6, <1>11 DEF Inv, Knows, Later, Undoing
  <2>2. \A f \in calls' : f.at \in Undoing => f \in calls
    BY <1>5, <1>6 DEF Undoing
  <2> QED BY <1>7, <2>1, <2>2 DEF Holds
<1>14. Inv'
  <2>1. \A e \in calls' : Knows(e)' /\ Ships(e)'
    BY <1>6, <1>11, <1>12
  <2> QED BY <1>6, <1>7, <1>8, <1>9, <1>10, <1>13, <2>1 DEF Inv, Types
<1>15. Moves
  BY <1>3, <1>4, <1>6, Edges DEF Moves
<1> QED BY <1>14, <1>15
-----------------------------------------------------------------------------
LEMMA InitInv == Init => Inv
<1> SUFFICES ASSUME Init PROVE Inv
  OBVIOUS
<1>1. NoRow \in Rows /\ {} \in Commits
  BY DEF NoRow, Rows, Statuses, Commits
<1>2. Types
  BY <1>1, WorldsAssumption DEF Init, Types
<1> QED BY <1>2 DEF Init, Inv, CarriedIsShipped

LEMMA CallKeeps ==
    ASSUME Inv, NEW c \in calls, CallStep(c)
    PROVE  Inv' /\ Moves
<1>1. CASE Create(c)
  BY <1>1, CreateStep
<1>2. CASE Rollback(c)
  BY <1>2, RollbackStep
<1>3. CASE Revert(c)
  BY <1>3, RevertStep
<1>4. CASE Find(c) \/ Join(c) \/ CreateFails(c) \/ Supersede(c) \/ Reread(c) \/ Unpark(c)
           \/ MoveAll(c) \/ Dispatched(c)
  BY <1>4, FindStep, JoinStep, CreateFailsStep, SupersedeStep, RereadStep, UnparkStep,
     LawfulKeeps, LawfulMoves
<1>5. CASE Cut(c) \/ DispatchRefused(c) \/ DispatchFails(c) \/ Redeploy(c) \/ TakeAll(c)
           \/ HandBack(c) \/ Wake(c)
  BY <1>5, CutStep, DispatchRefusedStep, DispatchFailsStep, RedeployStep, TakeAllStep,
     HandBackStep, WakeStep, LawfulKeeps, LawfulMoves
<1> QED BY <1>1, <1>2, <1>3, <1>4, <1>5 DEF CallStep

LEMMA NextInv == Inv /\ [Next]_vars => Inv' /\ Moves
<1> SUFFICES ASSUME Inv, [Next]_vars PROVE Inv' /\ Moves
  OBVIOUS
<1>1. CASE \E c \in calls : CallStep(c)
  BY <1>1, CallKeeps
<1>2. CASE \E t \in Tasks : \/ Merge(t) \/ AgentActs(t) \/ AgentLooks(t) \/ AgentWatches(t)
                            \/ Park(t) \/ AgentEnds(t) \/ FreePark(t)
  BY <1>2, MergeStep, AgentStep, AgentStill, FreeParkStep, LawfulKeeps, LawfulMoves
<1>3. CASE \E r \in Releases : AskCut(r) \/ PersonActs(r) \/ Sweep(r) \/ Rewake(r)
  BY <1>3, AskCutStep, PersonStep, SweepStep, RewakeStep, LawfulKeeps, LawfulMoves
<1>4. CASE Crash
  BY <1>4, CrashStep, LawfulKeeps, LawfulMoves
<1>5. CASE UNCHANGED vars
  <2>1. UNCHANGED <<mode, row, carries, base, calls>>
    BY <1>5 DEF vars, world, rows
  <2>2. Lawful /\ Kept /\ Brings
    BY <2>1, Still DEF Brings
  <2> QED BY <2>2, LawfulKeeps, LawfulMoves
<1> QED BY <1>1, <1>2, <1>3, <1>4, <1>5 DEF Next

LEMMA Safe == Spec => []Inv
  BY InitInv, NextInv, PTL DEF Spec

\* Whoever reverts or redeploys a release holds its claim, and nobody else does:
\* the conditional writes of Rollback are enough, whatever races them
\* (rollback.go:244).
THEOREM Exclusive == Spec => []RollbackExclusive
<1>1. Inv => RollbackExclusive
  BY DEF Inv, Holds, RollbackExclusive
<1> QED BY <1>1, Safe, PTL

\* A release never carries a task whose merge its commit lacks, however many
\* merges race to take over whichever releases (open.go).
THEOREM Carried == Spec => []CarriedIsShipped
<1>1. Inv => CarriedIsShipped
  BY DEF Inv
<1> QED BY <1>1, Safe, PTL

\* Every writer of the status column, with its stale copy and its condition,
\* takes an edge of the machine that the readers of a release expect.
THEOREM Implements == Spec => ImplementsMachine
<1>1. Init => Machine!Init
  BY DEF Init, NoRow, Machine!Init
<1>2. Inv /\ Moves => [Machine!Next]_([r \in Releases |-> row[r].status])
  <2> DEFINE status == [r \in Releases |-> row[r].status]
  <2> SUFFICES ASSUME Inv, Moves PROVE Machine!Next \/ status' = status
    OBVIOUS
  <2>1. CASE row' = row
    BY <2>1
  <2>2. ASSUME NEW r \in Releases, NEW new \in Rows, row' = [row EXCEPT ![r] = new],
               Edge(row[r].status, new.status)
        PROVE  Machine!Next \/ status' = status
    <3>1. status' = [status EXCEPT ![r] = new.status]
      BY <2>2 DEF Inv, Types
    <3>2. CASE new.status = row[r].status
      BY <3>1, <3>2
    <3>3. CASE new.status \in Machine!Edges[row[r].status]
      BY <3>1, <3>3 DEF Machine!Next, Machine!Move
    <3> QED BY <2>2, <3>2, <3>3 DEF Edge
  <2> QED BY <2>1, <2>2 DEF Moves
<1> QED BY <1>1, <1>2, InitInv, NextInv, PTL DEF Spec, ImplementsMachine, Machine!Spec
-----------------------------------------------------------------------------
(* The rest of the types.                                                  *)

Noted ==
    /\ auto \in BOOLEAN
    /\ handed \in [Releases -> 0..MaxHandBacks]
    /\ heard \in [Releases -> SUBSET {"seen", "proposed"}]
    /\ shipped \in Seq(Releases)
    /\ column \in [Tasks -> {"done", "released", "need_revision"}]
    /\ parked \subseteq Tasks /\ refused \subseteq Tasks
    /\ agent \in [Tasks -> {"none", "live", "parking"}]
    /\ env \subseteq Kinds
    /\ events \in [Kinds -> Nat]

\* A step counts an event, or none.
LEMMA Eventful ==
    ASSUME Next
    PROVE  Calm \/ \E kind : Happens(kind)
<1>1. ASSUME NEW c \in calls, CallStep(c) PROVE Calm \/ \E kind : Happens(kind)
  BY <1>1
  DEF CallStep, Find, Join, Create, CreateFails, Supersede, Reread, Unpark, Cut, Dispatched,
      DispatchRefused, DispatchFails, Rollback, Revert, Redeploy, TakeAll, MoveAll, HandBack,
      Wake
<1>2. ASSUME NEW t \in Tasks,
             \/ Merge(t) \/ AgentActs(t) \/ AgentLooks(t) \/ AgentWatches(t)
             \/ Park(t) \/ AgentEnds(t) \/ FreePark(t)
      PROVE  Calm \/ \E kind : Happens(kind)
  BY <1>2 DEF Merge, AgentActs, AgentLooks, AgentWatches, Park, AgentEnds, FreePark
<1>3. ASSUME NEW r \in Releases, AskCut(r) \/ PersonActs(r) \/ Sweep(r) \/ Rewake(r)
      PROVE  Calm \/ \E kind : Happens(kind)
  BY <1>3 DEF AskCut, PersonActs, Sweep, Rewake
<1>4. CASE Crash
  BY <1>4 DEF Crash
<1> QED BY <1>1, <1>2, <1>3, <1>4 DEF Next

LEMMA Counts ==
    ASSUME Noted, Calm \/ \E kind : Happens(kind)
    PROVE  events' \in [Kinds -> Nat] /\ events'["fault"] >= events["fault"]
<1>1. CASE Calm
  BY <1>1 DEF Noted, Calm, Kinds
<1>2. ASSUME NEW kind, Happens(kind)
      PROVE  events' \in [Kinds -> Nat] /\ events'["fault"] >= events["fault"]
  BY <1>2 DEF Noted, Happens, Kinds
<1> QED BY <1>1, <1>2

\* What is written with a row, and what a hand-back counts.
LEMMA AskedTypes ==
    ASSUME Noted, UNCHANGED asked \/ \E r : HandsBack(r) \/ \E new : Put(r, new)
    PROVE  /\ handed' \in [Releases -> 0..MaxHandBacks]
           /\ heard' \in [Releases -> SUBSET {"seen", "proposed"}]
<1>1. ASSUME NEW r, NEW new, Put(r, new)
      PROVE  /\ handed' \in [Releases -> 0..MaxHandBacks]
             /\ heard' \in [Releases -> SUBSET {"seen", "proposed"}]
  BY <1>1 DEF Noted, Put
<1>2. ASSUME NEW r, HandsBack(r)
      PROVE  /\ handed' \in [Releases -> 0..MaxHandBacks]
             /\ heard' \in [Releases -> SUBSET {"seen", "proposed"}]
  <2>1. /\ handed \in [Releases -> 0..MaxHandBacks]
        /\ heard \in [Releases -> SUBSET {"seen", "proposed"}]
    BY DEF Noted
  <2>2. DOMAIN handed' = Releases /\ handed' = [q \in Releases |-> handed'[q]]
    BY <1>2, <2>1 DEF HandsBack
  <2>3. ASSUME NEW q \in Releases PROVE handed'[q] \in 0..MaxHandBacks
    <3>1. handed[q] \in 0..MaxHandBacks
      BY <2>1
    <3>2. \/ handed'[q] = handed[q]
          \/ handed[q] < MaxHandBacks /\ handed'[q] = handed[q] + 1
      BY <1>2, <2>1 DEF HandsBack
    <3> QED BY <3>1, <3>2, BoundsAssumption
  <2>4. heard' \in [Releases -> SUBSET {"seen", "proposed"}]
    BY <1>2, <2>1 DEF HandsBack
  <2> QED BY <2>2, <2>3, <2>4
<1>3. CASE UNCHANGED asked
  BY <1>3 DEF Noted, asked
<1> QED BY <1>1, <1>2, <1>3

\* The steps that write rows, hand back or go on, and no card.
LEMMA NotedRows ==
    ASSUME Inv, Noted,
           \/ \E c \in calls : \/ Find(c) \/ Create(c) \/ Supersede(c) \/ Reread(c) \/ Cut(c)
                               \/ Dispatched(c) \/ DispatchRefused(c) \/ DispatchFails(c)
                               \/ Rollback(c) \/ Revert(c) \/ Redeploy(c)
           \/ \E r \in Releases : Sweep(r) \/ Rewake(r) \/ AskCut(r)
    PROVE  /\ handed' \in [Releases -> 0..MaxHandBacks]
           /\ heard' \in [Releases -> SUBSET {"seen", "proposed"}]
           /\ UNCHANGED <<auto, env, shipped, column, parked, refused, agent>>
<1>1. ASSUME NEW c \in calls, Find(c) \/ Create(c) \/ Reread(c) \/ Dispatched(c)
      PROVE  UNCHANGED <<world, asked, shipped, cards, refused, agent>>
  BY <1>1 DEF Find, Create, Reread, Dispatched, rows
<1>2. ASSUME NEW c \in calls,
             \/ Supersede(c) \/ Cut(c) \/ DispatchRefused(c) \/ Rollback(c) \/ Revert(c)
             \/ Redeploy(c)
      PROVE  /\ UNCHANGED <<world, shipped, cards, refused, agent>>
             /\ UNCHANGED asked \/ \E new : Put(c.rel, new)
  BY <1>2 DEF Supersede, Cut, DispatchRefused, Rollback, Revert, Redeploy, Update
<1>3. ASSUME NEW c \in calls, DispatchFails(c)
      PROVE  UNCHANGED <<world, shipped, cards, refused, agent>> /\ HandsBack(c.rel)
  BY <1>3 DEF DispatchFails
<1>4. ASSUME NEW r \in Releases, Sweep(r)
      PROVE  UNCHANGED <<world, shipped, cards, refused, agent>> /\ \E new : Put(r, new)
  BY <1>4 DEF Sweep, Write
<1>5. ASSUME NEW r \in Releases, Rewake(r) \/ AskCut(r)
      PROVE  UNCHANGED <<world, asked, shipped, cards, refused, agent>>
  BY <1>5 DEF Rewake, AskCut, rows
<1>6. /\ UNCHANGED <<world, shipped, cards, refused, agent>>
      /\ UNCHANGED asked \/ \E r : HandsBack(r) \/ \E new : Put(r, new)
  BY <1>1, <1>2, <1>3, <1>4, <1>5
<1>7. /\ handed' \in [Releases -> 0..MaxHandBacks]
      /\ heard' \in [Releases -> SUBSET {"seen", "proposed"}]
  BY <1>6, AskedTypes
<1> QED BY <1>6, <1>7 DEF world, cards

LEMMA NotedStep == Inv /\ Noted /\ [Next]_vars => Noted'
<1> SUFFICES ASSUME Inv, Noted, [Next]_vars PROVE Noted'
  OBVIOUS
<1>0. events' \in [Kinds -> Nat]
  <2>1. CASE UNCHANGED vars
    BY <2>1 DEF vars, Noted
  <2>2. CASE Next
    BY <2>2, Eventful, Counts
  <2> QED BY <2>1, <2>2
<1>1. ASSUME \/ \E c \in calls : \/ Find(c) \/ Create(c) \/ Supersede(c) \/ Reread(c) \/ Cut(c)
                                 \/ Dispatched(c) \/ DispatchRefused(c) \/ DispatchFails(c)
                                 \/ Rollback(c) \/ Revert(c) \/ Redeploy(c)
             \/ \E r \in Releases : Sweep(r) \/ Rewake(r) \/ AskCut(r)
      PROVE  Noted'
  BY <1>0, <1>1, NotedRows DEF Noted
<1>2. ASSUME NEW c \in calls, Join(c) \/ CreateFails(c) PROVE Noted'
  <2>1. c.by \in Tasks
    BY <1>2 DEF Inv, Knows, Join, CreateFails, Opening
  <2>2. UNCHANGED <<world, asked, shipped, cards, agent>>
    BY <1>2 DEF Join, CreateFails, rows
  <2>3. refused' = refused \/ refused' = refused \cup {c.by}
    BY <1>2 DEF Join, CreateFails, Retry
  <2> QED BY <1>0, <2>1, <2>2, <2>3 DEF Noted, world, asked, cards
<1>3. ASSUME NEW c \in calls, Unpark(c) \/ TakeAll(c) \/ MoveAll(c) \/ Wake(c) PROVE Noted'
  <2>1. UNCHANGED <<world, asked, shipped, refused>>
    BY <1>3 DEF Unpark, TakeAll, MoveAll, Wake, rows
  <2>2. parked' \subseteq Tasks
    BY <1>3 DEF Unpark, TakeAll, MoveAll, Wake, cards, Noted
  <2>3. column' \in [Tasks -> {"done", "released", "need_revision"}]
    BY <1>3 DEF Unpark, TakeAll, MoveAll, Wake, cards, Noted
  <2>4. agent' \in [Tasks -> {"none", "live", "parking"}]
    BY <1>3 DEF Unpark, TakeAll, MoveAll, Wake, Started, Noted
  <2> QED BY <1>0, <2>1, <2>2, <2>3, <2>4 DEF Noted, world, asked
<1>4. ASSUME NEW c \in calls, HandBack(c) PROVE Noted'
  <2>1. UNCHANGED <<world, shipped, column, agent, refused>> /\ parked' \subseteq Tasks
    BY <1>4 DEF HandBack, Noted
  <2>2. HandsBack(c.rel) \/ UNCHANGED asked
    BY <1>4 DEF HandBack, Stamped
  <2>3. /\ handed' \in [Releases -> 0..MaxHandBacks]
        /\ heard' \in [Releases -> SUBSET {"seen", "proposed"}]
    BY <2>2, AskedTypes
  <2> QED BY <1>0, <2>1, <2>3 DEF Noted, world
<1>5. ASSUME NEW t \in Tasks, FreePark(t) PROVE Noted'
  <2>1. UNCHANGED <<world, shipped, column, agent, refused>> /\ parked' \subseteq Tasks
    BY <1>5 DEF FreePark, Noted
  <2>2. UNCHANGED asked \/ \E r : HandsBack(r)
    BY <1>5 DEF FreePark, Stamped
  <2>3. /\ handed' \in [Releases -> 0..MaxHandBacks]
        /\ heard' \in [Releases -> SUBSET {"seen", "proposed"}]
    BY <2>2, AskedTypes
  <2> QED BY <1>0, <2>1, <2>3 DEF Noted, world
<1>6. ASSUME NEW t \in Tasks, Merge(t) \/ AgentWatches(t) \/ Park(t) \/ AgentEnds(t)
      PROVE  Noted'
  <2>1. UNCHANGED <<world, asked, shipped, column, refused>>
    BY <1>6 DEF Merge, AgentWatches, Park, AgentEnds, rows, cards
  <2>2. parked' \subseteq Tasks
    BY <1>6 DEF Merge, AgentWatches, Park, AgentEnds, cards, Noted
  <2>3. agent' \in [Tasks -> {"none", "live", "parking"}]
    BY <1>6 DEF Merge, AgentWatches, Park, AgentEnds, Started, Noted
  <2> QED BY <1>0, <2>1, <2>2, <2>3 DEF Noted, world, asked
<1>7. ASSUME NEW t \in Tasks, AgentLooks(t) PROVE Noted'
  <2>1. UNCHANGED <<world, handed, shipped, cards, agent, refused>>
    BY <1>7 DEF AgentLooks
  <2>2. PICK r \in ForTask(t), more \in SUBSET {"proposed"} :
           heard' = [heard EXCEPT ![r] = @ \cup {"seen"} \cup more]
    BY <1>7 DEF AgentLooks
  <2>3. heard' \in [Releases -> SUBSET {"seen", "proposed"}]
    BY <2>2 DEF Noted
  <2> QED BY <1>0, <2>1, <2>3 DEF Noted, world, cards
<1>8. ASSUME NEW r \in Releases, NEW by, Deploy(r, by) \/ Finish(r, by) \/ AskRollback(r, by),
             UNCHANGED <<world, cards, agent, refused>>
      PROVE  Noted'
  <2>1. UNCHANGED asked \/ \E new : Put(r, new)
    BY <1>8 DEF Deploy, Finish, AskRollback, Write, rows
  <2>2. /\ handed' \in [Releases -> 0..MaxHandBacks]
        /\ heard' \in [Releases -> SUBSET {"seen", "proposed"}]
    BY <2>1, AskedTypes
  <2>3. shipped' = shipped \/ shipped' = Append(shipped, r)
    BY <1>8 DEF Deploy, Finish, AskRollback, rows
  <2>4. shipped' \in Seq(Releases)
    <3>1. shipped \in Seq(Releases)
      BY DEF Noted
    <3>2. Append(shipped, r) \in Seq(Releases)
      BY <3>1, AppendProperties
    <3> QED BY <2>3, <3>1, <3>2
  <2> QED BY <1>0, <1>8, <2>2, <2>4 DEF Noted, world, cards
<1>9. ASSUME NEW r \in Releases, PersonActs(r) PROVE Noted'
  BY <1>8, <1>9 DEF PersonActs
<1>10. ASSUME NEW t \in Tasks, AgentActs(t) PROVE Noted'
  BY <1>8, <1>10 DEF AgentActs, ForTask, Newest, Carrying
<1>11. CASE Crash
  BY <1>0, <1>11 DEF Crash, Noted, world, rows, asked, cards
<1>12. CASE UNCHANGED vars
  BY <1>12 DEF vars, world, rows, asked, cards, Noted
<1> QED
  BY <1>1, <1>2, <1>3, <1>4, <1>5, <1>6, <1>7, <1>9, <1>10, <1>11, <1>12
  DEF Next, CallStep

LEMMA NotedInit == Init => Noted
<1> SUFFICES ASSUME Init PROVE Noted
  OBVIOUS
<1>1. auto \in BOOLEAN /\ env \subseteq Kinds
  BY WorldsAssumption DEF Init
<1>2. shipped \in Seq(Releases)
  BY DEF Init
<1> QED BY <1>1, <1>2, BoundsAssumption DEF Init, Noted

\* TypeOK: rows, cards, runs and calls have their types, and a release is handed
\* back no more often than handBackMaxReWakes allows, whoever stamps it.
THEOREM ReleaseTypes == Spec => []TypeOK
<1>1. Init => Noted
  BY NotedInit
<1>2. Inv /\ Noted /\ [Next]_vars => Noted'
  BY NotedStep
<1>3. Inv /\ Noted => TypeOK
  BY DEF Inv, Types, Noted, TypeOK
<1> QED BY <1>1, <1>2, <1>3, InitInv, NextInv, PTL DEF Spec
-----------------------------------------------------------------------------
(* No task is stranded.  A release that carries a task may be superseded by *)
(* one that does not: a supersede that lost its race adds tasks to a       *)
(* release (Reread) that another may be about to replace by a copy of what *)
(* it carried before.  What cannot be lost is what a release was created   *)
(* with: Held, of which there is some choice at every moment.              *)

Aboard   == UNION {carries[r] : r \in Releases}
Coming   == {"find", "join", "create"}
Replaces == {"supersede", "reread"}

\* Rows are inserted in order, with their tasks; only a merged task is carried.
InOrder == /\ \A r, s \in Releases : r < s /\ row[s].status # "none" => row[r].status # "none"
           /\ \A r \in Releases : row[r].status = "none" => carries[r] = {}
           /\ Aboard \subseteq Merged

\* An opening has merged, and replaces an older release by a newer.
Opens(c) ==
    /\ c.at \in Coming => c.by \in Merged
    /\ c.at = "find" => c.carried = {}
    /\ c.at = "create" => c.carried \subseteq Aboard
    /\ c.at = "create" /\ c.rel # 0 => mode # "batch"
    /\ c.at \in Replaces => mode # "batch" /\ c.new \in Releases /\ c.rel < c.new

\* What a release holds, the one that takes it over holds, or will.
Hands(Held, c) ==
    /\ c.at = "create" /\ c.rel \in Releases => Held[c.rel] \subseteq c.carried
    /\ c.at \in Replaces => Held[c.rel] \subseteq Held[c.new]

\* A superseded release has a successor that is not.
Succeeded(Held) ==
    \A r \in Releases : row[r].status = "superseded" =>
       \E s \in Releases : /\ r < s /\ row[s].status # "superseded"
                           /\ Held[r] \subseteq Held[s]

\* A merged task is held, or not even carried: it is coming, or was given up.
Accounted(Held) ==
    \A t \in Merged :
       \/ \E r \in Releases : t \in Held[r]
       \/ /\ t \notin Aboard
          /\ \/ t \in refused
             \/ events["fault"] > 0
             \/ \E c \in calls : c.by = t /\ c.at \in Coming

HeldIsCarried(Held) ==
    /\ Held \in [Releases -> SUBSET Tasks]
    /\ \A r \in Releases : Held[r] \subseteq carries[r]
Safely(Held) == /\ HeldIsCarried(Held) /\ Succeeded(Held) /\ Accounted(Held)
                /\ \A c \in calls : Hands(Held, c)
Tracked == /\ InOrder
           /\ \A c \in calls : Opens(c)
           /\ \E Held : Safely(Held)

\* Who is superseded has a successor that holds what it held; who is not carries
\* what it holds.
LEMMA TrackedIsSafe == Inv /\ Tracked => NoTaskStranded
<1> SUFFICES ASSUME Inv, Tracked, NEW t \in Merged
             PROVE  \/ \E r \in Carrying(t) : row[r].status # "superseded"
                    \/ \E c \in calls : c.by = t /\ c.at \in Opening
                    \/ Carrying(t) = {} /\ (t \in refused \/ events["fault"] > 0)
  BY DEF NoTaskStranded
<1>1. PICK Held : Safely(Held)
  BY DEF Tracked
<1>2. CASE \E r \in Releases : t \in Held[r]
  <2>1. PICK r \in Releases : t \in Held[r]
    BY <1>2
  <2>2. PICK s \in Releases : row[s].status # "superseded" /\ t \in Held[s]
    BY <1>1, <2>1 DEF Safely, Succeeded
  <2>3. s \in Carrying(t)
    BY <1>1, <2>2 DEF Safely, HeldIsCarried, Carrying
  <2> QED BY <2>2, <2>3
<1>3. CASE /\ t \notin Aboard
           /\ \/ t \in refused
              \/ events["fault"] > 0
              \/ \E c \in calls : c.by = t /\ c.at \in Coming
  <2>1. Carrying(t) = {}
    BY <1>3 DEF Aboard, Carrying
  <2> QED BY <1>3, <2>1 DEF Coming, Opening
<1> QED BY <1>1, <1>2, <1>3 DEF Safely, Accounted

\* Rows that go on: none appears, and none is superseded.
RowsGoOn ==
    \A q \in Releases : /\ row'[q].status = "none" <=> row[q].status = "none"
                        /\ row'[q].status = "superseded" => row[q].status = "superseded"

LEMMA GoesOn ==
    ASSUME Inv, NEW r \in Releases, NEW new, row' = [row EXCEPT ![r] = new],
           row[r].status # "none", new.status \notin {"none", "superseded"}
    PROVE  RowsGoOn
<1>1. row \in [Releases -> Rows]
  BY DEF Inv, Types
<1> QED BY <1>1 DEF RowsGoOn

\* A step that supersedes nothing keeps what is held: its new openings know what
\* they need, and who was coming still comes, or was given up.
LEMMA FlowsOn ==
    ASSUME Inv, InOrder, \A c \in calls : Opens(c), NEW Held, Safely(Held),
           UNCHANGED <<mode, base>>, RowsGoOn,
           \A r \in Releases : carries[r] \subseteq carries'[r],
           \A r \in Releases : row[r].status = "none" => carries'[r] = carries[r],
           Aboard' = Aboard,
           refused \subseteq refused', events["fault"] > 0 => events'["fault"] > 0,
           \A d \in calls' : d.at \in Opening =>
              d \in calls \/ (Opens(d)' /\ Hands(Held, d)),
           \A c \in calls : c.at \in Coming =>
              \/ c.by \in refused'
              \/ events'["fault"] > 0
              \/ \E d \in calls' : d.by = c.by /\ d.at \in Coming
    PROVE  Tracked'
<1>1. Merged' = Merged
  BY DEF Merged
<1>2. InOrder'
  BY <1>1 DEF InOrder, RowsGoOn
<1>3. ASSUME NEW d \in calls' PROVE Opens(d)' /\ Hands(Held, d)
  <2>1. CASE d.at \in Opening
    <3>1. CASE d \in calls
      BY <1>1, <3>1 DEF Opens, Safely
    <3> QED BY <2>1, <3>1
  <2>2. CASE d.at \notin Opening
    BY <2>2 DEF Opens, Hands, Opening, Coming, Replaces
  <2> QED BY <2>1, <2>2
<1>4. HeldIsCarried(Held)'
  BY DEF Safely, HeldIsCarried
<1>5. Succeeded(Held)'
  BY DEF Safely, Succeeded, RowsGoOn
<1>6. Accounted(Held)'
  <2> SUFFICES ASSUME NEW t \in Merged, \A r \in Releases : t \notin Held[r]
               PROVE  /\ t \notin Aboard
                      /\ \/ t \in refused'
                         \/ events'["fault"] > 0
                         \/ \E c \in calls' : c.by = t /\ c.at \in Coming
    BY <1>1 DEF Accounted
  <2>1. /\ t \notin Aboard
        /\ \/ t \in refused
           \/ events["fault"] > 0
           \/ \E c \in calls : c.by = t /\ c.at \in Coming
    BY DEF Safely, Accounted
  <2> QED BY <2>1
<1>7. Safely(Held)'
  BY <1>3, <1>4, <1>5, <1>6 DEF Safely, Hands
<1> QED BY <1>2, <1>3, <1>7 DEF Tracked

\* A step that brings no opening and ends none.
Quiet ==
    /\ UNCHANGED <<mode, base, carries, refused>>
    /\ RowsGoOn
    /\ \A d \in calls' : d.at \in Opening => d \in calls
    /\ \A c \in calls : c.at \in Coming => c \in calls'

LEMMA QuietKeeps ==
    ASSUME Inv, Tracked, Quiet, events["fault"] > 0 => events'["fault"] > 0
    PROVE  Tracked'
<1>1. PICK Held : Safely(Held)
  BY DEF Tracked
<1>2. InOrder /\ \A c \in calls : Opens(c)
  BY DEF Tracked
<1>3. Aboard' = Aboard
  BY DEF Quiet, Aboard
<1> QED BY <1>1, <1>2, <1>3, FlowsOn DEF Quiet

LEMMA StillGoesOn == row' = row => RowsGoOn
  BY DEF RowsGoOn

LEMMA UpdateGoesOn ==
    ASSUME Inv, NEW c \in calls, c.rel \in Releases, NEW new, NEW then, NEW else,
           Update(c, new, then, else), new.status \notin {"none", "superseded"},
           \A d \in then \cup else : d.at \notin Opening, c.at \notin Coming
    PROVE  /\ RowsGoOn
           /\ \A d \in calls' : d.at \in Opening => d \in calls
           /\ \A d \in calls : d.at \in Coming => d \in calls'
<1>1. row[c.rel].status # "none"
  BY DEF Inv, Knows
<1>2. row' = row \/ row' = [row EXCEPT ![c.rel] = new]
  BY DEF Update, Put
<1>3. RowsGoOn
  BY <1>1, <1>2, GoesOn, StillGoesOn
<1>4. calls' = (calls \ {c}) \cup then \/ calls' = (calls \ {c}) \cup else
  BY DEF Update, Goes
<1> QED BY <1>3, <1>4

LEMMA WriteGoesOn ==
    ASSUME Inv, NEW r \in Releases, NEW new, NEW then, Write(r, new, then),
           row[r].status # "none", new.status \notin {"none", "superseded"},
           \A d \in then : d.at \notin Opening
    PROVE  /\ RowsGoOn
           /\ \A d \in calls' : d.at \in Opening => d \in calls
           /\ \A d \in calls : d.at \in Coming => d \in calls'
<1>1. row' = [row EXCEPT ![r] = new] /\ calls' = calls \cup then
  BY DEF Write, Put
<1> QED BY <1>1, GoesOn

\* Calls that only go on, or wake.
LEMMA QuietCalls ==
    ASSUME Inv, NEW c \in calls,
           \/ Unpark(c) \/ Dispatched(c) \/ TakeAll(c) \/ MoveAll(c) \/ Wake(c) \/ HandBack(c)
           \/ DispatchFails(c)
    PROVE  Quiet
<1>1. UNCHANGED <<mode, base, carries, refused>>
  BY DEF Unpark, Dispatched, TakeAll, MoveAll, Wake, HandBack, DispatchFails, world, rows
<1>2. c.at \notin Coming
  BY DEF Unpark, Dispatched, TakeAll, MoveAll, Wake, HandBack, DispatchFails, Coming
<1>3. PICK then : Goes(c, then) /\ \A d \in then : d.at \notin Opening
  <2>1. CASE Unpark(c) \/ Dispatched(c) \/ MoveAll(c) \/ Wake(c) \/ DispatchFails(c)
    <3>1. Goes(c, {})
      BY <2>1 DEF Unpark, Dispatched, MoveAll, Wake, DispatchFails
    <3> QED BY <3>1
  <2>2. CASE TakeAll(c)
    BY <2>2 DEF TakeAll, On, Call, Opening
  <2>3. CASE HandBack(c)
    <3>1. PICK S : Goes(c, {Wakeup(t) : t \in S})
      BY <2>3 DEF HandBack
    <3>2. \A d \in {Wakeup(t) : t \in S} : d.at \notin Opening
      BY DEF Wakeup, Call, Opening
    <3> QED BY <3>1, <3>2
  <2> QED BY <2>1, <2>2, <2>3
<1>4. /\ \A d \in calls' : d.at \in Opening => d \in calls
      /\ \A d \in calls : d.at \in Coming => d \in calls'
  BY <1>2, <1>3 DEF Goes
<1>5. RowsGoOn
  <2>1. CASE row' = row
    BY <2>1, StillGoesOn
  <2>2. CASE HandBack(c) /\ row' # row
    <3>1. /\ row' = [row EXCEPT ![c.rel] = c.copy] /\ row[c.rel].status = c.copy.status
          /\ c.rel \in Releases /\ row[c.rel].status # "none"
          /\ c.copy.status \in {"failed", "awaiting_verdict", "pending"}
      BY <2>2 DEF HandBack, Stamped, Inv, Knows, Later
    <3> QED BY <3>1, GoesOn
  <2>3. CASE DispatchFails(c)
    <3>1. /\ row' = [row EXCEPT ![c.rel] = [c.copy EXCEPT !.status = "pending"]]
          /\ c.rel \in Releases /\ row[c.rel].status # "none" /\ c.copy \in Rows
      BY <2>3 DEF DispatchFails, Inv, Types, Calls, Knows, Later
    <3>2. [c.copy EXCEPT !.status = "pending"].status = "pending"
      BY <3>1 DEF Rows
    <3> QED BY <3>1, <3>2, GoesOn
  <2> QED BY <2>1, <2>2, <2>3
          DEF Unpark, Dispatched, TakeAll, MoveAll, Wake, rows
<1> QED BY <1>1, <1>4, <1>5 DEF Quiet

\* Calls that write their copy back.
LEMMA QuietUpdates ==
    ASSUME Inv, NEW c \in calls,
           Cut(c) \/ DispatchRefused(c) \/ Rollback(c) \/ Revert(c) \/ Redeploy(c)
    PROVE  Quiet
<1>1. UNCHANGED <<mode, base, carries, refused>>
  BY DEF Cut, DispatchRefused, Rollback, Revert, Redeploy, world
<1>2. /\ c.at \notin Coming /\ c.rel \in Releases /\ c.copy \in Rows
      /\ c.at \in Undoing => c.copy.status = "rolling_back"
  BY DEF Cut, DispatchRefused, Rollback, Revert, Redeploy, Coming, Inv, Types, Calls, Knows,
         Later, Undoing
<1>3. \E new, then :
         /\ Update(c, new, then, {})
         /\ new.status \notin {"none", "superseded"}
         /\ \A d \in then : d.at \notin Opening
  <2>1. CASE Cut(c)
    <3>1. Update(c, [c.copy EXCEPT !.status = "pending"],
                 {Wakeup(t) : t \in Latest(InDone(carries[c.rel]))}, {})
      BY <2>1 DEF Cut
    <3>2. \A d \in {Wakeup(t) : t \in Latest(InDone(carries[c.rel]))} : d.at \notin Opening
      BY DEF Wakeup, Call, Opening
    <3>3. [c.copy EXCEPT !.status = "pending"].status = "pending"
      BY <1>2 DEF Rows
    <3> QED BY <3>1, <3>2, <3>3
  <2>2. ASSUME NEW new, Update(c, new, {Stamp(c)}, {}), new.status = "failed"
        PROVE  \E then : /\ Update(c, new, then, {})
                         /\ new.status \notin {"none", "superseded"}
                         /\ \A d \in then : d.at \notin Opening
    <3>1. Stamp(c).at \notin Opening
      BY DEF Stamp, Call, Opening
    <3> QED BY <2>2, <3>1
  <2>3. CASE DispatchRefused(c)
    <3>1. [c.copy EXCEPT !.status = "failed"].status = "failed"
      BY <1>2 DEF Rows
    <3> QED BY <2>2, <2>3, <3>1 DEF DispatchRefused
  <2>4. CASE Rollback(c)
    <3>1. Update(c, Claimed(c.copy), {Undo(c)}, {})
      BY <2>4 DEF Rollback
    <3>2. Claimed(c.copy).status = "rolling_back"
      BY <1>2 DEF Claimed, Rows
    <3>3. Undo(c).at \notin Opening
      <4>1. c \in Calls
        BY DEF Inv, Types
      <4>2. Undo(c).at \in {"redeploy", "revert"}
        BY <4>1 DEF Undo, Calls
      <4> QED BY <4>2 DEF Opening
    <3> QED BY <3>1, <3>2, <3>3
  <2>5. CASE Revert(c)
    <3>1. /\ [c.copy EXCEPT !.status = "failed"].status = "failed"
          /\ [c.copy EXCEPT !.rollback = "reverted"].status = "rolling_back"
      BY <1>2, <2>5 DEF Rows, Revert, Undoing
    <3>2. \A new : \A d \in Then(c, "redeploy", new) : d.at \notin Opening
      <4>1. c \in Calls
        BY DEF Inv, Types
      <4> QED BY <4>1 DEF Then, Calls, Opening
    <3>3. \/ Update(c, [c.copy EXCEPT !.rollback = "reverted"],
                    Then(c, "redeploy", [c.copy EXCEPT !.rollback = "reverted"]), {})
          \/ Update(c, [c.copy EXCEPT !.status = "failed"], {Stamp(c)}, {})
      BY <2>5 DEF Revert
    <3> QED BY <2>2, <3>1, <3>2, <3>3
  <2>6. CASE Redeploy(c)
    <3>1. /\ [c.copy EXCEPT !.status = "rolled_back"].status = "rolled_back"
          /\ [c.copy EXCEPT !.rollback = "restored"].status = "rolling_back"
          /\ [c.copy EXCEPT !.status = "failed", !.rollback = "restored"].status = "failed"
      BY <1>2, <2>6 DEF Rows, Redeploy, Undoing
    <3>2. On(c, "reopen").at \notin Opening
      BY DEF On, Call, Opening
    <3>3. \/ Update(c, [c.copy EXCEPT !.status = "rolled_back"], {On(c, "reopen")}, {})
          \/ Update(c, [c.copy EXCEPT !.rollback = "restored"], {}, {})
          \/ Update(c, [c.copy EXCEPT !.status = "failed", !.rollback = "restored"],
                    {Stamp(c)}, {})
      BY <2>6 DEF Redeploy
    <3> DEFINE undone == [c.copy EXCEPT !.status = "rolled_back"]
               restored == [c.copy EXCEPT !.rollback = "restored"]
    <3>7. undone.status = "rolled_back" /\ restored.status = "rolling_back"
      BY <3>1
    <3> HIDE DEF undone, restored
    <3>4. CASE Update(c, undone, {On(c, "reopen")}, {})
      BY <3>2, <3>4, <3>7
    <3>5. CASE Update(c, restored, {}, {})
      BY <3>5, <3>7
    <3>6. CASE Update(c, [c.copy EXCEPT !.status = "failed", !.rollback = "restored"],
                      {Stamp(c)}, {})
      BY <2>2, <3>1, <3>6
    <3> QED BY <3>3, <3>4, <3>5, <3>6 DEF undone, restored
  <2> QED BY <2>1, <2>3, <2>4, <2>5, <2>6
<1>4. /\ RowsGoOn
      /\ \A d \in calls' : d.at \in Opening => d \in calls
      /\ \A d \in calls : d.at \in Coming => d \in calls'
  BY <1>2, <1>3, UpdateGoesOn
<1> QED BY <1>1, <1>4 DEF Quiet

\* What agents, people and the sweeper do.
LEMMA QuietActs ==
    ASSUME Inv, NEW r \in Releases, NEW by \in Tasks \cup {Person},
           Deploy(r, by) \/ Finish(r, by) \/ AskRollback(r, by),
           UNCHANGED <<world, base, cards, agent, refused>>
    PROVE  Quiet
<1>1. UNCHANGED <<mode, base, carries, refused>>
  BY DEF Deploy, Finish, AskRollback, rows, world
<1>2. row[r] \in Rows
  BY DEF Inv, Types
<1>3. CASE Deploy(r, by)
  <2>1. /\ Write(r, [row[r] EXCEPT !.status = "deploying"],
                 {Call(by, "dispatch", r, [row[r] EXCEPT !.status = "deploying"])})
        /\ row[r].status = "pending"
    BY <1>3 DEF Deploy
  <2>2. [row[r] EXCEPT !.status = "deploying"].status = "deploying"
    BY <1>2 DEF Rows
  <2>3. \A new : Call(by, "dispatch", r, new).at \notin Opening
    BY DEF Call, Opening
  <2> QED BY <1>1, <2>1, <2>2, <2>3, WriteGoesOn DEF Quiet
<1>4. CASE Finish(r, by)
  <2>1. /\ Write(r, [row[r] EXCEPT !.status = "released"], {Call(by, "ship", r, NoRow)})
        /\ row[r].status # "none"
    BY <1>4 DEF Finish, MayFinish
  <2>2. [row[r] EXCEPT !.status = "released"].status = "released"
    BY <1>2 DEF Rows
  <2>3. Call(by, "ship", r, NoRow).at \notin Opening
    BY DEF Call, Opening
  <2> QED BY <1>1, <2>1, <2>2, <2>3, WriteGoesOn DEF Quiet
<1>5. CASE AskRollback(r, by)
  <2>1. calls' = calls \cup {Call(by, "rollback", r, row[r])} /\ row' = row
    BY <1>5 DEF AskRollback, rows
  <2>2. Call(by, "rollback", r, row[r]).at \notin Opening
    BY DEF Call, Opening
  <2> QED BY <1>1, <2>1, <2>2, StillGoesOn DEF Quiet
<1> QED BY <1>3, <1>4, <1>5

LEMMA QuietAround ==
    ASSUME Inv,
           \/ \E t \in Tasks : \/ AgentActs(t) \/ AgentLooks(t) \/ AgentWatches(t) \/ Park(t)
                               \/ AgentEnds(t) \/ FreePark(t)
           \/ \E r \in Releases : AskCut(r) \/ PersonActs(r) \/ Sweep(r) \/ Rewake(r)
    PROVE  Quiet
<1>1. ASSUME NEW t \in Tasks, AgentActs(t) PROVE Quiet
  <2>1. PICK r \in ForTask(t) : Deploy(r, t) \/ Finish(r, t) \/ AskRollback(r, t)
    BY <1>1 DEF AgentActs
  <2>2. r \in Releases
    BY DEF ForTask, Newest, Carrying
  <2>3. UNCHANGED <<world, base, cards, agent, refused>>
    BY <1>1 DEF AgentActs
  <2> QED BY <2>1, <2>2, <2>3, QuietActs
<1>2. ASSUME NEW r \in Releases, PersonActs(r) PROVE Quiet
  BY <1>2, QuietActs DEF PersonActs
<1>3. ASSUME NEW t \in Tasks, AgentLooks(t) \/ AgentWatches(t) \/ Park(t) \/ AgentEnds(t)
      PROVE  Quiet
  <2>1. UNCHANGED <<mode, row, carries, base, refused, calls>>
    BY <1>3 DEF AgentLooks, AgentWatches, Park, AgentEnds, world, rows
  <2> QED BY <2>1, StillGoesOn DEF Quiet
<1>4. ASSUME NEW t \in Tasks, FreePark(t) PROVE Quiet
  <2>1. PICK r \in ForTask(t) : Stamped(row[r], r) /\ calls' = calls \cup {Wakeup(t)}
    BY <1>4 DEF FreePark
  <2>2. r \in Releases
    BY DEF ForTask, Newest, Carrying
  <2>3. UNCHANGED <<mode, row, carries, base, refused>>
    BY <1>4, <2>1, <2>2 DEF FreePark, Stamped, world, Inv, Types
  <2>4. Wakeup(t).at \notin Opening
    BY DEF Wakeup, Call, Opening
  <2> QED BY <2>1, <2>3, <2>4, StillGoesOn DEF Quiet
<1>5. ASSUME NEW r \in Releases, AskCut(r) \/ Rewake(r) PROVE Quiet
  <2>1. PICK by, at, copy : /\ at \in {"cut", "stamp"}
                            /\ calls' = calls \cup {Call(by, at, r, copy)}
    BY <1>5 DEF AskCut, Rewake
  <2>2. Call(by, at, r, copy).at \notin Opening
    BY <2>1 DEF Call, Opening
  <2>3. UNCHANGED <<mode, row, carries, base, refused>>
    BY <1>5 DEF AskCut, Rewake, world, rows
  <2> QED BY <2>1, <2>2, <2>3, StillGoesOn DEF Quiet
<1>6. ASSUME NEW r \in Releases, Sweep(r) PROVE Quiet
  <2>1. PICK new \in Findings(r) :
           Write(r, new, CASE new.status = "verifying"   -> {}
                           [] new.status = "rolled_back" -> {Call(Sweeper, "reopen", r, NoRow)}
                           [] OTHER                      -> {Call(Sweeper, "stamp", r, new)})
    BY <1>6 DEF Sweep
  <2>2. UNCHANGED <<mode, base, carries, refused>> /\ row[r] \in Rows
    BY <1>6 DEF Sweep, world, Inv, Types
  <2>3. /\ new.status \in {"verifying", "rolled_back", "failed", "awaiting_verdict"}
        /\ row[r].status # "none"
    BY <2>2 DEF Findings, Rows, Statuses, Open, Watched, Terminal
  <2>4. PICK then : /\ Write(r, new, then)
                    /\ then \in {{}, {Call(Sweeper, "reopen", r, NoRow)},
                                 {Call(Sweeper, "stamp", r, new)}}
    <3>1. CASE new.status = "verifying"
      BY <2>1, <3>1
    <3>2. CASE new.status = "rolled_back"
      BY <2>1, <3>2
    <3>3. CASE new.status \in {"failed", "awaiting_verdict"}
      BY <2>1, <3>3
    <3> QED BY <2>3, <3>1, <3>2, <3>3
  <2>5. \A d \in then : d.at \notin Opening
    BY <2>4 DEF Call, Opening
  <2> QED BY <2>2, <2>3, <2>4, <2>5, WriteGoesOn DEF Quiet
<1> QED BY <1>1, <1>2, <1>3, <1>4, <1>5, <1>6

\* The process dies with the openings that were coming.
LEMMA TrackedCrash ==
    ASSUME Inv, Noted, Tracked, Crash
    PROVE  Tracked'
<1>1. PICK Held : Safely(Held)
  BY DEF Tracked
<1>2. InOrder /\ \A c \in calls : Opens(c)
  BY DEF Tracked
<1>3. UNCHANGED <<mode, row, carries, base, refused>> /\ calls' = {}
  BY DEF Crash, world, rows
<1>4. events'["fault"] > 0
  BY DEF Crash, Happens, Noted, Kinds
<1>5. Aboard' = Aboard /\ RowsGoOn
  BY <1>3, StillGoesOn DEF Aboard
<1> QED BY <1>1, <1>2, <1>3, <1>4, <1>5, FlowsOn

LEMMA TrackedMerge ==
    ASSUME Inv, Noted, Tracked, NEW t \in Tasks, Merge(t)
    PROVE  Tracked'
<1> DEFINE d == Call(t, "find", 0, NoRow)
<1>1. PICK Held : Safely(Held)
  BY DEF Tracked
<1>2. InOrder /\ \A c \in calls : Opens(c)
  BY DEF Tracked
<1>3. /\ UNCHANGED <<mode, row, carries, refused>> /\ calls' = calls \cup {d}
      /\ base' = [base EXCEPT ![t] = Merged \cup {t}] /\ t \notin Merged
  BY DEF Merge, world, rows
<1>4. Merged' = Merged \cup {t}
  BY <1>3 DEF Inv, Types, Merged
<1>5. Aboard' = Aboard
  BY <1>3 DEF Aboard
<1>6. events["fault"] > 0 => events'["fault"] > 0
  <2>1. events'["fault"] >= events["fault"] /\ events'["fault"] \in Nat
        /\ events["fault"] \in Nat
    BY Counts DEF Merge, Noted, Kinds
  <2> QED BY <2>1
<1>7. d.at = "find" /\ d.by = t /\ d.rel = 0 /\ d.carried = {}
  BY DEF Call
<1>8. InOrder'
  BY <1>2, <1>3, <1>4, <1>5 DEF InOrder
<1> HIDE DEF d
<1>9. ASSUME NEW e \in calls' PROVE Opens(e)' /\ Hands(Held, e)
  <2>1. CASE e = d
    BY <1>3, <1>4, <1>7, <2>1, Numbered DEF Opens, Hands, Coming, Replaces
  <2>2. CASE e \in calls
    BY <1>1, <1>2, <1>3, <1>4, <1>5, <2>2 DEF Opens, Safely
  <2> QED BY <1>3, <2>1, <2>2
<1>10. HeldIsCarried(Held)' /\ Succeeded(Held)'
  BY <1>1, <1>3 DEF Safely, HeldIsCarried, Succeeded
<1>11. Accounted(Held)'
  <2> SUFFICES ASSUME NEW u \in Merged', \A r \in Releases : u \notin Held[r]
               PROVE  /\ u \notin Aboard
                      /\ \/ u \in refused
                         \/ events'["fault"] > 0
                         \/ \E c \in calls' : c.by = u /\ c.at \in Coming
    BY <1>3, <1>5 DEF Accounted
  <2>1. CASE u = t
    BY <1>2, <1>3, <1>7, <2>1 DEF InOrder, Coming
  <2>2. CASE u \in Merged
    BY <1>1, <1>3, <1>6, <2>2 DEF Safely, Accounted
  <2> QED BY <1>4, <2>1, <2>2
<1>12. Safely(Held)'
  BY <1>9, <1>10, <1>11 DEF Safely, Hands
<1> QED BY <1>8, <1>9, <1>12 DEF Tracked

\* Find looks at what the release carries, and so at all it holds.
LEMMA TrackedFind ==
    ASSUME Inv, Tracked, NEW c \in calls, Find(c)
    PROVE  Tracked'
<1>1. PICK Held : Safely(Held)
  BY DEF Tracked
<1>2. InOrder /\ \A e \in calls : Opens(e)
  BY DEF Tracked
<1>3. UNCHANGED <<mode, row, carries, base, refused, events>>
  BY DEF Find, Calm, world, rows
<1>4. Aboard' = Aboard /\ Merged' = Merged /\ RowsGoOn
  BY <1>3, StillGoesOn DEF Aboard, Merged
<1>5. c \in Calls /\ c.at = "find" /\ c.rel = 0 /\ c.carried = {} /\ c.by \in Merged
  BY <1>2 DEF Find, Inv, Types, Knows, Opens, Coming
<1>6. PICK d : /\ calls' = (calls \ {c}) \cup {d}
               /\ d.by = c.by /\ d.at \in {"join", "create"}
               /\ d.at = "create" => mode # "batch" \/ d.rel = 0
               /\ \/ d.rel = 0 /\ d.carried = {}
                  \/ d.rel \in Releases /\ d.carried = carries[d.rel]
  <2> DEFINE found == {r \in Newest(With(IF mode = "batch" THEN {"draft"} ELSE Open)) :
                          mode = "batch" \/ Ancestor(r, c.by)}
             none == [c EXCEPT !.at = "create"]
             taken(r) == [c EXCEPT !.at = IF mode = "batch" THEN "join" ELSE "create",
                                   !.rel = r, !.copy = row[r], !.carried = carries[r]]
  <2>1. \/ calls' = (calls \ {c}) \cup {none}
        \/ \E r \in found : calls' = (calls \ {c}) \cup {taken(r)}
    BY DEF Find, Goes
  <2>2. found \subseteq Releases
    BY DEF Newest, With
  <2>3. none.by = c.by /\ none.at = "create" /\ none.rel = 0 /\ none.carried = {}
    BY <1>5 DEF Calls
  <2>4. \A r : /\ taken(r).by = c.by /\ taken(r).rel = r /\ taken(r).carried = carries[r]
               /\ taken(r).at = IF mode = "batch" THEN "join" ELSE "create"
    BY <1>5 DEF Calls
  <2> HIDE DEF found, none, taken
  <2>5. CASE calls' = (calls \ {c}) \cup {none}
    BY <2>3, <2>5
  <2>6. ASSUME NEW r \in found, calls' = (calls \ {c}) \cup {taken(r)}
        PROVE  \E d : /\ calls' = (calls \ {c}) \cup {d}
                      /\ d.by = c.by /\ d.at \in {"join", "create"}
                      /\ d.at = "create" => mode # "batch" \/ d.rel = 0
                      /\ \/ d.rel = 0 /\ d.carried = {}
                         \/ d.rel \in Releases /\ d.carried = carries[d.rel]
    BY <2>2, <2>4, <2>6
  <2> QED BY <2>1, <2>5, <2>6
<1>7. Opens(d)' /\ Hands(Held, d)
  <2>1. d.carried \subseteq Aboard
    BY <1>6 DEF Aboard
  <2>2. Opens(d)'
    BY <1>3, <1>4, <1>5, <1>6, <2>1 DEF Opens, Coming, Replaces
  <2>3. Hands(Held, d)
    BY <1>1, <1>6, Numbered DEF Hands, Safely, HeldIsCarried, Replaces
  <2> QED BY <2>2, <2>3
<1>8. \A e \in calls : e.at \in Coming => \E f \in calls' : f.by = e.by /\ f.at \in Coming
  BY <1>6 DEF Coming
<1>9. \A e \in calls' : e.at \in Opening => e \in calls \/ (Opens(e)' /\ Hands(Held, e))
  BY <1>6, <1>7
<1> QED BY <1>1, <1>2, <1>3, <1>4, <1>8, <1>9, FlowsOn

\* A task that misses a draft starts over, or is reported.
LEMMA TrackedRetry ==
    ASSUME Inv, Noted, Tracked, NEW c \in calls,
           c.at \in {"join", "create"}, c.by \in Merged,
           UNCHANGED <<mode, row, carries, base>>,
           Calm \/ \E kind : Happens(kind),
           \/ Retry(c)
           \/ Goes(c, {}) /\ refused' = refused \cup {c.by}
    PROVE  Tracked'
<1>1. PICK Held : Safely(Held)
  BY DEF Tracked
<1>2. InOrder /\ \A e \in calls : Opens(e)
  BY DEF Tracked
<1>3. Aboard' = Aboard /\ Merged' = Merged /\ RowsGoOn
  BY StillGoesOn DEF Aboard, Merged
<1>4. events["fault"] > 0 => events'["fault"] > 0
  <2>1. events'["fault"] >= events["fault"] /\ events'["fault"] \in Nat
        /\ events["fault"] \in Nat
    BY Counts DEF Noted, Kinds
  <2> QED BY <2>1
<1> DEFINE d == [Call(c.by, "find", 0, NoRow) EXCEPT !.flag = FALSE]
<1>5. d.at = "find" /\ d.by = c.by /\ d.rel = 0 /\ d.carried = {}
  BY DEF Call
<1>6. \/ calls' = (calls \ {c}) \cup {d} /\ refused' = refused
      \/ calls' = (calls \ {c}) \cup {} /\ refused' = refused \cup {c.by}
  BY DEF Retry, Goes
<1> HIDE DEF d
<1>7. Opens(d)' /\ Hands(Held, d)
  BY <1>3, <1>5, Numbered DEF Opens, Hands, Coming, Replaces
<1>8. \A e \in calls : e.at \in Coming =>
         \/ e.by \in refused'
         \/ \E f \in calls' : f.by = e.by /\ f.at \in Coming
  BY <1>5, <1>6 DEF Coming
<1>9. \A e \in calls' : e.at \in Opening => e \in calls \/ (Opens(e)' /\ Hands(Held, e))
  BY <1>6, <1>7
<1>10. refused \subseteq refused'
  BY <1>6
<1> QED BY <1>1, <1>2, <1>3, <1>4, <1>8, <1>9, <1>10, FlowsOn

\* A draft that is joined is not superseded: the row's lock says so.
LEMMA TrackedJoin ==
    ASSUME Inv, Noted, Tracked, NEW c \in calls, Join(c)
    PROVE  Tracked'
<1>1. PICK Held : Safely(Held)
  BY DEF Tracked
<1>2. InOrder /\ \A e \in calls : Opens(e)
  BY DEF Tracked
<1>3. /\ c.at = "join" /\ c.by \in Merged /\ c.by \in Tasks /\ c.rel \in Releases
      /\ mode = "batch"
  BY <1>2 DEF Join, Inv, Knows, Opens, Coming, Opening, Later
<1>4. UNCHANGED <<mode, row, base, events>>
  BY DEF Join, Calm, world, asked
<1>5. CASE row[c.rel].status # "draft"
  <2>1. Retry(c) /\ UNCHANGED <<mode, row, carries, base>>
    BY <1>4, <1>5 DEF Join
  <2> QED BY <1>3, <2>1, TrackedRetry DEF Join
<1>6. CASE row[c.rel].status = "draft"
  <2> DEFINE New == [Held EXCEPT ![c.rel] = @ \cup {c.by}]
  <2>1. /\ carries' = [carries EXCEPT ![c.rel] = @ \cup {c.by}]
        /\ calls' = calls \ {c} /\ UNCHANGED refused
    BY <1>6 DEF Join, Goes
  <2>2. /\ HeldIsCarried(Held) /\ Succeeded(Held) /\ Accounted(Held)
        /\ carries \in [Releases -> Commits]
    BY <1>1 DEF Safely, Inv, Types
  <2>3. /\ New \in [Releases -> SUBSET Tasks]
        /\ New[c.rel] = Held[c.rel] \cup {c.by}
        /\ \A r \in Releases : r # c.rel => New[r] = Held[r]
        /\ \A r \in Releases : Held[r] \subseteq New[r]
    BY <1>3, <2>2 DEF HeldIsCarried
  <2>4. /\ carries'[c.rel] = carries[c.rel] \cup {c.by}
        /\ \A r \in Releases : r # c.rel => carries'[r] = carries[r]
    BY <1>3, <2>1, <2>2
  <2> HIDE DEF New
  <2>5. Aboard' = Aboard \cup {c.by} /\ Merged' = Merged
    BY <1>3, <1>4, <2>4 DEF Aboard, Merged
  <2>6. InOrder'
    BY <1>2, <1>3, <1>4, <1>6, <2>4, <2>5 DEF InOrder
  <2>7. \A e \in calls' : Opens(e)'
    BY <1>2, <1>4, <2>1, <2>5 DEF Opens
  <2>8. \A e \in calls' : Hands(New, e)
    BY <1>2, <1>3, <2>1, Numbered DEF Hands, Opens
  <2>9. HeldIsCarried(New)'
    BY <1>3, <2>2, <2>3, <2>4 DEF HeldIsCarried
  <2>10. Succeeded(New)'
    <3> SUFFICES ASSUME NEW r \in Releases, row[r].status = "superseded"
                 PROVE  \E s \in Releases : /\ r < s /\ row[s].status # "superseded"
                                            /\ New[r] \subseteq New[s]
      BY <1>4 DEF Succeeded
    <3>1. PICK s \in Releases : /\ r < s /\ row[s].status # "superseded"
                                /\ Held[r] \subseteq Held[s]
      BY <2>2 DEF Succeeded
    <3>2. New[r] = Held[r]
      BY <1>6, <2>3
    <3> QED BY <2>3, <3>1, <3>2
  <2>11. Accounted(New)'
    <3> SUFFICES ASSUME NEW t \in Merged, \A r \in Releases : t \notin New[r]
                 PROVE  /\ t \notin Aboard'
                        /\ \/ t \in refused
                           \/ events["fault"] > 0
                           \/ \E e \in calls' : e.by = t /\ e.at \in Coming
      BY <1>4, <2>1, <2>5 DEF Accounted
    <3>1. t # c.by /\ \A r \in Releases : t \notin Held[r]
      BY <1>3, <2>3
    <3>2. /\ t \notin Aboard
          /\ \/ t \in refused
             \/ events["fault"] > 0
             \/ \E e \in calls : e.by = t /\ e.at \in Coming
      BY <2>2, <3>1 DEF Accounted
    <3> QED BY <2>1, <2>5, <3>1, <3>2
  <2>12. Safely(New)'
    BY <2>8, <2>9, <2>10, <2>11 DEF Safely, Hands
  <2> QED BY <2>6, <2>7, <2>12 DEF Tracked
<1> QED BY <1>5, <1>6

LEMMA TrackedCreateFails ==
    ASSUME Inv, Noted, Tracked, NEW c \in calls, CreateFails(c)
    PROVE  Tracked'
<1>1. c.at = "create" /\ c.by \in Merged
  BY DEF CreateFails, Tracked, Opens, Coming
<1>2. UNCHANGED <<mode, row, carries, base>>
  BY DEF CreateFails, world, rows
<1> QED BY <1>1, <1>2, TrackedRetry DEF CreateFails

\* A new release holds all that it is created with, at least what the release it
\* takes over holds.
LEMMA TrackedCreate ==
    ASSUME Inv, Noted, Tracked, NEW c \in calls, Create(c)
    PROVE  Tracked'
<1>1. PICK Held : Safely(Held)
  BY DEF Tracked
<1>2. InOrder /\ \A e \in calls : Opens(e)
  BY DEF Tracked
<1>3. /\ c \in Calls /\ c.at = "create" /\ c.by \in Merged /\ c.by \in Tasks
      /\ c.rel \in Releases \cup {0} /\ c.carried \in Commits /\ c.carried \subseteq Aboard
  BY <1>2 DEF Create, Inv, Types, Knows, Calls, Opens, Coming, Opening
<1>4. PICK new \in Unused : Inserted(c, new, c.carried \cup {c.by})
  BY DEF Create
<1>5. /\ new \in Releases /\ row[new].status = "none"
      /\ \A s \in Releases : row[s].status = "none" => new <= s
  BY <1>4 DEF Unused, Created
<1> DEFINE tasks == c.carried \cup {c.by}
           fresh == [NoRow EXCEPT !.status = Starts[mode],
                                  !.content = IF mode = "batch" THEN {} ELSE base[c.by]]
           d == [c EXCEPT !.at = "supersede", !.new = new]
           New == [Held EXCEPT ![new] = tasks]
<1>6. /\ row' = [row EXCEPT ![new] = fresh] /\ carries' = [carries EXCEPT ![new] = tasks]
      /\ calls' = (calls \ {c}) \cup (IF c.rel = 0 THEN {} ELSE {d})
      /\ UNCHANGED <<mode, base, refused, events>>
  BY <1>4 DEF Create, Inserted, Goes, Calm, world
<1>7. fresh.status \in {"draft", "pending", "deploying"}
  BY DEF NoRow, Starts, Modes, Inv, Types
<1>8. d.at = "supersede" /\ d.new = new /\ d.rel = c.rel /\ d.by = c.by
      /\ d.carried = c.carried
  BY <1>3 DEF Calls
<1>9. /\ HeldIsCarried(Held) /\ Succeeded(Held) /\ Accounted(Held)
      /\ \A e \in calls : Hands(Held, e)
      /\ carries \in [Releases -> Commits] /\ row \in [Releases -> Rows]
  BY <1>1 DEF Safely, Inv, Types
<1> HIDE DEF fresh, d
<1>10. carries[new] = {} /\ Held[new] = {}
  BY <1>2, <1>5, <1>9 DEF InOrder, HeldIsCarried
<1>11. /\ New \in [Releases -> SUBSET Tasks] /\ New[new] = tasks
       /\ \A r \in Releases : r # new => New[r] = Held[r]
       /\ \A r \in Releases : Held[r] \subseteq New[r]
  BY <1>3, <1>5, <1>9, <1>10 DEF HeldIsCarried, Commits
<1>12. /\ carries'[new] = tasks /\ row'[new] = fresh
       /\ \A r \in Releases : r # new => carries'[r] = carries[r] /\ row'[r] = row[r]
  BY <1>5, <1>6, <1>9
<1> HIDE DEF New
<1>13. Aboard' = Aboard \cup {c.by} /\ Merged' = Merged
  <2>1. Aboard' = Aboard \cup tasks
    BY <1>5, <1>10, <1>12 DEF Aboard
  <2>2. Merged' = Merged
    BY <1>6 DEF Merged
  <2> QED BY <1>3, <2>1, <2>2
<1>14. InOrder'
  <2>1. Releases \subseteq Nat
    BY TasksAssumption, FS_CardinalityType DEF Releases
  <2>2. ASSUME NEW r \in Releases, NEW s \in Releases, r < s, row'[s].status # "none"
        PROVE  row'[r].status # "none"
    <3>1. CASE r = new
      BY <1>7, <1>12, <3>1
    <3>2. CASE s = new
      BY <1>5, <1>12, <2>1, <2>2, <3>2
    <3>3. CASE r # new /\ s # new
      BY <1>2, <1>12, <2>2, <3>3 DEF InOrder
    <3> QED BY <3>1, <3>2, <3>3
  <2>3. \A r \in Releases : row'[r].status = "none" => carries'[r] = {}
    BY <1>2, <1>7, <1>12 DEF InOrder
  <2>4. Aboard' \subseteq Merged'
    BY <1>2, <1>3, <1>13 DEF InOrder
  <2> QED BY <2>2, <2>3, <2>4 DEF InOrder
<1>15. ASSUME NEW e \in calls PROVE Opens(e)' /\ Hands(New, e)
  <2>1. Opens(e)'
    BY <1>2, <1>6, <1>13 DEF Opens
  <2>2. e.rel \in Releases => e.rel # new
    BY <1>5 DEF Inv, Knows
  <2>3. e.at \in Replaces => e.rel \in Releases /\ e.new \in Releases
    BY <1>2 DEF Replaces, Opens, Inv, Knows, Later
  <2>4. Hands(New, e)
    BY <1>9, <1>11, <2>2, <2>3 DEF Hands
  <2> QED BY <2>1, <2>4
<1>16. ASSUME c.rel # 0 PROVE Opens(d)' /\ Hands(New, d)
  <2>1. c.rel \in Releases /\ row[c.rel].status # "none" /\ mode # "batch"
    BY <1>2, <1>3, <1>16 DEF Inv, Knows, Opens
  <2>2. c.rel < new
    <3>1. c.rel \in Nat /\ new \in Nat /\ c.rel # new
      BY <1>5, <2>1, TasksAssumption, FS_CardinalityType DEF Releases
    <3>2. ~(new < c.rel)
      BY <1>2, <1>5, <2>1 DEF InOrder
    <3> QED BY <3>1, <3>2
  <2>3. Held[c.rel] \subseteq c.carried /\ New[c.rel] = Held[c.rel]
    BY <1>3, <1>5, <1>9, <1>11, <2>1 DEF Hands
  <2> QED BY <1>5, <1>6, <1>8, <1>11, <2>1, <2>2, <2>3
          DEF Opens, Hands, Coming, Replaces
<1>17. \A e \in calls' : Opens(e)' /\ Hands(New, e)
  BY <1>6, <1>15, <1>16
<1>18. HeldIsCarried(New)'
  BY <1>9, <1>11, <1>12 DEF HeldIsCarried
<1>19. Succeeded(New)'
  <2> SUFFICES ASSUME NEW r \in Releases, row'[r].status = "superseded"
               PROVE  \E s \in Releases : /\ r < s /\ row'[s].status # "superseded"
                                          /\ New[r] \subseteq New[s]
    BY DEF Succeeded
  <2>1. r # new /\ row[r].status = "superseded"
    BY <1>7, <1>12
  <2>2. PICK s \in Releases : /\ r < s /\ row[s].status # "superseded"
                              /\ Held[r] \subseteq Held[s]
    BY <1>9, <2>1 DEF Succeeded
  <2>3. row'[s].status # "superseded"
    BY <1>7, <1>12, <2>2
  <2> QED BY <1>11, <2>1, <2>2, <2>3
<1>20. Accounted(New)'
  <2> SUFFICES ASSUME NEW t \in Merged, \A r \in Releases : t \notin New[r]
               PROVE  /\ t \notin Aboard'
                      /\ \/ t \in refused
                         \/ events["fault"] > 0
                         \/ \E e \in calls' : e.by = t /\ e.at \in Coming
    BY <1>6, <1>13 DEF Accounted
  <2>1. t # c.by /\ \A r \in Releases : t \notin Held[r]
    BY <1>5, <1>11
  <2>2. /\ t \notin Aboard
        /\ \/ t \in refused
           \/ events["fault"] > 0
           \/ \E e \in calls : e.by = t /\ e.at \in Coming
    BY <1>9, <2>1 DEF Accounted
  <2> QED BY <1>6, <1>13, <2>1, <2>2
<1>21. Safely(New)'
  BY <1>17, <1>18, <1>19, <1>20 DEF Safely, Hands
<1> QED BY <1>14, <1>17, <1>21 DEF Tracked

\* What is superseded is held by the release that took it over, or by whatever
\* superseded that one since.
LEMMA TrackedSupersede ==
    ASSUME Inv, Tracked, NEW c \in calls, Supersede(c)
    PROVE  Tracked'
<1>1. PICK Held : Safely(Held)
  BY DEF Tracked
<1>2. InOrder /\ \A e \in calls : Opens(e)
  BY DEF Tracked
<1> DEFINE old == [c.copy EXCEPT !.status = "superseded"]
           d == [c EXCEPT !.at = "reread"]
<1>3. /\ c \in Calls /\ c.at = "supersede" /\ c.rel \in Releases /\ c.copy \in Rows
      /\ row[c.rel].status # "none"
  BY DEF Supersede, Inv, Types, Calls, Knows, Later
<1>4. /\ UNCHANGED <<mode, carries, base, refused, events>>
      /\ Update(c, old, {On(c, "unpark")}, {d})
  BY DEF Supersede, Calm, world
<1>5. Aboard' = Aboard /\ Merged' = Merged
  BY <1>4 DEF Aboard, Merged
<1>6. /\ c.new \in Releases /\ c.rel < c.new /\ mode # "batch"
      /\ Held[c.rel] \subseteq Held[c.new]
  BY <1>1, <1>2, <1>3 DEF Opens, Safely, Hands, Replaces
<1>7. CASE Won(c)
  <2>1. /\ row' = [row EXCEPT ![c.rel] = old]
        /\ calls' = (calls \ {c}) \cup {On(c, "unpark")}
    BY <1>4, <1>7 DEF Update, Put, Goes
  <2>2. old.status = "superseded" /\ On(c, "unpark").at = "unpark"
    BY <1>3 DEF Rows, On, Call
  <2> HIDE DEF old
  <2>3. /\ row'[c.rel].status = "superseded"
        /\ \A r \in Releases : r # c.rel => row'[r] = row[r]
    BY <1>3, <2>1, <2>2 DEF Inv, Types
  <2>4. Releases \subseteq Nat
    BY TasksAssumption, FS_CardinalityType DEF Releases
  <2>5. InOrder'
    BY <1>2, <1>3, <1>4, <1>5, <2>3 DEF InOrder
  <2>6. \A e \in calls' : Opens(e)' /\ Hands(Held, e)
    BY <1>1, <1>2, <1>4, <1>5, <2>1, <2>2
    DEF Opens, Hands, Safely, Coming, Replaces
  <2>7. HeldIsCarried(Held)'
    BY <1>1, <1>4 DEF Safely, HeldIsCarried
  <2>8. \E s \in Releases : /\ c.rel < s /\ row'[s].status # "superseded"
                            /\ Held[c.rel] \subseteq Held[s]
    <3>1. CASE row[c.new].status # "superseded"
      <4>1. c.new # c.rel
        <5>1. c.rel \in Nat /\ c.new \in Nat /\ c.rel < c.new
          BY <1>3, <1>6, <2>4
        <5> QED BY <5>1
      <4>2. row'[c.new].status # "superseded"
        BY <1>6, <2>3, <3>1, <4>1
      <4> QED BY <1>6, <4>2
    <3>2. CASE row[c.new].status = "superseded"
      <4>1. PICK s \in Releases : /\ c.new < s /\ row[s].status # "superseded"
                                  /\ Held[c.new] \subseteq Held[s]
        BY <1>1, <1>6, <3>2 DEF Safely, Succeeded
      <4>2. c.rel < s /\ s # c.rel
        <5>1. c.rel \in Nat /\ c.new \in Nat /\ s \in Nat
          BY <1>3, <1>6, <2>4
        <5>2. c.rel < c.new /\ c.new < s
          BY <1>6, <4>1
        <5> QED BY <5>1, <5>2
      <4> QED BY <1>6, <2>3, <4>1, <4>2
    <3> QED BY <3>1, <3>2
  <2>9. Succeeded(Held)'
    <3> SUFFICES ASSUME NEW r \in Releases, row'[r].status = "superseded"
                 PROVE  \E s \in Releases : /\ r < s /\ row'[s].status # "superseded"
                                            /\ Held[r] \subseteq Held[s]
      BY DEF Succeeded
    <3>1. CASE r = c.rel
      BY <2>8, <3>1
    <3>2. CASE r # c.rel
      <4>1. PICK s \in Releases : /\ r < s /\ row[s].status # "superseded"
                                  /\ Held[r] \subseteq Held[s]
        BY <1>1, <2>3, <3>2 DEF Safely, Succeeded
      <4>2. CASE s # c.rel
        BY <2>3, <4>1, <4>2
      <4>3. CASE s = c.rel
        <5>1. PICK u \in Releases : /\ c.rel < u /\ row'[u].status # "superseded"
                                    /\ Held[c.rel] \subseteq Held[u]
          BY <2>8
        <5> QED BY <1>3, <2>4, <4>1, <4>3, <5>1
      <4> QED BY <4>2, <4>3
    <3> QED BY <3>1, <3>2
  <2>10. Accounted(Held)'
    <3> SUFFICES ASSUME NEW t \in Merged, \A r \in Releases : t \notin Held[r]
                 PROVE  /\ t \notin Aboard
                        /\ \/ t \in refused
                           \/ events["fault"] > 0
                           \/ \E e \in calls' : e.by = t /\ e.at \in Coming
      BY <1>4, <1>5 DEF Accounted
    <3>1. /\ t \notin Aboard
          /\ \/ t \in refused
             \/ events["fault"] > 0
             \/ \E e \in calls : e.by = t /\ e.at \in Coming
      BY <1>1 DEF Safely, Accounted
    <3> QED BY <1>3, <2>1, <3>1 DEF Coming
  <2>11. Safely(Held)'
    BY <2>6, <2>7, <2>9, <2>10 DEF Safely, Hands
  <2> QED BY <2>5, <2>6, <2>11 DEF Tracked
<1>8. CASE ~Won(c)
  <2>1. row' = row /\ calls' = (calls \ {c}) \cup {d}
    BY <1>4, <1>8 DEF Update, Goes
  <2>2. d.at = "reread" /\ d.rel = c.rel /\ d.new = c.new
    BY <1>3 DEF Calls
  <2> HIDE DEF d
  <2>3. Opens(d)' /\ Hands(Held, d)
    BY <1>4, <1>6, <2>2 DEF Opens, Hands, Coming, Replaces
  <2>4. RowsGoOn
    BY <2>1, StillGoesOn
  <2>5. \A e \in calls : e.at \in Coming => \E f \in calls' : f.by = e.by /\ f.at \in Coming
    BY <1>3, <2>1 DEF Coming
  <2>6. \A e \in calls' : e.at \in Opening => e \in calls \/ (Opens(e)' /\ Hands(Held, e))
    BY <2>1, <2>3
  <2> QED BY <1>1, <1>2, <1>4, <1>5, <2>4, <2>5, <2>6, FlowsOn
<1> QED BY <1>7, <1>8

\* The loser of the race adds what the other carries, and holds no more.
LEMMA TrackedReread ==
    ASSUME Inv, Tracked, NEW c \in calls, Reread(c)
    PROVE  Tracked'
<1>1. PICK Held : Safely(Held)
  BY DEF Tracked
<1>2. InOrder /\ \A e \in calls : Opens(e)
  BY DEF Tracked
<1>0. PICK d : d = [c EXCEPT !.at = "supersede", !.copy = row[c.rel], !.flag = FALSE]
  OBVIOUS
<1>3. /\ c \in Calls /\ c.at = "reread" /\ c.rel \in Releases /\ c.by \in Tasks
      /\ c.new \in Releases /\ c.rel < c.new /\ mode # "batch"
      /\ Held[c.rel] \subseteq Held[c.new]
  BY <1>1, <1>2 DEF Reread, Inv, Types, Knows, Later, Opening, Opens, Safely, Hands, Replaces
<1>4. row[c.new].status # "none" /\ carries \in [Releases -> Commits]
  BY <1>3 DEF Inv, Ships, Types
<1>5. /\ UNCHANGED <<mode, row, base, refused, events>>
      /\ \/ calls' = (calls \ {c}) \cup {d}
         \/ calls' = (calls \ {c}) \cup {}
      /\ \/ carries' = carries
         \/ carries' = [carries EXCEPT ![c.new] = carries[c.new] \cup carries[c.rel]]
  BY <1>0, <1>3, <1>4 DEF Reread, Goes, Calm, world, asked
<1>6. d.at = "supersede" /\ d.rel = c.rel /\ d.new = c.new
  BY <1>0, <1>3 DEF Calls
<1>7. /\ \A r \in Releases : carries[r] \subseteq carries'[r]
      /\ \A r \in Releases : r # c.new => carries'[r] = carries[r]
      /\ carries'[c.new] \subseteq carries[c.new] \cup carries[c.rel]
  BY <1>3, <1>4, <1>5
<1>8. Aboard' = Aboard
  BY <1>3, <1>7 DEF Aboard
<1>9. Merged' = Merged /\ RowsGoOn
  BY <1>5, StillGoesOn DEF Merged
<1>10. Opens(d)' /\ Hands(Held, d)
  BY <1>3, <1>5, <1>6 DEF Opens, Hands, Coming, Replaces
<1>11. \A e \in calls : e.at \in Coming => \E f \in calls' : f.by = e.by /\ f.at \in Coming
  BY <1>3, <1>5 DEF Coming
<1>12. \A e \in calls' : e.at \in Opening => e \in calls \/ (Opens(e)' /\ Hands(Held, e))
  BY <1>5, <1>10
<1>13. \A r \in Releases : row[r].status = "none" => carries'[r] = carries[r]
  BY <1>4, <1>7
<1> QED BY <1>1, <1>2, <1>5, <1>7, <1>8, <1>9, <1>11, <1>12, <1>13, FlowsOn

LEMMA TrackedStep == Inv /\ Noted /\ Tracked /\ [Next]_vars => Tracked'
<1> SUFFICES ASSUME Inv, Noted, Tracked, [Next]_vars PROVE Tracked'
  OBVIOUS
<1>1. CASE UNCHANGED vars
  <2>1. UNCHANGED <<mode, row, carries, base, refused, calls, events>>
    BY <1>1 DEF vars, world, rows
  <2> QED BY <2>1, QuietKeeps, StillGoesOn DEF Quiet
<1>2. CASE Next
  <2>1. events["fault"] > 0 => events'["fault"] > 0
    <3>1. events'["fault"] >= events["fault"] /\ events'["fault"] \in Nat
          /\ events["fault"] \in Nat
      BY <1>2, Eventful, Counts DEF Noted, Kinds
    <3> QED BY <3>1
  <2>2. ASSUME NEW c \in calls, CallStep(c) PROVE Tracked'
    <3>1. CASE Find(c) \/ Join(c) \/ Create(c) \/ CreateFails(c) \/ Supersede(c) \/ Reread(c)
      BY <3>1, TrackedFind, TrackedJoin, TrackedCreate, TrackedCreateFails,
         TrackedSupersede, TrackedReread
    <3>2. CASE Quiet
      BY <2>1, <3>2, QuietKeeps
    <3> QED BY <2>2, <3>1, <3>2, QuietCalls, QuietUpdates DEF CallStep
  <2>3. CASE Crash
    BY <2>3, TrackedCrash
  <2>4. ASSUME NEW t \in Tasks, Merge(t) PROVE Tracked'
    BY <2>4, TrackedMerge
  <2> QED BY <1>2, <2>1, <2>2, <2>3, <2>4, QuietAround, QuietKeeps DEF Next
<1> QED BY <1>1, <1>2

LEMMA TrackedInit == Init => Tracked
<1> SUFFICES ASSUME Init PROVE Tracked
  OBVIOUS
<1> DEFINE None == [r \in Releases |-> {}]
<1>1. /\ calls = {} /\ \A r \in Releases : row[r].status = "none" /\ carries[r] = {}
      /\ base = [t \in Tasks |-> {}]
  BY DEF Init, NoRow
<1>2. Aboard = {} /\ Merged = {}
  BY <1>1 DEF Aboard, Merged
<1>3. InOrder
  BY <1>1, <1>2 DEF InOrder
<1>4. Safely(None)
  BY <1>1, <1>2 DEF Safely, HeldIsCarried, Succeeded, Accounted
<1> HIDE DEF None
<1> QED BY <1>1, <1>3, <1>4 DEF Tracked

\* NoTaskStranded: however many merges race to take over whichever releases, with
\* supersedes that lose and try again, sweeps, verdicts and rollbacks between their
\* steps, every merged task is carried by a release that is not superseded, unless
\* its opening still goes on, was reported, or died with the process
\* (OpenForMerge, supersedeRelease, retrySupersedeRace, AddTasksToDraft).
THEOREM NoneStranded == Spec => []NoTaskStranded
<1>1. Init => Noted /\ Tracked
  BY NotedInit, TrackedInit
<1>2. Inv /\ Noted /\ Tracked /\ [Next]_vars => (Noted /\ Tracked)'
  BY NotedStep, TrackedStep
<1>3. Inv /\ Tracked => NoTaskStranded
  BY TrackedIsSafe
<1> QED BY <1>1, <1>2, <1>3, InitInv, NextInv, PTL DEF Spec
=============================================================================
