-------------------------- MODULE MCRereviewSequence --------------------------
(***************************************************************************)
(* Small instances of RereviewSequence for TLC.                            *)
(***************************************************************************)
EXTENDS RereviewSequence, TLC

CONSTANTS p1, p2, h1, h2

Identifiers == Permutations(Ids)

Event(type, pr, head) ==
  [type |-> type, pr |-> pr, resulting_head |-> head, reviewed_head |-> head,
   validity |-> "CURRENT", faithful |-> TRUE, cites |-> None, governance |-> None]

Numbered(E) ==
  {[type |-> e.type, pr |-> e.pr, resulting_head |-> e.resulting_head,
    reviewed_head |-> e.reviewed_head, validity |-> e.validity, faithful |-> e.faithful,
    cites |-> e.cites, governance |-> e.governance, id |-> i] : e \in E, i \in Ids}

Review(pr, head, verdict) == [pr |-> pr, head |-> head, verdict |-> verdict]

Proof(r) == [Event("pr_inspector_rereview_completed", r.pr, r.head) EXCEPT !.cites = r]

Governed(pr, head, yes) == [pr |-> pr, head |-> head, merge_authorized |-> yes]

Authorization(g) == [Event("merge_authorized", g.pr, g.head) EXCEPT !.governance = g]

\* A pull request p1 with two heads, every verdict, and every way a re-review or
\* an authorization can be wrong; beside it p2, whose head is the same commit.
AllReviews ==
  {Review(p1, h1, "merge_now"), Review(p1, h1, "green"), Review(p1, h2, "repair"),
   Review(p1, h2, "merge_now"), Review(p2, h1, "merge_now")}

AllGovernance == {Governed(p1, h1, TRUE), Governed(p1, h1, FALSE)}

Repairs1 == {Event("implemented_pending_rereview", p1, h) : h \in Heads}

Rereviews1 ==
  LET right == Proof(Review(p1, h1, "merge_now")) IN
  {Proof(r) : r \in {q \in AllReviews : q.pr = p1}}
    \cup {[right EXCEPT !.reviewed_head = h2], [right EXCEPT !.resulting_head = h2],
          [right EXCEPT !.validity = "STALE"], [right EXCEPT !.faithful = FALSE],
          Proof(Review(p1, h1, "repair"))}

Acceptances1 ==
  {Event(t, p1, h1) : t \in AcceptanceEvents}
    \cup {Authorization(g) : g \in AllGovernance}
    \cup {[Event("merge_authorized", p1, h2) EXCEPT !.governance = Governed(p1, h1, TRUE)]}

\* Events of p2, two of them with evidence for p1.
Events2 ==
  {Event("implemented_pending_rereview", p2, h1), Event("merged", p2, h1),
   Proof(Review(p2, h1, "merge_now")),
   [Proof(Review(p1, h1, "merge_now")) EXCEPT !.pr = p2],
   [Event("merge_authorized", p2, h1) EXCEPT !.governance = Governed(p1, h1, TRUE)]}

AllEvents == Numbered(Repairs1 \cup Rereviews1 \cup Acceptances1 \cup Events2)
=============================================================================
