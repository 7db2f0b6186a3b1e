--------------------------- MODULE RereviewSequence ---------------------------
(***************************************************************************)
(* The lifecycle of repaired pull requests as sequence_policy.py judges it. *)
(*                                                                         *)
(* validate_rereview_sequence walks over a list of events that somebody    *)
(* else wrote.  It trusts none of them: a repair opens a pending head, a   *)
(* re-review that cites externally verified evidence for exactly that head *)
(* unlocks it, and only then may an event say that the pull request was    *)
(* accepted or merged.  A step of this specification is one iteration of   *)
(* the loop; the events come in any order, repeat and contradict each      *)
(* other.                                                                  *)
(***************************************************************************)
EXTENDS Naturals, Sequences

CONSTANTS
  PullRequests,  \* the keys (target_repository, pr_number)
  Heads,         \* commit SHAs
  Ids,           \* event identifiers
  Reviews,       \* the review evidence verified for this run
  Governance,    \* the governance evidence verified for this run
  Events,        \* the events that may occur in the list
  MaxEvents,     \* bound on the length of the list
  None           \* what dict.get returns for a missing key

AcceptanceEvents == {"technically_accepted", "merge_authorized", "merged"}

EventTypes == {"implemented_pending_rereview", "pr_inspector_rereview_completed"}
                \cup AcceptanceEvents

\* The projections a review can have, by what they permit: nothing, technical
\* acceptance, or acceptance with merge_now and no further approval.
Verdicts == {"repair", "green", "merge_now"}

\* Evidence exists for CURRENT reviews only.  Its identifier is a hash of
\* its contents, so an event that cites an identifier cites the contents.
ReviewEvidence == [pr : PullRequests, head : Heads, verdict : Verdicts]

GovernanceEvidence == [pr : PullRequests, head : Heads, merge_authorized : BOOLEAN]

\* "cites" and "governance" are the evidence identifiers an event declares and
\* "faithful" says whether its copies of the evidence's other fields, hashes
\* and commit identity are right.  An event that needs no evidence ignores them.
WellFormed(e) ==
  /\ e.id \in Ids
  /\ e.type \in EventTypes
  /\ e.pr \in PullRequests
  /\ e.resulting_head \in Heads
  /\ e.reviewed_head \in Heads
  /\ e.validity \in {"CURRENT", "STALE", "UNKNOWN"}
  /\ e.faithful \in BOOLEAN

ASSUME NothingIsNone == None \notin Heads \cup ReviewEvidence
ASSUME BoundIsNatural == MaxEvents \in Nat
ASSUME EvidenceIsVerified ==
  Reviews \subseteq ReviewEvidence /\ Governance \subseteq GovernanceEvidence
ASSUME SchemaHolds == \A e \in Events : WellFormed(e)

VARIABLES
  events,       \* the events read so far
  seen,         \* seen_event_ids
  pending,      \* pending_heads
  passed,       \* passed_evidence
  diagnostics   \* what was found, by position in the list

vars == <<events, seen, pending, passed, diagnostics>>

Codes == {"001", "002", "003", "004", "006", "007", "008", "009", "010",
          "GOV-001", "GOV-002", "GOV-003"}

TypeOK ==
  /\ seen \subseteq Ids
  /\ pending \in [PullRequests -> Heads \cup {None}]
  /\ passed \in [PullRequests -> Reviews \cup {None}]
  /\ diagnostics \subseteq [at : 1..Len(events), code : Codes]

Init ==
  /\ events = <<>>
  /\ seen = {}
  /\ pending = [p \in PullRequests |-> None]
  /\ passed = [p \in PullRequests |-> None]
  /\ diagnostics = {}

-----------------------------------------------------------------------------
\* Mutant: positions are counted from one too many.
ReportNextPosition(e, codes) ==
  /\ events' = Append(events, e)
  /\ diagnostics' = diagnostics \cup [at : {Len(events) + 2}, code : codes]

\* One iteration reads an event and may report codes at its position.
Report(e, codes) ==
  /\ events' = Append(events, e)
  /\ diagnostics' = diagnostics \cup [at : {Len(events) + 1}, code : codes]

Replayed(e) ==
  /\ e.id \in seen
  /\ Report(e, {"007"})
  /\ UNCHANGED <<seen, pending, passed>>

\* An event whose identifier was not seen before.
Fresh(e, type) ==
  /\ e.id \notin seen
  /\ e.type \in type
  /\ seen' = seen \cup {e.id}

\* Mutant: what was proved of the head before is not forgotten.
ImplementedKeepsProof(e) ==
  /\ Fresh(e, {"implemented_pending_rereview"})
  /\ pending' = [pending EXCEPT ![e.pr] = e.resulting_head]
  /\ UNCHANGED passed
  /\ Report(e, {})

\* Mutant: a repair makes the policy forget every pull request.
ImplementedForgetsAll(e) ==
  /\ Fresh(e, {"implemented_pending_rereview"})
  /\ pending' = [pending EXCEPT ![e.pr] = e.resulting_head]
  /\ passed' = [p \in PullRequests |-> None]
  /\ Report(e, {})

\* A repair opens its head and forgets what was known of the one before.
Implemented(e) ==
  /\ Fresh(e, {"implemented_pending_rereview"})
  /\ pending' = [pending EXCEPT ![e.pr] = e.resulting_head]
  /\ passed' = [passed EXCEPT ![e.pr] = None]
  /\ Report(e, {})

-----------------------------------------------------------------------------
(* Re-reviews.                                                             *)

IdentityMatches(e) ==
  e.resulting_head = pending[e.pr] /\ e.reviewed_head = pending[e.pr]

Blemishes(e) ==
  {c \in {"003", "004"} : \/ c = "003" /\ ~IdentityMatches(e)
                          \/ c = "004" /\ e.validity # "CURRENT"}

\* Mutant: evidence of any pull request will do.
HeadMatches(r, e) ==
  /\ e.faithful
  /\ e.resulting_head = r.head
  /\ e.reviewed_head = r.head
  /\ e.validity = "CURRENT"

\* evidence_matches_event
EvidenceMatches(r, e) ==
  /\ e.faithful
  /\ e.pr = r.pr
  /\ e.resulting_head = r.head
  /\ e.reviewed_head = r.head
  /\ e.validity = "CURRENT"

RereviewOfNothing(e) ==
  /\ Fresh(e, {"pr_inspector_rereview_completed"})
  /\ pending[e.pr] = None
  /\ Report(e, {"002"})
  /\ UNCHANGED <<pending, passed>>

\* Mutant: a failed re-review takes the earlier proof away.
RereviewFailed(e) ==
  /\ Fresh(e, {"pr_inspector_rereview_completed"})
  /\ pending[e.pr] # None
  /\ \/ e.cites \notin Reviews /\ Report(e, Blemishes(e) \cup {"008"})
     \/ /\ e.cites \in Reviews
        /\ ~EvidenceMatches(e.cites, e)
        /\ Report(e, Blemishes(e) \cup {"009"})
  /\ passed' = [passed EXCEPT ![e.pr] = None]
  /\ UNCHANGED pending

\* A re-review that proves nothing leaves what an earlier one proved alone.
RereviewUnproved(e) ==
  /\ Fresh(e, {"pr_inspector_rereview_completed"})
  /\ pending[e.pr] # None
  /\ \/ e.cites \notin Reviews /\ Report(e, Blemishes(e) \cup {"008"})
     \/ /\ e.cites \in Reviews
        /\ ~EvidenceMatches(e.cites, e)
        /\ Report(e, Blemishes(e) \cup {"009"})
  /\ UNCHANGED <<pending, passed>>

RereviewProved(e) ==
  /\ Fresh(e, {"pr_inspector_rereview_completed"})
  /\ pending[e.pr] # None
  /\ e.cites \in Reviews
  /\ EvidenceMatches(e.cites, e)
  /\ Report(e, Blemishes(e))
  /\ passed' = IF Blemishes(e) = {} THEN [passed EXCEPT ![e.pr] = e.cites] ELSE passed
  /\ UNCHANGED pending

-----------------------------------------------------------------------------
(* Acceptance.                                                             *)

\* governance_matches_event
GovernanceMatches(g, e) == g.pr = e.pr /\ g.head = e.resulting_head

GovernanceGaps(e) ==
  {c \in {"GOV-001", "GOV-002", "GOV-003"} :
     \/ c = "GOV-001" /\ e.governance \notin Governance
     \/ /\ c = "GOV-002"
        /\ e.governance \in Governance
        /\ ~GovernanceMatches(e.governance, e)
     \/ /\ c = "GOV-003"
        /\ e.governance \in Governance
        /\ GovernanceMatches(e.governance, e)
        /\ ~e.governance.merge_authorized}

\* Whether a review with this verdict lets an event of this type happen.
Permits(verdict, type) ==
  \/ verdict = "merge_now"
  \/ verdict = "green" /\ type = "technically_accepted"

\* What still stands between an acceptance and its unlocked head.
Gaps(e, r) ==
  IF ~Permits(r.verdict, e.type) THEN {"010"}
  ELSE IF e.type = "merge_authorized" THEN GovernanceGaps(e) ELSE {}

AcceptTooEarly(e) ==
  /\ Fresh(e, AcceptanceEvents)
  /\ \/ pending[e.pr] = None /\ Report(e, {"001"})
     \/ pending[e.pr] \notin {None, e.resulting_head} /\ Report(e, {"006"})
     \/ /\ pending[e.pr] = e.resulting_head
        /\ passed[e.pr] = None
        /\ Report(e, {"001"})
  /\ UNCHANGED <<pending, passed>>

Accept(e) ==
  /\ Fresh(e, AcceptanceEvents)
  /\ pending[e.pr] = e.resulting_head
  /\ passed[e.pr] # None
  /\ Report(e, Gaps(e, passed[e.pr]))
  /\ UNCHANGED <<pending, passed>>

Read(e) ==
  \/ Replayed(e)
  \/ Implemented(e)
  \/ RereviewOfNothing(e) \/ RereviewUnproved(e) \/ RereviewProved(e)
  \/ AcceptTooEarly(e) \/ Accept(e)

Next == Len(events) < MaxEvents /\ \E e \in Events : Read(e)

Spec == Init /\ [][Next]_vars
-----------------------------------------------------------------------------
(* What the list of events says by itself, without the policy's state.     *)

First(i) == \A k \in 1..(i - 1) : events[k].id # events[i].id

\* The event at i opens, or reopens, a head of pull request p.
Repairs(i, p) ==
  First(i) /\ events[i].type = "implemented_pending_rereview" /\ events[i].pr = p

\* The event at i binds verified evidence to head h of pull request p.
Proves(i, p, h) ==
  LET e == events[i] IN
  /\ First(i)
  /\ e.type = "pr_inspector_rereview_completed"
  /\ e.cites \in Reviews
  /\ <<p, p>> = <<e.pr, e.cites.pr>>
  /\ <<h, h, h>> = <<e.resulting_head, e.reviewed_head, e.cites.head>>
  /\ e.validity = "CURRENT" /\ e.faithful

\* At j head h of pull request p was opened, and it was not replaced before i.
OpenSince(j, i, p, h) ==
  /\ j \in 1..(i - 1)
  /\ Repairs(j, p)
  /\ events[j].resulting_head = h
  /\ \A k \in (j + 1)..(i - 1) : ~Repairs(k, p)

\* At k the latest proof of that head was given.
ProvedSince(k, j, i, p, h) ==
  /\ k \in (j + 1)..(i - 1)
  /\ Proves(k, p, h)
  /\ \A m \in (k + 1)..(i - 1) : ~Proves(m, p, h)

\* Whether a review with this verdict, and the governance evidence that event e
\* declares, allow what e says.
Allows(verdict, e) ==
  /\ verdict # "repair"
  /\ e.type # "technically_accepted" => verdict = "merge_now"
  /\ e.type = "merge_authorized" =>
       /\ e.governance \in Governance
       /\ e.governance.pr = e.pr
       /\ e.governance.head = e.resulting_head
       /\ e.governance.merge_authorized

\* The acceptance at i has a repair of its head behind it, after that a proof
\* of the same head, and the latest such proof allows what the event says.
Earned(i) ==
  LET e == events[i] IN
  /\ First(i)
  /\ \E j, k \in 1..(i - 1) :
       /\ OpenSince(j, i, e.pr, e.resulting_head)
       /\ ProvedSince(k, j, i, e.pr, e.resulting_head)
       /\ Allows(events[k].cites.verdict, e)

AcceptancesRead == {i \in 1..Len(events) : events[i].type \in AcceptanceEvents}

Accepted(i) == \A d \in diagnostics : d.at # i

-----------------------------------------------------------------------------
\* Nobody accepts or merges a repaired head on the strength of another head's
\* review, another pull request's, one from before the repair, a stale or
\* unverified one, or one that was overtaken by a less favourable review.
AcceptanceIsEarned == \A i \in AcceptancesRead : Accepted(i) => Earned(i)

\* And the policy is not stricter than that: whatever else the list holds,
\* rejected re-reviews and events of other pull requests included, an earned
\* acceptance draws no diagnostic.
EarnedIsAccepted == \A i \in AcceptancesRead : Earned(i) => Accepted(i)

\* An event that is reported changes what the policy knows of no pull request,
\* so no later event can profit from it.
RejectedEventsUnlockNothing ==
  [][diagnostics' # diagnostics => UNCHANGED <<pending, passed>>]_vars

=============================================================================
