------------------------ MODULE RereviewSequenceProofs ------------------------
(***************************************************************************)
(* Theorems about the re-review policy, for every list of well-formed      *)
(* events and every set of evidence.                                       *)
(*                                                                         *)
(* The argument: what the policy remembers of a pull request (Remembers)   *)
(* is the last repair of it in the list and the last proof of that head    *)
(* after it; so when an acceptance is read, the policy's answer is the one *)
(* the list itself gives (Answers).                                        *)
(***************************************************************************)
EXTENDS RereviewSequence, TLAPS

Now == Len(events) + 1

SeenAll == \A id : id \in seen <=> \E i \in 1..Len(events) : events[i].id = id

\* The state of pull request p says what the list says.
Remembers(p) ==
  /\ pending[p] = None =>
       /\ passed[p] = None
       /\ \A j \in 1..Len(events) : ~Repairs(j, p)
  /\ pending[p] # None => \E j \in 1..Len(events) :
       /\ OpenSince(j, Now, p, pending[p])
       /\ passed[p] = None =>
            \A k \in (j + 1)..Len(events) : ~Proves(k, p, pending[p])
       /\ passed[p] # None =>
            \E k \in 1..Len(events) :
              ProvedSince(k, j, Now, p, pending[p]) /\ events[k].cites = passed[p]

Answers == \A i \in AcceptancesRead : Accepted(i) <=> Earned(i)

\* TypeOK, and the list holds nothing but events.
Typed == events \in Seq(Events) /\ TypeOK

Faithful == Typed /\ SeenAll /\ (\A p \in PullRequests : Remembers(p)) /\ Answers

-----------------------------------------------------------------------------
(* Reading an event.                                                       *)

\* What any iteration does to the list: it grows by the event read.
LEMMA Reading ==
  ASSUME Typed, NEW e \in Events, Read(e)
  PROVE  \E codes \in SUBSET Codes : Report(e, codes)
  BY DEF Read, Replayed, Implemented, RereviewOfNothing, RereviewUnproved, RereviewProved,
         AcceptTooEarly, Accept, Blemishes, Gaps, GovernanceGaps, Codes

LEMMA Growth ==
  ASSUME events \in Seq(Events), NEW e \in Events, events' = Append(events, e)
  PROVE  /\ events' \in Seq(Events)
         /\ Len(events) \in Nat
         /\ Len(events') = Len(events) + 1
         /\ events'[Len(events) + 1] = e
         /\ \A i \in 1..Len(events) : events'[i] = events[i] /\ events[i] \in Events
  OBVIOUS

\* What the list says of the past does not change as it grows.
LEMMA PastStands ==
  ASSUME events \in Seq(Events), NEW e \in Events, events' = Append(events, e),
         NEW i \in 1..Len(events)
  PROVE  /\ First(i)' <=> First(i)
         /\ \A p : Repairs(i, p)' <=> Repairs(i, p)
         /\ \A p, h : Proves(i, p, h)' <=> Proves(i, p, h)
<1>1. Len(events) \in Nat /\ (\A k \in 1..Len(events) : events'[k] = events[k])
  BY Growth
<1>2. First(i)' <=> First(i)
  BY <1>1 DEF First
<1> QED
  BY <1>1, <1>2 DEF Repairs, Proves

\* In particular what was open and what was proved at a position in the list.
LEMMA PastStandsOpen ==
  ASSUME events \in Seq(Events), NEW e \in Events, events' = Append(events, e),
         NEW i \in 1..(Len(events) + 1), NEW p, NEW h, NEW j \in Nat
  PROVE  /\ OpenSince(j, i, p, h)' <=> OpenSince(j, i, p, h)
         /\ \A k : ProvedSince(k, j, i, p, h)' <=> ProvedSince(k, j, i, p, h)
<1>1. Len(events) \in Nat
  BY Growth
<1>2. \A k \in 1..(i - 1) : k \in 1..Len(events)
  BY <1>1
<1>3. \A k \in 1..(i - 1) :
        /\ Repairs(k, p)' <=> Repairs(k, p)
        /\ Proves(k, p, h)' <=> Proves(k, p, h)
        /\ events'[k] = events[k]
  BY <1>2, PastStands, Growth
<1>4. OpenSince(j, i, p, h)' <=> OpenSince(j, i, p, h)
  BY <1>1, <1>3 DEF OpenSince
<1>5. ASSUME NEW k
      PROVE  ProvedSince(k, j, i, p, h)' <=> ProvedSince(k, j, i, p, h)
  BY <1>1, <1>3 DEF ProvedSince
<1> QED
  BY <1>4, <1>5

\* An identifier is new to the policy exactly if it is new to the list.
LEMMA NewIdentifier ==
  ASSUME events \in Seq(Events), NEW e \in Events, events' = Append(events, e), SeenAll,
         NEW n, n = Len(events) + 1
  PROVE  First(n)' <=> e.id \notin seen
<1>1. /\ Len(events) \in Nat
      /\ events'[n] = e
      /\ \A k \in 1..Len(events) : events'[k] = events[k]
  BY Growth
<1>2. First(n)' <=> \A k \in 1..Len(events) : events[k].id # e.id
  BY <1>1 DEF First
<1> QED
  BY <1>2 DEF SeenAll

\* At most one repair is the last one, and at most one proof.
LEMMA LastOnes ==
  ASSUME NEW i \in Nat, NEW p, NEW h, NEW g, NEW j, NEW l,
         OpenSince(j, i, p, h), OpenSince(l, i, p, g)
  PROVE  /\ j = l /\ h = g
         /\ \A k, m : ProvedSince(k, j, i, p, h) /\ ProvedSince(m, j, i, p, h) => k = m
<1>1. j = l /\ h = g
  BY DEF OpenSince
<1>2. ASSUME NEW k, NEW m, ProvedSince(k, j, i, p, h), ProvedSince(m, j, i, p, h)
      PROVE  k = m
  BY <1>2 DEF ProvedSince, OpenSince
<1> QED
  BY <1>1, <1>2

-----------------------------------------------------------------------------
(* What the policy remembers.                                              *)

\* Nothing changes for a pull request that the event neither repairs nor proves.
LEMMA RemembersKept ==
  ASSUME Typed, NEW e \in Events, events' = Append(events, e),
         NEW p \in PullRequests, Remembers(p),
         pending'[p] = pending[p], passed'[p] = passed[p],
         NEW n, n = Len(events) + 1,
         ~Repairs(n, p)', \A h : h = pending[p] => ~Proves(n, p, h)'
  PROVE  Remembers(p)'
<1>1. /\ events \in Seq(Events)
      /\ Len(events) \in Nat
      /\ Len(events') = n
      /\ \A k \in 1..Len(events) : events'[k] = events[k]
  BY Growth DEF Typed, TypeOK
<1>2. PICK h : h = pending[p]
  OBVIOUS
<1>3. \A k \in 1..Len(events) :
        /\ Repairs(k, p)' <=> Repairs(k, p)
        /\ Proves(k, p, h)' <=> Proves(k, p, h)
  BY <1>1, PastStands
<1>4. CASE pending[p] = None
  <2>1. \A j \in 1..n : ~Repairs(j, p)'
    BY <1>1, <1>3, <1>4 DEF Remembers
  <2> QED
    BY <1>1, <1>4, <2>1 DEF Remembers
<1>5. CASE pending[p] # None
  <2>1. PICK j \in 1..Len(events) :
          /\ OpenSince(j, Now, p, h)
          /\ passed[p] = None => \A k \in (j + 1)..Len(events) : ~Proves(k, p, h)
          /\ passed[p] # None =>
               \E k \in 1..Len(events) :
                 ProvedSince(k, j, Now, p, h) /\ events[k].cites = passed[p]
    BY <1>2, <1>5 DEF Remembers
  <2>2. (j \in 1..Len(events))' /\ OpenSince(j, Now, p, h)'
    BY <1>1, <1>3, <2>1 DEF OpenSince, Now
  <2>3. passed[p] = None => \A k \in (j + 1)..n : ~Proves(k, p, h)'
    BY <1>1, <1>2, <1>3, <2>1
  <2>4. ASSUME NEW k \in 1..Len(events), ProvedSince(k, j, Now, p, h),
               events[k].cites = passed[p]
        PROVE  /\ k \in 1..n
               /\ ProvedSince(k, j, Now, p, h)'
               /\ events'[k].cites = passed[p]
    <3>1. ~Proves(n, p, h)'
      BY <1>2
    <3>2. k \in (j + 1)..Len(events) /\ Proves(k, p, h)
          /\ \A m \in (k + 1)..Len(events) : ~Proves(m, p, h)
      BY <1>1, <2>4 DEF ProvedSince, Now
    <3>3. \A m \in (k + 1)..n : ~Proves(m, p, h)'
      BY <1>1, <1>3, <3>1, <3>2
    <3>4. ProvedSince(k, j, Now, p, h)'
      BY <1>1, <1>3, <3>2, <3>3 DEF ProvedSince, Now
    <3> QED
      BY <1>1, <2>4, <3>4
  <2>5. passed[p] # None =>
          \E k \in 1..n : ProvedSince(k, j, Now, p, h)' /\ events'[k].cites = passed[p]
    BY <2>1, <2>4
  <2> QED
    BY <1>1, <1>2, <1>5, <2>2, <2>3, <2>5 DEF Remembers
<1> QED
  BY <1>4, <1>5

\* A repair is remembered as open and unproved.
LEMMA RemembersRepair ==
  ASSUME Typed, SeenAll, NEW e \in Events, Implemented(e), e.pr \in PullRequests,
         e.resulting_head \in Heads
  PROVE  Remembers(e.pr)'
<1>1. PICK n : n = Len(events) + 1
  OBVIOUS
<1>2. events' = Append(events, e) /\ events \in Seq(Events)
  BY DEF Implemented, Report, Typed, TypeOK
<1>3. /\ Len(events) \in Nat
      /\ Len(events') = n
      /\ events'[n] = e
  BY <1>1, <1>2, Growth
<1>4. First(n)'
  BY <1>1, <1>2, NewIdentifier DEF Implemented, Fresh
<1>5. Repairs(n, e.pr)'
  BY <1>3, <1>4 DEF Repairs, Implemented, Fresh
<1>6. pending'[e.pr] = e.resulting_head /\ passed'[e.pr] = None
  BY DEF Typed, TypeOK, Implemented
<1>7. OpenSince(n, Now, e.pr, pending[e.pr])'
  BY <1>1, <1>3, <1>5, <1>6 DEF OpenSince, Now
<1>8. e.resulting_head # None
  BY NothingIsNone
<1> QED
  BY <1>1, <1>3, <1>6, <1>7, <1>8 DEF Remembers

\* A proof of the pending head is remembered as its latest one.
LEMMA RemembersProof ==
  ASSUME Typed, SeenAll, NEW e \in Events, RereviewProved(e), Blemishes(e) = {},
         e.pr \in PullRequests, Remembers(e.pr)
  PROVE  Remembers(e.pr)'
<1>1. PICK n : n = Len(events) + 1
  OBVIOUS
<1>2. PICK p, h : p = e.pr /\ h = pending[e.pr]
  OBVIOUS
<1>3. /\ events' = Append(events, e)
      /\ events \in Seq(Events)
      /\ pending' = pending
      /\ passed'[p] = e.cites
      /\ e.cites \in Reviews
      /\ h # None
  BY <1>2 DEF RereviewProved, Report, Typed, TypeOK
<1>4. /\ Len(events) \in Nat
      /\ Len(events') = n
      /\ events'[n] = e
      /\ \A k \in 1..Len(events) : events'[k] = events[k]
  BY <1>1, <1>3, Growth
<1>5. First(n)' /\ e.type = "pr_inspector_rereview_completed"
  BY <1>1, <1>3, NewIdentifier DEF RereviewProved, Fresh
<1>6. e.resulting_head = h /\ e.reviewed_head = h
  BY <1>2 DEF Blemishes, IdentityMatches
<1>7. EvidenceMatches(e.cites, e)
  BY DEF RereviewProved
<1>8. Proves(n, p, h)' /\ ~Repairs(n, p)'
  BY <1>2, <1>3, <1>4, <1>5, <1>6, <1>7 DEF Proves, Repairs, EvidenceMatches
<1>9. PICK j \in 1..Len(events) : OpenSince(j, Now, p, h)
  BY <1>2, <1>3 DEF Remembers
<1>10. \A k \in 1..Len(events) : Repairs(k, p)' <=> Repairs(k, p)
  BY <1>3, PastStands
<1>11. OpenSince(j, Now, p, h)'
  BY <1>1, <1>4, <1>8, <1>9, <1>10 DEF OpenSince, Now
<1>12. ProvedSince(n, j, Now, p, h)'
  BY <1>1, <1>4, <1>8, <1>9 DEF ProvedSince, Now
<1>13. e.cites # None
  BY <1>3, NothingIsNone, EvidenceIsVerified
<1>14. pending'[p] = h /\ n \in 1..Len(events') /\ j \in 1..Len(events')
  BY <1>1, <1>2, <1>3, <1>4
<1> QED
  BY <1>2, <1>3, <1>4, <1>11, <1>12, <1>13, <1>14 DEF Remembers

-----------------------------------------------------------------------------
(* What the policy answers.                                                *)

\* Answers given before stand.
LEMMA AnswersStand ==
  ASSUME Typed, Answers, NEW e \in Events, NEW codes, Report(e, codes),
         NEW i \in 1..Len(events), events[i].type \in AcceptanceEvents
  PROVE  (Accepted(i) <=> Earned(i))'
<1>1. events' = Append(events, e) /\ events \in Seq(Events)
  BY DEF Report, Typed, TypeOK
<1>2. Len(events) \in Nat /\ (\A k \in 1..Len(events) : events'[k] = events[k])
  BY <1>1, Growth
<1>3. Accepted(i)' <=> Accepted(i)
  BY <1>2 DEF Accepted, Report
<1>4. First(i)' <=> First(i)
  BY <1>1, PastStands
<1>5. \A j, k \in 1..(i - 1) :
        /\ OpenSince(j, i, events[i].pr, events[i].resulting_head)'
             <=> OpenSince(j, i, events[i].pr, events[i].resulting_head)
        /\ ProvedSince(k, j, i, events[i].pr, events[i].resulting_head)'
             <=> ProvedSince(k, j, i, events[i].pr, events[i].resulting_head)
  <2>1. PICK p, h : p = events[i].pr /\ h = events[i].resulting_head
    OBVIOUS
  <2>2. p = events'[i].pr /\ h = events'[i].resulting_head
    BY <1>2, <2>1
  <2>3. \A j, k \in 1..(i - 1) :
          /\ OpenSince(j, i, p, h)' <=> OpenSince(j, i, p, h)
          /\ ProvedSince(k, j, i, p, h)' <=> ProvedSince(k, j, i, p, h)
    BY <1>1, <1>2, PastStandsOpen
  <2> QED
    BY <2>1, <2>2, <2>3
<1>6. \A k \in 1..(i - 1) : events'[k] = events[k]
  BY <1>2
<1>7. Earned(i)' <=> Earned(i)
  BY <1>2, <1>4, <1>5, <1>6 DEF Earned
<1>8. Accepted(i) <=> Earned(i)
  BY DEF Answers, AcceptancesRead
<1> QED
  BY <1>3, <1>7, <1>8

\* Whether a new acceptance is earned can be read off the policy's memory.
LEMMA EarnedNow ==
  ASSUME Typed, SeenAll, NEW e \in Events, events' = Append(events, e), e.id \notin seen,
         e.pr \in PullRequests, Remembers(e.pr), e.resulting_head # None,
         NEW n, n = Len(events) + 1
  PROVE  Earned(n)' <=> /\ pending[e.pr] = e.resulting_head
                        /\ passed[e.pr] # None
                        /\ Allows(passed[e.pr].verdict, e)
<1>1. PICK p, h : p = e.pr /\ h = e.resulting_head
  OBVIOUS
<1>2. /\ events \in Seq(Events)
      /\ Len(events) \in Nat
      /\ events'[n] = e
      /\ \A k \in 1..Len(events) : events'[k] = events[k]
  BY Growth DEF Typed, TypeOK
<1>3. First(n)'
  BY <1>2, NewIdentifier
<1>4. \A j, k \in 1..Len(events) :
        /\ OpenSince(j, n, p, h)' <=> OpenSince(j, n, p, h)
        /\ ProvedSince(k, j, n, p, h)' <=> ProvedSince(k, j, n, p, h)
  <2>1. n \in 1..(Len(events) + 1) /\ (\A j \in 1..Len(events) : j \in Nat)
    BY <1>2
  <2> QED
    BY <1>2, <2>1, PastStandsOpen
<1>5. Earned(n)' <=> \E j, k \in 1..(n - 1) :
                       /\ OpenSince(j, n, p, h)'
                       /\ ProvedSince(k, j, n, p, h)'
                       /\ Allows(events'[k].cites.verdict, e)
  BY <1>1, <1>2, <1>3 DEF Earned
<1>6. Earned(n)' <=> \E j, k \in 1..Len(events) :
                       /\ OpenSince(j, n, p, h)
                       /\ ProvedSince(k, j, n, p, h)
                       /\ Allows(events[k].cites.verdict, e)
  BY <1>2, <1>4, <1>5
<1>7. ASSUME NEW j \in 1..Len(events), NEW k \in 1..Len(events),
             OpenSince(j, n, p, h), ProvedSince(k, j, n, p, h),
             Allows(events[k].cites.verdict, e)
      PROVE  /\ pending[p] = h
             /\ passed[p] # None
             /\ Allows(passed[p].verdict, e)
  <2>1. Repairs(j, p) /\ pending[p] # None
    BY <1>1, <1>7 DEF OpenSince, Remembers
  <2>2. PICK l \in 1..Len(events) :
          /\ OpenSince(l, n, p, pending[p])
          /\ passed[p] = None => \A m \in (l + 1)..Len(events) : ~Proves(m, p, pending[p])
          /\ passed[p] # None => \E m \in 1..Len(events) :
               ProvedSince(m, l, n, p, pending[p]) /\ events[m].cites = passed[p]
    BY <1>1, <2>1 DEF Remembers, Now
  <2>3. n \in Nat
    BY <1>2
  <2>4. j = l /\ h = pending[p]
    BY <1>7, <2>2, <2>3, LastOnes
  <2>5. k \in (j + 1)..Len(events) /\ Proves(k, p, h)
    BY <1>2, <1>7 DEF ProvedSince
  <2>6. passed[p] # None
    BY <2>2, <2>4, <2>5
  <2>7. PICK m \in 1..Len(events) :
          ProvedSince(m, j, n, p, h) /\ events[m].cites = passed[p]
    BY <2>2, <2>4, <2>6
  <2>8. k = m
    BY <1>7, <2>3, <2>7, LastOnes
  <2> QED
    BY <1>7, <2>4, <2>6, <2>7, <2>8
<1>8. ASSUME pending[p] = h, passed[p] # None, Allows(passed[p].verdict, e)
      PROVE  \E j, k \in 1..Len(events) :
               /\ OpenSince(j, n, p, h)
               /\ ProvedSince(k, j, n, p, h)
               /\ Allows(events[k].cites.verdict, e)
  BY <1>1, <1>8 DEF Remembers, Now
<1> QED
  BY <1>1, <1>6, <1>7, <1>8

\* What the policy asks of a proof is what the list asks of it.
LEMMA GapsAreWhatIsNotAllowed ==
  ASSUME NEW e \in Events, NEW r \in Reviews, e.type \in AcceptanceEvents
  PROVE  Gaps(e, r) = {} <=> Allows(r.verdict, e)
<1>1. r.verdict \in Verdicts
  BY EvidenceIsVerified DEF ReviewEvidence
<1>2. GovernanceGaps(e) = {} <=> /\ e.governance \in Governance
                                 /\ GovernanceMatches(e.governance, e)
                                 /\ e.governance.merge_authorized
  BY DEF GovernanceGaps
<1>3. Permits(r.verdict, e.type) <=>
        r.verdict # "repair" /\ (e.type # "technically_accepted" => r.verdict = "merge_now")
  BY <1>1 DEF Permits, Verdicts
<1> QED
  BY <1>2, <1>3 DEF Gaps, Allows, GovernanceMatches

\* An event is accepted exactly if its own iteration reports nothing.
LEMMA ReportedNow ==
  ASSUME Typed, NEW e, NEW codes, Report(e, codes), NEW n, n = Len(events) + 1
  PROVE  Accepted(n)' <=> codes = {}
<1>1. Len(events) \in Nat
  BY DEF Typed, TypeOK
<1>2. \A d \in diagnostics : d.at # n
  BY <1>1 DEF Typed, TypeOK
<1>3. diagnostics' = diagnostics \cup [at : {n}, code : codes]
  BY DEF Report
<1>4. ASSUME NEW c \in codes
      PROVE  ~Accepted(n)'
  <2>1. [at |-> n, code |-> c] \in diagnostics'
    BY <1>3, <1>4
  <2> QED
    BY <2>1 DEF Accepted
<1> QED
  BY <1>2, <1>3, <1>4 DEF Accepted

-----------------------------------------------------------------------------
(* The invariant.                                                          *)

LEMMA Beginning == Init => Faithful
<1> SUFFICES ASSUME Init PROVE Faithful
  OBVIOUS
<1>1. events = <<>> /\ Len(events) = 0
  BY DEF Init
<1>2. Typed
  BY <1>1 DEF Init, Typed, TypeOK
<1>3. SeenAll /\ Answers /\ (\A p \in PullRequests : Remembers(p))
  BY <1>1 DEF Init, SeenAll, Answers, AcceptancesRead, Remembers
<1> QED
  BY <1>2, <1>3 DEF Faithful

LEMMA TypeStep ==
  ASSUME Typed, NEW e \in Events, Read(e)
  PROVE  Typed'
<1>1. WellFormed(e)
  BY SchemaHolds
<1>2. PICK codes \in SUBSET Codes : Report(e, codes)
  BY Reading
<1>3. /\ events' \in Seq(Events)
      /\ Len(events) \in Nat
      /\ Len(events') = Len(events) + 1
  BY <1>2, Growth DEF Typed, TypeOK, Report
<1>4. (diagnostics \subseteq [at : 1..Len(events), code : Codes])'
  BY <1>2, <1>3 DEF Typed, TypeOK, Report
<1>5. (seen \subseteq Ids)'
  BY <1>1 DEF Typed, TypeOK, WellFormed, Read, Fresh, Replayed, Implemented,
              RereviewOfNothing, RereviewUnproved, RereviewProved, AcceptTooEarly, Accept
<1>6. (pending \in [PullRequests -> Heads \cup {None}])'
  BY <1>1 DEF Typed, TypeOK, WellFormed, Read, Replayed, Implemented, RereviewOfNothing,
              RereviewUnproved, RereviewProved, AcceptTooEarly, Accept
<1>7. (passed \in [PullRequests -> Reviews \cup {None}])'
  BY <1>1 DEF Typed, TypeOK, WellFormed, Read, Replayed, Implemented, RereviewOfNothing,
              RereviewUnproved, RereviewProved, AcceptTooEarly, Accept
<1> QED
  BY <1>3, <1>4, <1>5, <1>6, <1>7 DEF Typed, TypeOK

LEMMA SeenStep ==
  ASSUME Typed, SeenAll, NEW e \in Events, Read(e)
  PROVE  SeenAll'
<1>1. events' = Append(events, e)
  BY Reading DEF Report
<1>2. /\ Len(events) \in Nat
      /\ Len(events') = Len(events) + 1
      /\ events'[Len(events) + 1] = e
      /\ \A i \in 1..Len(events) : events'[i] = events[i]
  BY <1>1, Growth DEF Typed, TypeOK
<1>3. seen' = seen \cup {e.id}
  BY DEF Read, Fresh, Replayed, Implemented, RereviewOfNothing,
         RereviewUnproved, RereviewProved, AcceptTooEarly, Accept
<1>4. ASSUME NEW id
      PROVE  (\E i \in 1..Len(events') : events'[i].id = id)
               <=> id = e.id \/ \E i \in 1..Len(events) : events[i].id = id
  BY <1>2
<1> QED
  BY <1>3, <1>4 DEF SeenAll

\* Each iteration keeps the memory of every pull request right.
LEMMA MemoryStep ==
  ASSUME Faithful, NEW e \in Events, Read(e), NEW p \in PullRequests
  PROVE  Remembers(p)'
<1>1. WellFormed(e)
  BY SchemaHolds
<1>2. PICK n : n = Len(events) + 1
  OBVIOUS
<1>3. events' = Append(events, e) /\ events \in Seq(Events)
  BY Reading DEF Report, Faithful, Typed, TypeOK
<1>4. events'[n] = e
  BY <1>2, <1>3, Growth
<1>5. First(n)' <=> e.id \notin seen
  BY <1>2, <1>3, NewIdentifier DEF Faithful
<1>6. ASSUME pending'[p] = pending[p], passed'[p] = passed[p],
             ~Repairs(n, p)', \A h : h = pending[p] => ~Proves(n, p, h)'
      PROVE  Remembers(p)'
  BY <1>2, <1>3, <1>6, RemembersKept DEF Faithful
<1>7. CASE Replayed(e)
  BY <1>5, <1>6, <1>7 DEF Replayed, Repairs, Proves
<1>8. CASE Implemented(e)
  <2>1. CASE p = e.pr
    BY <1>1, <1>8, <2>1, RemembersRepair DEF Faithful, WellFormed
  <2>2. CASE p # e.pr
    BY <1>1, <1>4, <1>6, <1>8, <2>2
    DEF Implemented, Repairs, Proves, Faithful, Typed, TypeOK, WellFormed
  <2> QED
    BY <2>1, <2>2
<1>9. CASE RereviewOfNothing(e)
  <2>1. p = e.pr => pending[p] = None
    BY <1>9 DEF RereviewOfNothing
  <2>2. \A h : h = pending[p] => ~Proves(n, p, h)'
    <3>1. Proves(n, p, None)' => e.resulting_head = None
      BY <1>4 DEF Proves
    <3> QED
      BY <1>1, <1>4, <2>1, <3>1, NothingIsNone DEF Proves, WellFormed
  <2> QED
    BY <1>4, <1>6, <1>9, <2>2 DEF RereviewOfNothing, Fresh, Repairs
<1>10. CASE RereviewUnproved(e)
  <2>1. \A h : ~Proves(n, p, h)'
    BY <1>4, <1>10 DEF RereviewUnproved, Proves, EvidenceMatches
  <2> QED
    BY <1>4, <1>6, <1>10, <2>1 DEF RereviewUnproved, Fresh, Repairs
<1>11. CASE RereviewProved(e)
  <2>1. CASE p = e.pr /\ Blemishes(e) = {}
    BY <1>11, <2>1, RemembersProof DEF Faithful
  <2>2. CASE p = e.pr /\ Blemishes(e) # {}
    <3>1. ~IdentityMatches(e)
      BY <1>11, <2>2 DEF Blemishes, RereviewProved, EvidenceMatches
    <3>2. \A h : h = pending[p] => ~Proves(n, p, h)'
      BY <1>4, <2>2, <3>1 DEF IdentityMatches, Proves
    <3> QED
      BY <1>4, <1>6, <1>11, <2>2, <3>2 DEF RereviewProved, Fresh, Repairs
  <2>3. CASE p # e.pr
    <3>1. passed'[p] = passed[p] /\ pending'[p] = pending[p]
      BY <1>1, <1>11, <2>3 DEF RereviewProved, Faithful, Typed, TypeOK, WellFormed
    <3> QED
      BY <1>4, <1>6, <2>3, <3>1 DEF Repairs, Proves
  <2> QED
    BY <2>1, <2>2, <2>3
<1>12. CASE AcceptTooEarly(e)
  BY <1>4, <1>6, <1>12 DEF AcceptTooEarly, Fresh, Repairs, Proves, AcceptanceEvents
<1>13. CASE Accept(e)
  BY <1>4, <1>6, <1>13 DEF Accept, Fresh, Repairs, Proves, AcceptanceEvents
<1> QED
  BY <1>7, <1>8, <1>9, <1>10, <1>11, <1>12, <1>13 DEF Read

\* Each acceptance is answered as the list deserves.
LEMMA AnswerStep ==
  ASSUME Faithful, NEW e \in Events, Read(e)
  PROVE  Answers'
<1>1. PICK codes \in SUBSET Codes : Report(e, codes)
  BY Reading DEF Faithful
<1>2. PICK n : n = Len(events) + 1
  OBVIOUS
<1>3. events' = Append(events, e) /\ events \in Seq(Events)
  BY <1>1 DEF Report, Faithful, Typed, TypeOK
<1>4. /\ Len(events) \in Nat
      /\ Len(events') = n
      /\ events'[n] = e
      /\ \A i \in 1..Len(events) : events'[i] = events[i]
  BY <1>2, <1>3, Growth
<1>5. ASSUME NEW i \in 1..Len(events), events[i].type \in AcceptanceEvents
      PROVE  (Accepted(i) <=> Earned(i))'
  BY <1>1, <1>5, AnswersStand DEF Faithful
<1>6. ASSUME e.type \in AcceptanceEvents
      PROVE  (Accepted(n) <=> Earned(n))'
  <2>1. Accepted(n)' <=> codes = {}
    BY <1>1, <1>2, ReportedNow DEF Faithful
  <2>2. WellFormed(e)
    BY SchemaHolds
  <2>3. e.pr \in PullRequests /\ e.resulting_head # None
    BY <2>2, NothingIsNone DEF WellFormed
  <2>4. CASE e.id \in seen
    <3>1. ~First(n)'
      BY <1>2, <1>3, <2>4, NewIdentifier DEF Faithful
    <3>2. ~Earned(n)'
      BY <3>1 DEF Earned
    <3>3. Report(e, {"007"})
      BY <2>4 DEF Read, Replayed, Fresh, Implemented, RereviewOfNothing,
                  RereviewUnproved, RereviewProved, AcceptTooEarly, Accept
    <3>4. ~Accepted(n)'
      BY <1>2, <3>3, ReportedNow DEF Faithful
    <3> QED
      BY <3>2, <3>4
  <2>5. CASE e.id \notin seen
    <3>1. Earned(n)' <=> /\ pending[e.pr] = e.resulting_head
                         /\ passed[e.pr] # None
                         /\ Allows(passed[e.pr].verdict, e)
      BY <1>2, <1>3, <2>3, <2>5, EarnedNow DEF Faithful
    <3>2. AcceptTooEarly(e) \/ Accept(e)
      BY <1>6, <2>5 DEF Read, Replayed, Fresh, Implemented, RereviewOfNothing,
                        RereviewUnproved, RereviewProved, AcceptanceEvents
    <3>3. CASE AcceptTooEarly(e)
      <4>1. \E c \in {"001", "006"} : Report(e, {c})
        BY <3>3 DEF AcceptTooEarly
      <4>2. ~Accepted(n)'
        BY <1>2, <4>1, ReportedNow DEF Faithful
      <4>3. ~(pending[e.pr] = e.resulting_head /\ passed[e.pr] # None)
        BY <2>3, <3>3 DEF AcceptTooEarly
      <4> QED
        BY <3>1, <4>2, <4>3
    <3>4. CASE Accept(e)
      <4>1. passed[e.pr] \in Reviews
        BY <2>3, <3>4 DEF Accept, Faithful, Typed, TypeOK
      <4>2. Gaps(e, passed[e.pr]) = {} <=> Allows(passed[e.pr].verdict, e)
        BY <1>6, <4>1, GapsAreWhatIsNotAllowed
      <4>3. Report(e, Gaps(e, passed[e.pr]))
        BY <3>4 DEF Accept
      <4>4. Accepted(n)' <=> Gaps(e, passed[e.pr]) = {}
        <5>1. PICK gaps : gaps = Gaps(e, passed[e.pr])
          OBVIOUS
        <5> QED
          BY <1>2, <4>3, <5>1, ReportedNow DEF Faithful
      <4> QED
        BY <3>1, <3>4, <4>2, <4>4 DEF Accept
    <3> QED
      BY <3>2, <3>3, <3>4
  <2> QED
    BY <2>4, <2>5
<1>7. ASSUME NEW i \in 1..n, events'[i].type \in AcceptanceEvents
      PROVE  (Accepted(i) <=> Earned(i))'
  <2>1. CASE i = n
    BY <1>4, <1>6, <1>7, <2>1
  <2>2. CASE i # n
    <3>1. i \in 1..Len(events) /\ events[i].type \in AcceptanceEvents
      BY <1>2, <1>4, <1>7, <2>2
    <3> QED
      BY <1>5, <3>1
  <2> QED
    BY <2>1, <2>2
<1> QED
  BY <1>4, <1>7 DEF Answers, AcceptancesRead

LEMMA Standing == Faithful /\ UNCHANGED vars => Faithful'
  BY DEF Faithful, Typed, TypeOK, SeenAll, Remembers, Answers, AcceptancesRead, Accepted,
         Earned, OpenSince, ProvedSince, Repairs, Proves, First, Now, vars

LEMMA Stepping == Faithful /\ [Next]_vars => Faithful'
<1> SUFFICES ASSUME Faithful, [Next]_vars PROVE Faithful'
  OBVIOUS
<1>1. CASE UNCHANGED vars
  BY <1>1, Standing
<1>2. CASE Next
  <2>1. PICK e \in Events : Read(e)
    BY <1>2 DEF Next
  <2>2. Typed' /\ SeenAll'
    BY <2>1, TypeStep, SeenStep DEF Faithful
  <2>3. \A p \in PullRequests : Remembers(p)'
    BY <2>1, MemoryStep
  <2>4. Answers'
    BY <2>1, AnswerStep
  <2> QED
    BY <2>2, <2>3, <2>4 DEF Faithful
<1> QED
  BY <1>1, <1>2

-----------------------------------------------------------------------------
\* The state of validate_rereview_sequence keeps its types.
THEOREM SequenceTypes == Spec => []TypeOK
<1>1. Faithful => TypeOK
  BY DEF Faithful, Typed
<1> QED
  BY <1>1, Beginning, Stepping, PTL DEF Spec

\* Every acceptance the policy lets pass is earned, in lists of any length
\* about any number of pull requests and with any verified evidence.
THEOREM OnlyEarned == Spec => []AcceptanceIsEarned
<1>1. Faithful => AcceptanceIsEarned
  BY DEF Faithful, Answers, AcceptanceIsEarned
<1> QED
  BY <1>1, Beginning, Stepping, PTL DEF Spec

\* And every earned acceptance passes.
THEOREM AllEarned == Spec => []EarnedIsAccepted
<1>1. Faithful => EarnedIsAccepted
  BY DEF Faithful, Answers, EarnedIsAccepted
<1> QED
  BY <1>1, Beginning, Stepping, PTL DEF Spec

\* An event that draws a diagnostic leaves the policy's memory as it was.
THEOREM NothingUnlocked == Spec => RejectedEventsUnlockNothing
<1>1. ASSUME NEW e \in Events, Read(e), diagnostics' # diagnostics
      PROVE  UNCHANGED <<pending, passed>>
  <2>1. CASE Implemented(e)
    BY <1>1, <2>1 DEF Implemented, Report
  <2>2. CASE RereviewProved(e)
    <3>1. Blemishes(e) # {}
      BY <1>1, <2>2 DEF RereviewProved, Report
    <3> QED
      BY <2>2, <3>1 DEF RereviewProved
  <2> QED
    BY <1>1, <2>1, <2>2 DEF Read, Replayed, RereviewOfNothing, RereviewUnproved,
                            AcceptTooEarly, Accept
<1>2. [Next]_vars => [diagnostics' # diagnostics => UNCHANGED <<pending, passed>>]_vars
  BY <1>1 DEF Next, vars
<1> QED
  BY <1>2, PTL DEF Spec, RejectedEventsUnlockNothing

-----------------------------------------------------------------------------
(* What this means for the heads of a pull request.                        *)

\* The acceptance at i passed.
Passed(i) == i \in AcceptancesRead /\ Accepted(i)

\* Accepted heads of one pull request differ only if the later one was repaired
\* and then proved between the two acceptances.
HeadsChangeByRepair ==
  \A i, k \in 1..Len(events) :
    LET e == events[i] f == events[k] IN
    /\ i < k /\ Passed(i) /\ Passed(k)
    /\ e.pr = f.pr /\ e.resulting_head # f.resulting_head
    => \E j, m \in (i + 1)..(k - 1) :
         /\ OpenSince(j, k, f.pr, f.resulting_head)
         /\ j < m /\ Proves(m, f.pr, f.resulting_head)

\* A review that calls for a repair takes the head back: no acceptance of it
\* passes afterwards without a new, favourable proof.
RepairVerdictsRevoke ==
  \A m, i \in 1..Len(events) :
    LET e == events[i] IN
    /\ m < i /\ Passed(i)
    /\ Proves(m, e.pr, e.resulting_head) /\ events[m].cites.verdict = "repair"
    => \E k \in (m + 1)..(i - 1) :
         /\ Proves(k, e.pr, e.resulting_head)
         /\ Allows(events[k].cites.verdict, e)

\* The repair and the proof behind an acceptance that passed.
LEMMA GroundsOf ==
  ASSUME Faithful, NEW i \in 1..Len(events), Passed(i)
  PROVE  LET e == events[i] IN
         \E j, k \in 1..(i - 1) :
           /\ OpenSince(j, i, e.pr, e.resulting_head)
           /\ ProvedSince(k, j, i, e.pr, e.resulting_head)
           /\ Allows(events[k].cites.verdict, e)
  BY DEF Faithful, Answers, Passed, Earned

\* Two heads of a pull request cannot both be the one it was last repaired to, so
\* nobody can go on to merge a head other than the accepted one without a repair
\* of it and a review after that repair, whatever is listed in between.
THEOREM AcceptedHeadsChangeByRepair == Spec => []HeadsChangeByRepair
<1>1. ASSUME Faithful PROVE HeadsChangeByRepair
  <2> SUFFICES ASSUME NEW i \in 1..Len(events), NEW k \in 1..Len(events),
                      i < k, Passed(i), Passed(k), events[i].pr = events[k].pr,
                      events[i].resulting_head # events[k].resulting_head
               PROVE  \E j, m \in (i + 1)..(k - 1) :
                        /\ OpenSince(j, k, events[k].pr, events[k].resulting_head)
                        /\ j < m /\ Proves(m, events[k].pr, events[k].resulting_head)
    BY DEF HeadsChangeByRepair
  <2> DEFINE p == events[k].pr
             h == events[i].resulting_head
             g == events[k].resulting_head
  <2>1. Len(events) \in Nat /\ i \in Nat /\ k \in Nat
    BY <1>1 DEF Faithful, Typed
  <2>2. PICK a \in 1..(i - 1) : OpenSince(a, i, p, h)
    BY <1>1, GroundsOf
  <2>3. PICK j \in 1..(k - 1), m \in 1..(k - 1) :
          OpenSince(j, k, p, g) /\ ProvedSince(m, j, k, p, g)
    BY <1>1, GroundsOf
  <2>4. /\ Repairs(a, p) /\ events[a].resulting_head = h
        /\ \A l \in (a + 1)..(i - 1) : ~Repairs(l, p)
    BY <2>2 DEF OpenSince
  <2>5. /\ Repairs(j, p) /\ events[j].resulting_head = g
        /\ \A l \in (j + 1)..(k - 1) : ~Repairs(l, p)
    BY <2>3 DEF OpenSince
  <2>6. m \in (j + 1)..(k - 1) /\ Proves(m, p, g)
    BY <2>3 DEF ProvedSince
  <2>7. j # i
    BY <2>5 DEF Repairs, Passed, AcceptancesRead, AcceptanceEvents
  <2>8. j # a
    BY <2>4, <2>5
  <2> HIDE DEF p, h, g
  <2>9. ~(j < a)
    BY <2>1, <2>2, <2>4, <2>5
  <2>10. ~(a < j /\ j < i)
    BY <2>1, <2>4, <2>5
  <2>11. j \in (i + 1)..(k - 1)
    BY <2>1, <2>2, <2>3, <2>7, <2>8, <2>9, <2>10
  <2>12. m \in (i + 1)..(k - 1) /\ j < m
    BY <2>1, <2>6, <2>11
  <2> QED BY <2>3, <2>6, <2>11, <2>12 DEF p, g
<1> QED BY <1>1, Beginning, Stepping, PTL DEF Spec

\* An unfavourable review counts from the moment it is read: what an earlier one
\* proved of the same head is gone.
THEOREM RepairsRevoke == Spec => []RepairVerdictsRevoke
<1>1. ASSUME Faithful PROVE RepairVerdictsRevoke
  <2> SUFFICES ASSUME NEW m \in 1..Len(events), NEW i \in 1..Len(events),
                      m < i, Passed(i),
                      Proves(m, events[i].pr, events[i].resulting_head),
                      events[m].cites.verdict = "repair"
               PROVE  \E k \in (m + 1)..(i - 1) :
                        /\ Proves(k, events[i].pr, events[i].resulting_head)
                        /\ Allows(events[k].cites.verdict, events[i])
    BY DEF RepairVerdictsRevoke
  <2> DEFINE p == events[i].pr
             h == events[i].resulting_head
  <2>1. Len(events) \in Nat /\ i \in Nat /\ m \in Nat
    BY <1>1 DEF Faithful, Typed
  <2>2. PICK j \in 1..(i - 1), k \in 1..(i - 1) :
          ProvedSince(k, j, i, p, h) /\ Allows(events[k].cites.verdict, events[i])
    BY <1>1, GroundsOf
  <2>3. Proves(k, p, h) /\ \A l \in (k + 1)..(i - 1) : ~Proves(l, p, h)
    BY <2>2 DEF ProvedSince
  <2>4. k # m
    BY <2>2 DEF Allows
  <2> HIDE DEF p, h
  <2>5. ~(k < m)
    <3>1. Proves(m, p, h)
      BY DEF p, h
    <3> QED BY <2>1, <2>2, <2>3, <3>1
  <2>6. k \in (m + 1)..(i - 1)
    BY <2>1, <2>2, <2>4, <2>5
  <2> QED BY <2>2, <2>3, <2>6 DEF p, h
<1> QED BY <1>1, Beginning, Stepping, PTL DEF Spec
=============================================================================
