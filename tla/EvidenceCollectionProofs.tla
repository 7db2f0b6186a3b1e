----------------------- MODULE EvidenceCollectionProofs -----------------------
(***************************************************************************)
(* Theorems about the collection of evidence, for lists of every length,   *)
(* pages of every size and any number of changes.                          *)
(*                                                                         *)
(* The argument: while a list is read and every link is the right one, the *)
(* pages served are the first ones, all full, and what was listed at first *)
(* is on one of them or further down (OnCourse).  What other people do to  *)
(* a list is known by three flags (Changed), so the actions of all of them *)
(* are dealt with once.                                                    *)
(***************************************************************************)
EXTENDS EvidenceCollection, FiniteSetTheorems, TLAPS

AnyItem == UNION {Item(e) : e \in Endpoints}

History == [first : Seq(AnyItem), kept : SUBSET AnyItem, removed : BOOLEAN,
            added : BOOLEAN, edited : BOOLEAN, misled : BOOLEAN]

\* The functions have their domains, and identifiers were given so far.
Shaped ==
  /\ lists = [e \in Endpoints |-> lists[e]]
  /\ evidence = [e \in Endpoints |-> evidence[e]]
  /\ seen \in [Endpoints -> History]
  /\ \A e \in Endpoints : \A i \in DOMAIN lists[e] : lists[e][i].id <= Known + changes
  /\ \A e \in Endpoints : \A r \in evidence[e] : r.id <= Known + changes
  /\ \A i \in DOMAIN items : items[i].id <= Known + changes
  /\ IsFiniteSet(asked)
  /\ asked = {} => url = 0 /\ expected = None /\ items = <<>>
  /\ pc = "start" => at = 1 /\ asked = {}
  /\ pc \in {"facts", "done"} => at = 4

Typed == TypeOK /\ Shaped

\* The pages served of the list being read, and the items on them.
Served == Cardinality(asked)
Until  == Served * PerPage

\* A list is being read, and every link was the right one.
OnCourse == pc = "page" /\ asked # {} /\ ~seen[Now].misled

\* The pages served are the first ones, and full as long as there are more.
Paged ==
  /\ url \in {Served + 1, None}
  /\ \A u \in asked : u <= Served
  /\ url # None => Len(items) = Until

\* There are more pages because the list is, or was at first, that long.
Sized ==
  url # None =>
    /\ ~seen[Now].removed => Len(lists[Now]) > Until
    /\ ~seen[Now].added   => Len(lists[Now]) <= Len(seen[Now].first)
                             /\ Until < Len(seen[Now].first)

\* What the total of the check runs says of their list.
Counted ==
  Now = "checks" =>
    /\ expected \in Nat
    /\ url # None /\ ~seen[Now].added =>
         /\ seen[Now].removed  => Len(lists[Now]) < expected
         /\ ~seen[Now].removed => Len(lists[Now]) = expected
    /\ url = None /\ ~seen[Now].added => ~seen[Now].removed /\ Len(items) = expected

\* What stood in the list throughout was served or is still to come.
Caught ==
  ~seen[Now].removed =>
    \A r \in seen[Now].kept :
      \/ r \in ToSet(items)
      \/ url # None /\ \E j \in DOMAIN lists[Now] : j > Until /\ lists[Now][j] = r

\* A list nobody has touched.
Still ==
  ~seen[Now].added /\ ~seen[Now].removed /\ ~seen[Now].edited =>
    /\ seen[Now].kept = ToSet(seen[Now].first)
    /\ ToSet(items) \subseteq ToSet(seen[Now].first)
    /\ url # None => lists[Now] = seen[Now].first

\* Without edits one identifier has one content.
Uniform ==
  ~seen[Now].edited =>
    /\ ~Conflicting(items)
    /\ url # None => \A i \in DOMAIN items : \A j \in DOMAIN lists[Now] :
                       items[i].id = lists[Now][j].id => items[i] = lists[Now][j]

\* Without additions and removals no item is served twice.
Aligned ==
  ~seen[Now].added /\ ~seen[Now].removed =>
    /\ Distinct(items)
    /\ url # None => \A i \in DOMAIN items :
                       i \in DOMAIN lists[Now] /\ items[i].id = lists[Now][i].id

Course == OnCourse => Paged /\ Sized /\ Counted /\ Caught /\ Still /\ Uniform /\ Aligned

\* The inline comments of the reviews collected are collected or still to come.
Whole ==
  pc \in {"page", "facts", "done"} /\ at = 4
  /\ ~seen["inline"].misled /\ ~seen["inline"].removed =>
    \A i \in DOMAIN lists["inline"] :
      lists["inline"][i].label \in EvidenceIds("review") =>
        IF pc = "page"
          THEN \/ \E r \in ToSet(items) : r.id = lists["inline"][i].id
               \/ url # None /\ i > Until
          ELSE lists["inline"][i].id \in EvidenceIds("inline")

\* What a list yielded once it was read to its end.
Yielded ==
  /\ OneVersion /\ NothingMissed /\ QuietIsExact
  /\ Enumerated("checks") =>
       checks = ObservedChecks(evidence["checks"]) \cup MissingChecks(evidence["checks"])

\* The inductive invariant.
Collected == Typed /\ Course /\ Whole /\ Yielded /\ RefusedForAReason

-----------------------------------------------------------------------------
(* Sequences.                                                              *)

LEMMA ElementsOfSequence ==
  ASSUME NEW S, NEW s \in Seq(S)
  PROVE  /\ Len(s) \in Nat /\ DOMAIN s = 1..Len(s)
         /\ ToSet(s) \subseteq S
         /\ \A i \in DOMAIN s : s[i] \in S /\ s[i] \in ToSet(s)
         /\ \A r \in ToSet(s) : \E i \in DOMAIN s : s[i] = r
  BY DEF ToSet

LEMMA NothingListed ==
  ASSUME NEW S, NEW s, s = <<>>
  PROVE  Len(s) = 0 /\ DOMAIN s = {} /\ s \in Seq(S)
<1>1. Len(<<>>) = 0 /\ DOMAIN <<>> = {} /\ <<>> \in Seq(S)
  OBVIOUS
<1> QED BY <1>1, Zenon

LEMMA Concatenation ==
  ASSUME NEW S, NEW s \in Seq(S), NEW t \in Seq(S)
  PROVE  /\ s \o t \in Seq(S) /\ Len(s \o t) = Len(s) + Len(t)
         /\ \A j \in DOMAIN (s \o t) :
              (s \o t)[j] = IF j <= Len(s) THEN s[j] ELSE t[j - Len(s)]
  OBVIOUS

LEMMA AfterRemoval ==
  ASSUME NEW S, NEW s \in Seq(S), NEW k \in DOMAIN s
  PROVE  /\ RemoveAt(s, k) \in Seq(S)
         /\ Len(RemoveAt(s, k)) = Len(s) - 1
         /\ \A j \in DOMAIN RemoveAt(s, k) :
              RemoveAt(s, k)[j] = IF j < k THEN s[j] ELSE s[j + 1]
<1>1. k \in 1..Len(s) /\ Len(s) \in Nat
  BY ElementsOfSequence
<1> DEFINE front == SubSeq(s, 1, k - 1)
<1> DEFINE back  == SubSeq(s, k + 1, Len(s))
<1>2. /\ front \in Seq(S) /\ Len(front) = k - 1
      /\ \A j \in 1..(k - 1) : front[j] = s[j]
  BY <1>1
<1>3. /\ back \in Seq(S) /\ Len(back) = Len(s) - k
      /\ \A j \in 1..(Len(s) - k) : back[j] = s[k + j]
  BY <1>1
<1>5. RemoveAt(s, k) = front \o back
  BY DEF RemoveAt
<1> HIDE DEF front, back
<1>4. /\ front \o back \in Seq(S) /\ Len(front \o back) = Len(front) + Len(back)
      /\ \A j \in DOMAIN (front \o back) :
           (front \o back)[j] = IF j <= Len(front) THEN front[j] ELSE back[j - Len(front)]
  BY <1>2, <1>3, Concatenation
<1>6. DOMAIN (front \o back) = 1..(Len(s) - 1) /\ Len(front \o back) = Len(s) - 1
  BY <1>1, <1>2, <1>3, <1>4, ElementsOfSequence
<1>7. ASSUME NEW j \in 1..(Len(s) - 1)
      PROVE  (front \o back)[j] = IF j < k THEN s[j] ELSE s[j + 1]
  <2>1. CASE j < k
    BY <2>1, <1>1, <1>2, <1>4, <1>6
  <2>2. CASE ~(j < k)
    <3>1. j - (k - 1) \in 1..(Len(s) - k) /\ k + (j - (k - 1)) = j + 1 /\ ~(j <= k - 1)
      BY <1>1, <2>2
    <3> QED BY <3>1, <2>2, <1>1, <1>2, <1>3, <1>4, <1>6
  <2> QED BY <2>1, <2>2
<1> QED BY <1>4, <1>5, <1>6, <1>7

LEMMA AfterPrepending ==
  ASSUME NEW S, NEW s \in Seq(S), NEW x \in S
  PROVE  /\ <<x>> \o s \in Seq(S) /\ Len(<<x>> \o s) = Len(s) + 1
         /\ (<<x>> \o s)[1] = x
         /\ \A j \in DOMAIN s : (<<x>> \o s)[j + 1] = s[j]
  OBVIOUS

\* A page holds the items behind the pages before it, in their order.
LEMMA PageHolds ==
  ASSUME NEW e \in Endpoints, lists[e] \in Seq(Item(e)), NEW q \in Nat
  PROVE  /\ OnPage(e, q + 1) \in Seq(Item(e))
         /\ \A i \in DOMAIN OnPage(e, q + 1) :
              /\ q * PerPage + i \in DOMAIN lists[e]
              /\ OnPage(e, q + 1)[i] = lists[e][q * PerPage + i]
         /\ Len(OnPage(e, q + 1)) =
              IF Len(lists[e]) <= q * PerPage THEN 0
              ELSE IF q * PerPage + PerPage < Len(lists[e]) THEN PerPage
              ELSE Len(lists[e]) - q * PerPage
         /\ q * PerPage \in Nat /\ (q + 1) * PerPage = q * PerPage + PerPage
<1> DEFINE n == Len(lists[e])
<1> DEFINE before == q * PerPage
<1> DEFINE last == IF before + PerPage < n THEN before + PerPage ELSE n
<1>1. n \in Nat /\ DOMAIN lists[e] = 1..n
  BY ElementsOfSequence
<1>2. before \in Nat /\ (q + 1) * PerPage = before + PerPage /\ ((q + 1) - 1) * PerPage = before
  BY PagesArePositive
<1>3. OnPage(e, q + 1) = IF before >= n THEN <<>> ELSE SubSeq(lists[e], before + 1, last)
  BY <1>2 DEF OnPage
<1> HIDE DEF before
<1>4. CASE before >= n
  <2>1. OnPage(e, q + 1) = <<>>
    BY <1>3, <1>4
  <2>2. /\ Len(OnPage(e, q + 1)) = 0 /\ DOMAIN OnPage(e, q + 1) = {}
        /\ OnPage(e, q + 1) \in Seq(Item(e))
    BY <2>1, NothingListed, Zenon
  <2>3. n <= q * PerPage /\ q * PerPage \in Nat /\ (q + 1) * PerPage = q * PerPage + PerPage
    BY <1>1, <1>2, <1>4 DEF before
  <2> QED BY <2>2, <2>3
<1>5. CASE ~(before >= n)
  <2>1. last \in 1..n /\ before + 1 \in 1..n /\ before + 1 <= last + 1
    BY <1>1, <1>2, <1>5, PagesArePositive
  <2> DEFINE part == SubSeq(lists[e], before + 1, last)
  <2> HIDE DEF last
  <2>2. /\ part \in Seq(Item(e)) /\ Len(part) = last - before
        /\ \A i \in 1..(last - before) : part[i] = lists[e][before + i]
    BY <1>1, <1>2, <2>1
  <2> HIDE DEF part
  <2>3. DOMAIN part = 1..(last - before)
    BY <2>2, <1>2, <2>1, ElementsOfSequence
  <2>4. last - before = IF before + PerPage < n THEN PerPage ELSE n - before
    BY <1>1, <1>2, PagesArePositive DEF last
  <2>5. \A i \in 1..(last - before) : before + i \in 1..n
    BY <1>1, <1>2, <2>1
  <2> QED BY <1>1, <1>2, <1>3, <1>5, <2>2, <2>3, <2>4, <2>5 DEF part, before
<1> QED BY <1>4, <1>5

-----------------------------------------------------------------------------
(* What other people do to a list.                                         *)

IsNew(e, x) == x.id = NewId /\ (e = "inline" => x.label = NewId)

Same(x, y, what) == x.id = y.id /\ x.label = y.label /\ ("edited" \notin what => x = y)

Deeds == {"added", "removed", "edited"}

\* List s of e becomes t, by additions, removals or edits.
Turns(e, s, t, what) ==
  /\ t \in Seq(Item(e)) /\ Distinct(t)
  /\ \A j \in DOMAIN t :
       \/ "added" \in what /\ IsNew(e, t[j])
       \/ \E i \in DOMAIN s :
            /\ Same(s[i], t[j], what)
            /\ "removed" \notin what => i <= j
            /\ "added" \notin what /\ "removed" \notin what => i = j
  /\ "removed" \notin what =>
       \A i \in DOMAIN s : \E j \in DOMAIN t : Same(s[i], t[j], what) /\ i <= j
  /\ "added" \notin what => Len(t) <= Len(s)
  /\ "removed" \notin what => Len(s) <= Len(t)
  /\ "added" \notin what /\ "removed" \in what => Len(t) < Len(s)

Fresh(s) == \A i \in DOMAIN s : s[i].id <= Known + changes

LEMMA Appending ==
  ASSUME NEW e \in Endpoints, NEW s \in Seq(Item(e)), Distinct(s), Fresh(s),
         NEW x \in Item(e), IsNew(e, x), changes \in Nat
  PROVE  Turns(e, s, Append(s, x), {"added"})
<1> DEFINE t == Append(s, x)
<1>1. Len(s) \in Nat /\ DOMAIN s = 1..Len(s) /\ \A i \in DOMAIN s : s[i] \in Item(e)
  BY ElementsOfSequence
<1>2. /\ t \in Seq(Item(e)) /\ Len(t) = Len(s) + 1 /\ DOMAIN t = 1..(Len(s) + 1)
      /\ t[Len(s) + 1] = x /\ \A i \in 1..Len(s) : t[i] = s[i]
  OBVIOUS
<1> HIDE DEF t
<1>3. \A i \in 1..Len(s) : s[i].id \in Nat /\ s[i].id < x.id
  BY <1>1, NumbersAreNatural DEF Fresh, IsNew, NewId, Item, Ids
<1>4. Distinct(t)
  <2> SUFFICES ASSUME NEW i \in DOMAIN t, NEW j \in DOMAIN t, t[i].id = t[j].id
               PROVE  i = j
    BY DEF Distinct
  <2>1. CASE i \in 1..Len(s) /\ j \in 1..Len(s)
    BY <1>1, <1>2, <2>1 DEF Distinct
  <2>2. CASE ~(i \in 1..Len(s) /\ j \in 1..Len(s))
    <3>1. (i \notin 1..Len(s) => i = Len(s) + 1) /\ (j \notin 1..Len(s) => j = Len(s) + 1)
      BY <1>1, <1>2
    <3> QED BY <1>2, <1>3, <2>2, <3>1
  <2> QED BY <2>1, <2>2
<1>5. ASSUME NEW j \in DOMAIN t
      PROVE  IsNew(e, t[j]) \/ \E i \in DOMAIN s : Same(s[i], t[j], {"added"}) /\ i <= j
  <2>1. CASE j = Len(s) + 1
    BY <1>2, <2>1
  <2>2. CASE j \in 1..Len(s)
    <3>1. j \in DOMAIN s /\ Same(s[j], t[j], {"added"}) /\ j <= j
      BY <1>1, <1>2, <2>2 DEF Same
    <3> QED BY <3>1 DEF Same
  <2>3. j = Len(s) + 1 \/ j \in 1..Len(s)
    BY <1>1, <1>2
  <2> QED BY <2>1, <2>2, <2>3
<1>6. \A i \in DOMAIN s : i \in DOMAIN t /\ Same(s[i], t[i], {"added"}) /\ i <= i
  BY <1>1, <1>2 DEF Same
<1>7. Turns(e, s, t, {"added"})
  BY <1>1, <1>2, <1>4, <1>5, <1>6 DEF Turns, Same
<1> QED BY <1>7 DEF t

LEMMA Prepending ==
  ASSUME NEW e \in Endpoints, NEW s \in Seq(Item(e)), Distinct(s), Fresh(s),
         NEW x \in Item(e), IsNew(e, x), changes \in Nat
  PROVE  Turns(e, s, <<x>> \o s, {"added"})
<1> DEFINE t == <<x>> \o s
<1>1. Len(s) \in Nat /\ DOMAIN s = 1..Len(s) /\ \A i \in DOMAIN s : s[i] \in Item(e)
  BY ElementsOfSequence
<1>2. /\ t \in Seq(Item(e)) /\ Len(t) = Len(s) + 1
      /\ t[1] = x /\ \A i \in 1..Len(s) : t[i + 1] = s[i]
  BY <1>1, AfterPrepending
<1> HIDE DEF t
<1>3. \A i \in 1..Len(s) : s[i].id \in Nat /\ s[i].id < x.id
  BY <1>1, NumbersAreNatural DEF Fresh, IsNew, NewId, Item, Ids
<1>4. DOMAIN t = 1..(Len(s) + 1)
  BY <1>2, ElementsOfSequence
<1>5. \A j \in DOMAIN t : j = 1 \/ (j - 1 \in 1..Len(s) /\ t[j] = s[j - 1])
  BY <1>1, <1>2, <1>4
<1>6. Distinct(t)
  <2> SUFFICES ASSUME NEW i \in DOMAIN t, NEW j \in DOMAIN t, t[i].id = t[j].id
               PROVE  i = j
    BY DEF Distinct
  <2>1. CASE i # 1 /\ j # 1
    <3>1. i - 1 = j - 1
      BY <1>1, <1>5, <2>1 DEF Distinct
    <3> QED BY <3>1, <1>4, <1>1
  <2>2. CASE ~(i # 1 /\ j # 1)
    BY <1>2, <1>3, <1>5, <2>2
  <2> QED BY <2>1, <2>2
<1>7. ASSUME NEW j \in DOMAIN t
      PROVE  IsNew(e, t[j]) \/ \E i \in DOMAIN s : Same(s[i], t[j], {"added"}) /\ i <= j
  <2>1. CASE j = 1
    BY <1>2, <2>1
  <2>2. CASE j - 1 \in 1..Len(s) /\ t[j] = s[j - 1]
    BY <1>1, <1>4, <2>2 DEF Same
  <2> QED BY <1>5, <2>1, <2>2
<1>8. \A i \in DOMAIN s : i + 1 \in DOMAIN t /\ Same(s[i], t[i + 1], {"added"}) /\ i <= i + 1
  BY <1>1, <1>2, <1>4 DEF Same
<1>9. Turns(e, s, t, {"added"})
  <2>1. \A i \in DOMAIN s : \E j \in DOMAIN t : Same(s[i], t[j], {"added"}) /\ i <= j
    BY <1>8
  <2> QED BY <1>1, <1>2, <1>6, <1>7, <2>1 DEF Turns, Same
<1> QED BY <1>9 DEF t

LEMMA Removing ==
  ASSUME NEW e \in Endpoints, NEW s \in Seq(Item(e)), Distinct(s), Fresh(s), NEW k \in DOMAIN s
  PROVE  Turns(e, s, RemoveAt(s, k), {"removed"}) /\ Fresh(RemoveAt(s, k))
<1> DEFINE t == RemoveAt(s, k)
<1>1. Len(s) \in Nat /\ DOMAIN s = 1..Len(s) /\ k \in 1..Len(s)
  BY ElementsOfSequence
<1>2. /\ t \in Seq(Item(e)) /\ Len(t) = Len(s) - 1
      /\ \A j \in DOMAIN t : t[j] = IF j < k THEN s[j] ELSE s[j + 1]
  BY AfterRemoval
<1> HIDE DEF t
<1>3. DOMAIN t = 1..(Len(s) - 1)
  BY <1>2, ElementsOfSequence
<1>4. \A j \in DOMAIN t : \E i \in DOMAIN s : t[j] = s[i] /\ i = IF j < k THEN j ELSE j + 1
  BY <1>1, <1>2, <1>3
<1>5. Distinct(t)
  <2> SUFFICES ASSUME NEW i \in DOMAIN t, NEW j \in DOMAIN t, t[i].id = t[j].id
               PROVE  i = j
    BY DEF Distinct
  <2> DEFINE f(n) == IF n < k THEN n ELSE n + 1
  <2>1. f(i) \in DOMAIN s /\ f(j) \in DOMAIN s /\ t[i] = s[f(i)] /\ t[j] = s[f(j)]
    BY <1>4
  <2>2. f(i) = f(j)
    <3> HIDE DEF f
    <3> QED BY <2>1 DEF Distinct
  <2> QED BY <2>2, <1>1, <1>3
<1>6. \A j \in DOMAIN t : \E i \in DOMAIN s : Same(s[i], t[j], {"removed"})
  BY <1>4 DEF Same
<1>7. Fresh(t)
  BY <1>4 DEF Fresh
<1>8. Turns(e, s, t, {"removed"})
  BY <1>1, <1>2, <1>5, <1>6 DEF Turns, Same
<1> QED BY <1>7, <1>8 DEF t

\* Removing one item and adding another.
LEMMA RemovingAndAdding ==
  ASSUME NEW e \in Endpoints, NEW s, NEW t, NEW u,
         Turns(e, s, t, {"removed"}), Turns(e, t, u, {"added"})
  PROVE  Turns(e, s, u, {"added", "removed"})
<1>1. u \in Seq(Item(e)) /\ Distinct(u)
  BY DEF Turns
<1>2. ASSUME NEW j \in DOMAIN u
      PROVE  IsNew(e, u[j]) \/ \E i \in DOMAIN s : Same(s[i], u[j], {"added", "removed"})
  BY DEF Turns, Same
<1> QED BY <1>1, <1>2 DEF Turns

LEMMA Editing ==
  ASSUME NEW e \in Endpoints, NEW s \in Seq(Item(e)), Distinct(s), NEW k \in DOMAIN s,
         NEW st \in States
  PROVE  Turns(e, s, [s EXCEPT ![k].state = st], {"edited"})
<1> DEFINE t == [s EXCEPT ![k].state = st]
<1>1. Len(s) \in Nat /\ DOMAIN s = 1..Len(s) /\ \A i \in DOMAIN s : s[i] \in Item(e)
  BY ElementsOfSequence
<1>2. [s[k] EXCEPT !.state = st] \in Item(e)
  BY <1>1 DEF Item
<1>3. [s[k] EXCEPT !.state = st].id = s[k].id /\ [s[k] EXCEPT !.state = st].label = s[k].label
  BY <1>1 DEF Item
<1>4. t = [s EXCEPT ![k] = [s[k] EXCEPT !.state = st]]
  OBVIOUS
<1> DEFINE y == [s[k] EXCEPT !.state = st]
<1> HIDE DEF t, y
<1>5. t \in Seq(Item(e)) /\ Len(t) = Len(s) /\ DOMAIN t = DOMAIN s
  BY <1>1, <1>2, <1>4 DEF y
<1>6. \A i \in DOMAIN s : t[i].id = s[i].id /\ t[i].label = s[i].label
  BY <1>1, <1>3, <1>4 DEF y
<1> QED BY <1>1, <1>5, <1>6 DEF Turns, Same, Distinct, t

\* The history takes note of what befell list e.
Noted(e, what) ==
  seen'[e] = IF BeingRead(e)
               THEN [seen[e] EXCEPT !.kept    = @ \cap ToSet(lists'[e]),
                                    !.added   = @ \/ "added" \in what,
                                    !.removed = @ \/ "removed" \in what,
                                    !.edited  = @ \/ "edited" \in what]
               ELSE seen[e]

\* A change: each list stays as it is or turns, and the history knows how.
Changed ==
  /\ Change
  /\ lists' = [e \in Endpoints |-> lists'[e]]
  /\ seen' \in [Endpoints -> History]
  /\ \A e \in Endpoints :
       \/ lists'[e] = lists[e] /\ seen'[e] = seen[e]
       \/ \E what \in SUBSET Deeds :
            what # {} /\ Turns(e, lists[e], lists'[e], what) /\ Noted(e, what)

LEMMA TypedLists ==
  ASSUME Typed, NEW e \in Endpoints
  PROVE  lists[e] \in Seq(Item(e)) /\ Distinct(lists[e]) /\ Fresh(lists[e]) /\ changes \in Nat
  BY NumbersAreNatural DEF Typed, Shaped, TypeOK, Fresh

\* What the history notes is a history again.
LEMMA NotesAreHistory ==
  ASSUME Typed, NEW E \in SUBSET Endpoints, NEW what, Witness(E, what)
  PROVE  seen' \in [Endpoints -> History]
<1> SUFFICES ASSUME NEW e \in Endpoints, e \in E, BeingRead(e)
             PROVE  [seen[e] EXCEPT !.kept    = @ \cap ToSet(lists'[e]),
                                    !.added   = @ \/ "added" \in what,
                                    !.removed = @ \/ "removed" \in what,
                                    !.edited  = @ \/ "edited" \in what] \in History
  BY DEF Witness, Typed, Shaped
<1>1. seen[e] \in History
  BY DEF Typed, Shaped
<1> QED BY <1>1 DEF History

LEMMA OneTurns ==
  ASSUME Typed, Change, NEW e \in Endpoints, NEW t, NEW what \in SUBSET Deeds, what # {},
         lists' = [lists EXCEPT ![e] = t], Turns(e, lists[e], t, what), Witness({e}, what)
  PROVE  Changed
<1>1. lists = [c \in Endpoints |-> lists[c]]
  BY DEF Typed, Shaped
<1>2. lists' = [c \in Endpoints |-> lists'[c]] /\ lists'[e] = t
      /\ \A c \in Endpoints \ {e} : lists'[c] = lists[c]
  BY <1>1
<1>3. Noted(e, what) /\ \A c \in Endpoints \ {e} : seen'[c] = seen[c]
  BY DEF Witness, Noted
<1>4. seen' \in [Endpoints -> History]
  BY NotesAreHistory
<1> QED BY <1>2, <1>3, <1>4 DEF Changed

LEMMA NewItem ==
  ASSUME Typed, changes < MaxChanges, NEW e \in Endpoints, NEW l,
         l \in CASE e = "checks" -> Names [] e = "inline" -> Ids [] OTHER -> {None}
  PROVE  [id |-> NewId, state |-> "success", label |-> l] \in Item(e)
<1>1. NewId \in Ids
  BY TypedLists, NumbersAreNatural DEF NewId, Ids, Endpoints, Typed, TypeOK
<1> QED BY <1>1 DEF Item, States

LEMMA PostChanges ==
  ASSUME Typed, Post
  PROVE  Changed
<1> DEFINE x == [id |-> NewId, state |-> "success", label |-> None]
<1>1. x \in Item("issue") /\ IsNew("issue", x)
  BY NewItem DEF Post, Change, Endpoints, IsNew
<1> HIDE DEF x
<1>2. Turns("issue", lists["issue"], Append(lists["issue"], x), {"added"})
  BY <1>1, TypedLists, Appending DEF Endpoints
<1>3. lists' = [lists EXCEPT !["issue"] = Append(lists["issue"], x)]
  BY DEF Post, x
<1> QED BY <1>2, <1>3, OneTurns DEF Post, Endpoints, Deeds

LEMMA DeleteChanges ==
  ASSUME Typed, Delete
  PROVE  Changed
<1> PICK e \in {"checks", "issue", "inline"} :
      \E i \in DOMAIN lists[e] :
        lists' = [lists EXCEPT ![e] = RemoveAt(@, i)] /\ Witness({e}, {"removed"})
  BY DEF Delete
<1> PICK i \in DOMAIN lists[e] :
      lists' = [lists EXCEPT ![e] = RemoveAt(lists[e], i)] /\ Witness({e}, {"removed"})
  OBVIOUS
<1>1. e \in Endpoints
  BY DEF Endpoints
<1>2. Turns(e, lists[e], RemoveAt(lists[e], i), {"removed"})
  BY <1>1, TypedLists, Removing
<1> QED BY <1>1, <1>2, OneTurns DEF Delete, Deeds

LEMMA EditChanges ==
  ASSUME Typed, Edit
  PROVE  Changed
<1> PICK e \in Endpoints :
      \E i \in DOMAIN lists[e] : \E s \in States \ {lists[e][i].state} :
        lists' = [lists EXCEPT ![e][i].state = s] /\ Witness({e}, {"edited"})
  BY DEF Edit
<1> PICK i \in DOMAIN lists[e] : \E s \in States \ {lists[e][i].state} :
        lists' = [lists EXCEPT ![e][i].state = s] /\ Witness({e}, {"edited"})
  OBVIOUS
<1> PICK s \in States :
        lists' = [lists EXCEPT ![e][i].state = s] /\ Witness({e}, {"edited"})
  OBVIOUS
<1>1. Turns(e, lists[e], [lists[e] EXCEPT ![i].state = s], {"edited"})
  BY TypedLists, Editing
<1>2. lists' = [lists EXCEPT ![e] = [lists[e] EXCEPT ![i].state = s]]
  OBVIOUS
<1> QED BY <1>1, <1>2, OneTurns DEF Edit, Deeds

\* A check run is added to the list or to what is left of it.
LEMMA ListRunAdds ==
  ASSUME Typed, changes < MaxChanges, NEW runs \in Seq(Item("checks")),
         Distinct(runs), Fresh(runs), NEW n \in Names, ListRun(runs, n)
  PROVE  \E t : lists' = [lists EXCEPT !["checks"] = t] /\ Turns("checks", runs, t, {"added"})
<1> DEFINE x == [id |-> NewId, state |-> "success", label |-> n]
<1>1. x \in Item("checks") /\ IsNew("checks", x)
  BY NewItem DEF Endpoints, IsNew
<1>2. \/ lists' = [lists EXCEPT !["checks"] = Append(runs, x)]
      \/ lists' = [lists EXCEPT !["checks"] = <<x>> \o runs]
  BY DEF ListRun
<1> HIDE DEF x
<1>3. /\ Turns("checks", runs, Append(runs, x), {"added"})
      /\ Turns("checks", runs, <<x>> \o runs, {"added"})
  BY <1>1, TypedLists, Appending, Prepending DEF Endpoints
<1> QED BY <1>2, <1>3

LEMMA StartRunChanges ==
  ASSUME Typed, StartRun
  PROVE  Changed
<1> PICK n \in Names : ListRun(lists["checks"], n)
  BY DEF StartRun
<1>1. PICK t : /\ lists' = [lists EXCEPT !["checks"] = t]
               /\ Turns("checks", lists["checks"], t, {"added"})
  BY TypedLists, ListRunAdds DEF StartRun, Change, Endpoints
<1> QED BY <1>1, OneTurns DEF StartRun, Endpoints, Deeds

LEMMA RerunChanges ==
  ASSUME Typed, Rerun
  PROVE  Changed
<1> PICK i \in DOMAIN lists["checks"] :
      ListRun(RemoveAt(lists["checks"], i), lists["checks"][i].label)
  BY DEF Rerun
<1> DEFINE rest == RemoveAt(lists["checks"], i)
<1>1. "checks" \in Endpoints
  BY DEF Endpoints
<1>2. Turns("checks", lists["checks"], rest, {"removed"}) /\ Fresh(rest)
  BY <1>1, TypedLists, Removing
<1>3. lists["checks"][i].label \in Names
  <2>1. lists["checks"][i] \in Item("checks")
    BY <1>1, TypedLists, ElementsOfSequence
  <2> QED BY <2>1 DEF Item
<1> HIDE DEF rest
<1>4. rest \in Seq(Item("checks")) /\ Distinct(rest)
  BY <1>2 DEF Turns
<1>5. PICK t : /\ lists' = [lists EXCEPT !["checks"] = t]
               /\ Turns("checks", rest, t, {"added"})
  BY <1>2, <1>3, <1>4, ListRunAdds DEF Rerun, Change, rest
<1>6. Turns("checks", lists["checks"], t, {"added", "removed"})
  BY <1>1, <1>2, <1>5, RemovingAndAdding
<1> QED BY <1>1, <1>5, <1>6, OneTurns DEF Rerun, Deeds

LEMMA SubmitReviewChanges ==
  ASSUME Typed, SubmitReview
  PROVE  Changed
<1> DEFINE x == [id |-> NewId, state |-> "success", label |-> None]
<1> DEFINE y == [id |-> NewId, state |-> "success", label |-> NewId]
<1>1. NewId \in Ids
  BY TypedLists, NumbersAreNatural DEF NewId, Ids, Endpoints, Typed, TypeOK, SubmitReview, Change
<1>2. /\ x \in Item("review") /\ IsNew("review", x)
      /\ y \in Item("inline") /\ IsNew("inline", y)
  BY <1>1, NewItem DEF SubmitReview, Change, Endpoints, IsNew
<1>3. lists' = [lists EXCEPT !["review"] = Append(@, x), !["inline"] = Append(@, y)]
  BY DEF SubmitReview
<1> HIDE DEF x, y
<1>4. /\ Turns("review", lists["review"], Append(lists["review"], x), {"added"})
      /\ Turns("inline", lists["inline"], Append(lists["inline"], y), {"added"})
  BY <1>2, TypedLists, Appending DEF Endpoints
<1>5. /\ lists' = [c \in Endpoints |-> lists'[c]]
      /\ lists'["review"] = Append(lists["review"], x)
      /\ lists'["inline"] = Append(lists["inline"], y)
      /\ lists'["checks"] = lists["checks"] /\ lists'["issue"] = lists["issue"]
  <2>1. lists = [c \in Endpoints |-> lists[c]]
    BY DEF Typed, Shaped
  <2> QED BY <1>3, <2>1 DEF Endpoints
<1>6. /\ Noted("review", {"added"}) /\ Noted("inline", {"added"})
      /\ seen'["checks"] = seen["checks"] /\ seen'["issue"] = seen["issue"]
  BY DEF SubmitReview, Witness, Noted, Endpoints
<1>7. seen' \in [Endpoints -> History]
  BY NotesAreHistory DEF SubmitReview, Endpoints
<1> QED BY <1>4, <1>5, <1>6, <1>7 DEF Changed, SubmitReview, Endpoints, Deeds

\* Whatever other people do is a change.
LEMMA OthersChange ==
  ASSUME Typed, Others
  PROVE  Changed
  BY PostChanges, SubmitReviewChanges, StartRunChanges, RerunChanges, DeleteChanges,
     EditChanges DEF Others

-----------------------------------------------------------------------------
(* A change keeps the invariant.                                           *)

LEMMA IdsAreNumbers ==
  ASSUME NEW e \in Endpoints, NEW s \in Seq(Item(e)), NEW i \in DOMAIN s
  PROVE  s[i].id \in Nat
<1>1. s[i] \in Item(e)
  BY ElementsOfSequence
<1> QED BY <1>1, NumbersAreNatural DEF Item, Ids

\* What a change does to list e and to its history.
LEMMA ListChanges ==
  ASSUME Typed, Changed, NEW e \in Endpoints
  PROVE  /\ lists'[e] \in Seq(Item(e)) /\ Distinct(lists'[e])
         /\ \A j \in DOMAIN lists'[e] :
              \/ IsNew(e, lists'[e][j])
              \/ \E i \in DOMAIN lists[e] :
                   lists'[e][j].id = lists[e][i].id /\ lists'[e][j].label = lists[e][i].label
         /\ seen'[e].first = seen[e].first /\ seen'[e].kept \subseteq seen[e].kept
         /\ seen'[e].misled = seen[e].misled
         /\ ~BeingRead(e) => seen'[e] = seen[e]
<1>1. CASE lists'[e] = lists[e] /\ seen'[e] = seen[e]
  BY <1>1, TypedLists
<1>2. ASSUME NEW what \in SUBSET Deeds, Turns(e, lists[e], lists'[e], what), Noted(e, what)
      PROVE  /\ lists'[e] \in Seq(Item(e)) /\ Distinct(lists'[e])
             /\ \A j \in DOMAIN lists'[e] :
                  \/ IsNew(e, lists'[e][j])
                  \/ \E i \in DOMAIN lists[e] :
                       lists'[e][j].id = lists[e][i].id /\ lists'[e][j].label = lists[e][i].label
  BY <1>2 DEF Turns, Same
<1>3. ASSUME NEW what \in SUBSET Deeds, Noted(e, what)
      PROVE  /\ seen'[e].first = seen[e].first /\ seen'[e].kept \subseteq seen[e].kept
             /\ seen'[e].misled = seen[e].misled
             /\ ~BeingRead(e) => seen'[e] = seen[e]
  <2>1. seen[e] \in History
    BY DEF Typed, Shaped
  <2> QED BY <1>3, <2>1 DEF Noted, History
<1> QED BY <1>1, <1>2, <1>3 DEF Changed

LEMMA ChangeKeepsTypes ==
  ASSUME Typed, Changed
  PROVE  Typed'
<1>1. changes \in Nat /\ changes' = changes + 1 /\ changes' \in 0..MaxChanges
  BY NumbersAreNatural DEF Changed, Change, Typed, TypeOK
<1>2. UNCHANGED <<pc, at, page, evidence, checks, cause>>
  BY DEF Changed, Change
<1>3. ASSUME NEW e \in Endpoints, NEW i \in DOMAIN lists'[e]
      PROVE  lists'[e][i].id <= Known + changes'
  <2>1. CASE IsNew(e, lists'[e][i])
    <3>1. lists'[e][i].id = Known + changes'
      BY <1>1, <2>1, NumbersAreNatural DEF IsNew, NewId
    <3> QED BY <3>1, <1>1, NumbersAreNatural
  <2>2. ASSUME NEW k \in DOMAIN lists[e], lists'[e][i].id = lists[e][k].id
        PROVE  lists'[e][i].id <= Known + changes'
    <3>1. lists[e][k].id \in Nat /\ lists[e][k].id <= Known + changes
      BY TypedLists, IdsAreNumbers DEF Fresh
    <3> QED BY <3>1, <2>2, <1>1, NumbersAreNatural
  <2> QED BY <2>1, <2>2, ListChanges
<1>4. ASSUME NEW e \in Endpoints, NEW r \in evidence[e]
      PROVE  r.id <= Known + changes'
  <2>1. r \in Item(e) /\ r.id <= Known + changes
    BY DEF Typed, TypeOK, Shaped
  <2>2. r.id \in Nat
    BY <2>1, NumbersAreNatural DEF Item, Ids
  <2> QED BY <2>1, <2>2, <1>1, NumbersAreNatural
<1>5. ASSUME NEW i \in DOMAIN items
      PROVE  items[i].id <= Known + changes'
  <2>1. items[i].id <= Known + changes /\ items \in Seq(Item(Now)) /\ Now \in Endpoints
    BY DEF Typed, TypeOK, Shaped, Now, Order, Endpoints
  <2>2. items[i].id \in Nat
    BY <2>1, IdsAreNumbers
  <2> QED BY <2>1, <2>2, <1>1, NumbersAreNatural
<1>6. ASSUME NEW e \in Endpoints
      PROVE  /\ lists'[e] \in Seq(Item(e)) /\ Distinct(lists'[e])
             /\ seen'[e].first \in Seq(Item(e)) /\ seen'[e].kept \subseteq Item(e)
             /\ {seen'[e].removed, seen'[e].added, seen'[e].edited, seen'[e].misled}
                  \subseteq BOOLEAN
  <2>1. seen'[e] \in History
    BY DEF Changed
  <2>2. seen[e].first \in Seq(Item(e)) /\ seen[e].kept \subseteq Item(e)
    BY DEF Typed, TypeOK
  <2>3. {seen'[e].removed, seen'[e].added, seen'[e].edited, seen'[e].misled}
                  \subseteq BOOLEAN
    BY <2>1 DEF History
  <2> QED BY <2>2, <2>3, ListChanges
<1>7. TypeOK'
  BY <1>1, <1>2, <1>6 DEF Typed, TypeOK, page
<1>8. Shaped'
  BY <1>2, <1>3, <1>4, <1>5 DEF Typed, Shaped, Changed, page
<1> QED BY <1>7, <1>8 DEF Typed

\* A change of other lists, or after the last page, leaves the course alone.
LEMMA ElsewhereKeepsCourse ==
  ASSUME Course, UNCHANGED <<pc, at, page>>, seen'[Now] = seen[Now],
         url = None \/ lists'[Now] = lists[Now]
  PROVE  Course'
<1>1. Now' = Now /\ Served' = Served /\ Until' = Until /\ OnCourse' = OnCourse
  BY DEF Now, Served, Until, OnCourse, page
<1>2. Paged => Paged'
  BY <1>1 DEF Paged, page
<1>3. Sized => Sized'
  BY <1>1 DEF Sized, page
<1>4. Counted => Counted'
  BY <1>1 DEF Counted, page
<1>5. Caught => Caught'
  BY <1>1 DEF Caught, page
<1>6. Still => Still'
  BY <1>1 DEF Still, page
<1>7. Uniform => Uniform'
  BY <1>1 DEF Uniform, Conflicting, page
<1>8. Aligned => Aligned'
  BY <1>1 DEF Aligned, Distinct, page
<1> QED BY <1>1, <1>2, <1>3, <1>4, <1>5, <1>6, <1>7, <1>8 DEF Course

\* A change of the list being read.
LEMMA TurnKeepsCourse ==
  ASSUME Typed, Changed, Course, OnCourse, url # None,
         NEW what \in SUBSET Deeds, what # {},
         Turns(Now, lists[Now], lists'[Now], what), Noted(Now, what)
  PROVE  Course'
<1> DEFINE old == lists[Now]
<1> DEFINE new == lists'[Now]
<1>1. UNCHANGED <<pc, at, url, asked, expected, items>>
  BY DEF Changed, Change, page
<1>2. Now' = Now /\ Served' = Served /\ Until' = Until /\ Now \in Endpoints
  BY <1>1 DEF Now, Served, Until, Typed, TypeOK, Order, Endpoints
<1>3. /\ old \in Seq(Item(Now)) /\ Len(old) \in Nat /\ DOMAIN old = 1..Len(old)
      /\ new \in Seq(Item(Now)) /\ Len(new) \in Nat /\ DOMAIN new = 1..Len(new)
      /\ Distinct(new)
  BY <1>2, TypedLists, ListChanges, ElementsOfSequence
<1>0. Len(old) \in Nat /\ Len(new) \in Nat
  BY <1>3
<1>4. /\ "added" \notin what => Len(new) <= Len(old)
      /\ "removed" \notin what => Len(old) <= Len(new)
      /\ "added" \notin what /\ "removed" \in what => Len(new) < Len(old)
  BY DEF Turns
<1>5. /\ seen'[Now].first = seen[Now].first
      /\ seen'[Now].kept = seen[Now].kept \cap ToSet(new)
      /\ seen'[Now].misled = seen[Now].misled
      /\ seen'[Now].added   <=> seen[Now].added \/ "added" \in what
      /\ seen'[Now].removed <=> seen[Now].removed \/ "removed" \in what
      /\ seen'[Now].edited  <=> seen[Now].edited \/ "edited" \in what
  <2>1. seen[Now] \in History
    BY <1>2 DEF Typed, Shaped
  <2>2. BeingRead(Now)
    BY DEF BeingRead, OnCourse
  <2> QED BY <2>1, <2>2 DEF Noted, History
<1>6. Until \in Nat /\ Len(seen[Now].first) \in Nat
  <2>1. Served \in Nat
    BY FS_CardinalityType DEF Typed, Shaped, Served
  <2>2. seen[Now].first \in Seq(Item(Now))
    BY <1>2 DEF Typed, TypeOK
  <2> QED BY <2>1, <2>2, PagesArePositive, ElementsOfSequence DEF Until
<1>7. Paged /\ Sized /\ Counted /\ Caught /\ Uniform /\ Aligned
  BY DEF Course
<1> HIDE DEF old, new
<1>8. Paged'
  BY <1>1, <1>2, <1>7 DEF Paged
<1>9. Sized'
  BY <1>1, <1>2, <1>3, <1>4, <1>5, <1>6, <1>7 DEF Sized, old, new
<1>10. Counted'
  <2>1. SUFFICES ASSUME Now = "checks", ~seen'[Now].added
                 PROVE  /\ seen'[Now].removed  => Len(new) < expected
                        /\ ~seen'[Now].removed => Len(new) = expected
    BY <1>1, <1>2, <1>7 DEF Counted, new
  <2>2. /\ expected \in Nat
        /\ seen[Now].removed  => Len(old) < expected
        /\ ~seen[Now].removed => Len(old) = expected
    BY <1>5, <1>7, <2>1 DEF Counted, old
  <2>3. "added" \notin what
    BY <1>5, <2>1
  <2>4. Len(new) <= Len(old)
    BY <1>4, <2>3
  <2>5. CASE seen[Now].removed
    <3>1. Len(old) < expected
      BY <2>2, <2>5
    <3>2. Len(new) < expected
      BY <1>0, <2>2, <2>4, <3>1
    <3> QED BY <1>5, <2>5, <3>2
  <2>6. CASE ~seen[Now].removed /\ "removed" \in what
    <3>1. Len(new) < Len(old) /\ Len(old) = expected
      BY <1>4, <2>2, <2>3, <2>6
    <3>2. Len(new) < expected
      BY <3>1
    <3> QED BY <1>5, <2>6, <3>2
  <2>7. CASE ~seen[Now].removed /\ "removed" \notin what
    <3>1. ~seen'[Now].removed
      BY <1>5, <2>7
    <3>2. Len(old) <= Len(new) /\ Len(old) = expected
      BY <1>4, <2>2, <2>7
    <3>3. Len(new) = expected
      BY <1>0, <2>2, <2>4, <3>2
    <3> QED BY <3>1, <3>3
  <2> QED BY <2>5, <2>6, <2>7
<1>11. Caught'
  <2>1. SUFFICES ASSUME ~seen'[Now].removed, NEW r \in seen'[Now].kept
                 PROVE  \/ r \in ToSet(items)
                        \/ \E j \in DOMAIN new : j > Until /\ new[j] = r
    BY <1>1, <1>2 DEF Caught, new
  <2>2. PICK k \in DOMAIN new : new[k] = r
    BY <1>5, <2>1 DEF ToSet
  <2>3. ASSUME NEW j \in DOMAIN old, j > Until, old[j] = r
        PROVE  k > Until
    <3>1. PICK m \in DOMAIN new : new[m].id = old[j].id /\ j <= m
      BY <1>5, <2>1 DEF Turns, Same, old, new
    <3>2. m = k
      BY <1>3, <2>2, <2>3, <3>1 DEF Distinct
    <3> QED BY <1>3, <1>6, <2>3, <3>1, <3>2
  <2> QED BY <1>5, <1>7, <2>1, <2>2, <2>3 DEF Caught, old
<1>12. Still'
  BY <1>2, <1>5 DEF Still, Deeds
<1>13. Uniform'
  <2>1. SUFFICES ASSUME ~seen'[Now].edited
                 PROVE  /\ ~Conflicting(items)
                        /\ \A i \in DOMAIN items : \A j \in DOMAIN new :
                             items[i].id = new[j].id => items[i] = new[j]
    BY <1>1, <1>2 DEF Uniform, Conflicting, new
  <2>2. /\ ~Conflicting(items)
        /\ \A i \in DOMAIN items : \A j \in DOMAIN old :
             items[i].id = old[j].id => items[i] = old[j]
    BY <1>5, <1>7, <2>1 DEF Uniform, old
  <2>3. ASSUME NEW i \in DOMAIN items, NEW j \in DOMAIN new, items[i].id = new[j].id
        PROVE  items[i] = new[j]
    <3>1. items[i].id \in Nat /\ items[i].id <= Known + changes /\ changes \in Nat
      BY <1>2, TypedLists, IdsAreNumbers DEF Typed, TypeOK, Shaped, Now
    <3>2. ~IsNew(Now, new[j])
      BY <2>3, <3>1, NumbersAreNatural DEF IsNew, NewId
    <3>3. PICK k \in DOMAIN old : old[k] = new[j]
      BY <1>5, <2>1, <3>2 DEF Turns, Same, old, new
    <3> QED BY <2>2, <2>3, <3>3
  <2> QED BY <2>2, <2>3
<1>14. Aligned'
  <2>1. SUFFICES ASSUME ~seen'[Now].added, ~seen'[Now].removed
                 PROVE  /\ Distinct(items)
                        /\ \A i \in DOMAIN items : i \in DOMAIN new /\ items[i].id = new[i].id
    BY <1>1, <1>2 DEF Aligned, Distinct, new
  <2>2. /\ Distinct(items)
        /\ \A i \in DOMAIN items : i \in DOMAIN old /\ items[i].id = old[i].id
    BY <1>5, <1>7, <2>1 DEF Aligned, old
  <2>3. Len(new) = Len(old)
    <3>1. "added" \notin what /\ "removed" \notin what
      BY <1>5, <2>1
    <3>2. Len(new) <= Len(old) /\ Len(old) <= Len(new)
      BY <1>4, <3>1
    <3> QED BY <1>0, <3>2
  <2>4. \A j \in DOMAIN new : new[j].id = old[j].id
    BY <1>5, <2>1 DEF Turns, Same, old, new
  <2> QED BY <1>3, <2>2, <2>3, <2>4
<1> QED BY <1>8, <1>9, <1>10, <1>11, <1>12, <1>13, <1>14 DEF Course

LEMMA ChangeKeepsCourse ==
  ASSUME Typed, Changed, Course
  PROVE  Course'
<1>1. UNCHANGED <<pc, at, page>> /\ Now \in Endpoints
  BY DEF Changed, Change, Typed, TypeOK, Now, Order, Endpoints
<1>2. CASE lists'[Now] = lists[Now] /\ seen'[Now] = seen[Now]
  BY <1>1, <1>2, ElsewhereKeepsCourse
<1>3. CASE ~BeingRead(Now)
  <2>1. seen'[Now] = seen[Now]
    BY <1>1, <1>3, ListChanges
  <2>2. CASE url = None
    BY <1>1, <2>1, <2>2, ElsewhereKeepsCourse
  <2>3. CASE ~OnCourse
    <3>1. ~OnCourse'
      BY <1>1, <2>1, <2>3 DEF OnCourse, Now, page
    <3> QED BY <3>1 DEF Course
  <2> QED BY <1>3, <2>2, <2>3 DEF BeingRead, OnCourse
<1>4. ASSUME BeingRead(Now), NEW what \in SUBSET Deeds, what # {},
             Turns(Now, lists[Now], lists'[Now], what), Noted(Now, what)
      PROVE  Course'
  <2>1. OnCourse /\ url # None
    BY <1>1, <1>4 DEF OnCourse, BeingRead, Changed, Change
  <2> QED BY <1>4, <2>1, TurnKeepsCourse
<1> QED BY <1>1, <1>2, <1>3, <1>4 DEF Changed

LEMMA ServedIsNumber ==
  ASSUME Typed
  PROVE  /\ Served \in Nat /\ Until \in Nat
         /\ asked = {} => Served = 0 /\ Until = 0
         /\ Now \in Endpoints
         /\ \A e \in Endpoints : lists[e] \in Seq(Item(e)) /\ Len(lists[e]) \in Nat
                               /\ DOMAIN lists[e] = 1..Len(lists[e])
<1>1. Served \in Nat
  BY FS_CardinalityType DEF Typed, Shaped, Served
<1>2. asked = {} => Served = 0
  BY FS_EmptySet DEF Served
<1>3. Until \in Nat /\ (asked = {} => Until = 0)
  BY <1>1, <1>2, PagesArePositive DEF Until
<1>4. Now \in Endpoints
  BY DEF Typed, TypeOK, Now, Order, Endpoints
<1> QED BY <1>1, <1>2, <1>3, <1>4, TypedLists, ElementsOfSequence

LEMMA ChangeKeepsWhole ==
  ASSUME Typed, Changed, Whole
  PROVE  Whole'
<1>1. UNCHANGED <<pc, at, url, asked, items, evidence>> /\ pc \in Active
  BY DEF Changed, Change, page
<1>2. "inline" \in Endpoints /\ (at = 4 => Now = "inline")
  BY DEF Endpoints, Now, Order
<1> DEFINE old == lists["inline"]
<1> DEFINE new == lists'["inline"]
<1>3. SUFFICES ASSUME at = 4, pc # "start", ~seen'["inline"].misled, ~seen'["inline"].removed,
                      NEW j \in DOMAIN new, new[j].label \in EvidenceIds("review")
               PROVE  IF pc = "page"
                        THEN (\E r \in ToSet(items) : r.id = new[j].id) \/ (url # None /\ j > Until)
                        ELSE new[j].id \in EvidenceIds("inline")
  BY <1>1 DEF Whole, EvidenceIds, Until, Served, Active
<1>4. ASSUME ~seen["inline"].removed, NEW i \in DOMAIN old,
             new[j].id = old[i].id, new[j].label = old[i].label,
             BeingRead("inline") => i <= j
      PROVE  IF pc = "page"
               THEN (\E r \in ToSet(items) : r.id = new[j].id) \/ (url # None /\ j > Until)
               ELSE new[j].id \in EvidenceIds("inline")
  <2>1. ~seen["inline"].misled
    BY <1>2, <1>3, ListChanges
  <2>2. IF pc = "page"
          THEN (\E r \in ToSet(items) : r.id = new[j].id) \/ (url # None /\ i > Until)
          ELSE new[j].id \in EvidenceIds("inline")
    <3>1. old[i].label \in EvidenceIds("review")
      BY <1>3, <1>4
    <3>2. pc \in {"page", "facts", "done"}
      BY <1>1, <1>3 DEF Active
    <3>3. IF pc = "page"
            THEN (\E r \in ToSet(items) : r.id = old[i].id) \/ (url # None /\ i > Until)
            ELSE old[i].id \in EvidenceIds("inline")
      BY <1>3, <1>4, <2>1, <3>1, <3>2 DEF Whole
    <3> HIDE DEF old, new
    <3> QED BY <1>4, <3>3
  <2>3. ASSUME pc = "page", url # None, i > Until
        PROVE  j > Until
    <3>1. i \in Nat /\ j \in Nat /\ j > 0
      <4>1. new \in Seq(Item("inline")) /\ old \in Seq(Item("inline"))
        BY <1>2, ListChanges, TypedLists
      <4> QED BY <4>1, ElementsOfSequence
    <3>2. CASE asked = {}
      BY <3>1, <3>2, ServedIsNumber
    <3>3. CASE asked # {}
      <4>1. i <= j
        BY <1>2, <1>3, <1>4, <2>3, <3>3 DEF BeingRead
      <4> QED BY <2>3, <3>1, <4>1, ServedIsNumber
    <3> QED BY <3>2, <3>3
  <2> QED BY <2>2, <2>3
<1>5. CASE new = old /\ seen'["inline"] = seen["inline"]
  <2>1. j \in DOMAIN old /\ j <= j
    <3>1. old \in Seq(Item("inline"))
      BY <1>2, TypedLists
    <3> QED BY <3>1, <1>3, <1>5, ElementsOfSequence
  <2> HIDE DEF old, new
  <2> QED BY <1>3, <1>4, <1>5, <2>1
<1>6. ASSUME NEW what \in SUBSET Deeds, Turns("inline", old, new, what), Noted("inline", what)
      PROVE  IF pc = "page"
               THEN (\E r \in ToSet(items) : r.id = new[j].id) \/ (url # None /\ j > Until)
               ELSE new[j].id \in EvidenceIds("inline")
  <2>1. ~seen["inline"].removed /\ (BeingRead("inline") => "removed" \notin what)
    <3>1. seen["inline"] \in History
      BY <1>2 DEF Typed, Shaped
    <3> QED BY <1>3, <1>6, <3>1 DEF Noted, History
  <2>2. ~IsNew("inline", new[j])
    <3>1. PICK r \in evidence["review"] : r.id = new[j].label
      BY <1>3 DEF EvidenceIds
    <3>2. r \in Item("review") /\ r.id <= Known + changes /\ changes \in Nat
      BY NumbersAreNatural DEF Typed, TypeOK, Shaped, Endpoints
    <3>3. r.id \in Nat
      BY <3>2, NumbersAreNatural DEF Item, Ids
    <3>4. r.id # NewId
      BY <3>2, <3>3, NumbersAreNatural DEF NewId
    <3> QED BY <3>1, <3>4 DEF IsNew
  <2>3. PICK i \in DOMAIN old : Same(old[i], new[j], what) /\ ("removed" \notin what => i <= j)
    BY <1>3, <1>6, <2>2 DEF Turns, Same
  <2>4. new[j].id = old[i].id /\ new[j].label = old[i].label
    BY <2>3 DEF Same
  <2> HIDE DEF old, new
  <2> QED BY <1>4, <2>1, <2>3, <2>4
<1> QED BY <1>2, <1>5, <1>6 DEF Changed

LEMMA ChangeKeepsYielded ==
  ASSUME Typed, Changed, Yielded
  PROVE  Yielded'
<1>1. UNCHANGED <<pc, at, evidence, checks>>
  BY DEF Changed, Change
<1>2. ASSUME NEW e \in Endpoints, Enumerated(e)
      PROVE  seen'[e] = seen[e]
  <2>1. ~BeingRead(e)
    <3>1. pc = "page" => e # Now
      BY <1>2 DEF Enumerated, Now, Order, Typed, TypeOK
    <3> QED BY <3>1 DEF BeingRead
  <2> QED BY <2>1, ListChanges
<1>3. \A e \in Endpoints : Enumerated(e)' <=> Enumerated(e)
  BY <1>1 DEF Enumerated
<1>4. OneVersion'
  BY <1>1 DEF Yielded, OneVersion
<1>5. NothingMissed'
  BY <1>1, <1>2, <1>3 DEF Yielded, NothingMissed
<1>6. QuietIsExact'
  BY <1>1, <1>2, <1>3 DEF Yielded, QuietIsExact
<1>7. Enumerated("checks")' =>
        checks' = ObservedChecks(evidence'["checks"]) \cup MissingChecks(evidence'["checks"])
  BY <1>1, <1>3 DEF Yielded, Endpoints
<1> QED BY <1>1, <1>4, <1>5, <1>6, <1>7 DEF Yielded, ObservedChecks, MissingChecks

LEMMA ChangeKeepsCollected ==
  ASSUME Collected, Changed
  PROVE  Collected'
<1>1. RefusedForAReason'
  BY DEF Changed, Change, Active, RefusedForAReason
<1> QED BY <1>1, ChangeKeepsTypes, ChangeKeepsCourse, ChangeKeepsWhole, ChangeKeepsYielded
        DEF Collected

-----------------------------------------------------------------------------
(* The collector keeps the invariant.                                      *)

LEMMA InitCollected ==
  ASSUME Init
  PROVE  Collected
<1>1. TypeOK
  <2>1. \A e \in Endpoints : lists[e] \in Seq(Item(e)) /\ Distinct(lists[e])
    BY ListsAreLists DEF Init
  <2>2. asked \subseteq Nat /\ Cardinality(asked) <= MaxPages
    BY FS_EmptySet, PagesArePositive DEF Init
  <2>3. \A e \in Endpoints :
         /\ seen[e].first \in Seq(Item(e)) /\ seen[e].kept \subseteq Item(e)
         /\ {seen[e].removed, seen[e].added, seen[e].edited, seen[e].misled} \subseteq BOOLEAN
    <3> TAKE e \in Endpoints
    <3>1. /\ seen[e].first = <<>> /\ seen[e].kept = {} /\ seen[e].removed = FALSE
          /\ seen[e].added = FALSE /\ seen[e].edited = FALSE /\ seen[e].misled = FALSE
      BY DEF Init, Unseen
    <3>2. seen[e].first \in Seq(Item(e))
      BY <3>1, NothingListed, Zenon
    <3> QED BY <3>1, <3>2
  <2>4. changes \in 0..MaxChanges /\ pc \in Active /\ pc # "failed" /\ at \in 1..4
    BY NumbersAreNatural DEF Init, Active
  <2>5. /\ url \in Nat \cup {None} /\ expected \in Nat \cup {None}
        /\ items \in Seq(Item(Order[at]))
    BY DEF Init
  <2>6. /\ \A e \in Endpoints : evidence[e] \subseteq Item(e)
        /\ checks \subseteq CheckFact /\ cause = "none"
    BY DEF Init
  <2> QED BY <2>1, <2>2, <2>3, <2>4, <2>5, <2>6 DEF TypeOK, Causes
<1>2. Shaped
  <2>1. /\ lists = [e \in Endpoints |-> lists[e]]
        /\ \A e \in Endpoints : \A i \in DOMAIN lists[e] : lists[e][i].id <= Known + changes
    BY ListsAreLists, NumbersAreNatural DEF Init
  <2>2. seen \in [Endpoints -> History]
    BY DEF Init, Unseen, History
  <2>3. /\ evidence = [e \in Endpoints |-> evidence[e]] /\ \A e \in Endpoints : evidence[e] = {}
        /\ items = <<>> /\ DOMAIN items = {} /\ asked = {} /\ IsFiniteSet(asked)
        /\ url = 0 /\ expected = None /\ at = 1 /\ pc = "start"
    BY FS_EmptySet DEF Init
  <2> QED BY <2>1, <2>2, <2>3 DEF Shaped
<1>3. Course /\ Whole
  BY DEF Init, Course, OnCourse, Whole
<1>4. Yielded
  BY DEF Init, Yielded, OneVersion, NothingMissed, QuietIsExact, Enumerated
<1>5. RefusedForAReason
  BY DEF Init, RefusedForAReason
<1> QED BY <1>1, <1>2, <1>3, <1>4, <1>5 DEF Collected, Typed

\* A failure keeps everything but the reason for it.
LEMMA FailingKeeps ==
  ASSUME Typed, UNCHANGED github, NEW why \in Causes \ {"none"}, FailWith(why),
         seen' \in [Endpoints -> History],
         \A e \in Endpoints : seen'[e].first \in Seq(Item(e)) /\ seen'[e].kept \subseteq Item(e)
  PROVE  Typed' /\ Course' /\ Whole' /\ Yielded'
<1>1. TypeOK'
  <2>1. \A e \in Endpoints : lists'[e] \in Seq(Item(e)) /\ Distinct(lists'[e])
    BY DEF github, Typed, TypeOK
  <2>2. asked' \subseteq Nat /\ Cardinality(asked') <= MaxPages
    BY FS_EmptySet, PagesArePositive DEF FailWith
  <2>3. \A e \in Endpoints :
         {seen'[e].removed, seen'[e].added, seen'[e].edited, seen'[e].misled} \subseteq BOOLEAN
    BY DEF History
  <2>4. changes' \in 0..MaxChanges /\ pc' = "failed" /\ at' \in 1..4
    BY DEF FailWith, github, Typed, TypeOK
  <2>5. /\ url' \in Nat \cup {None} /\ expected' \in Nat \cup {None}
        /\ items' \in Seq(Item(Order[at']))
    BY DEF FailWith
  <2>6. /\ \A e \in Endpoints : evidence'[e] \subseteq Item(e)
        /\ checks' \subseteq CheckFact /\ cause' \in Causes \ {"none"}
    BY DEF FailWith
  <2> QED BY <2>1, <2>2, <2>3, <2>4, <2>5, <2>6 DEF TypeOK
<1>2. Shaped'
  <2>1. /\ lists' = [e \in Endpoints |-> lists'[e]]
        /\ \A e \in Endpoints : \A i \in DOMAIN lists'[e] : lists'[e][i].id <= Known + changes'
    BY DEF github, Typed, Shaped
  <2>2. /\ evidence' = [e \in Endpoints |-> evidence'[e]] /\ \A e \in Endpoints : evidence'[e] = {}
        /\ items' = <<>> /\ DOMAIN items' = {} /\ asked' = {} /\ IsFiniteSet(asked')
        /\ url' = 0 /\ expected' = None /\ pc' = "failed"
    BY FS_EmptySet DEF FailWith
  <2> QED BY <2>1, <2>2 DEF Shaped
<1>3. Course' /\ Whole'
  BY DEF FailWith, Course, OnCourse, Whole
<1>4. Yielded'
  BY DEF FailWith, Yielded, OneVersion, NothingMissed, QuietIsExact, Enumerated
<1> QED BY <1>1, <1>2, <1>3, <1>4 DEF Typed

LEMMA HistoriesStay ==
  ASSUME Typed, UNCHANGED seen
  PROVE  /\ seen' \in [Endpoints -> History]
         /\ \A e \in Endpoints : seen'[e].first \in Seq(Item(e)) /\ seen'[e].kept \subseteq Item(e)
  BY DEF Typed, TypeOK, Shaped

LEMMA FailKeeps ==
  ASSUME Collected, Fail
  PROVE  Collected'
<1>1. FailWith("error") /\ "error" \in Causes \ {"none"} /\ UNCHANGED <<github, seen>>
  BY DEF Fail, Causes
<1>2. Typed' /\ Course' /\ Whole' /\ Yielded'
  BY <1>1, FailingKeeps, HistoriesStay DEF Collected
<1>3. RefusedForAReason'
  BY <1>1 DEF FailWith, RefusedForAReason
<1> QED BY <1>2, <1>3 DEF Collected

LEMMA BeginKeeps ==
  ASSUME Collected, Begin
  PROVE  Collected'
<1>1. /\ pc = "start" /\ pc' = "page" /\ at = 1 /\ asked = {}
      /\ UNCHANGED <<lists, changes, at, url, asked, expected, items, evidence, checks, cause, seen>>
  BY DEF Begin, github, page, Collected, Typed, Shaped
<1>2. Typed'
  BY <1>1 DEF Collected, Typed, TypeOK, Shaped, Distinct, Active, Fresh
<1>3. Course' /\ Whole' /\ RefusedForAReason'
  BY <1>1 DEF Course, OnCourse, Whole, RefusedForAReason
<1>4. \A e \in Endpoints : ~Enumerated(e)'
  BY <1>1 DEF Enumerated
<1>5. Yielded'
  BY <1>1, <1>4 DEF Collected, Yielded, OneVersion, NothingMissed, QuietIsExact, Endpoints
<1> QED BY <1>2, <1>3, <1>5 DEF Collected

LEMMA DeliverKeeps ==
  ASSUME Collected, Deliver
  PROVE  Collected'
<1>1. /\ pc = "facts" /\ pc' = "done"
      /\ UNCHANGED <<lists, changes, at, url, asked, expected, items, evidence, checks, cause, seen>>
  BY DEF Deliver, github, page
<1>2. Typed'
  BY <1>1 DEF Collected, Typed, TypeOK, Shaped, Distinct, Active
<1>3. Course' /\ RefusedForAReason'
  BY <1>1 DEF Course, OnCourse, RefusedForAReason
<1>4. Whole'
  BY <1>1 DEF Collected, Whole, EvidenceIds
<1>5. \A e \in Endpoints : Enumerated(e)
  BY <1>1 DEF Enumerated
<1>6. Yielded'
  BY <1>1, <1>5 DEF Collected, Yielded, OneVersion, NothingMissed, QuietIsExact, Endpoints,
                    ObservedChecks, MissingChecks
<1> QED BY <1>2, <1>3, <1>4, <1>6 DEF Collected

LEMMA Monotone ==
  ASSUME NEW m \in Nat, NEW n \in Nat, m <= n
  PROVE  m * PerPage <= n * PerPage
<1> DEFINE k == n - m
<1>1. k \in Nat /\ n = m + k /\ PerPage \in Nat
  BY PagesArePositive
<1> HIDE DEF k
<1>2. (m + k) * PerPage = m * PerPage + k * PerPage /\ k * PerPage >= 0
      /\ m * PerPage \in Nat /\ k * PerPage \in Nat
  BY <1>1
<1> QED BY <1>1, <1>2

LEMMA RefuseKeeps ==
  ASSUME Collected, RefuseRequest
  PROVE  Collected'
<1>1. /\ pc = "page" /\ url # None /\ Exhausted # "none" /\ FailWith(Exhausted)
      /\ UNCHANGED <<github, seen>>
  BY DEF RefuseRequest
<1>2. Exhausted \in Causes \ {"none"}
  BY <1>1 DEF Exhausted, Causes
<1>3. Typed' /\ Course' /\ Whole' /\ Yielded'
  BY <1>1, <1>2, FailingKeeps, HistoriesStay DEF Collected
<1>4. Now' = Now /\ seen' = seen /\ cause' = Exhausted
  BY <1>1 DEF FailWith, Now
<1>5. asked # {}
  <2>1. SUFFICES ASSUME asked = {} PROVE FALSE
    OBVIOUS
  <2>2. Cardinality(asked) = 0
    BY <2>1, FS_EmptySet
  <2>3. ~(Cardinality(asked) + 1 > MaxPages)
    BY <2>2, PagesArePositive
  <2> QED BY <1>1, <2>1, <2>3 DEF Exhausted
<1>6. ASSUME ~seen[Now].misled
      PROVE  Exhausted = "limit"
             /\ (seen[Now].added \/ Len(seen[Now].first) > MaxPages * PerPage)
  <2>1. OnCourse
    BY <1>1, <1>5, <1>6 DEF OnCourse
  <2>2. Paged /\ Sized /\ Typed
    BY <2>1 DEF Collected, Course
  <2>3. Served \in Nat /\ Until \in Nat
    BY <2>2, ServedIsNumber
  <2>4. url \notin asked
    <3>1. url = Served + 1 /\ \A u \in asked : u <= Served
      BY <1>1, <2>2 DEF Paged
    <3> QED BY <2>3, <3>1
  <2>5. Exhausted = "limit" /\ Served + 1 > MaxPages
    BY <1>1, <2>4 DEF Exhausted, Served
  <2>6. MaxPages * PerPage <= Until
    BY <2>3, <2>5, PagesArePositive, Monotone DEF Until
  <2>7. ASSUME ~seen[Now].added
        PROVE  Len(seen[Now].first) > MaxPages * PerPage
    <3>1. Until < Len(seen[Now].first)
      BY <1>1, <2>2, <2>7 DEF Sized
    <3>2. Len(seen[Now].first) \in Nat /\ MaxPages * PerPage \in Nat
      <4>1. seen[Now].first \in Seq(Item(Now))
        BY <2>2, ServedIsNumber DEF Typed, TypeOK
      <4> QED BY <4>1, PagesArePositive, ElementsOfSequence
    <3> QED BY <2>3, <2>6, <3>1, <3>2
  <2> QED BY <2>5, <2>7
<1>7. RefusedForAReason'
  BY <1>4, <1>6 DEF RefusedForAReason
<1> QED BY <1>3, <1>7 DEF Collected

LEMMA IncompleteKeeps ==
  ASSUME Collected, IncompleteList
  PROVE  Collected'
<1>0. pc = "page" /\ url = None
  BY DEF IncompleteList
<1>1. /\ pc = "page" /\ url = None /\ (~TotalReached \/ Conflicting(items))
      /\ FailWith(IF ~TotalReached THEN "total" ELSE "conflict")
      /\ UNCHANGED <<github, seen>>
  BY DEF IncompleteList
<1> DEFINE why == IF ~TotalReached THEN "total" ELSE "conflict"
<1>2. why \in Causes \ {"none"}
  BY DEF Causes
<1>3. Typed' /\ Course' /\ Whole' /\ Yielded'
  BY <1>1, <1>2, FailingKeeps, HistoriesStay DEF Collected
<1>4. Now' = Now /\ seen' = seen /\ cause' = why
  BY <1>1 DEF FailWith, Now
<1>5. asked # {}
  BY <1>0, LinksAreDistinct DEF Collected, Typed, Shaped
<1>6. ASSUME ~seen[Now].misled
      PROVE  Counted /\ Uniform /\ Aligned
  BY <1>0, <1>5, <1>6 DEF Collected, Course, OnCourse
<1>7. ASSUME ~seen[Now].misled, ~TotalReached
      PROVE  seen[Now].added
  BY <1>0, <1>6, <1>7 DEF Counted, TotalReached
<1>8. ASSUME ~seen[Now].misled, TotalReached
      PROVE  seen[Now].edited /\ (seen[Now].added \/ seen[Now].removed)
  BY <1>1, <1>6, <1>8 DEF Uniform, Aligned, Conflicting, Distinct
<1>9. RefusedForAReason'
  <2>1. CASE seen[Now].misled
    BY <1>4, <2>1 DEF RefusedForAReason
  <2>2. CASE ~seen[Now].misled /\ ~TotalReached
    BY <1>4, <1>7, <2>2 DEF RefusedForAReason
  <2>3. CASE ~seen[Now].misled /\ TotalReached
    BY <1>4, <1>8, <2>3 DEF RefusedForAReason
  <2> QED BY <2>1, <2>2, <2>3
<1> QED BY <1>3, <1>9 DEF Collected

LEMMA CloseKeepsTypes ==
  ASSUME Typed, CloseList
  PROVE  Typed' /\ asked' = {} /\ Until' = 0 /\ ToSet(items) \subseteq Item(Now)
<1>1. /\ pc = "page" /\ evidence' = [evidence EXCEPT ![Now] = ToSet(items)]
      /\ url' = 0 /\ asked' = {} /\ expected' = None /\ items' = <<>>
      /\ UNCHANGED <<lists, changes, cause, seen>>
  BY DEF CloseList, github
<1>2. /\ at < 4 => at' = at + 1 /\ pc' = "page"
      /\ ~(at < 4) => at' = at /\ pc' = "facts"
  BY DEF CloseList, Order
<1>3. at \in 1..4 /\ Now \in Endpoints /\ items \in Seq(Item(Now))
  BY ServedIsNumber DEF Typed, TypeOK, Now
<1>4. at' \in 1..4 /\ pc' \in {"page", "facts"} /\ (pc' = "facts" => at' = 4)
  BY <1>2, <1>3
<1>5. ToSet(items) \subseteq Item(Now)
  BY <1>3, ElementsOfSequence
<1>6. evidence' = [e \in Endpoints |-> evidence'[e]]
      /\ evidence'["checks"] \subseteq Item("checks")
      /\ \A e \in Endpoints : evidence'[e] = IF e = Now THEN ToSet(items) ELSE evidence[e]
  BY <1>1, <1>3, <1>5 DEF Typed, Shaped, TypeOK, Endpoints
<1>7. \A e \in Endpoints : evidence'[e] \subseteq Item(e)
  BY <1>5, <1>6 DEF Typed, TypeOK
<1>8. checks' \subseteq CheckFact
  <2>1. CASE Now # "checks"
    BY <2>1 DEF CloseList, Typed, TypeOK
  <2>2. CASE Now = "checks"
    <3>1. checks' = ObservedChecks(ToSet(items)) \cup MissingChecks(ToSet(items))
      BY <2>2 DEF CloseList
    <3>2. \A r \in ToSet(items) : r.label \in Names /\ r.state \in States
      BY <1>5, <2>2 DEF Item
    <3>3. ASSUME NEW r \in ToSet(items)
          PROVE  [name |-> r.label, required |-> Required = {} \/ r.label \in Required,
                  state |-> r.state] \in CheckFact
      <4> DEFINE b == Required = {} \/ r.label \in Required
      <4>1. b \in BOOLEAN
        OBVIOUS
      <4> HIDE DEF b
      <4>2. [name |-> r.label, required |-> b, state |-> r.state] \in CheckFact
        BY <3>2, <4>1 DEF CheckFact
      <4> QED BY <4>2 DEF b
    <3>4. ObservedChecks(ToSet(items)) \subseteq CheckFact
      BY <3>3 DEF ObservedChecks
    <3>5. MissingChecks(ToSet(items)) \subseteq CheckFact
      <4>1. ASSUME NEW n \in Names
            PROVE  [name |-> n, required |-> TRUE, state |-> "missing"] \in CheckFact
        BY DEF CheckFact
      <4> QED BY <4>1, RequiredAreNames DEF MissingChecks
    <3> QED BY <3>1, <3>4, <3>5
  <2> QED BY <2>1, <2>2
<1>9. \A e \in Endpoints : \A r \in evidence'[e] : r.id <= Known + changes
  <2>1. \A r \in ToSet(items) : r.id <= Known + changes
    BY <1>3 DEF ToSet, Typed, Shaped
  <2> QED BY <1>6, <2>1 DEF Typed, Shaped
<1>10. IsFiniteSet(asked') /\ Cardinality(asked') = 0
  BY <1>1, FS_EmptySet
<1>11. DOMAIN items' = {} /\ items' \in Seq(Item(Order[at']))
  BY <1>1, NothingListed
<1>12. TypeOK'
  BY <1>1, <1>4, <1>7, <1>8, <1>10, <1>11, PagesArePositive
     DEF Typed, TypeOK, Distinct, Active, Causes
<1>13. Shaped'
  BY <1>1, <1>4, <1>6, <1>9, <1>10, <1>11 DEF Typed, Shaped
<1> QED BY <1>1, <1>5, <1>10, <1>12, <1>13, PagesArePositive DEF Typed, Until, Served

LEMMA CloseKeepsYielded ==
  ASSUME Typed, Course, Yielded, CloseList
  PROVE  Yielded'
<1>1. /\ pc = "page" /\ url = None /\ TotalReached /\ ~Conflicting(items)
      /\ evidence' = [evidence EXCEPT ![Now] = ToSet(items)] /\ seen' = seen
  BY DEF CloseList
<1>2. Now \in Endpoints /\ asked # {}
  BY <1>1, ServedIsNumber, LinksAreDistinct DEF Typed, Shaped
<1>3. \A e \in Endpoints : evidence'[e] = IF e = Now THEN ToSet(items) ELSE evidence[e]
  BY <1>1, <1>2 DEF Typed, Shaped
<1>4. ASSUME NEW e \in Endpoints, e # Now, Enumerated(e)'
      PROVE  Enumerated(e)
  <2>1. /\ at < 4 => at' = at + 1 /\ pc' = "page"
        /\ ~(at < 4) => at' = at /\ pc' = "facts"
    BY <1>1 DEF CloseList, Order
  <2>2. at \in 1..4
    BY DEF Typed, TypeOK
  <2>3. CASE at < 4
    <3>1. PICK i \in 1..at : e = Order[i]
      BY <1>4, <2>1, <2>2, <2>3 DEF Enumerated
    <3>2. i \in 1..(at - 1)
      BY <1>4, <2>2, <3>1 DEF Now
    <3> QED BY <1>1, <3>1, <3>2 DEF Enumerated
  <2>4. CASE at = 4
    <3>1. e \in {Order[1], Order[2], Order[3]}
      BY <1>4, <2>4 DEF Endpoints, Now, Order
    <3>2. PICK i \in 1..3 : e = Order[i]
      BY <3>1
    <3> QED BY <1>1, <2>4, <3>2 DEF Enumerated
  <2> QED BY <2>2, <2>3, <2>4
<1>5. OneVersion'
  <2>1. ASSUME NEW r \in ToSet(items), NEW q \in ToSet(items), r.id = q.id
        PROVE  r = q
    BY <1>1, <2>1 DEF ToSet, Conflicting
  <2> QED BY <1>3, <2>1 DEF Yielded, OneVersion
<1>6. ASSUME ~seen[Now].misled
      PROVE  /\ \/ seen[Now].removed /\ (Now = "checks" => seen[Now].added)
                \/ seen[Now].kept \subseteq ToSet(items)
             /\ ~seen[Now].added /\ ~seen[Now].removed /\ ~seen[Now].edited
                  => ToSet(items) = ToSet(seen[Now].first)
  <2>1. Counted /\ Caught /\ Still
    BY <1>1, <1>2, <1>6 DEF Course, OnCourse
  <2>2. \/ seen[Now].removed /\ (Now = "checks" => seen[Now].added)
        \/ ~seen[Now].removed
    BY <1>1, <2>1 DEF Counted
  <2>3. ~seen[Now].removed => seen[Now].kept \subseteq ToSet(items)
    BY <1>1, <2>1 DEF Caught
  <2>4. ~seen[Now].added /\ ~seen[Now].removed /\ ~seen[Now].edited =>
          ToSet(items) = ToSet(seen[Now].first)
    BY <2>1, <2>3 DEF Still
  <2> QED BY <2>2, <2>3, <2>4
<1>7. NothingMissed'
  <2> SUFFICES ASSUME NEW e \in Endpoints, Enumerated(e)', ~seen[e].misled,
                      ~(seen[e].removed /\ (e = "checks" => seen[e].added))
               PROVE  seen[e].kept \subseteq evidence'[e]
    BY <1>1 DEF NothingMissed
  <2>1. CASE e = Now
    BY <1>3, <1>6, <2>1
  <2>2. CASE e # Now
    BY <1>3, <1>4, <2>2 DEF Yielded, NothingMissed
  <2> QED BY <2>1, <2>2
<1>8. QuietIsExact'
  <2> SUFFICES ASSUME NEW e \in Endpoints, Enumerated(e)', ~seen[e].misled,
                      ~seen[e].added, ~seen[e].removed, ~seen[e].edited
               PROVE  evidence'[e] = ToSet(seen[e].first)
    BY <1>1 DEF QuietIsExact
  <2>1. CASE e = Now
    BY <1>3, <1>6, <2>1
  <2>2. CASE e # Now
    BY <1>3, <1>4, <2>2 DEF Yielded, QuietIsExact
  <2> QED BY <2>1, <2>2
<1>9. Enumerated("checks")' =>
        checks' = ObservedChecks(evidence'["checks"]) \cup MissingChecks(evidence'["checks"])
  <2>1. "checks" \in Endpoints
    BY DEF Endpoints
  <2>2. CASE Now = "checks"
    <3>1. checks' = ObservedChecks(ToSet(items)) \cup MissingChecks(ToSet(items))
      BY <2>2 DEF CloseList
    <3> QED BY <1>3, <2>1, <2>2, <3>1
  <2>3. CASE Now # "checks"
    <3>1. checks' = checks
      BY <2>3 DEF CloseList
    <3> QED BY <1>3, <1>4, <2>1, <2>3, <3>1 DEF Yielded
  <2> QED BY <2>2, <2>3
<1> QED BY <1>5, <1>7, <1>8, <1>9 DEF Yielded, ObservedChecks, MissingChecks

LEMMA CloseKeepsWhole ==
  ASSUME Typed, Whole, CloseList
  PROVE  Whole'
<1>1. /\ pc = "page" /\ url = None /\ url' = 0
      /\ evidence' = [evidence EXCEPT ![Now] = ToSet(items)]
      /\ UNCHANGED <<lists, seen>>
  BY DEF CloseList, github
<1>2. /\ at < 4 => at' = at + 1 /\ pc' = "page"
      /\ ~(at < 4) => at' = at /\ pc' = "facts"
  BY <1>1 DEF CloseList, Order
<1>3. at \in 1..4 /\ "inline" \in Endpoints
  BY DEF Typed, TypeOK, Endpoints
<1>4. CASE at < 4
  <2>1. pc' = "page" /\ url' # None /\ Until' = 0
    BY <1>1, <1>2, <1>4, CloseKeepsTypes, LinksAreDistinct
  <2>2. \A i \in DOMAIN lists["inline"] : i > 0
    BY <1>3, ServedIsNumber
  <2> QED BY <1>1, <2>1, <2>2 DEF Whole
<1>5. CASE at = 4
  <2>1. pc' = "facts" /\ Now = "inline"
    BY <1>2, <1>5 DEF Now, Order
  <2>2. evidence'["inline"] = ToSet(items) /\ evidence'["review"] = evidence["review"]
    BY <1>1, <2>1 DEF Typed, Shaped, Endpoints
  <2>3. ASSUME ~seen["inline"].misled, ~seen["inline"].removed,
               NEW i \in DOMAIN lists["inline"],
               lists["inline"][i].label \in EvidenceIds("review")
        PROVE  \E r \in ToSet(items) : r.id = lists["inline"][i].id
    BY <1>1, <1>5, <2>3 DEF Whole
  <2> QED BY <1>1, <2>1, <2>2, <2>3 DEF Whole, EvidenceIds
<1> QED BY <1>3, <1>4, <1>5

LEMMA CloseKeeps ==
  ASSUME Collected, CloseList
  PROVE  Collected'
<1>1. Typed' /\ asked' = {}
  BY CloseKeepsTypes DEF Collected
<1>2. Course'
  BY <1>1 DEF Course, OnCourse
<1>3. RefusedForAReason'
  BY DEF CloseList, RefusedForAReason
<1> QED BY <1>1, <1>2, <1>3, CloseKeepsYielded, CloseKeepsWhole DEF Collected

\* Page p of list e has been asked for and followed by link l.
Fetched(l) ==
  /\ pc = "page" /\ url # None /\ Exhausted = "none" /\ l \in Links(Now, PageOf(url))
  /\ seen' = Asked(Now, l)
  /\ UNCHANGED github

\* It was accepted.
Accepted(l) ==
  /\ Fetched(l) /\ l # Elsewhere /\ TotalAgrees(Now, Len(lists[Now]))
  /\ items' = items \o OnPage(Now, PageOf(url))
  /\ asked' = asked \cup {url}
  /\ url' = l
  /\ expected' = IF Now = "checks" /\ expected = None THEN Len(lists[Now]) ELSE expected
  /\ UNCHANGED <<pc, at, evidence, checks, cause>>

LEMMA FetchCases ==
  ASSUME FetchPage
  PROVE  \E l \in Links(Now, PageOf(url)) :
           /\ Fetched(l)
           /\ \/ l = Elsewhere /\ FailWith("endpoint")
              \/ ~TotalAgrees(Now, Len(lists[Now])) /\ FailWith("total")
              \/ Accepted(l)
<1> PICK l \in Links(Now, PageOf(url)) :
       /\ seen' = Asked(Now, l)
       /\ IF l = Elsewhere THEN FailWith("endpoint")
          ELSE IF ~TotalAgrees(Now, Len(lists[Now])) THEN FailWith("total")
          ELSE /\ items' = Gathered(OnPage(Now, PageOf(url)))
               /\ asked' = asked \cup {url}
               /\ url' = l
               /\ expected' = IF Now = "checks" /\ expected = None
                                THEN Len(lists[Now]) ELSE expected
               /\ UNCHANGED <<pc, at, evidence, checks, cause>>
  BY DEF FetchPage
<1>1. Fetched(l)
  BY DEF FetchPage, Fetched
<1>2. CASE l = Elsewhere
  BY <1>1, <1>2
<1>3. CASE l # Elsewhere /\ ~TotalAgrees(Now, Len(lists[Now]))
  BY <1>1, <1>3
<1>4. CASE l # Elsewhere /\ TotalAgrees(Now, Len(lists[Now]))
  <2>1. Accepted(l)
    BY <1>1, <1>4 DEF Accepted, Gathered
  <2> QED BY <1>1, <2>1
<1> QED BY <1>2, <1>3, <1>4

\* The history once the page has been asked for.
LEMMA FetchedHistory ==
  ASSUME Typed, NEW l, Fetched(l)
  PROVE  /\ seen' \in [Endpoints -> History]
         /\ \A e \in Endpoints : seen'[e].first \in Seq(Item(e)) /\ seen'[e].kept \subseteq Item(e)
         /\ \A e \in Endpoints \ {Now} : seen'[e] = seen[e]
         /\ asked # {} =>
              /\ seen'[Now].first = seen[Now].first /\ seen'[Now].kept = seen[Now].kept
              /\ seen'[Now].added = seen[Now].added /\ seen'[Now].removed = seen[Now].removed
              /\ seen'[Now].edited = seen[Now].edited
              /\ seen[Now].misled => seen'[Now].misled
         /\ asked = {} =>
              /\ seen'[Now].first = lists[Now] /\ seen'[Now].kept = ToSet(lists[Now])
              /\ ~seen'[Now].added /\ ~seen'[Now].removed /\ ~seen'[Now].edited
         /\ ~seen'[Now].misled => l = RightLink(Now, PageOf(url))
<1> DEFINE s == IF asked = {} THEN [Unseen EXCEPT !.first = lists[Now], !.kept = ToSet(lists[Now])]
                ELSE seen[Now]
<1> DEFINE m == s.misled \/ l # RightLink(Now, PageOf(url))
<1>1. Now \in Endpoints /\ seen \in [Endpoints -> History]
  BY ServedIsNumber DEF Typed, Shaped
<1>2. seen' = [seen EXCEPT ![Now] = [s EXCEPT !.misled = m]]
  BY DEF Fetched, Asked
<1>3. lists[Now] \in Seq(Item(Now)) /\ ToSet(lists[Now]) \subseteq Item(Now)
      /\ Item(Now) \subseteq AnyItem
  BY <1>1, TypedLists, ElementsOfSequence DEF AnyItem
<1>4. lists[Now] \in Seq(AnyItem) /\ ToSet(lists[Now]) \subseteq AnyItem
  BY <1>3
<1>5. asked = {} =>
        s = [first |-> lists[Now], kept |-> ToSet(lists[Now]), removed |-> FALSE,
             added |-> FALSE, edited |-> FALSE, misled |-> FALSE]
  BY DEF Unseen
<1>6. s \in History
  <2>1. CASE asked = {}
    BY <1>4, <1>5, <2>1 DEF History
  <2>2. CASE asked # {}
    BY <1>1, <2>2
  <2> QED BY <2>1, <2>2
<1>7. m \in BOOLEAN
  <2> HIDE DEF s
  <2>1. s.misled \in BOOLEAN
    BY <1>6 DEF History
  <2> QED BY <2>1
<1>8. s.first \in Seq(Item(Now)) /\ s.kept \subseteq Item(Now)
  <2>1. CASE asked = {}
    BY <1>3, <1>5, <2>1
  <2>2. CASE asked # {}
    BY <1>1, <2>2 DEF Typed, TypeOK
  <2> QED BY <2>1, <2>2
<1>9. (m => s.misled \/ l # RightLink(Now, PageOf(url))) /\ (s.misled => m)
      /\ (~m => l = RightLink(Now, PageOf(url)))
  OBVIOUS
<1> DEFINE z == [s EXCEPT !.misled = m]
<1>10. asked # {} => s = seen[Now]
  OBVIOUS
<1> HIDE DEF m, s
<1>11. /\ z \in History /\ z.first = s.first /\ z.kept = s.kept /\ z.removed = s.removed
       /\ z.added = s.added /\ z.edited = s.edited /\ z.misled = m
  BY <1>6, <1>7 DEF History
<1>12. seen' = [seen EXCEPT ![Now] = z]
  BY <1>2
<1> HIDE DEF z
<1>13. seen' \in [Endpoints -> History] /\ seen'[Now] = z
       /\ \A e \in Endpoints \ {Now} : seen'[e] = seen[e]
  BY <1>1, <1>11, <1>12
<1>14. \A e \in Endpoints : seen'[e].first \in Seq(Item(e)) /\ seen'[e].kept \subseteq Item(e)
  <2> TAKE e \in Endpoints
  <2>1. CASE e = Now
    BY <1>8, <1>11, <1>13, <2>1
  <2>2. CASE e # Now
    BY <1>13, <2>2 DEF Typed, TypeOK
  <2> QED BY <2>1, <2>2
<1>15. asked # {} =>
              /\ seen'[Now].first = seen[Now].first /\ seen'[Now].kept = seen[Now].kept
              /\ seen'[Now].added = seen[Now].added /\ seen'[Now].removed = seen[Now].removed
              /\ seen'[Now].edited = seen[Now].edited
              /\ seen[Now].misled => seen'[Now].misled
  BY <1>9, <1>10, <1>11, <1>13
<1>16. asked = {} =>
              /\ seen'[Now].first = lists[Now] /\ seen'[Now].kept = ToSet(lists[Now])
              /\ ~seen'[Now].added /\ ~seen'[Now].removed /\ ~seen'[Now].edited
  BY <1>5, <1>11, <1>13
<1>17. ~seen'[Now].misled => l = RightLink(Now, PageOf(url))
  BY <1>9, <1>11, <1>13
<1> QED BY <1>13, <1>14, <1>15, <1>16, <1>17

LEMMA FailedFetchKeeps ==
  ASSUME Collected, NEW l, Fetched(l),
         \/ l = Elsewhere /\ FailWith("endpoint")
         \/ ~TotalAgrees(Now, Len(lists[Now])) /\ FailWith("total")
  PROVE  Collected'
<1>1. Typed /\ Course /\ UNCHANGED github /\ pc = "page" /\ url # None
  BY DEF Collected, Fetched
<1>2. /\ seen' \in [Endpoints -> History]
      /\ \A e \in Endpoints : seen'[e].first \in Seq(Item(e)) /\ seen'[e].kept \subseteq Item(e)
  BY <1>1, FetchedHistory
<1>3. CASE l = Elsewhere /\ FailWith("endpoint")
  <2>1. Typed' /\ Course' /\ Whole' /\ Yielded'
    BY <1>1, <1>2, <1>3, FailingKeeps DEF Causes
  <2>2. l # RightLink(Now, PageOf(url))
    <3>1. PageOf(url) \in Nat
      BY <1>1 DEF PageOf, Typed, TypeOK
    <3> QED BY <3>1, <1>3, LinksAreDistinct DEF RightLink
  <2>3. seen'[Now].misled
    BY <1>1, <2>2, FetchedHistory
  <2>4. RefusedForAReason'
    BY <1>3, <2>3 DEF FailWith, RefusedForAReason, Now
  <2> QED BY <2>1, <2>4 DEF Collected
<1>4. CASE ~TotalAgrees(Now, Len(lists[Now])) /\ FailWith("total")
  <2>1. Typed' /\ Course' /\ Whole' /\ Yielded'
    BY <1>1, <1>2, <1>4, FailingKeeps DEF Causes
  <2>2. Now = "checks" /\ expected # None /\ Len(lists[Now]) # expected /\ asked # {}
    BY <1>1, <1>4 DEF TotalAgrees, Typed, Shaped
  <2>3. ASSUME ~seen'[Now].misled
        PROVE  seen'[Now].added \/ seen'[Now].removed
    <3>1. OnCourse
      BY <1>1, <2>2, <2>3, FetchedHistory DEF OnCourse
    <3>2. seen[Now].added \/ seen[Now].removed
      BY <1>1, <2>2, <3>1 DEF Course, Counted
    <3> QED BY <1>1, <2>2, <3>2, FetchedHistory
  <2>4. Now' = Now /\ cause' = "total"
    BY <1>4 DEF FailWith, Now
  <2>5. RefusedForAReason'
    BY <2>3, <2>4 DEF RefusedForAReason
  <2> QED BY <2>1, <2>5 DEF Collected
<1> QED BY <1>3, <1>4

LEMMA AcceptedKeepsTypes ==
  ASSUME Typed, NEW l, Accepted(l)
  PROVE  /\ Typed' /\ Served' = Served + 1 /\ Until' = Until + PerPage /\ Now' = Now
         /\ OnPage(Now, PageOf(url)) \in Seq(Item(Now))
<1>1. /\ pc = "page" /\ url # None /\ Exhausted = "none" /\ Fetched(l)
      /\ UNCHANGED <<lists, changes, pc, at, evidence, checks, cause>>
      /\ asked' = asked \cup {url} /\ url' = l /\ l # Elsewhere
      /\ items' = items \o OnPage(Now, PageOf(url))
  BY DEF Accepted, Fetched, github
<1>2. /\ url \in Nat /\ asked \subseteq Nat /\ IsFiniteSet(asked) /\ items \in Seq(Item(Now))
      /\ Now \in Endpoints /\ lists[Now] \in Seq(Item(Now)) /\ Len(lists[Now]) \in Nat
  BY <1>1, ServedIsNumber DEF Typed, TypeOK, Shaped, Now
<1>3. PageOf(url) \in Nat /\ PageOf(url) - 1 \in Nat /\ PageOf(url) = (PageOf(url) - 1) + 1
  BY <1>2 DEF PageOf
<1>4. /\ OnPage(Now, PageOf(url)) \in Seq(Item(Now))
      /\ \A i \in DOMAIN OnPage(Now, PageOf(url)) :
           \E j \in DOMAIN lists[Now] : OnPage(Now, PageOf(url))[i] = lists[Now][j]
  <2> DEFINE q == PageOf(url) - 1
  <2>1. q \in Nat /\ PageOf(url) = q + 1
    BY <1>3
  <2> HIDE DEF q
  <2>2. /\ OnPage(Now, q + 1) \in Seq(Item(Now))
        /\ \A i \in DOMAIN OnPage(Now, q + 1) :
             /\ q * PerPage + i \in DOMAIN lists[Now]
             /\ OnPage(Now, q + 1)[i] = lists[Now][q * PerPage + i]
    BY <1>2, <2>1, PageHolds
  <2> QED BY <2>1, <2>2
<1>5. url \notin asked /\ Cardinality(asked) + 1 <= MaxPages
  <2>1. url \notin asked
    BY <1>1 DEF Exhausted
  <2>2. ~(Cardinality(asked) + 1 > MaxPages)
    BY <1>1, <2>1 DEF Exhausted
  <2> QED BY <2>1, <2>2, <1>2, FS_CardinalityType, PagesArePositive
<1>6. IsFiniteSet(asked') /\ Cardinality(asked') = Cardinality(asked) + 1 /\ asked' \subseteq Nat
  BY <1>1, <1>2, <1>5, FS_AddElement
<1>7. Served' = Served + 1 /\ Until' = Until + PerPage
  <2>1. Served' = Served + 1
    BY <1>6 DEF Served
  <2>2. (Served + 1) * PerPage = Served * PerPage + PerPage
    BY ServedIsNumber, PagesArePositive
  <2> QED BY <2>1, <2>2 DEF Until
<1>8. url' \in Nat \cup {None}
  <2>1. RightLink(Now, PageOf(url)) \in Nat \cup {None}
    BY <1>3 DEF RightLink
  <2>2. Pages \subseteq Nat
    BY DEF Pages
  <2> QED BY <1>1, <2>1, <2>2 DEF Fetched, Links
<1>9. expected' \in Nat \cup {None}
  BY <1>2 DEF Accepted, Typed, TypeOK
<1>10. items' \in Seq(Item(Order[at']))
       /\ \A i \in DOMAIN items' : items'[i].id <= Known + changes
  <2>1. items' \in Seq(Item(Now)) /\ Len(items) \in Nat
        /\ Len(items') = Len(items) + Len(OnPage(Now, PageOf(url)))
        /\ \A j \in DOMAIN items' :
             items'[j] = IF j <= Len(items) THEN items[j]
                         ELSE OnPage(Now, PageOf(url))[j - Len(items)]
    BY <1>1, <1>2, <1>4, Concatenation, ElementsOfSequence
  <2>2. Now' = Now /\ DOMAIN items = 1..Len(items)
        /\ DOMAIN items' = 1..Len(items')
        /\ DOMAIN OnPage(Now, PageOf(url)) = 1..Len(OnPage(Now, PageOf(url)))
        /\ Len(OnPage(Now, PageOf(url))) \in Nat
    BY <1>1, <1>2, <1>4, <2>1, ElementsOfSequence DEF Now
  <2>3. ASSUME NEW j \in DOMAIN items'
        PROVE  items'[j].id <= Known + changes
    <3>1. CASE j <= Len(items)
      <4>1. j \in DOMAIN items /\ items'[j] = items[j]
        BY <2>1, <2>2, <3>1
      <4> QED BY <4>1 DEF Typed, Shaped
    <3>2. CASE ~(j <= Len(items))
      <4> DEFINE k == j - Len(items)
      <4>1. k \in 1..Len(OnPage(Now, PageOf(url))) /\ items'[j] = OnPage(Now, PageOf(url))[k]
        BY <2>1, <2>2, <3>2
      <4> HIDE DEF k
      <4> QED BY <1>2, <1>4, <2>2, <4>1 DEF Typed, Shaped
    <3> QED BY <3>1, <3>2
  <2> QED BY <2>1, <2>2, <2>3 DEF Now
<1>11. \A e \in Endpoints :
         {seen'[e].removed, seen'[e].added, seen'[e].edited, seen'[e].misled} \subseteq BOOLEAN
  BY <1>1, FetchedHistory DEF History
<1>12. TypeOK'
  BY <1>1, <1>5, <1>6, <1>8, <1>9, <1>10, <1>11, FetchedHistory DEF Typed, TypeOK, Distinct
<1>13. Shaped'
  BY <1>1, <1>6, <1>10, FetchedHistory DEF Typed, Shaped
<1> QED BY <1>1, <1>4, <1>7, <1>12, <1>13 DEF Typed, Now

\* The page asked for is the next one, and whatever the history says is true of
\* the list as it is now.
LEMMA NextPage ==
  ASSUME Typed, Course, NEW l, Fetched(l), ~seen'[Now].misled
  PROVE  /\ PageOf(url) = Served + 1 /\ url <= Served + 1 /\ l = RightLink(Now, Served + 1)
         /\ \A u \in asked : u <= Served
         /\ Len(items) = Until
         /\ asked # {} => OnCourse
<1>1. pc = "page" /\ url # None /\ url \in Nat /\ Served \in Nat
  BY ServedIsNumber DEF Fetched, Typed, TypeOK
<1>2. l = RightLink(Now, PageOf(url))
  BY FetchedHistory
<1>3. CASE asked = {}
  <2>1. url = 0 /\ items = <<>> /\ Served = 0 /\ Until = 0
    BY <1>3, ServedIsNumber DEF Typed, Shaped
  <2>2. Len(items) = 0
    BY <2>1, NothingListed
  <2> QED BY <1>2, <1>3, <2>1, <2>2 DEF PageOf
<1>4. CASE asked # {}
  <2>1. OnCourse
    BY <1>1, <1>4, FetchedHistory DEF OnCourse
  <2>2. url = Served + 1 /\ (\A u \in asked : u <= Served) /\ Len(items) = Until
    BY <1>1, <2>1 DEF Course, Paged
  <2> QED BY <1>1, <1>2, <2>1, <2>2 DEF PageOf
<1> QED BY <1>3, <1>4

LEMMA NextItems ==
  ASSUME Typed, Course, NEW l, Fetched(l), ~seen'[Now].misled
  PROVE  /\ ~seen'[Now].added   => Len(lists[Now]) <= Len(seen'[Now].first)
         /\ ~seen'[Now].removed => Until <= Len(lists[Now])
         /\ Now = "checks" /\ expected # None /\ ~seen'[Now].added /\ seen'[Now].removed
              => Len(lists[Now]) # expected
         /\ Now = "checks" /\ expected = None => ~seen'[Now].removed
         /\ ~seen'[Now].removed => \A r \in seen'[Now].kept :
              r \in ToSet(items) \/ \E j \in DOMAIN lists[Now] : j > Until /\ lists[Now][j] = r
         /\ ~seen'[Now].added /\ ~seen'[Now].removed /\ ~seen'[Now].edited =>
              /\ seen'[Now].kept = ToSet(seen'[Now].first)
              /\ ToSet(items) \subseteq ToSet(seen'[Now].first)
              /\ lists[Now] = seen'[Now].first
         /\ ~seen'[Now].edited =>
              /\ ~Conflicting(items)
              /\ \A i \in DOMAIN items : \A j \in DOMAIN lists[Now] :
                   items[i].id = lists[Now][j].id => items[i] = lists[Now][j]
         /\ ~seen'[Now].added /\ ~seen'[Now].removed =>
              \A i \in DOMAIN items : i \in DOMAIN lists[Now] /\ items[i].id = lists[Now][i].id
<1>1. /\ url # None /\ Until \in Nat /\ lists[Now] \in Seq(Item(Now))
      /\ Len(lists[Now]) \in Nat /\ DOMAIN lists[Now] = 1..Len(lists[Now])
  BY ServedIsNumber DEF Fetched
<1>2. CASE asked = {}
  <2>1. /\ seen'[Now].first = lists[Now] /\ seen'[Now].kept = ToSet(lists[Now])
        /\ ~seen'[Now].added /\ ~seen'[Now].removed /\ ~seen'[Now].edited
    BY <1>2, FetchedHistory
  <2>2. Until = 0 /\ items = <<>>
    BY <1>2, ServedIsNumber DEF Typed, Shaped
  <2>3. DOMAIN items = {} /\ ToSet(items) = {} /\ ~Conflicting(items)
    <3>1. DOMAIN items = {}
      BY <2>2, NothingListed
    <3> QED BY <3>1 DEF ToSet, Conflicting
  <2>4. \A r \in ToSet(lists[Now]) : \E j \in DOMAIN lists[Now] : j > 0 /\ lists[Now][j] = r
    BY <1>1 DEF ToSet
  <2>5. Until <= Len(lists[Now])
    BY <1>1, <2>2
  <2> QED BY <1>1, <2>1, <2>2, <2>3, <2>4, <2>5
<1>3. CASE asked # {}
  <2>1. OnCourse
    BY <1>3, NextPage
  <2>2. Sized /\ Counted /\ Caught /\ Still /\ Uniform /\ Aligned
    BY <2>1 DEF Course
  <2>3. /\ seen'[Now].first = seen[Now].first /\ seen'[Now].kept = seen[Now].kept
        /\ seen'[Now].added = seen[Now].added /\ seen'[Now].removed = seen[Now].removed
        /\ seen'[Now].edited = seen[Now].edited
    BY <1>3, FetchedHistory
  <2>4. ~seen[Now].added => Len(lists[Now]) <= Len(seen[Now].first)
    BY <1>1, <2>2 DEF Sized
  <2>5. ASSUME ~seen[Now].removed
        PROVE  Until <= Len(lists[Now])
    <3>1. Len(lists[Now]) > Until
      BY <1>1, <2>2, <2>5 DEF Sized
    <3> QED BY <1>1, <3>1
  <2>6. /\ Now = "checks" => expected # None
        /\ Now = "checks" /\ ~seen[Now].added /\ seen[Now].removed
             => Len(lists[Now]) # expected
    <3>1. SUFFICES ASSUME Now = "checks"
                   PROVE  /\ expected # None
                          /\ ~seen[Now].added /\ seen[Now].removed => Len(lists[Now]) # expected
      OBVIOUS
    <3>2. expected \in Nat
      BY <2>2, <3>1 DEF Counted
    <3>3. ASSUME ~seen[Now].added, seen[Now].removed
          PROVE  Len(lists[Now]) # expected
      <4>1. Len(lists[Now]) < expected
        BY <1>1, <2>2, <3>1, <3>3 DEF Counted
      <4> QED BY <1>1, <3>2, <4>1
    <3> QED BY <3>2, <3>3, LinksAreDistinct
  <2>7. ~seen[Now].removed => \A r \in seen[Now].kept :
          r \in ToSet(items) \/ \E j \in DOMAIN lists[Now] : j > Until /\ lists[Now][j] = r
    BY <2>2 DEF Caught
  <2>8. ~seen[Now].added /\ ~seen[Now].removed /\ ~seen[Now].edited =>
              /\ seen[Now].kept = ToSet(seen[Now].first)
              /\ ToSet(items) \subseteq ToSet(seen[Now].first)
              /\ lists[Now] = seen[Now].first
    BY <1>1, <2>2 DEF Still
  <2>9. ~seen[Now].edited =>
              /\ ~Conflicting(items)
              /\ \A i \in DOMAIN items : \A j \in DOMAIN lists[Now] :
                   items[i].id = lists[Now][j].id => items[i] = lists[Now][j]
    BY <1>1, <2>2 DEF Uniform
  <2>10. ~seen[Now].added /\ ~seen[Now].removed =>
              \A i \in DOMAIN items : i \in DOMAIN lists[Now] /\ items[i].id = lists[Now][i].id
    BY <1>1, <2>2 DEF Aligned
  <2> QED BY <2>3, <2>4, <2>5, <2>6, <2>7, <2>8, <2>9, <2>10, Zenon
<1> QED BY <1>2, <1>3

\* What the page adds to the items.
LEMMA PageJoins ==
  ASSUME Typed, Course, NEW l, Accepted(l), ~seen'[Now].misled
  PROVE  /\ url' = RightLink(Now, Served + 1)
         /\ url' # None <=> Until' < Len(lists[Now])
         /\ url' # None => url' = Served + 2 /\ Len(items') = Until'
         /\ Until <= Len(lists[Now]) /\ url' = None => Len(items') = Len(lists[Now])
         /\ DOMAIN items \subseteq DOMAIN items'
         /\ \A i \in DOMAIN items : items'[i] = items[i]
         /\ \A i \in DOMAIN items' \ DOMAIN items : i \in DOMAIN lists[Now] /\ items'[i] = lists[Now][i]
         /\ \A j \in DOMAIN lists[Now] :
              j > Until /\ ~(j > Until') => j \in DOMAIN items' /\ items'[j] = lists[Now][j]
<1> DEFINE content == OnPage(Now, Served + 1)
<1> DEFINE n == Len(lists[Now])
<1>1. /\ PageOf(url) = Served + 1 /\ l = RightLink(Now, Served + 1) /\ Len(items) = Until
  BY NextPage DEF Accepted
<1>2. /\ url' = l /\ items' = items \o content
  BY <1>1 DEF Accepted
<1>3. /\ Served \in Nat /\ Until \in Nat /\ n \in Nat /\ DOMAIN lists[Now] = 1..n
      /\ items \in Seq(Item(Now)) /\ lists[Now] \in Seq(Item(Now)) /\ Now \in Endpoints
  BY ServedIsNumber DEF Typed, TypeOK, Now
<1>4. /\ Served' = Served + 1 /\ Until' = Until + PerPage /\ Until = Served * PerPage
      /\ (Served + 1) * PerPage = Until + PerPage
  BY AcceptedKeepsTypes, <1>3, PagesArePositive DEF Until
<1>5. /\ content \in Seq(Item(Now))
      /\ \A i \in DOMAIN content : Until + i \in DOMAIN lists[Now] /\ content[i] = lists[Now][Until + i]
      /\ Len(content) = IF n <= Until THEN 0 ELSE IF Until + PerPage < n THEN PerPage ELSE n - Until
  BY <1>3, PageHolds DEF Until
<1>6. url' = IF Until + PerPage < n THEN Served + 2 ELSE None
  BY <1>1, <1>2, <1>3, <1>4 DEF RightLink
<1> HIDE DEF content
<1>7. /\ Len(content) \in Nat /\ DOMAIN content = 1..Len(content)
      /\ Len(items') = Until + Len(content) /\ items' \in Seq(Item(Now))
      /\ \A j \in DOMAIN items' : items'[j] = IF j <= Until THEN items[j] ELSE content[j - Until]
      /\ DOMAIN items = 1..Until
  BY <1>1, <1>2, <1>3, <1>5, Concatenation, ElementsOfSequence
<1>8. DOMAIN items' = 1..(Until + Len(content))
  BY <1>7, ElementsOfSequence
<1> HIDE DEF n
<1>9. /\ url' # None <=> Until' < n
      /\ url' # None => url' = Served + 2 /\ Len(items') = Until'
  <2>1. CASE Until + PerPage < n
    <3>1. ~(n <= Until)
      BY <1>3, <2>1, PagesArePositive
    <3>2. Len(content) = PerPage
      BY <1>5, <2>1, <3>1
    <3>3. Served + 2 # None
      BY <1>3, LinksAreDistinct
    <3> QED BY <1>4, <1>6, <1>7, <2>1, <3>2, <3>3
  <2>2. CASE ~(Until + PerPage < n)
    BY <1>4, <1>6, <2>2
  <2> QED BY <2>1, <2>2
<1>10. ASSUME Until <= n, url' = None
       PROVE  Len(items') = n
  <2>1. ~(Until + PerPage < n)
    BY <1>4, <1>9, <1>10
  <2>2. Len(content) = n - Until
    BY <1>3, <1>5, <1>10, <2>1
  <2> QED BY <1>3, <1>7, <2>2
<1>11. DOMAIN items \subseteq DOMAIN items' /\ \A i \in DOMAIN items : items'[i] = items[i]
  BY <1>3, <1>7, <1>8
<1>12. ASSUME NEW i \in DOMAIN items', i \notin DOMAIN items
       PROVE  i \in DOMAIN lists[Now] /\ items'[i] = lists[Now][i]
  <2>1. i \in Nat /\ ~(i <= Until) /\ i - Until \in DOMAIN content /\ Until + (i - Until) = i
    BY <1>3, <1>7, <1>8, <1>12
  <2>2. items'[i] = content[i - Until]
    BY <1>7, <1>12, <2>1
  <2> QED BY <1>5, <2>1, <2>2
<1>13. ASSUME NEW j \in DOMAIN lists[Now], j > Until, ~(j > Until')
       PROVE  j \in DOMAIN items' /\ items'[j] = lists[Now][j]
  <2>1. j \in Nat /\ j <= n /\ j <= Until + PerPage /\ ~(n <= Until)
    BY <1>3, <1>4, <1>13, PagesArePositive DEF n
  <2>2. j <= Until + Len(content)
    BY <1>3, <1>5, <2>1, PagesArePositive
  <2>3. j \in DOMAIN items' /\ j \notin DOMAIN items
    BY <1>3, <1>7, <1>8, <1>13, <2>1, <2>2
  <2> QED BY <1>12, <2>3
<1> QED BY <1>1, <1>2, <1>9, <1>10, <1>11, <1>12, <1>13 DEF n

LEMMA AcceptedKeepsCourse ==
  ASSUME Typed, Course, NEW l, Accepted(l)
  PROVE  Course'
<1>1. /\ Now' = Now /\ Served' = Served + 1 /\ Until' = Until + PerPage
      /\ lists' = lists /\ pc' = pc /\ asked' = asked \cup {url} /\ Fetched(l)
  BY AcceptedKeepsTypes DEF Accepted, Fetched, github
<1>2. SUFFICES ASSUME ~seen'[Now].misled
               PROVE  Paged' /\ Sized' /\ Counted' /\ Caught' /\ Still' /\ Uniform' /\ Aligned'
  BY <1>1 DEF Course, OnCourse
<1>3. /\ Served \in Nat /\ Until \in Nat /\ Until' \in Nat /\ Now \in Endpoints
      /\ Len(lists[Now]) \in Nat /\ DOMAIN lists[Now] = 1..Len(lists[Now])
      /\ lists[Now] \in Seq(Item(Now)) /\ Distinct(lists[Now])
      /\ seen'[Now].first \in Seq(Item(Now)) /\ Len(seen'[Now].first) \in Nat
  <2>1. seen'[Now].first \in Seq(Item(Now))
    BY <1>1, ServedIsNumber, FetchedHistory
  <2> QED BY <1>1, <2>1, ServedIsNumber, TypedLists, PagesArePositive, ElementsOfSequence
<1>4. /\ url' # None <=> Until' < Len(lists[Now])
      /\ url' # None => url' = Served + 2 /\ Len(items') = Until'
      /\ Until <= Len(lists[Now]) /\ url' = None => Len(items') = Len(lists[Now])
  BY <1>2, PageJoins
<1>5. /\ DOMAIN items \subseteq DOMAIN items'
      /\ \A i \in DOMAIN items : items'[i] = items[i]
      /\ \A i \in DOMAIN items' \ DOMAIN items : i \in DOMAIN lists[Now] /\ items'[i] = lists[Now][i]
      /\ \A j \in DOMAIN lists[Now] :
           j > Until /\ ~(j > Until') => j \in DOMAIN items' /\ items'[j] = lists[Now][j]
  BY <1>2, PageJoins
<1>6. /\ ~seen'[Now].added   => Len(lists[Now]) <= Len(seen'[Now].first)
      /\ ~seen'[Now].removed => Until <= Len(lists[Now])
  BY <1>1, <1>2, NextItems
<1>7. Paged'
  <2>1. url <= Served + 1 /\ (\A u \in asked : u <= Served) /\ asked \subseteq Nat /\ url \in Nat
    BY <1>1, <1>2, NextPage DEF Fetched, Typed, TypeOK
  <2>2. \A u \in asked' : u <= Served + 1
    BY <1>1, <1>3, <2>1
  <2> QED BY <1>1, <1>3, <1>4, <2>2 DEF Paged
<1>8. Sized'
  <2>1. SUFFICES ASSUME url' # None
                 PROVE  /\ Len(lists[Now]) > Until'
                        /\ ~seen'[Now].added => Len(lists[Now]) <= Len(seen'[Now].first)
                                               /\ Until' < Len(seen'[Now].first)
    BY <1>1 DEF Sized
  <2>2. Len(lists[Now]) > Until'
    BY <1>3, <1>4, <2>1
  <2>3. ASSUME ~seen'[Now].added
        PROVE  Len(lists[Now]) <= Len(seen'[Now].first) /\ Until' < Len(seen'[Now].first)
    <3>1. Len(lists[Now]) <= Len(seen'[Now].first)
      BY <1>6, <2>3
    <3> QED BY <1>3, <2>2, <3>1
  <2> QED BY <2>2, <2>3
<1>9. Counted'
  <2>1. SUFFICES ASSUME Now = "checks"
                 PROVE  /\ expected' = Len(lists[Now])
                        /\ ~seen'[Now].added => ~seen'[Now].removed
                        /\ ~seen'[Now].added /\ url' = None => Len(items') = Len(lists[Now])
    BY <1>1, <1>3 DEF Counted
  <2>2. expected' = Len(lists[Now]) /\ (expected # None => Len(lists[Now]) = expected)
    BY <2>1 DEF Accepted, TotalAgrees
  <2>3. /\ expected # None /\ ~seen'[Now].added /\ seen'[Now].removed => Len(lists[Now]) # expected
        /\ expected = None => ~seen'[Now].removed
    BY <1>1, <1>2, <2>1, NextItems
  <2>4. ~seen'[Now].added => ~seen'[Now].removed
    BY <2>2, <2>3
  <2>5. ~seen'[Now].added => Until <= Len(lists[Now])
    BY <1>6, <2>4
  <2> QED BY <1>4, <2>2, <2>4, <2>5
<1>10. Caught'
  <2>1. SUFFICES ASSUME ~seen'[Now].removed, NEW r \in seen'[Now].kept
                 PROVE  \/ r \in ToSet(items')
                        \/ url' # None /\ \E j \in DOMAIN lists[Now] : j > Until' /\ lists[Now][j] = r
    BY <1>1 DEF Caught
  <2>2. r \in ToSet(items) \/ \E j \in DOMAIN lists[Now] : j > Until /\ lists[Now][j] = r
    BY <1>1, <1>2, <2>1, NextItems
  <2>3. CASE r \in ToSet(items)
    BY <1>5, <2>3 DEF ToSet
  <2>4. ASSUME NEW j \in DOMAIN lists[Now], j > Until, lists[Now][j] = r
        PROVE  r \in ToSet(items') \/ (url' # None /\ j > Until')
    <3>1. CASE j > Until'
      <4>1. Until' < Len(lists[Now])
        BY <1>3, <3>1
      <4> QED BY <1>4, <3>1, <4>1
    <3>2. CASE ~(j > Until')
      BY <1>5, <2>4, <3>2 DEF ToSet
    <3> QED BY <3>1, <3>2
  <2> QED BY <2>2, <2>3, <2>4
<1>11. Still'
  <2>1. SUFFICES ASSUME ~seen'[Now].added, ~seen'[Now].removed, ~seen'[Now].edited
                 PROVE  /\ seen'[Now].kept = ToSet(seen'[Now].first)
                        /\ ToSet(items') \subseteq ToSet(seen'[Now].first)
                        /\ lists[Now] = seen'[Now].first
    BY <1>1 DEF Still
  <2>2. /\ seen'[Now].kept = ToSet(seen'[Now].first)
        /\ ToSet(items) \subseteq ToSet(seen'[Now].first)
        /\ lists[Now] = seen'[Now].first
    BY <1>1, <1>2, <2>1, NextItems
  <2>3. ASSUME NEW i \in DOMAIN items'
        PROVE  items'[i] \in ToSet(seen'[Now].first)
    <3>1. CASE i \in DOMAIN items
      BY <1>5, <2>2, <3>1 DEF ToSet
    <3>2. CASE i \notin DOMAIN items
      <4>1. items'[i] \in ToSet(lists[Now])
        BY <1>5, <3>2 DEF ToSet
      <4> QED BY <2>2, <4>1
    <3> QED BY <3>1, <3>2
  <2> QED BY <2>2, <2>3 DEF ToSet
<1>12. Uniform'
  <2>1. SUFFICES ASSUME ~seen'[Now].edited
                 PROVE  /\ \A i, k \in DOMAIN items' :
                             items'[i].id = items'[k].id => items'[i] = items'[k]
                        /\ \A i \in DOMAIN items' : \A j \in DOMAIN lists[Now] :
                             items'[i].id = lists[Now][j].id => items'[i] = lists[Now][j]
    BY <1>1 DEF Uniform, Conflicting
  <2>2. /\ \A i, k \in DOMAIN items : items[i].id = items[k].id => items[i] = items[k]
        /\ \A i \in DOMAIN items : \A j \in DOMAIN lists[Now] :
             items[i].id = lists[Now][j].id => items[i] = lists[Now][j]
    BY <1>1, <1>2, <2>1, NextItems DEF Conflicting
  <2>3. ASSUME NEW i \in DOMAIN items', NEW j \in DOMAIN lists[Now], items'[i].id = lists[Now][j].id
        PROVE  items'[i] = lists[Now][j]
    <3>1. CASE i \in DOMAIN items
      BY <1>5, <2>2, <2>3, <3>1
    <3>2. CASE i \notin DOMAIN items
      BY <1>3, <1>5, <2>3, <3>2 DEF Distinct
    <3> QED BY <3>1, <3>2
  <2>4. ASSUME NEW i \in DOMAIN items', NEW k \in DOMAIN items', items'[i].id = items'[k].id
        PROVE  items'[i] = items'[k]
    <3>1. CASE i \in DOMAIN items /\ k \in DOMAIN items
      BY <1>5, <2>2, <2>4, <3>1
    <3>2. CASE k \notin DOMAIN items
      BY <1>5, <2>3, <2>4, <3>2
    <3>3. CASE i \notin DOMAIN items
      BY <1>5, <2>3, <2>4, <3>3
    <3> QED BY <3>1, <3>2, <3>3
  <2> QED BY <2>3, <2>4
<1>13. Aligned'
  <2>1. SUFFICES ASSUME ~seen'[Now].added, ~seen'[Now].removed
                 PROVE  /\ \A i, k \in DOMAIN items' : items'[i].id = items'[k].id => i = k
                        /\ \A i \in DOMAIN items' :
                             i \in DOMAIN lists[Now] /\ items'[i].id = lists[Now][i].id
    BY <1>1 DEF Aligned, Distinct
  <2>2. \A i \in DOMAIN items : i \in DOMAIN lists[Now] /\ items[i].id = lists[Now][i].id
    BY <1>1, <1>2, <2>1, NextItems
  <2>3. \A i \in DOMAIN items' : i \in DOMAIN lists[Now] /\ items'[i].id = lists[Now][i].id
    BY <1>5, <2>2
  <2> QED BY <1>3, <2>3 DEF Distinct
<1> QED BY <1>7, <1>8, <1>9, <1>10, <1>11, <1>12, <1>13

LEMMA AcceptedKeepsWhole ==
  ASSUME Typed, Course, Whole, NEW l, Accepted(l)
  PROVE  Whole'
<1>1. /\ Now' = Now /\ lists' = lists /\ pc = "page" /\ pc' = pc /\ at' = at /\ Fetched(l)
      /\ evidence' = evidence
  BY AcceptedKeepsTypes DEF Accepted, Fetched, github
<1>2. SUFFICES ASSUME at = 4, ~seen'["inline"].misled, ~seen'["inline"].removed,
                      NEW i \in DOMAIN lists["inline"],
                      lists["inline"][i].label \in EvidenceIds("review")
               PROVE  \/ \E r \in ToSet(items') : r.id = lists["inline"][i].id
                      \/ url' # None /\ i > Until'
  BY <1>1 DEF Whole, EvidenceIds
<1>3. Now = "inline"
  BY <1>2 DEF Now, Order
<1>4. /\ i \in Nat /\ i > 0 /\ i <= Len(lists[Now]) /\ Len(lists[Now]) \in Nat /\ Until' \in Nat
      /\ asked = {} => Until = 0
  <2>1. /\ DOMAIN lists[Now] = 1..Len(lists[Now]) /\ Len(lists[Now]) \in Nat /\ Until \in Nat
        /\ asked = {} => Until = 0 
    BY ServedIsNumber
  <2>2. Until' = Until + PerPage
    BY AcceptedKeepsTypes
  <2> QED BY <1>2, <1>3, <2>1, <2>2, PagesArePositive
<1>5. (\E r \in ToSet(items) : r.id = lists["inline"][i].id) \/ i > Until
  <2>1. CASE asked = {}
    BY <1>4, <2>1
  <2>2. CASE asked # {}
    <3>1. ~seen["inline"].misled /\ ~seen["inline"].removed
      BY <1>1, <1>2, <1>3, <2>2, FetchedHistory
    <3> QED BY <1>1, <1>2, <3>1 DEF Whole
  <2> QED BY <2>1, <2>2
<1>6. /\ url' # None <=> Until' < Len(lists[Now])
      /\ DOMAIN items \subseteq DOMAIN items'
      /\ \A k \in DOMAIN items : items'[k] = items[k]
      /\ \A j \in DOMAIN lists[Now] :
           j > Until /\ ~(j > Until') => j \in DOMAIN items' /\ items'[j] = lists[Now][j]
  BY <1>2, <1>3, PageJoins
<1>7. CASE \E r \in ToSet(items) : r.id = lists["inline"][i].id
  BY <1>6, <1>7 DEF ToSet
<1>8. CASE i > Until
  <2>1. CASE i > Until'
    BY <1>4, <1>6, <2>1
  <2>2. CASE ~(i > Until')
    BY <1>2, <1>3, <1>6, <1>8, <2>2 DEF ToSet
  <2> QED BY <2>1, <2>2
<1> QED BY <1>5, <1>7, <1>8

LEMMA AcceptedKeepsYielded ==
  ASSUME Typed, Yielded, NEW l, Accepted(l)
  PROVE  Yielded'
<1>1. UNCHANGED <<pc, at, evidence, checks>> /\ pc = "page" /\ Fetched(l)
  BY DEF Accepted, Fetched
<1>2. ASSUME NEW e \in Endpoints, Enumerated(e)
      PROVE  seen'[e] = seen[e]
  <2>1. e # Now
    BY <1>1, <1>2 DEF Enumerated, Now, Order, Typed, TypeOK
  <2> QED BY <1>1, <2>1, FetchedHistory
<1>3. \A e \in Endpoints : Enumerated(e)' <=> Enumerated(e)
  BY <1>1 DEF Enumerated
<1>4. OneVersion'
  BY <1>1 DEF Yielded, OneVersion
<1>5. NothingMissed'
  BY <1>1, <1>2, <1>3 DEF Yielded, NothingMissed
<1>6. QuietIsExact'
  BY <1>1, <1>2, <1>3 DEF Yielded, QuietIsExact
<1>7. Enumerated("checks")' =>
        checks' = ObservedChecks(evidence'["checks"]) \cup MissingChecks(evidence'["checks"])
  BY <1>1, <1>3 DEF Yielded, Endpoints
<1> QED BY <1>1, <1>4, <1>5, <1>6, <1>7 DEF Yielded, ObservedChecks, MissingChecks

LEMMA FetchKeeps ==
  ASSUME Collected, FetchPage
  PROVE  Collected'
<1> PICK l \in Links(Now, PageOf(url)) :
       /\ Fetched(l)
       /\ \/ l = Elsewhere /\ FailWith("endpoint")
          \/ ~TotalAgrees(Now, Len(lists[Now])) /\ FailWith("total")
          \/ Accepted(l)
  BY FetchCases
<1>1. CASE Accepted(l)
  <2>1. RefusedForAReason'
    BY <1>1 DEF Accepted, Fetched, RefusedForAReason
  <2> QED BY <1>1, <2>1, AcceptedKeepsTypes, AcceptedKeepsCourse, AcceptedKeepsWhole,
             AcceptedKeepsYielded DEF Collected
<1>2. CASE ~Accepted(l)
  BY <1>2, FailedFetchKeeps
<1> QED BY <1>1, <1>2

-----------------------------------------------------------------------------
(* The theorems.                                                           *)

LEMMA StutteringKeeps ==
  ASSUME Collected, UNCHANGED vars
  PROVE  Collected'
<1>1. /\ UNCHANGED <<lists, changes, pc, at, url, asked, expected, items>>
      /\ UNCHANGED <<evidence, checks, cause, seen>>
  BY DEF vars
<1>2. Typed'
  BY <1>1 DEF Collected, Typed, TypeOK, Shaped, Distinct
<1>3. Course'
  BY <1>1, ElsewhereKeepsCourse DEF Collected, page
<1>4. Whole'
  BY <1>1 DEF Collected, Whole, EvidenceIds, Until, Served
<1>5. Yielded'
  BY <1>1 DEF Collected, Yielded, OneVersion, NothingMissed, QuietIsExact, Enumerated,
              ObservedChecks, MissingChecks
<1>6. RefusedForAReason'
  BY <1>1 DEF Collected, RefusedForAReason, Now
<1> QED BY <1>2, <1>3, <1>4, <1>5, <1>6 DEF Collected

\* The inductive invariant holds of every collection.
THEOREM CollectedAlways == Spec => []Collected
<1>1. Init => Collected
  BY InitCollected
<1>2. Collected /\ [Next]_vars => Collected'
  <2> SUFFICES ASSUME Collected, [Next]_vars PROVE Collected'
    OBVIOUS
  <2>1. CASE Others
    BY <2>1, OthersChange, ChangeKeepsCollected DEF Collected
  <2>2. CASE Begin
    BY <2>2, BeginKeeps
  <2>3. CASE RefuseRequest
    BY <2>3, RefuseKeeps
  <2>4. CASE FetchPage
    BY <2>4, FetchKeeps
  <2>5. CASE IncompleteList
    BY <2>5, IncompleteKeeps
  <2>6. CASE CloseList
    BY <2>6, CloseKeeps
  <2>7. CASE Deliver
    BY <2>7, DeliverKeeps
  <2>8. CASE Fail
    BY <2>8, FailKeeps
  <2>9. CASE UNCHANGED vars
    BY <2>9, StutteringKeeps
  <2> QED BY <2>1, <2>2, <2>3, <2>4, <2>5, <2>6, <2>7, <2>8, <2>9 DEF Next, Collector
<1> QED BY <1>1, <1>2, PTL DEF Spec

\* Every variable has its type, and no list names an item twice: what the code
\* holds between two requests is always well formed.
THEOREM CollectionTypes == Spec => []TypeOK
<1>1. Collected => TypeOK
  BY DEF Collected, Typed
<1> QED BY <1>1, CollectedAlways, PTL

\* However long the lists are and whatever befalls them, an item that stood in a
\* list throughout is evidence, with the exceptions NothingMissed names.
THEOREM NothingIsMissed == Spec => []NothingMissed
<1>1. Collected => NothingMissed
  BY DEF Collected, Yielded
<1> QED BY <1>1, CollectedAlways, PTL

\* The collector refuses only for a reason that lies in the lists or the links.
THEOREM RefusalsAreReasoned == Spec => []RefusedForAReason
<1>1. Collected => RefusedForAReason
  BY DEF Collected
<1> QED BY <1>1, CollectedAlways, PTL

\* The evidence has one version of every item, reviews come with their inline
\* comments, and a quiet list is collected exactly.
THEOREM EvidenceAlwaysCoheres == Spec => []EvidenceCoheres
<1>1. Collected => EvidenceCoheres
  <2> SUFFICES ASSUME Collected PROVE EvidenceCoheres
    OBVIOUS
  <2>1. ReviewsAreWhole
    BY DEF Collected, Typed, Shaped, Whole, ReviewsAreWhole
  <2> QED BY <2>1 DEF Collected, Yielded, EvidenceCoheres
<1> QED BY <1>1, CollectedAlways, PTL

\* Every required check has a fact, and is called missing only if it may be.
THEOREM RequiredAreAnswered == Spec => []RequiredAnswered
<1>1. Collected => RequiredAnswered
  <2> SUFFICES ASSUME Collected, pc = "done", NEW n \in Required
               PROVE  LET facts == {c \in checks : c.name = n} IN
                      /\ facts # {} /\ \A c \in facts : c.required
                      /\ (\E c \in facts : c.state = "missing") =>
                           \/ ~\E r \in seen["checks"].kept : r.label = n
                           \/ seen["checks"].misled
                           \/ seen["checks"].removed /\ seen["checks"].added
    BY DEF RequiredAnswered
  <2> DEFINE runs == evidence["checks"]
  <2>1. "checks" \in Endpoints /\ Enumerated("checks")
    BY DEF Endpoints, Enumerated
  <2>2. checks = ObservedChecks(runs) \cup MissingChecks(runs) /\ runs \subseteq Item("checks")
    BY <2>1 DEF Collected, Yielded, Typed, TypeOK
  <2>3. \/ seen["checks"].misled
        \/ seen["checks"].removed /\ seen["checks"].added
        \/ seen["checks"].kept \subseteq runs
    BY <2>1 DEF Collected, Yielded, NothingMissed
  <2> HIDE DEF runs
  <2>4. ASSUME NEW c \in checks
        PROVE  \/ \E r \in runs :
                    c.name = r.label /\ c.state = r.state /\ (r.label \in Required => c.required)
               \/ c.name \notin {r.label : r \in runs} /\ c.required /\ c.state = "missing"
    <3>1. CASE c \in ObservedChecks(runs)
      <4> PICK r \in runs :
            c = [name |-> r.label, required |-> Required = {} \/ r.label \in Required,
                 state |-> r.state]
        BY <3>1 DEF ObservedChecks
      <4> DEFINE b == Required = {} \/ r.label \in Required
      <4>1. c = [name |-> r.label, required |-> b, state |-> r.state]
        OBVIOUS
      <4>2. r.label \in Required => b
        OBVIOUS
      <4> HIDE DEF b
      <4>3. c.name = r.label /\ c.state = r.state /\ c.required = b
        BY <4>1
      <4>4. r.label \in Required => c.required
        BY <4>2, <4>3, Zenon
      <4> QED BY <4>3, <4>4, Zenon
    <3>2. CASE c \in MissingChecks(runs)
      <4> PICK m \in Required \ {r.label : r \in runs} :
            c = [name |-> m, required |-> TRUE, state |-> "missing"]
        BY <3>2 DEF MissingChecks
      <4>1. c.name = m /\ c.required = TRUE /\ c.state = "missing"
        OBVIOUS
      <4> QED BY <4>1, Zenon
    <3> QED BY <2>2, <3>1, <3>2
  <2>5. \E c \in checks : c.name = n
    <3>1. ASSUME NEW r \in runs, r.label = n
          PROVE  \E c \in checks : c.name = n
      <4> DEFINE c == [name |-> r.label, required |-> Required = {} \/ r.label \in Required,
                       state |-> r.state]
      <4>1. c \in checks
        BY <2>2 DEF ObservedChecks
      <4>2. c.name = n
        BY <3>1
      <4> QED BY <4>1, <4>2
    <3>2. ASSUME n \notin {r.label : r \in runs}
          PROVE  \E c \in checks : c.name = n
      <4> DEFINE c == [name |-> n, required |-> TRUE, state |-> "missing"]
      <4>1. c \in checks
        BY <2>2, <3>2 DEF MissingChecks
      <4>2. c.name = n
        OBVIOUS
      <4> QED BY <4>1, <4>2
    <3> QED BY <3>1, <3>2
  <2>6. ASSUME NEW c \in checks, c.name = n
        PROVE  c.required
    <3>1. CASE \E r \in runs :
                 c.name = r.label /\ c.state = r.state /\ (r.label \in Required => c.required)
      BY <2>6, <3>1, Zenon
    <3> QED BY <2>4, <3>1, Zenon
  <2>7. ASSUME NEW c \in checks, c.name = n, c.state = "missing",
               NEW r \in seen["checks"].kept, r.label = n
        PROVE  seen["checks"].misled \/ (seen["checks"].removed /\ seen["checks"].added)
    <3>1. \A q \in runs : q.state # "missing"
      BY <2>2 DEF Item, States
    <3>2. n \notin {q.label : q \in runs}
      <4>1. CASE \E q \in runs :
                   c.name = q.label /\ c.state = q.state /\ (q.label \in Required => c.required)
        BY <2>7, <3>1, <4>1, Zenon
      <4>2. CASE c.name \notin {q.label : q \in runs}
        BY <2>7, <4>2
      <4> QED BY <2>4, <4>1, <4>2, Zenon
    <3> QED BY <2>3, <2>7, <3>2
  <2> QED BY <2>5, <2>6, <2>7
<1> QED BY <1>1, CollectedAlways, PTL

-----------------------------------------------------------------------------
(* Every collection comes to an end.                                       *)

\* How many steps are left at place p, in list a, after n of its pages: MaxPages
\* requests and the end of each list, the verification of the checkout before them
\* and the delivery after them.
Budget(p, a, n) ==
  CASE p = "start" -> 4 * (MaxPages + 1) + 2
    [] p = "page"  -> (5 - a) * (MaxPages + 1) + 1 - n
    [] p = "facts" -> 1
    [] OTHER       -> 0

StepsLeft == Budget(pc, at, Served)

\* The budgets, place by place.
LEMMA Budgets ==
  ASSUME NEW a \in 1..4, NEW n \in 0..MaxPages
  PROVE  /\ Budget("start", a, n) = 4 * (MaxPages + 1) + 2
         /\ Budget("page", a, n) = (5 - a) * (MaxPages + 1) + 1 - n
         /\ Budget("page", a, n) \in 2..(4 * (MaxPages + 1) + 1)
         /\ Budget("facts", a, n) = 1
         /\ Budget("done", a, n) = 0 /\ Budget("failed", a, n) = 0
<1>1. /\ Budget("start", a, n) = 4 * (MaxPages + 1) + 2
      /\ Budget("page", a, n) = (5 - a) * (MaxPages + 1) + 1 - n
      /\ Budget("facts", a, n) = 1
      /\ Budget("done", a, n) = 0 /\ Budget("failed", a, n) = 0
  BY DEF Budget
<1>2. (5 - a) * (MaxPages + 1) + 1 - n \in 2..(4 * (MaxPages + 1) + 1)
  <2>1. CASE a = 1 BY <2>1, PagesArePositive
  <2>2. CASE a = 2 BY <2>2, PagesArePositive
  <2>3. CASE a = 3 BY <2>3, PagesArePositive
  <2>4. CASE a = 4 BY <2>4, PagesArePositive
  <2> QED BY <2>1, <2>2, <2>3, <2>4
<1> QED BY <1>1, <1>2

LEMMA BudgetsAreBounded ==
  ASSUME NEW p \in {"start", "page", "facts", "done", "failed"},
         NEW a \in 1..4, NEW n \in 0..MaxPages
  PROVE  Budget(p, a, n) \in 0..(4 * (MaxPages + 1) + 2)
<1>1. 4 * (MaxPages + 1) \in Nat
  BY PagesArePositive
<1>2. PICK m \in Nat : m = 4 * (MaxPages + 1)
  BY <1>1
<1>3. /\ Budget("start", a, n) = m + 2 /\ Budget("page", a, n) \in 2..(m + 1)
      /\ Budget("facts", a, n) = 1
      /\ Budget("done", a, n) = 0 /\ Budget("failed", a, n) = 0
  BY <1>2, Budgets
<1>4. Budget(p, a, n) \in 0..(m + 2)
  BY <1>3
<1> QED BY <1>2, <1>4

\* Where the collector is, now and after the step.
LEMMA Places ==
  ASSUME Typed, Typed'
  PROVE  /\ pc \in {"start", "page", "facts", "done", "failed"}
         /\ pc' \in {"start", "page", "facts", "done", "failed"}
         /\ at \in 1..4 /\ at' \in 1..4
         /\ Served \in 0..MaxPages /\ Served' \in 0..MaxPages
<1>1. Cardinality(asked) \in Nat /\ Cardinality(asked') \in Nat
  BY FS_CardinalityType DEF Typed, Shaped
<1>2. Cardinality(asked) <= MaxPages /\ Cardinality(asked') <= MaxPages
  BY DEF Typed, TypeOK
<1>3. Served \in 0..MaxPages /\ Served' \in 0..MaxPages
  BY <1>1, <1>2, PagesArePositive DEF Served
<1> QED BY <1>3 DEF Typed, TypeOK, Active

\* A request that is answered was not made before.
LEMMA RequestsAreNew ==
  ASSUME Typed, FetchPage
  PROVE  \/ pc' = "failed"
         \/ UNCHANGED <<pc, at>> /\ Served' = Served + 1
<1>1. PICK l \in Links(Now, PageOf(url)) :
         \/ l = Elsewhere /\ FailWith("endpoint")
         \/ ~TotalAgrees(Now, Len(lists[Now])) /\ FailWith("total")
         \/ Accepted(l)
  BY FetchCases
<1>2. CASE Accepted(l)
  <2>1. url \notin asked
    BY DEF FetchPage, Exhausted
  <2>2. asked' = asked \cup {url} /\ UNCHANGED <<pc, at>>
    BY <1>2 DEF Accepted
  <2>3. Cardinality(asked') = Cardinality(asked) + 1
    BY <2>1, <2>2, FS_AddElement DEF Typed, Shaped
  <2> QED BY <2>2, <2>3 DEF Served
<1>3. CASE FailWith("endpoint") \/ FailWith("total")
  BY <1>3 DEF FailWith
<1> QED BY <1>1, <1>2, <1>3

\* Every step of the collector uses one up, and nobody gives it any.
CollectionAdvances ==
  [][/\ StepsLeft' <= StepsLeft
     /\ Collector \/ Fail => StepsLeft' < StepsLeft]_vars

\* What a step of the collector does to the place, the list and its pages.
LEMMA CollectorLeads ==
  ASSUME Typed, Collector \/ Fail
  PROVE  \/ pc \in Active /\ pc' = "failed"
         \/ pc = "start" /\ pc' = "page"
         \/ pc = "page" /\ UNCHANGED <<pc, at>> /\ Served' = Served + 1
         \/ pc = "page" /\ pc' = "page" /\ at < 4 /\ at' = at + 1 /\ Served' = 0
         \/ pc = "page" /\ pc' = "facts"
         \/ pc = "facts" /\ pc' = "done"
<1>1. CASE Begin
  BY <1>1 DEF Begin
<1>2. CASE FetchPage
  <2>1. pc = "page"
    BY <1>2 DEF FetchPage
  <2> QED BY <1>2, <2>1, RequestsAreNew DEF Active
<1>3. CASE RefuseRequest \/ IncompleteList \/ Fail
  BY <1>3 DEF RefuseRequest, IncompleteList, Fail, FailWith, Active
<1>4. CASE CloseList
  <2>1. pc = "page" /\ asked' = {}
    BY <1>4 DEF CloseList
  <2>2. (at < Len(Order) /\ at' = at + 1 /\ pc' = pc) \/ pc' = "facts"
    BY <1>4 DEF CloseList
  <2>3. Len(Order) = 4
    BY DEF Order
  <2> QED BY <2>1, <2>2, <2>3, FS_EmptySet DEF Served
<1>5. CASE Deliver
  BY <1>5 DEF Deliver
<1> QED BY <1>1, <1>2, <1>3, <1>4, <1>5 DEF Collector

\* Nobody else moves the collector.
LEMMA OthersLeave ==
  ASSUME Others \/ UNCHANGED vars
  PROVE  UNCHANGED <<pc, at, Served>>
<1>1. CASE Others
  BY <1>1 DEF Others, Post, SubmitReview, StartRun, Rerun, Delete, Edit, Change, page, Served
<1>2. CASE UNCHANGED vars
  BY <1>2 DEF vars, Served
<1> QED BY <1>1, <1>2

\* A step of the collector leaves it less to do.
LEMMA CollectorUsesUp ==
  ASSUME Typed, Typed', Collector \/ Fail
  PROVE  Budget(pc', at', Served') < Budget(pc, at, Served)
<1>1. /\ at \in 1..4 /\ at' \in 1..4 /\ MaxPages \in Nat
      /\ Served \in 0..MaxPages /\ Served' \in 0..MaxPages
  BY Places, PagesArePositive
<1>2. CASE pc \in Active /\ pc' = "failed"
  BY <1>1, <1>2, Budgets DEF Active
<1>3. CASE pc = "start" /\ pc' = "page"
  <2>1. Budget("page", at', Served') \in 2..(4 * (MaxPages + 1) + 1)
    BY <1>1, Budgets
  <2>2. Budget("start", at, Served) = 4 * (MaxPages + 1) + 2
    BY <1>1, Budgets
  <2> QED BY <1>1, <1>3, <2>1, <2>2
<1>4. CASE pc = "page" /\ UNCHANGED <<pc, at>> /\ Served' = Served + 1
  <2>1. /\ Budget("page", at, Served) = (5 - at) * (MaxPages + 1) + 1 - Served
        /\ Budget("page", at, Served + 1) = (5 - at) * (MaxPages + 1) + 1 - (Served + 1)
    BY <1>1, <1>4, Budgets
  <2>2. PICK k \in Int : k = (5 - at) * (MaxPages + 1)
    BY <1>1
  <2> QED BY <1>1, <1>4, <2>1, <2>2
<1>5. CASE pc = "page" /\ pc' = "page" /\ at < 4 /\ at' = at + 1 /\ Served' = 0
  <2>1. /\ Budget("page", at, Served) = (5 - at) * (MaxPages + 1) + 1 - Served
        /\ Budget("page", at + 1, 0) = (5 - (at + 1)) * (MaxPages + 1) + 1 - 0
    BY <1>1, <1>5, Budgets
  <2>2. at = 1 \/ at = 2 \/ at = 3
    BY <1>1, <1>5
  <2>3. (5 - at) * (MaxPages + 1) = (5 - (at + 1)) * (MaxPages + 1) + MaxPages + 1
    BY <1>1, <2>2
  <2>4. PICK k \in Int : k = (5 - (at + 1)) * (MaxPages + 1)
    BY <1>1
  <2> QED BY <1>1, <1>5, <2>1, <2>3, <2>4
<1>6. CASE pc = "page" /\ pc' = "facts"
  BY <1>1, <1>6, Budgets
<1>7. CASE pc = "facts" /\ pc' = "done"
  BY <1>1, <1>7, Budgets
<1> QED BY <1>2, <1>3, <1>4, <1>5, <1>6, <1>7, CollectorLeads

\* However many pages GitHub claims there are, wherever its links lead and whatever
\* is added to the lists meanwhile, collect() ends after at most MaxPages requests
\* for each of the four lists: seen_urls and max_pages bound it, and no change of a
\* list sends the collector back.  With weak fairness of the collector, checked by
\* TLC, this is Terminates.
THEOREM CollectionsAreBounded ==
  Spec => [](StepsLeft \in 0..(4 * (MaxPages + 1) + 2)) /\ CollectionAdvances
<1>1. Collected => Typed
  BY DEF Collected
<1>2. Typed => StepsLeft \in 0..(4 * (MaxPages + 1) + 2)
  <2> SUFFICES ASSUME Typed PROVE StepsLeft \in 0..(4 * (MaxPages + 1) + 2)
    OBVIOUS
  <2>1. /\ pc \in {"start", "page", "facts", "done", "failed"}
        /\ at \in 1..4 /\ Served <= MaxPages
    BY DEF Typed, TypeOK, Active, Served
  <2>2. Served \in 0..MaxPages
    BY <2>1, ServedIsNumber, PagesArePositive
  <2> QED BY <2>1, <2>2, BudgetsAreBounded DEF StepsLeft
<1>3. Typed /\ Typed' /\ [Next]_vars =>
        [/\ StepsLeft' <= StepsLeft
         /\ Collector \/ Fail => StepsLeft' < StepsLeft]_vars
  <2> SUFFICES ASSUME Typed, Typed', Next
               PROVE  StepsLeft' <= StepsLeft /\ (Collector \/ Fail => StepsLeft' < StepsLeft)
    OBVIOUS
  <2>1. StepsLeft \in Int /\ StepsLeft' \in Int
    BY Places, BudgetsAreBounded, PagesArePositive DEF StepsLeft
  <2>2. Collector \/ Fail => StepsLeft' < StepsLeft
    BY CollectorUsesUp DEF StepsLeft
  <2>3. CASE Others
    BY <2>1, <2>2, <2>3, OthersLeave DEF StepsLeft
  <2> QED BY <2>1, <2>2, <2>3 DEF Next
<1> QED BY <1>1, <1>2, <1>3, CollectedAlways, PTL DEF Spec, CollectionAdvances
=============================================================================
