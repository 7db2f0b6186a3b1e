-------------------------- MODULE EvidenceCollection --------------------------
(***************************************************************************)
(* GitHubReviewEvidenceSource.collect (verified_review.py): the evidence   *)
(* of a review is gathered from lists that GitHub serves page by page and  *)
(* that keep changing meanwhile.                                           *)
(*                                                                         *)
(* The collector fetches the head once, verifies its checkout, then        *)
(* follows the pages of four lists, one list after the other: the check    *)
(* runs of that head, the comments of the pull request, its reviews and    *)
(* the inline comments of these reviews.  A page is cut out of the list as *)
(* it is at the moment of the request, so what is added or removed between *)
(* two requests shifts the items behind it.  A push changes none of these  *)
(* lists: runs are listed by commit, the rest by pull request.             *)
(***************************************************************************)
EXTENDS Naturals, Sequences, FiniteSets, SequencesExt

CONSTANTS
  Known,       \* identifiers of runs, comments and reviews there may be at first
  Names,       \* names of checks
  Required,    \* required_check_names of the protocol manifest
  PerPage,     \* items on a page (100 in the code)
  MaxPages,    \* max_pages (100 in the code)
  FirstLists,  \* the contents the four lists may start with
  Misdirect,   \* whether a Link header may name a wrong page
  MaxChanges,  \* bound on the changes other people make during a collection
  None,        \* absence: no next page, no total, no review
  Elsewhere    \* a link to another endpoint

ASSUME PagesArePositive == PerPage \in Nat \ {0} /\ MaxPages \in Nat \ {0}
ASSUME NumbersAreNatural == MaxChanges \in Nat /\ Known \in Nat
ASSUME LinksAreDistinct == None \notin Nat /\ Elsewhere \notin Nat \cup {None}
ASSUME SwitchIsBoolean == Misdirect \in BOOLEAN
ASSUME RequiredAreNames == Required \subseteq Names

\* Mutant: inline comments are read before the reviews they belong to.
InlineFirst == <<"checks", "issue", "inline", "review">>

\* The order in which collect() asks for the lists.
Order == <<"checks", "issue", "review", "inline">>

Endpoints == {"checks", "issue", "review", "inline"}

\* What a list holds.  "label" is the name of a check run and the review an
\* inline comment belongs to; "state" is what may be edited: a conclusion, a
\* body, the state of a review.
States == {"success", "failure"}

\* GitHub never gives an identifier twice.
Ids == 1..(Known + MaxChanges)

Item(e) ==
  [id : Ids, state : States,
   label : CASE e = "checks" -> Names [] e = "inline" -> Ids [] OTHER -> {None}]

Distinct(s) == \A i, j \in DOMAIN s : s[i].id = s[j].id => i = j

ASSUME ListsAreLists ==
  \A L \in FirstLists :
    /\ L = [e \in Endpoints |-> L[e]]
    /\ \A e \in Endpoints :
         L[e] \in Seq(Item(e)) /\ Distinct(L[e]) /\ \A i \in DOMAIN L[e] : L[e][i].id <= Known

VARIABLES
  lists,     \* GitHub: the four lists
  changes,   \* how many changes GitHub has seen since the collection began
  pc,        \* where the collector stands
  at,        \* the position in Order of the list it is asking for
  url,       \* next_url: 0 for initial_url, else the page a link named, or None
  asked,     \* seen_urls
  expected,  \* expected_total
  items,     \* what the pages so far contained
  evidence,  \* the records collected, by list
  checks,    \* the check facts
  cause,     \* why the collection failed
  seen       \* history: what befell each list between its first and last request

github == <<lists, changes>>
page   == <<url, asked, expected, items>>
vars   == <<lists, changes, pc, at, url, asked, expected, items,
            evidence, checks, cause, seen>>

Pages  == 1..(MaxPages + 1)
Active == {"start", "page", "facts"}
Causes == {"none", "error", "loop", "limit", "endpoint", "total", "conflict"}

CheckFact == [name : Names, required : BOOLEAN, state : States \cup {"missing"}]

TypeOK ==
  /\ \A e \in Endpoints : lists[e] \in Seq(Item(e)) /\ Distinct(lists[e])
  /\ changes \in 0..MaxChanges
  /\ pc \in Active \cup {"done", "failed"}
  /\ at \in 1..4
  /\ url \in Nat \cup {None}
  /\ asked \subseteq Nat /\ Cardinality(asked) <= MaxPages
  /\ expected \in Nat \cup {None}
  /\ items \in Seq(Item(Order[at]))
  /\ \A e \in Endpoints : evidence[e] \subseteq Item(e)
  /\ checks \subseteq CheckFact
  /\ cause \in Causes /\ (cause = "none" <=> pc # "failed")
  /\ \A e \in Endpoints :
       /\ seen[e].first \in Seq(Item(e)) /\ seen[e].kept \subseteq Item(e)
       /\ {seen[e].removed, seen[e].added, seen[e].edited, seen[e].misled}
            \subseteq BOOLEAN

Unseen == [first |-> <<>>, kept |-> {}, removed |-> FALSE, added |-> FALSE,
           edited |-> FALSE, misled |-> FALSE]

Init ==
  /\ lists \in FirstLists
  /\ changes = 0
  /\ pc = "start" /\ at = 1
  /\ url = 0 /\ asked = {} /\ expected = None /\ items = <<>>
  /\ evidence = [e \in Endpoints |-> {}] /\ checks = {}
  /\ cause = "none"
  /\ seen = [e \in Endpoints |-> Unseen]

-----------------------------------------------------------------------------
(* GitHub and the people who use it.                                       *)

Now == Order[at]

\* The list is being read: a page has been served and another one will be.
BeingRead(e) == pc = "page" /\ e = Now /\ asked # {} /\ url # None

\* The history of the lists that change while they are read.
Witness(E, what) ==
  seen' = [e \in Endpoints |->
             IF e \notin E \/ ~BeingRead(e) THEN seen[e]
             ELSE [seen[e] EXCEPT !.kept    = @ \cap ToSet(lists'[e]),
                                  !.added   = @ \/ "added" \in what,
                                  !.removed = @ \/ "removed" \in what,
                                  !.edited  = @ \/ "edited" \in what]]

\* The bounds of the exploration: MaxChanges changes, none after the collection
\* has ended or has been sent to a wrong page.
Change ==
  /\ pc \in Active
  /\ \A e \in Endpoints : ~seen[e].misled
  /\ changes < MaxChanges
  /\ changes' = changes + 1
  /\ UNCHANGED <<pc, at, page, evidence, checks, cause>>

NewId == Known + changes + 1

\* Somebody comments on the pull request; comments are listed in the order
\* in which they were written.
Post ==
  /\ Change
  /\ lists' = [lists EXCEPT !["issue"] =
                  Append(@, [id |-> NewId, state |-> "success", label |-> None])]
  /\ Witness({"issue"}, {"added"})

\* A review is submitted together with its inline comment.
SubmitReview ==
  /\ Change
  /\ lists' = [lists EXCEPT
       !["review"] = Append(@, [id |-> NewId, state |-> "success", label |-> None]),
       !["inline"] = Append(@, [id |-> NewId, state |-> "success", label |-> NewId])]
  /\ Witness({"review", "inline"}, {"added"})

\* A check run is listed; where is not documented.
ListRun(runs, n) ==
  LET run == [id |-> NewId, state |-> "success", label |-> n] IN
  lists' \in {[lists EXCEPT !["checks"] = Append(runs, run)],
             [lists EXCEPT !["checks"] = <<run>> \o runs]}

StartRun ==
  /\ Change
  /\ \E n \in Names : ListRun(lists["checks"], n)
  /\ Witness({"checks"}, {"added"})

\* A check is run again, and only its latest run is listed.
Rerun ==
  /\ Change
  /\ \E i \in DOMAIN lists["checks"] :
       ListRun(RemoveAt(lists["checks"], i), lists["checks"][i].label)
  /\ Witness({"checks"}, {"added", "removed"})

\* A comment is deleted, or a check run leaves the list.
Delete ==
  /\ Change
  /\ \E e \in {"checks", "issue", "inline"} : \E i \in DOMAIN lists[e] :
       /\ lists' = [lists EXCEPT ![e] = RemoveAt(@, i)]
       /\ Witness({e}, {"removed"})

\* A check run concludes, a comment is edited, a review is dismissed.
Edit ==
  /\ Change
  /\ \E e \in Endpoints : \E i \in DOMAIN lists[e] : \E s \in States \ {lists[e][i].state} :
       /\ lists' = [lists EXCEPT ![e][i].state = s]
       /\ Witness({e}, {"edited"})

Others == Post \/ SubmitReview \/ StartRun \/ Rerun \/ Delete \/ Edit

-----------------------------------------------------------------------------
(* The collector.                                                          *)

\* The exception leaves collect() and nothing of what was collected is kept.
FailWith(why) ==
  /\ pc' = "failed" /\ cause' = why
  /\ url' = 0 /\ asked' = {} /\ expected' = None /\ items' = <<>>
  /\ evidence' = [e \in Endpoints |-> {}] /\ checks' = {}
  /\ UNCHANGED at

\* The network, a malformed payload, git, a request for another pull request, a
\* dirty or foreign checkout, an invalid field: whatever raises
\* ReviewAssemblyError for a reason that is not part of this model.
Fail ==
  /\ pc \in Active
  /\ FailWith("error")
  /\ UNCHANGED <<github, seen>>

\* The head is fetched, the checkout verified and the diff taken between commits
\* named by SHA: none of it is looked at again.
Begin ==
  /\ pc = "start"
  /\ pc' = "page"
  /\ UNCHANGED <<github, at, page, evidence, checks, cause, seen>>

\* initial_url names no page and is answered with the first.
PageOf(u) == IF u = 0 THEN 1 ELSE u

\* Page p of a list, and the page its Link header calls the next one.
OnPage(e, p) ==
  LET n == Len(lists[e]) IN
  IF (p - 1) * PerPage >= n THEN <<>>
  ELSE SubSeq(lists[e], (p - 1) * PerPage + 1, IF p * PerPage < n THEN p * PerPage ELSE n)

RightLink(e, p) == IF p * PerPage < Len(lists[e]) THEN p + 1 ELSE None

Links(e, p) ==
  {RightLink(e, p)} \cup (IF Misdirect THEN Pages \cup {None, Elsewhere} ELSE {})

\* Mutant: a list of exactly MaxPages pages is too long.
LimitExcluded ==
  IF url \in asked THEN "loop"
  ELSE IF Cardinality(asked) + 1 >= MaxPages THEN "limit" ELSE "none"

\* Mutant: one page more.
LimitPassed ==
  IF url \in asked THEN "loop"
  ELSE IF Cardinality(asked) > MaxPages THEN "limit" ELSE "none"

\* The guards before a request: seen_urls, then page_count.  Every request adds
\* a URL to seen_urls, so its size is page_count.
Exhausted ==
  IF url \in asked THEN "loop"
  ELSE IF Cardinality(asked) + 1 > MaxPages THEN "limit" ELSE "none"

\* Only the check runs come with a total_count.
TotalAgrees(e, total) == e # "checks" \/ expected = None \/ total = expected
TotalReached          == Now # "checks" \/ expected = Len(items)

\* Mutant: every page replaces the one before.
LastPageOnly(content) == content

Gathered(content) == items \o content

\* Mutant: what does not end is asked for again from its first page.
StartOver ==
  /\ pc = "page" /\ url # None
  /\ Exhausted # "none"
  /\ url' = 0 /\ asked' = {} /\ expected' = None /\ items' = <<>>
  /\ UNCHANGED <<github, pc, at, evidence, checks, cause, seen>>

RefuseRequest ==
  /\ pc = "page" /\ url # None
  /\ Exhausted # "none"
  /\ FailWith(Exhausted)
  /\ UNCHANGED <<github, seen>>

\* What the history says once the list has been asked for and follows link l.
Asked(e, l) ==
  LET s == IF asked = {} THEN [Unseen EXCEPT !.first = lists[e], !.kept = ToSet(lists[e])]
                         ELSE seen[e]
  IN  [seen EXCEPT ![e] = [s EXCEPT !.misled = s.misled \/ l # RightLink(e, PageOf(url))]]

FetchPage ==
  /\ pc = "page" /\ url # None
  /\ Exhausted = "none"
  /\ \E l \in Links(Now, PageOf(url)) :
       /\ seen' = Asked(Now, l)
       /\ IF l = Elsewhere THEN FailWith("endpoint")
          ELSE IF ~TotalAgrees(Now, Len(lists[Now])) THEN FailWith("total")
          ELSE /\ items' = Gathered(OnPage(Now, PageOf(url)))
               /\ asked' = asked \cup {url}
               /\ url' = l
               /\ expected' = IF Now = "checks" /\ expected = None
                                THEN Len(lists[Now]) ELSE expected
               /\ UNCHANGED <<pc, at, evidence, checks, cause>>
  /\ UNCHANGED github

\* Mutant: duplicates are not compared.
NeverConflicting(s) == FALSE

\* The same identifier with other contents.
Conflicting(s) == \E i, j \in DOMAIN s : s[i].id = s[j].id /\ s[i] # s[j]

IncompleteList ==
  /\ pc = "page" /\ url = None
  /\ ~TotalReached \/ Conflicting(items)
  /\ FailWith(IF ~TotalReached THEN "total" ELSE "conflict")
  /\ UNCHANGED <<github, seen>>

ObservedChecks(runs) ==
  {[name |-> r.label, required |-> Required = {} \/ r.label \in Required,
    state |-> r.state] : r \in runs}

\* Mutant: only observed checks become facts.
NothingIsMissing(runs) == {}

MissingChecks(runs) ==
  {[name |-> n, required |-> TRUE, state |-> "missing"] :
     n \in Required \ {r.label : r \in runs}}

\* _collect_checks or one round of the loop in _collect_review_surfaces ends,
\* and the next list is asked for from its first page.
CloseList ==
  /\ pc = "page" /\ url = None
  /\ TotalReached /\ ~Conflicting(items)
  /\ evidence' = [evidence EXCEPT ![Now] = ToSet(items)]
  /\ checks' = IF Now # "checks" THEN checks
               ELSE ObservedChecks(ToSet(items)) \cup MissingChecks(ToSet(items))
  /\ IF at < Len(Order) THEN at' = at + 1 /\ pc' = pc ELSE at' = at /\ pc' = "facts"
  /\ url' = 0 /\ asked' = {} /\ expected' = None /\ items' = <<>>
  /\ UNCHANGED <<github, cause, seen>>

\* ReviewFacts checks its evidence once more and is handed to the assembler.
Deliver ==
  /\ pc = "facts"
  /\ pc' = "done"
  /\ UNCHANGED <<github, at, page, evidence, checks, cause, seen>>

Collector ==
  \/ Begin \/ RefuseRequest \/ FetchPage
  \/ IncompleteList \/ CloseList \/ Deliver

Next == Others \/ Collector \/ Fail

Spec == Init /\ [][Next]_vars

\* Every request is answered or times out, and the collector goes on; nothing is
\* assumed of the people who change the lists.
FairSpec == Spec /\ WF_vars(Collector)

-----------------------------------------------------------------------------
(* What the collection promises.                                           *)

Enumerated(e) ==
  \/ pc \in {"facts", "done"}
  \/ pc = "page" /\ e \in {Order[i] : i \in 1..(at - 1)}

EvidenceIds(e) == {r.id : r \in evidence[e]}

\* Everything that stood in a list, unedited, from its first request to its last
\* is evidence, unless something was removed from the list meanwhile: additions
\* push items to later pages and lose none.  A removal alone does not lose a
\* check run either, since total_count gives it away; only a removal together
\* with an addition does.
NothingMissed ==
  \A e \in Endpoints :
    \/ ~Enumerated(e) \/ seen[e].misled
    \/ seen[e].removed /\ (e = "checks" => seen[e].added)
    \/ seen[e].kept \subseteq evidence[e]

\* The claim of PR_REVIEW_CONTRACT.md without that exception.
EverythingEnumerated ==
  \A e \in Endpoints :
    Enumerated(e) /\ ~seen[e].misled => seen[e].kept \subseteq evidence[e]

\* An item that was edited between two pages on which it appears never gives two
\* records: evidence has one version of each run, comment and review.
OneVersion ==
  \A e \in Endpoints : \A r, s \in evidence[e] : r.id = s.id => r = s

\* A review in the evidence brings its inline comments with it, whenever it was
\* submitted: the list of reviews is read before the list of inline comments.
ReviewsAreWhole ==
  pc = "done" /\ ~seen["inline"].misled /\ ~seen["inline"].removed =>
    \A i \in DOMAIN lists["inline"] :
      lists["inline"][i].label \in EvidenceIds("review")
        => lists["inline"][i].id \in EvidenceIds("inline")

\* The collection gives up only for a reason: a link that leads nowhere, a change
\* while a list was read, or a list longer than MaxPages pages; a list of exactly
\* that length is read to its end.
RefusedForAReason ==
  pc = "failed" /\ cause # "error" =>
    LET s == seen[Now] IN
    \/ s.misled
    \/ s.added /\ cause \in {"limit", "total"}
    \/ s.removed /\ cause = "total"
    \/ s.edited /\ (s.added \/ s.removed) /\ cause = "conflict"
    \/ Len(s.first) > MaxPages * PerPage /\ cause = "limit"

\* What a quiet list yields is the list.
QuietIsExact ==
  \A e \in Endpoints :
    LET s == seen[e] IN
    Enumerated(e) /\ ~s.misled /\ ~s.added /\ ~s.removed /\ ~s.edited
      => evidence[e] = ToSet(s.first)

\* The evidence is one account of the pull request, of none of its items two.
EvidenceCoheres == OneVersion /\ ReviewsAreWhole /\ QuietIsExact

\* No required check is passed over: it has a fact with a result of its own, or
\* one that says it is missing, and the second only when no run of it was listed
\* throughout.
RequiredAnswered ==
  pc = "done" =>
    \A n \in Required :
      LET facts == {c \in checks : c.name = n} IN
      /\ facts # {} /\ \A c \in facts : c.required
      /\ (\E c \in facts : c.state = "missing") =>
           \/ ~\E r \in seen["checks"].kept : r.label = n
           \/ seen["checks"].misled
           \/ seen["checks"].removed /\ seen["checks"].added

\* Whatever the lists do and wherever their links lead, the collection ends.
Terminates == <>(pc \in {"done", "failed"})
=============================================================================
