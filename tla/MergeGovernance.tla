---------------------------- MODULE MergeGovernance ----------------------------
(***************************************************************************)
(* The governance evidence behind a merge_authorized event: what           *)
(* validate_rereview_sequence.py fetches from GitHub, what governance.py   *)
(* and _governance_settings.py conclude from it, and the enforcement       *)
(* capability sequence_enforcement.py binds to it.                         *)
(*                                                                         *)
(* The responses of one record are fetched one after the other while the   *)
(* pull request, its reviews and checks, the team and the settings of the  *)
(* repository change, and time passes.  Each response is a receipt with    *)
(* the time at which it was fetched; the verifier accepts receipts that    *)
(* are not older than MaxAge when the last one is in.                      *)
(***************************************************************************)
EXTENDS Naturals, Sequences, FiniteSets

CONSTANTS
  Heads,           \* head commits of the pull request
  Humans, Bots,    \* who reviews
  Author,          \* the author of the pull request, one of Humans
  Checks,          \* required checks: a context and the app that must report it
  SequenceCheck,   \* the check of the sequence validator, one of Checks
  Actors,          \* who may bypass the protections
  Rulesets,        \* identifiers of rulesets
  Settings,        \* what the settings of the repository may be changed to
  FirstWorlds,     \* what GitHub may hold at first
  PageSize,        \* per_page: only the first page of a list is fetched
  MaxAge,          \* MAX_RESPONSE_AGE_SECONDS
  MaxTime,         \* bound on the clock
  MaxChanges,      \* bound on the changes at GitHub
  MaxDisturbances, \* bound on changes, ticks and bad answers together
  MaxCollections,  \* bound on the records collected
  None             \* nothing: no setting, no answer, an unknown value

ASSUME AuthorIsHuman == Author \in Humans /\ Humans \cap Bots = {}
ASSUME SequenceIsACheck == SequenceCheck \in Checks
ASSUME NoneIsNothing ==
  None \notin Nat /\ None \notin BOOLEAN /\ \A S \in SUBSET Checks : S # None
ASSUME BoundsAreNatural ==
  /\ PageSize \in Nat \ {0} /\ MaxAge \in Nat /\ MaxTime \in Nat
  /\ MaxChanges \in Nat /\ MaxDisturbances \in Nat /\ MaxCollections \in Nat

Reviewers == Humans \cup Bots
Opinions  == {"APPROVED", "CHANGES_REQUESTED", "DISMISSED"}

\* How a ruleset names the default branch.  GitHub matches patterns: "pattern" is
\* ~ALL or a wildcard that includes the branch, "spared" a ruleset that names it
\* and excludes it again with a wildcard.
Targets == {"named", "pattern", "spared", "elsewhere"}

Rule == [reviews : BOOLEAN, count : Nat, dismiss : BOOLEAN, owner : BOOLEAN,
         checks : SUBSET Checks]

Protection == [rule : Rule, bypass : {None} \cup (SUBSET Actors), admins : BOOLEAN]
Ruleset    == [rule : Rule, bypass : SUBSET Actors, active : BOOLEAN, target : Targets]

Setting ==
  [protection : {None} \cup Protection, rulesets : [Rulesets -> {None} \cup Ruleset]]

OneReview == [by : Reviewers, state : Opinions, commit : Heads]
OneRun    == [check : Checks, head : Heads, state : {"running", "passed", "failed"}]

World ==
  [head : Heads, settings : Setting, members : SUBSET Humans,
   reviews : Seq(OneReview), runs : Seq(OneRun)]

\* An answer of GitHub, sealed with the time of its arrival.
Answers ==
  UNION {BOOLEAN, Heads, {None}, Protection, Ruleset,
         SUBSET Rulesets, SUBSET OneReview, SUBSET OneRun}

Receipt == [ok : BOOLEAN, at : Nat, data : Answers]

ASSUME SettingsAreSettings == Settings \subseteq Setting
ASSUME WorldsAreWorlds == FirstWorlds \subseteq World
ASSUME ReceiptsAreSomething == None \notin Receipt

VARIABLES
  world,        \* GitHub: the pull request, its reviews and checks, the settings
  past,         \* history: every world so far and the time it came about
  now,          \* the clock of the machine that fetches
  troubles,     \* how many answers were errors or malformed
  pc,           \* the verifier is idle, fetching, or has fetched all it asks for
  event,        \* the event evidence is collected for
  got,          \* the receipts, by what was asked for
  minted,       \* the VerifiedGovernanceEvidence capabilities, in order
  outcomes,     \* history: how the collections ended
  producers,    \* evidence for which a sequence producer was verified
  enforcements  \* the VerifiedSequenceEnforcement capabilities

github   == <<world, past>>
verifier == <<pc, event, got, outcomes>>
proofs   == <<producers, enforcements>>
vars     == <<world, past, now, troubles, pc, event, got, minted, outcomes,
              producers, enforcements>>

\* What is always asked for, in this order, and what follows from the answers.
Order == <<"repository", "pull_request", "branch_protection", "rulesets",
           "reviews", "checks">>
Core  == {Order[i] : i \in DOMAIN Order}
Keys  == Core \cup Rulesets \cup Humans

ASSUME KeysAreDistinct ==
  /\ Rulesets \cap Humans = {} /\ Core \cap (Rulesets \cup Humans) = {}
  /\ IsFiniteSet(Rulesets) /\ IsFiniteSet(Humans)

Statuses == {"insufficient_evidence", "verified_enforced", "verified_not_enforced",
             "partially_enforced"}
Outcomes == {"error", "stale", "mismatch", "minted"}

Evidence ==
  [head : Heads, at : Nat, since : Nat, until : Nat, wanted : BOOLEAN,
   status : Statuses, approvers : SUBSET Reviewers, required : SUBSET Checks,
   satisfied : BOOLEAN, complete : BOOLEAN, specialist : Humans \cup {None},
   authorized : BOOLEAN]

TypeOK ==
  /\ world \in World
  /\ past \in Seq([world : World, from : 0..MaxTime]) /\ past # <<>>
  /\ now \in 0..MaxTime /\ troubles \in 0..MaxDisturbances
  /\ pc \in {"idle", "fetching", "fetched"}
  /\ event \in [head : Heads, specialist : BOOLEAN, since : 1..Len(past)]
  /\ \A k \in Keys : got[k] # None => got[k].ok \in BOOLEAN /\ got[k].at \in 0..now
  /\ minted \in Seq(Evidence) /\ Len(minted) <= MaxCollections
  /\ outcomes \in Seq(Outcomes)
  /\ producers \subseteq DOMAIN minted
  /\ enforcements \subseteq (DOMAIN minted) \X (DOMAIN minted)

NothingAsked == [k \in Keys |-> None]

Init ==
  /\ world \in FirstWorlds
  /\ past = <<[world |-> world, from |-> 0]>>
  /\ now = 0 /\ troubles = 0
  /\ pc = "idle" /\ got = NothingAsked
  /\ event = [head |-> world.head, specialist |-> FALSE, since |-> 1]
  /\ minted = <<>> /\ outcomes = <<>>
  /\ producers = {} /\ enforcements = {}

-----------------------------------------------------------------------------
(* GitHub and time.                                                        *)

\* The bound of the exploration.
Calm == now + troubles + Len(past) <= MaxDisturbances

\* What changes between two collections is as if it had been so before.
Change(w) ==
  /\ Len(past) <= MaxChanges /\ Calm /\ pc = "fetching"
  /\ world' = w /\ w # world
  /\ past' = Append(past, [world |-> w, from |-> now])
  /\ UNCHANGED <<now, troubles, verifier, minted, proofs>>

Push == \E h \in Heads : Change([world EXCEPT !.head = h])

Review ==
  \E r \in Reviewers, s \in {"APPROVED", "CHANGES_REQUESTED"} :
    Change([world EXCEPT !.reviews = Append(@, [by |-> r, state |-> s, commit |-> world.head])])

Dismiss ==
  \E i \in DOMAIN world.reviews : Change([world EXCEPT !.reviews[i].state = "DISMISSED"])

\* A check is run, for the first time or again.
Run ==
  \E c \in Checks, s \in {"passed", "failed"} :
    Change([world EXCEPT !.runs = Append(@, [check |-> c, head |-> world.head, state |-> s])])

Reconfigure == \E s \in Settings : Change([world EXCEPT !.settings = s])

ChangeTeam ==
  \E h \in Humans : Change([world EXCEPT !.members = (@ \ {h}) \cup ({h} \ @)])

Tick ==
  /\ now < MaxTime /\ Calm
  /\ now' = now + 1
  /\ UNCHANGED <<github, troubles, verifier, minted, proofs>>

-----------------------------------------------------------------------------
(* _fetch_governance.                                                      *)

End(how) ==
  /\ pc' = "idle" /\ got' = NothingAsked
  /\ outcomes' = Append(outcomes, how)
  /\ UNCHANGED event

\* A merge_authorized event is met.  The head it names is where its author saw
\* the pull request.
Begin ==
  /\ pc = "idle" /\ Len(outcomes) < MaxCollections
  /\ pc' = "fetching"
  /\ \E i \in DOMAIN past, s \in BOOLEAN :
       event' = [head |-> past[i].world.head, specialist |-> s, since |-> Len(past)]
  /\ UNCHANGED <<github, now, troubles, got, minted, outcomes, proofs>>

\* The first page of a list whose items are at the places I.
FirstPage(I) == {i \in I : Cardinality({j \in I : j < i}) < PageSize}

OnHead(h, s) == {i \in DOMAIN s : s[i].head = h}

\* What GitHub answers when it holds w.
View(k, w) ==
  CASE k = "repository"        -> TRUE
    [] k = "pull_request"      -> w.head
    [] k = "branch_protection" -> w.settings.protection
    [] k = "rulesets"  -> {r \in Rulesets : /\ w.settings.rulesets[r] # None
                                            /\ w.settings.rulesets[r].active}
    [] k = "reviews"   -> {w.reviews[i] : i \in FirstPage(DOMAIN w.reviews)}
    [] k = "checks"    -> {w.runs[i] : i \in FirstPage(OnHead(event.head, w.runs))}
    [] k \in Rulesets  -> w.settings.rulesets[k]
    [] k \in Humans    -> k \in w.members

Answered(k) == got[k] # None
Good(k)     == Answered(k) /\ got[k].ok

Approved(reviews) ==
  {v.by : v \in {u \in reviews : u.state = "APPROVED" /\ u.commit = event.head}}

\* The requests the CLI makes next: the six in their order, then a detail for
\* every active ruleset, then the membership of everybody who approved.
Unanswered == {i \in DOMAIN Order : ~Answered(Order[i])}

Details == IF Good("rulesets") THEN got["rulesets"].data ELSE {}

Memberships ==
  IF event.specialist /\ Good("reviews") THEN Approved(got["reviews"].data) \cap Humans ELSE {}

Awaited ==
  IF Unanswered # {}
  THEN {Order[CHOOSE i \in Unanswered : \A j \in Unanswered : i <= j]}
  ELSE IF \E r \in Details : ~Answered(r) THEN {r \in Details : ~Answered(r)}
  ELSE {h \in Memberships : ~Answered(h)}

\* What may not exist is then answered with 404.
MayBeMissing == {"branch_protection"} \cup Rulesets

Absent(k) == k \in MayBeMissing /\ View(k, world) = None

\* One answer, sealed as a receipt.  Other than 200 or malformed it is a negative
\* receipt.
Fetch ==
  /\ pc = "fetching"
  /\ \E k \in Awaited, ok \in BOOLEAN :
       /\ ok => ~Absent(k)
       /\ ok \/ Absent(k) \/ Calm
       /\ troubles' = IF ok \/ Absent(k) THEN troubles ELSE troubles + 1
       /\ IF k = "repository" /\ ~ok
          THEN End("error")
          ELSE /\ got' = [got EXCEPT ![k] = [ok |-> ok, at |-> now, data |-> View(k, world)]]
               /\ UNCHANGED <<pc, event, outcomes>>
  /\ UNCHANGED <<github, now, minted, proofs>>

\* The network fails or an answer is no JSON: nothing is minted.
FetchFails ==
  /\ pc = "fetching" /\ Awaited # {} /\ Calm
  /\ troubles' = troubles + 1
  /\ End("error")
  /\ UNCHANGED <<github, now, minted, proofs>>

FetchedAll ==
  /\ pc = "fetching" /\ Awaited = {}
  /\ pc' = "fetched"
  /\ UNCHANGED <<github, now, troubles, event, got, minted, outcomes, proofs>>

-----------------------------------------------------------------------------
(* _governance_settings.py: what the settings are, and whether they enforce. *)

Unread == [reviews |-> None, count |-> None, dismiss |-> None, owner |-> None,
           checks |-> None, bypass |-> None]

\* Without required reviews the payload has nothing about who may bypass them.
BranchValues ==
  LET p == got["branch_protection"].data IN
  IF ~Good("branch_protection") THEN Unread
  ELSE IF ~p.rule.reviews
  THEN [reviews |-> FALSE, count |-> 0, dismiss |-> FALSE, owner |-> FALSE,
        checks |-> p.rule.checks, bypass |-> None]
  ELSE [reviews |-> TRUE, count |-> p.rule.count, dismiss |-> p.rule.dismiss,
        owner |-> p.rule.owner, checks |-> p.rule.checks,
        bypass |-> IF p.bypass = None THEN None
                   ELSE p.bypass \cup (IF p.admins THEN {} ELSE {"repository_admins"})]

\* Mutant: a ruleset applies to every branch.
TargetsAny(t) == TRUE

\* Names are compared, patterns are not matched.
TargetsDefaultBranch(t) == t \in {"named", "spared"}

DetailsComplete == Good("rulesets") /\ \A r \in Details : Good(r)

\* Mutant: the smallest count is what all of them ask for.
Least(S) == IF S = {} THEN 0 ELSE CHOOSE n \in S : \A m \in S : n <= m

Largest(S) == IF S = {} THEN 0 ELSE CHOOSE n \in S : \A m \in S : m <= n

\* The detail of a ruleset is taken as it is; whether it is still active is not
\* asked again.
RulesetValues ==
  LET applicable == {r \in Details : TargetsDefaultBranch(got[r].data.target)}
      rules   == {got[r].data.rule : r \in applicable}
      reviews == {u \in rules : u.reviews}
  IN  IF ~DetailsComplete THEN Unread
      ELSE [reviews |-> reviews # {}, count |-> Largest({u.count : u \in reviews}),
            dismiss |-> reviews # {} /\ \A u \in reviews : u.dismiss,
            owner   |-> reviews # {} /\ \A u \in reviews : u.owner,
            checks  |-> UNION {u.checks : u \in rules},
            bypass  |-> UNION {got[r].data.bypass : r \in applicable}]

\* Mutant: every source must ask for a protection.
EverySource(a, b) == IF {a, b} = {TRUE} THEN TRUE ELSE IF None \in {a, b} THEN None ELSE FALSE

\* _combine_bool and _combine_int: one source that asks for a protection is
\* enough.  Checks and bypasses must be known of both.
Either(a, b)  == IF TRUE \in {a, b} THEN TRUE ELSE IF None \in {a, b} THEN None ELSE FALSE
Greater(a, b) == IF {a, b} = {None} THEN None ELSE Largest({a, b} \ {None})
Both(a, b)    == IF None \in {a, b} THEN None ELSE a \cup b

Derived ==
  LET b == BranchValues r == RulesetValues IN
  [reviews |-> Either(b.reviews, r.reviews), count |-> Greater(b.count, r.count),
   dismiss |-> Either(b.dismiss, r.dismiss), owner |-> Either(b.owner, r.owner),
   checks |-> Both(b.checks, r.checks), bypass |-> Both(b.bypass, r.bypass)]

\* Mutant: any protection will do.
SomeProtection(s, limited) ==
  IF limited \/ \E f \in DOMAIN s : s[f] = None THEN "insufficient_evidence"
  ELSE IF s.bypass = {} /\ s.reviews THEN "verified_enforced"
  ELSE "partially_enforced"

\* derive_enforcement_status
Status(s, limited) ==
  IF limited \/ \E f \in DOMAIN s : s[f] = None THEN "insufficient_evidence"
  ELSE LET protections == {s.reviews, s.checks # {}, s.count >= 1, s.dismiss, s.owner} IN
       IF s.bypass = {} /\ protections = {TRUE} THEN "verified_enforced"
       ELSE IF s.bypass = {} /\ protections = {FALSE} THEN "verified_not_enforced"
       ELSE "partially_enforced"

-----------------------------------------------------------------------------
(* governance.py: the verifier.                                            *)

\* Mutant: a receipt may be of any age.
OfAnyAge(k) == Answered(k)

Fresh(k) == now <= got[k].at + MaxAge

\* Mutant: whoever approved.
ApprovedByAnybody == IF Good("reviews") THEN Approved(got["reviews"].data) ELSE {}

ValidReviewers ==
  IF Good("reviews") THEN Approved(got["reviews"].data) \ (Bots \cup {Author}) ELSE {}

Passed ==
  IF Good("checks")
  THEN {run.check : run \in {r \in got["checks"].data : r.state = "passed"}}
  ELSE {}

Qualified == {h \in ValidReviewers : Good(h) /\ got[h].data}

NeedsSpecialist == event.specialist /\ Qualified = {}

Limited ==
  \/ ~Good("branch_protection") \/ BranchValues.bypass = None
  \/ ~DetailsComplete
  \/ ~Good("reviews") \/ ~Good("checks")
  \/ NeedsSpecialist

\* The receipts the verifier looks at.
Used == Core \cup Details \cup
        (IF event.specialist THEN {h \in ValidReviewers : Answered(h)} ELSE {})

Mint ==
  LET s     == Derived
      req   == IF s.checks = None THEN {} ELSE s.checks
      done  == s.count # None /\ s.count >= 1 /\ Cardinality(ValidReviewers) >= s.count
      sat   == req # {} /\ req \subseteq Passed
      state == Status(s, Limited)
  IN  [head |-> event.head, at |-> now, since |-> event.since, until |-> Len(past),
       wanted |-> event.specialist, status |-> state,
       approvers |-> ValidReviewers, required |-> req, satisfied |-> sat, complete |-> done,
       specialist |-> IF event.specialist /\ Qualified # {} THEN CHOOSE h \in Qualified : TRUE
                      ELSE None,
       authorized |-> /\ done /\ sat /\ ~NeedsSpecialist
                      /\ state = "verified_enforced" /\ s.bypass = {}]

\* verify_github_governance_source and verify_governance_record: stale receipts
\* and another pull request are refused, all else ends in a capability.
Refuse ==
  /\ pc = "fetched"
  /\ \/ /\ \E k \in Used : ~Fresh(k)
        /\ End("stale")
     \/ /\ \A k \in Used : Fresh(k)
        /\ ~Good("pull_request") \/ got["pull_request"].data # event.head
        /\ End("mismatch")
  /\ UNCHANGED <<github, now, troubles, minted, proofs>>

\* Mutant: a record is minted again when it is verified.
MintTwice ==
  /\ pc = "fetched"
  /\ \A k \in Used : Fresh(k)
  /\ Good("pull_request") /\ got["pull_request"].data = event.head
  /\ minted' = minted \o <<Mint, Mint>>
  /\ End("minted")
  /\ UNCHANGED <<github, now, troubles, proofs>>

Verify ==
  /\ pc = "fetched"
  /\ \A k \in Used : Fresh(k)
  /\ Good("pull_request") /\ got["pull_request"].data = event.head
  /\ minted' = Append(minted, Mint)
  /\ End("minted")
  /\ UNCHANGED <<github, now, troubles, proofs>>

-----------------------------------------------------------------------------
(* sequence_enforcement.py                                                 *)

Designated(i) == SequenceCheck \in minted[i].required /\ minted[i].satisfied

VerifyProducer ==
  /\ \E i \in (DOMAIN minted) \ producers :
       /\ Designated(i)
       /\ producers' = producers \cup {i}
  /\ UNCHANGED <<github, now, troubles, verifier, minted, enforcements>>

\* Mutant: the same pull request and head will do.
SameHead(i, p) == minted[i].head = minted[p].head

ProducerMatches(i, p) == i = p

VerifyEnforcement ==
  /\ \E i \in DOMAIN minted, p \in producers :
       /\ <<i, p>> \notin enforcements
       /\ ProducerMatches(i, p) /\ Designated(i)
       /\ enforcements' = enforcements \cup {<<i, p>>}
  /\ UNCHANGED <<github, now, troubles, verifier, minted, producers>>

Others   == Push \/ Review \/ Dismiss \/ Run \/ Reconfigure \/ ChangeTeam
Verifier == Begin \/ Fetch \/ FetchFails \/ FetchedAll \/ Refuse \/ Verify
Next     == Others \/ Tick \/ Verifier \/ VerifyProducer \/ VerifyEnforcement

Spec == Init /\ [][Next]_vars

-----------------------------------------------------------------------------
(* What the evidence promises.                                             *)

\* The worlds in which the receipts of e may have been fetched if none was older
\* than MaxAge.
Window(e) ==
  {past[i].world : i \in {j \in e.since..e.until :
                            j = e.until \/ past[j + 1].from + MaxAge >= e.at}}

Quiet(e) == e.since = e.until

Approving(w, h) == {w.reviews[i].by : i \in {j \in DOMAIN w.reviews :
                      w.reviews[j].state = "APPROVED" /\ w.reviews[j].commit = h}}

Passing(w, h) == {w.runs[i].check : i \in {j \in DOMAIN w.runs :
                    w.runs[j].state = "passed" /\ w.runs[j].head = h}}

\* The responses of one record are fetched one by one, but all that authorizes a
\* merge was so within the last MaxAge: the pull request was at the head, every
\* approver other than its author and bots approved that head, every required
\* check had passed on it, and the specialist was a member of the team.
HeldWithinWindow ==
  \A n \in DOMAIN minted :
    LET e == minted[n] IN
    e.authorized =>
      /\ \E w \in Window(e) : w.head = e.head
      /\ e.approvers \cap (Bots \cup {Author}) = {}
      /\ \A r \in e.approvers : \E w \in Window(e) : r \in Approving(w, e.head)
      /\ \A c \in e.required : \E w \in Window(e) : c \in Passing(w, e.head)
      /\ e.wanted => /\ e.specialist \in e.approvers
                     /\ \E w \in Window(e) : e.specialist \in w.members

\* The rules GitHub applies to the default branch.
Sources(s) ==
  {s.rulesets[r] : r \in {q \in Rulesets :
     /\ s.rulesets[q] # None
     /\ s.rulesets[q].active /\ s.rulesets[q].target \in {"named", "pattern"}}}

AppliedRules(s) ==
  {q.rule : q \in Sources(s)} \cup (IF s.protection = None THEN {} ELSE {s.protection.rule})

Spares(s) == \E r \in Rulesets : s.rulesets[r] # None /\ s.rulesets[r].target = "spared"

\* Settings that stand still during the collection and are found enforced are
\* enforced by GitHub: reviews by others and code owners, their dismissal by a
\* push, and checks, from which nobody of the sources relied on is exempt.  A
\* ruleset that spares the branch by a wildcard is the exception.
EnforcedIsEnforced ==
  \A n \in DOMAIN minted :
    LET e == minted[n] s == past[e.since].world.settings
        reviewing == {u \in AppliedRules(s) : u.reviews} IN
    e.status = "verified_enforced" /\ Quiet(e) /\ ~Spares(s) =>
      /\ \E u \in reviewing : u.count >= 1
      /\ \E u \in reviewing : u.dismiss
      /\ \E u \in reviewing : u.owner
      /\ e.required # {} /\ e.required \subseteq UNION {u.checks : u \in AppliedRules(s)}
      /\ s.protection.admins /\ s.protection.bypass = {}
      /\ \A q \in Sources(s) : q.target = "named" => q.bypass = {}

\* GitHub goes by the last opinion of a reviewer and the last run of a check.
Latest(S) == CHOOSE i \in S : \A j \in S : j <= i

Opinion(w, r) ==
  LET all == {i \in DOMAIN w.reviews : w.reviews[i].by = r} IN
  IF all = {} THEN [by |-> r, state |-> "COMMENTED", commit |-> w.head]
  ELSE w.reviews[Latest(all)]

Runs(w, c, h) == {i \in DOMAIN w.runs : w.runs[i].check = c /\ w.runs[i].head = h}

Passes(w, c, h) == Runs(w, c, h) # {} /\ w.runs[Latest(Runs(w, c, h))].state = "passed"

Stands(w, r, h) == Opinion(w, r).state = "APPROVED" /\ Opinion(w, r).commit = h

Objected(w) == \E r \in Humans : Opinion(w, r).state = "CHANGES_REQUESTED"

Satisfied(w, h) ==
  LET rules == AppliedRules(w.settings) IN
  /\ w.head = h /\ ~Objected(w)
  /\ \A u \in rules : u.reviews =>
       Cardinality({r \in Humans \ {Author} : Stands(w, r, h)}) >= u.count
  /\ \A u \in rules : \A c \in u.checks : Passes(w, c, h)

\* What the verifier does not look for: a later opinion, a later run.
Overtaken(e, w) ==
  \/ Objected(w)
  \/ \E r \in e.approvers : ~Stands(w, r, e.head)
  \/ \E c \in e.required : ~Passes(w, c, e.head)

ByPattern(s) == \E r \in Rulesets : s.rulesets[r] # None /\ s.rulesets[r].target = "pattern"

\* When GitHub stands still during the collection, what is authorized is what
\* GitHub itself would let be merged.  The exceptions are known: an approval
\* counts whatever its author said later, a check that once passed has passed,
\* and a ruleset that names the branch by a pattern is overlooked.
AuthorizedIsSatisfied ==
  \A n \in DOMAIN minted :
    LET e == minted[n] w == past[e.since].world IN
    e.authorized /\ Quiet(e) /\ ~Overtaken(e, w) /\ ~ByPattern(w.settings)
      => Satisfied(w, e.head)

OnePage(w) == Len(w.reviews) <= PageSize /\ Len(w.runs) <= PageSize

\* What the verifier can recognise: branch protection with reviews whose bypass
\* is listed, together with the rulesets that name the branch.
Recognisable(s) ==
  /\ s.protection # None /\ s.protection.rule.reviews /\ s.protection.rule.count >= 1
  /\ s.protection.rule.dismiss /\ s.protection.rule.owner /\ s.protection.rule.checks # {}
  /\ s.protection.bypass = {} /\ s.protection.admins
  /\ \A q \in Sources(s) : q.bypass = {}
  /\ ~Spares(s) /\ ~ByPattern(s)

\* And the converse: what GitHub would let be merged under full protection is
\* authorized, when every answer is good, no list is longer than a page and a
\* specialist, where one is needed, is among the approvers.
SatisfiedIsAuthorized ==
  \A n \in DOMAIN minted :
    LET e == minted[n] w == past[e.since].world IN
    /\ Quiet(e) /\ troubles = 0 /\ OnePage(w)
    /\ Recognisable(w.settings) /\ Satisfied(w, e.head)
    /\ e.wanted => \E r \in e.approvers : r \in w.members
    => e.authorized

\* An enforcement capability rests on one collection: the run of the sequence
\* check it stands for had passed on the head within MaxAge of the evidence for
\* which its producer was verified.
EnforcementIsOfOneWindow ==
  \A c \in enforcements :
    LET e == minted[c[1]] p == minted[c[2]] IN
    /\ e.head = p.head /\ e.at <= p.at + MaxAge
    /\ \E w \in Window(e) : SequenceCheck \in Passing(w, e.head)
=============================================================================
