------------------------ MODULE MergeGovernanceProofs ------------------------
(***************************************************************************)
(* Theorems about the governance evidence, for every repository, settings, *)
(* interleaving of fetches with changes, and number of collections.        *)
(*                                                                         *)
(* The argument: every good receipt shows what GitHub held in some world   *)
(* since the event, one that had not been replaced when the receipt was    *)
(* fetched (Receipts).  The verifier refuses receipts older than MaxAge,   *)
(* so that world is of the window of the evidence it mints (Held).         *)
(***************************************************************************)
EXTENDS MergeGovernance, FiniteSetTheorems, TLAPS

Tabled == got = [k \in Keys |-> got[k]]

Idle == pc = "idle" => got = NothingAsked

Counted ==
  /\ Len(minted) <= Len(outcomes) /\ Len(outcomes) <= MaxCollections
  /\ pc # "idle" => Len(outcomes) < MaxCollections

Present ==
  /\ past[Len(past)].world = world
  /\ \A i \in DOMAIN past : past[i].from <= now

\* The receipt for k shows the i-th world, which was not yet replaced.
Seen(k, i) ==
  /\ got[k].data = View(k, past[i].world)
  /\ i = Len(past) \/ got[k].at <= past[i + 1].from

Receipts ==
  \A k \in Keys : Good(k) =>
    /\ k \in MayBeMissing => got[k].data # None
    /\ \E i \in event.since..Len(past) : Seen(k, i)

Base == TypeOK /\ Tabled /\ Idle /\ Counted /\ Present /\ Receipts

-----------------------------------------------------------------------------
(* What receipts hold.                                                     *)

LEMMA CoreKeys ==
  /\ Core = {"repository", "pull_request", "branch_protection", "rulesets", "reviews", "checks"}
  /\ Core \subseteq Keys /\ Rulesets \subseteq Keys /\ Humans \subseteq Keys
BY DEF Core, Order, Keys

\* What is asked for decides what View answers: the keys are distinct.
LEMMA ViewOfKeys ==
  ASSUME NEW w
  PROVE  /\ View("pull_request", w) = w.head
         /\ View("branch_protection", w) = w.settings.protection
         /\ View("rulesets", w) = {r \in Rulesets : /\ w.settings.rulesets[r] # None
                                                    /\ w.settings.rulesets[r].active}
         /\ View("reviews", w) = {w.reviews[i] : i \in FirstPage(DOMAIN w.reviews)}
         /\ View("checks", w) = {w.runs[i] : i \in FirstPage(OnHead(event.head, w.runs))}
         /\ \A r \in Rulesets : View(r, w) = w.settings.rulesets[r]
         /\ \A h \in Humans : View(h, w) = (h \in w.members)
<1>1. \A r \in Rulesets : r \notin Core /\ r \notin Humans
  BY KeysAreDistinct
<1>2. \A h \in Humans : h \notin Core /\ h \notin Rulesets
  BY KeysAreDistinct
<1>3. \A c \in Core : c \notin Rulesets /\ c \notin Humans
  BY KeysAreDistinct
<1>4. View("pull_request", w) = w.head
  BY <1>3, CoreKeys DEF View
<1>5. View("branch_protection", w) = w.settings.protection
  BY <1>3, CoreKeys DEF View
<1>6. View("rulesets", w) = {r \in Rulesets : /\ w.settings.rulesets[r] # None
                                              /\ w.settings.rulesets[r].active}
  BY <1>3, CoreKeys DEF View
<1>7. View("reviews", w) = {w.reviews[i] : i \in FirstPage(DOMAIN w.reviews)}
  BY <1>3, CoreKeys DEF View
<1>8. View("checks", w) = {w.runs[i] : i \in FirstPage(OnHead(event.head, w.runs))}
  BY <1>3, CoreKeys DEF View
<1>9. \A r \in Rulesets : View(r, w) = w.settings.rulesets[r]
  BY <1>1, CoreKeys DEF View
<1>10. \A h \in Humans : View(h, w) = (h \in w.members)
  BY <1>2, CoreKeys DEF View
<1> QED BY <1>4, <1>5, <1>6, <1>7, <1>8, <1>9, <1>10

\* What the receipts hold was so in worlds since the event.
LEMMA ReceiptsHold ==
  ASSUME Base
  PROVE  /\ Good("pull_request") => \E i \in event.since..Len(past) :
              Seen("pull_request", i) /\ got["pull_request"].data = past[i].world.head
         /\ Good("reviews") => \E i \in event.since..Len(past) :
              /\ Seen("reviews", i)
              /\ got["reviews"].data \subseteq {past[i].world.reviews[j] : j \in DOMAIN past[i].world.reviews}
         /\ Good("checks") => \E i \in event.since..Len(past) :
              /\ Seen("checks", i)
              /\ got["checks"].data \subseteq
                   {past[i].world.runs[j] : j \in OnHead(event.head, past[i].world.runs)}
         /\ Good("rulesets") => got["rulesets"].data \subseteq Rulesets
         /\ \A h \in Humans : Good(h) => \E i \in event.since..Len(past) :
              Seen(h, i) /\ got[h].data = (h \in past[i].world.members)
<1>1. \A k \in Keys : Good(k) => \E i \in event.since..Len(past) : Seen(k, i)
  BY DEF Base, Receipts
<1>2. Good("pull_request") => \E i \in event.since..Len(past) :
            Seen("pull_request", i) /\ got["pull_request"].data = past[i].world.head
  BY <1>1, CoreKeys, ViewOfKeys DEF Seen
<1>3. Good("reviews") => \E i \in event.since..Len(past) :
            /\ Seen("reviews", i)
            /\ got["reviews"].data \subseteq {past[i].world.reviews[j] : j \in DOMAIN past[i].world.reviews}
  <2> SUFFICES ASSUME Good("reviews"), NEW i \in event.since..Len(past), Seen("reviews", i)
               PROVE  got["reviews"].data \subseteq {past[i].world.reviews[j] : j \in DOMAIN past[i].world.reviews}
    BY <1>1, CoreKeys
  <2>1. got["reviews"].data = {past[i].world.reviews[j] : j \in FirstPage(DOMAIN past[i].world.reviews)}
    BY ViewOfKeys DEF Seen
  <2> QED BY <2>1 DEF FirstPage
<1>4. Good("checks") => \E i \in event.since..Len(past) :
            /\ Seen("checks", i)
            /\ got["checks"].data \subseteq
                 {past[i].world.runs[j] : j \in OnHead(event.head, past[i].world.runs)}
  <2> SUFFICES ASSUME Good("checks"), NEW i \in event.since..Len(past), Seen("checks", i)
               PROVE  got["checks"].data \subseteq
                 {past[i].world.runs[j] : j \in OnHead(event.head, past[i].world.runs)}
    BY <1>1, CoreKeys
  <2>1. got["checks"].data =
          {past[i].world.runs[j] : j \in FirstPage(OnHead(event.head, past[i].world.runs))}
    BY ViewOfKeys DEF Seen
  <2> QED BY <2>1 DEF FirstPage
<1>5. Good("rulesets") => got["rulesets"].data \subseteq Rulesets
  <2> SUFFICES ASSUME Good("rulesets"), NEW i \in event.since..Len(past), Seen("rulesets", i)
               PROVE  got["rulesets"].data \subseteq Rulesets
    BY <1>1, CoreKeys
  <2> QED BY ViewOfKeys DEF Seen
<1>6. \A h \in Humans : Good(h) => \E i \in event.since..Len(past) :
            Seen(h, i) /\ got[h].data = (h \in past[i].world.members)
  BY <1>1, CoreKeys, ViewOfKeys DEF Seen
<1> QED BY <1>2, <1>3, <1>4, <1>5, <1>6

LEMMA SettingParts ==
  ASSUME NEW s \in Setting
  PROVE  /\ s.protection \in {None} \cup Protection
         /\ \A r \in Rulesets : s.rulesets[r] \in {None} \cup Ruleset
<1> DEFINE R == [Rulesets -> {None} \cup Ruleset]
           P == {None} \cup Protection
<1>1. Setting = [protection : P, rulesets : R]
  BY DEF Setting
<1> HIDE DEF P, R
<1>2. s.protection \in P /\ s.rulesets \in R
  BY <1>1
<1> QED BY <1>2 DEF P, R

Episode == [world : World, from : 0..MaxTime]

LEMMA WorldParts ==
  /\ World = [head : Heads, settings : Setting, members : SUBSET Humans,
              reviews : Seq(OneReview), runs : Seq(OneRun)]
  /\ \A w \in World : /\ w.head \in Heads /\ w.settings \in Setting
                       /\ w.members \in SUBSET Humans
                       /\ w.reviews \in Seq(OneReview) /\ w.runs \in Seq(OneRun)
<1>1. World = [head : Heads, settings : Setting, members : SUBSET Humans,
               reviews : Seq(OneReview), runs : Seq(OneRun)]
  BY Zenon DEF World, OneReview, OneRun
<1> QED BY <1>1

LEMMA WorldsOfThePast ==
  ASSUME Base, NEW i \in DOMAIN past
  PROVE  /\ past[i].world \in World /\ past[i].from \in 0..MaxTime
         /\ past[i].world.settings.protection \in {None} \cup Protection
         /\ \A r \in Rulesets : past[i].world.settings.rulesets[r] \in {None} \cup Ruleset
         /\ \A j \in DOMAIN past[i].world.reviews : past[i].world.reviews[j].by \in Reviewers
<1>1. past[i].world \in World /\ past[i].from \in 0..MaxTime
  <2>1. past \in Seq(Episode)
    BY DEF Base, TypeOK, Episode
  <2>2. past[i] \in Episode
    BY <2>1
  <2> QED BY <2>2 DEF Episode
<1>2. /\ past[i].world.settings \in Setting
      /\ past[i].world.reviews \in Seq(OneReview)
  BY <1>1, WorldParts
<1>3. ASSUME NEW j \in DOMAIN past[i].world.reviews
      PROVE  past[i].world.reviews[j].by \in Reviewers
  <2>1. past[i].world.reviews[j] \in OneReview
    BY <1>2
  <2> QED BY <2>1 DEF OneReview
<1> QED BY <1>1, <1>2, <1>3, SettingParts

LEMMA SettingsOfReceipts ==
  ASSUME Base
  PROVE  /\ Good("branch_protection") => got["branch_protection"].data \in Protection
         /\ \A r \in Rulesets : Good(r) => got[r].data \in Ruleset
<1>1. \A k \in Keys : Good(k) =>
        (k \in MayBeMissing => got[k].data # None) /\ \E i \in event.since..Len(past) : Seen(k, i)
  BY DEF Base, Receipts
<1>2. event.since..Len(past) \subseteq DOMAIN past
  BY DEF Base, TypeOK
<1>3. ASSUME Good("branch_protection")
      PROVE  got["branch_protection"].data \in Protection
  <2>1. PICK i \in event.since..Len(past) : Seen("branch_protection", i)
    BY <1>1, <1>3, CoreKeys
  <2> QED BY <1>1, <1>2, <1>3, <2>1, CoreKeys, ViewOfKeys, WorldsOfThePast DEF Seen, MayBeMissing
<1>4. ASSUME NEW r \in Rulesets, Good(r)
      PROVE  got[r].data \in Ruleset
  <2>1. PICK i \in event.since..Len(past) : Seen(r, i)
    BY <1>1, <1>4, CoreKeys
  <2>2. r \in Keys
    BY CoreKeys
  <2> QED BY <1>1, <1>2, <1>4, <2>1, <2>2, ViewOfKeys, WorldsOfThePast DEF Seen, MayBeMissing
<1> QED BY <1>3, <1>4

\* Approvals on the head and checks that passed are those of the worlds seen.
LEMMA ReviewersAreReviewers ==
  ASSUME Base
  PROVE  ValidReviewers \subseteq Humans \ {Author}
<1> SUFFICES ASSUME Good("reviews"), NEW r \in ValidReviewers PROVE r \in Reviewers
  BY DEF ValidReviewers, Reviewers
<1>1. PICK i \in event.since..Len(past) :
        got["reviews"].data \subseteq {past[i].world.reviews[j] : j \in DOMAIN past[i].world.reviews}
  BY ReceiptsHold
<1>2. i \in DOMAIN past
  BY DEF Base, TypeOK
<1>3. \E j \in DOMAIN past[i].world.reviews : r = past[i].world.reviews[j].by
  BY <1>1 DEF ValidReviewers, Approved
<1> QED BY <1>2, <1>3, WorldsOfThePast

LEMMA RequiredAreChecks ==
  ASSUME Base
  PROVE  Derived.checks = None \/ Derived.checks \subseteq Checks
<1> SUFFICES ASSUME Derived.checks # None PROVE Derived.checks \subseteq Checks
  OBVIOUS
<1>1. Derived.checks = Both(BranchValues.checks, RulesetValues.checks)
  BY DEF Derived
<1>2. BranchValues.checks # None /\ RulesetValues.checks # None
  BY <1>1 DEF Both
<1>3. Derived.checks = BranchValues.checks \cup RulesetValues.checks
  BY <1>1, <1>2 DEF Both
<1>4. BranchValues.checks \subseteq Checks
  <2>1. Good("branch_protection")
    BY <1>2 DEF BranchValues, Unread
  <2>2. got["branch_protection"].data.rule \in Rule
    BY <2>1, SettingsOfReceipts DEF Protection
  <2>3. BranchValues.checks = got["branch_protection"].data.rule.checks
    BY <2>1 DEF BranchValues
  <2> QED BY <2>2, <2>3 DEF Rule
<1>5. RulesetValues.checks \subseteq Checks
  <2> DEFINE applicable == {r \in Details : TargetsDefaultBranch(got[r].data.target)}
  <2>1. DetailsComplete
    BY <1>2 DEF RulesetValues, Unread
  <2>2. RulesetValues.checks = UNION {u.checks : u \in {got[r].data.rule : r \in applicable}}
    BY <2>1 DEF RulesetValues
  <2>3. Details \subseteq Rulesets
    BY ReceiptsHold DEF Details
  <2>4. \A r \in applicable : got[r].data.rule \in Rule
    BY <2>1, <2>3, SettingsOfReceipts DEF DetailsComplete, Ruleset
  <2>5. \A u \in {got[r].data.rule : r \in applicable} : u.checks \subseteq Checks
    BY <2>4 DEF Rule
  <2> QED BY <2>2, <2>5
<1> QED BY <1>3, <1>4, <1>5

LEMMA MintTyped ==
  ASSUME Base
  PROVE  Mint \in Evidence
<1> DEFINE s     == Derived
           req   == IF s.checks = None THEN {} ELSE s.checks
           done  == s.count # None /\ s.count >= 1 /\ Cardinality(ValidReviewers) >= s.count
           sat   == req # {} /\ req \subseteq Passed
           state == Status(s, Limited)
           specialist == IF event.specialist /\ Qualified # {}
                         THEN CHOOSE h \in Qualified : TRUE ELSE None
           authorized == /\ done /\ sat /\ ~NeedsSpecialist
                         /\ state = "verified_enforced" /\ s.bypass = {}
<1>1. req \in SUBSET Checks
  BY RequiredAreChecks
<1>2. ValidReviewers \in SUBSET Reviewers /\ Qualified \subseteq Humans
  BY ReviewersAreReviewers DEF Qualified, Reviewers
<1>3. specialist \in Humans \cup {None}
  BY <1>2
<1>4. state \in Statuses
  BY DEF Status, Statuses
<1>5. /\ event.head \in Heads /\ now \in Nat /\ event.since \in Nat
      /\ Len(past) \in Nat /\ event.specialist \in BOOLEAN
  BY BoundsAreNatural DEF Base, TypeOK
<1>6. done \in BOOLEAN /\ sat \in BOOLEAN /\ authorized \in BOOLEAN
  OBVIOUS
<1>7. Mint = [head |-> event.head, at |-> now, since |-> event.since, until |-> Len(past),
       wanted |-> event.specialist, status |-> state,
       approvers |-> ValidReviewers, required |-> req, satisfied |-> sat, complete |-> done,
       specialist |-> specialist, authorized |-> authorized]
  BY DEF Mint
<1> HIDE DEF s, req, done, sat, state, specialist, authorized
<1> QED BY <1>1, <1>2, <1>3, <1>4, <1>5, <1>6, <1>7 DEF Evidence

-----------------------------------------------------------------------------
(* The steps keep it so.                                                   *)

LEMMA InitBase == Init => Base
<1> SUFFICES ASSUME Init PROVE Base
  OBVIOUS
<1>1. world \in World
  BY WorldsAreWorlds DEF Init
<1>2. past \in Seq([world : World, from : 0..MaxTime]) /\ past # <<>> /\ Len(past) = 1
      /\ past[1].world = world /\ past[1].from = 0
  <2>1. [world |-> world, from |-> 0] \in [world : World, from : 0..MaxTime]
    BY <1>1, BoundsAreNatural
  <2> QED BY <2>1 DEF Init
<1>3. event \in [head : Heads, specialist : BOOLEAN, since : 1..Len(past)]
  <2>1. world.head \in Heads
    BY <1>1, WorldParts
  <2> QED BY <1>2, <2>1 DEF Init
<1>4. \A k \in Keys : got[k] = None
  BY DEF Init, NothingAsked
<1>5. TypeOK
  BY <1>1, <1>2, <1>3, <1>4, BoundsAreNatural DEF Init, TypeOK
<1>6. Tabled /\ Idle /\ Counted
  BY <1>4, BoundsAreNatural DEF Init, Tabled, Idle, Counted, NothingAsked
<1>7. Present
  BY <1>2, BoundsAreNatural DEF Present, Init
<1>8. Receipts
  BY <1>4 DEF Receipts, Good, Answered
<1> QED BY <1>5, <1>6, <1>7, <1>8 DEF Base

\* What GitHub changes to is added to the past; no receipt is from before it.
LEMMA ChangeKeeps ==
  ASSUME Base, NEW w \in World, Change(w)
  PROVE  Base'
<1> DEFINE episode == [world |-> w, from |-> now]
<1>1. /\ past \in Seq(Episode) /\ past # <<>> /\ now \in 0..MaxTime
  BY DEF Base, TypeOK, Episode
<1>2. episode \in Episode
  BY <1>1 DEF Episode
<1>3. past' = Append(past, episode) /\ world' = w
  BY DEF Change
<1>4. UNCHANGED <<now, troubles, pc, event, got, outcomes, minted, producers, enforcements>>
  BY DEF Change, verifier, proofs
<1> HIDE DEF episode
<1>5. /\ past' \in Seq(Episode) /\ past' # <<>> /\ Len(past') = Len(past) + 1
      /\ past'[Len(past')] = episode
      /\ \A i \in DOMAIN past : i \in DOMAIN past' /\ past'[i] = past[i]
      /\ Len(past) \in Nat /\ Len(past) >= 1
  BY <1>1, <1>2, <1>3
<1>6. Present'
  <2>1. past'[Len(past')].world = world'
    BY <1>3, <1>5 DEF episode
  <2>2. ASSUME NEW i \in DOMAIN past' PROVE past'[i].from <= now'
    <3>1. CASE i \in DOMAIN past
      BY <3>1, <1>4, <1>5 DEF Base, Present
    <3>2. CASE i \notin DOMAIN past
      <4>1. i = Len(past')
        BY <3>2, <1>1, <1>5
      <4>2. past'[i].from = now
        BY <4>1, <1>5 DEF episode
      <4> QED BY <4>2, <1>1, <1>4, BoundsAreNatural
    <3> QED BY <3>1, <3>2
  <2> QED BY <2>1, <2>2 DEF Present
<1>7. Receipts'
  <2> SUFFICES ASSUME NEW k \in Keys, Good(k)'
               PROVE  /\ k \in MayBeMissing => got'[k].data # None
                      /\ \E i \in event'.since..Len(past') : Seen(k, i)'
    BY DEF Receipts
  <2>1. Good(k) /\ got'[k] = got[k]
    BY <1>4 DEF Good, Answered
  <2>2. PICK i \in event.since..Len(past) : Seen(k, i)
    BY <2>1 DEF Base, Receipts
  <2>3. (k \in MayBeMissing => got[k].data # None) /\ got[k].at \in 0..now
    BY <2>1 DEF Base, Receipts, TypeOK, Good, Answered
  <2>4. i \in DOMAIN past /\ i \in event'.since..Len(past')
    BY <1>4, <1>5, <2>2 DEF Base, TypeOK
  <2>5. got'[k].data = View(k, past[i].world)'
    <3>1. past'[i] = past[i] /\ event' = event
      BY <1>4, <1>5, <2>4
    <3>2. View(k, past[i].world)' = View(k, past[i].world)
      BY <3>1 DEF View
    <3> QED BY <2>1, <2>2, <3>2 DEF Seen
  <2>6. i = Len(past') \/ got'[k].at <= past'[i + 1].from
    <3>1. CASE i = Len(past)
      <4>1. past'[i + 1].from = now
        BY <3>1, <1>5 DEF episode
      <4> QED BY <4>1, <2>1, <2>3, <1>1
    <3>2. CASE i # Len(past)
      <4>1. i + 1 \in DOMAIN past
        BY <3>2, <2>4, <1>1
      <4> QED BY <4>1, <3>2, <2>1, <2>2, <1>5 DEF Seen
    <3> QED BY <3>1, <3>2
  <2> QED BY <2>1, <2>3, <2>4, <2>5, <2>6 DEF Seen
<1>8. TypeOK'
  <2>1. event' \in [head : Heads, specialist : BOOLEAN, since : 1..Len(past')]
    BY <1>4, <1>5 DEF Base, TypeOK
  <2> QED BY <2>1, <1>3, <1>4, <1>5 DEF Base, TypeOK, Episode
<1>9. Tabled' /\ Idle' /\ Counted'
  BY <1>4 DEF Base, Tabled, Idle, Counted, NothingAsked
<1> QED BY <1>6, <1>7, <1>8, <1>9 DEF Base

LEMMA OthersKeep == Base /\ Others => Base'
<1> SUFFICES ASSUME Base, Others PROVE Base'
  OBVIOUS
<1>1. /\ world \in World /\ world.head \in Heads /\ world.settings \in Setting
      /\ world.members \in SUBSET Humans
      /\ world.reviews \in Seq(OneReview) /\ world.runs \in Seq(OneRun)
  BY WorldParts DEF Base, TypeOK
<1> DEFINE W == [head : Heads, settings : Setting, members : SUBSET Humans,
                 reviews : Seq(OneReview), runs : Seq(OneRun)]
<1>2. W = World
  BY WorldParts
<1>3. CASE Push
  <2>1. PICK h \in Heads : Change([world EXCEPT !.head = h])
    BY <1>3 DEF Push
  <2>2. [world EXCEPT !.head = h] \in W
    BY <1>1, <1>2
  <2> QED BY <2>1, <2>2, <1>2, ChangeKeeps
<1>4. CASE Review
  <2>1. PICK r \in Reviewers, s \in {"APPROVED", "CHANGES_REQUESTED"} :
          Change([world EXCEPT !.reviews = Append(@, [by |-> r, state |-> s, commit |-> world.head])])
    BY <1>4 DEF Review
  <2> DEFINE review == [by |-> r, state |-> s, commit |-> world.head]
             reviews == Append(world.reviews, review)
  <2>2. review \in OneReview
    BY <1>1 DEF OneReview, Opinions
  <2>3. reviews \in Seq(OneReview)
    BY <1>1, <2>2
  <2> HIDE DEF review, reviews
  <2>4. [world EXCEPT !.reviews = reviews] \in W
    BY <1>1, <1>2, <2>3
  <2> QED BY <2>1, <2>4, <1>2, ChangeKeeps DEF reviews, review
<1>5. CASE Dismiss
  <2>1. PICK i \in DOMAIN world.reviews : Change([world EXCEPT !.reviews[i].state = "DISMISSED"])
    BY <1>5 DEF Dismiss
  <2> DEFINE review == [world.reviews[i] EXCEPT !.state = "DISMISSED"]
             reviews == [world.reviews EXCEPT ![i] = review]
  <2>2. review \in OneReview
    <3>1. world.reviews[i] \in OneReview
      BY <1>1
    <3> QED BY <3>1 DEF OneReview, Opinions
  <2>3. reviews \in Seq(OneReview)
    BY <1>1, <2>2
  <2>4. [world EXCEPT !.reviews[i].state = "DISMISSED"] = [world EXCEPT !.reviews = reviews]
    BY <1>1, <1>2
  <2> HIDE DEF reviews
  <2>5. [world EXCEPT !.reviews = reviews] \in W
    BY <1>1, <1>2, <2>3
  <2> QED BY <2>1, <2>4, <2>5, <1>2, ChangeKeeps
<1>6. CASE Run
  <2>1. PICK c \in Checks, s \in {"passed", "failed"} :
          Change([world EXCEPT !.runs = Append(@, [check |-> c, head |-> world.head, state |-> s])])
    BY <1>6 DEF Run
  <2> DEFINE run == [check |-> c, head |-> world.head, state |-> s]
             runs == Append(world.runs, run)
  <2>2. run \in OneRun
    BY <1>1 DEF OneRun
  <2>3. runs \in Seq(OneRun)
    BY <1>1, <2>2
  <2> HIDE DEF run, runs
  <2>4. [world EXCEPT !.runs = runs] \in W
    BY <1>1, <1>2, <2>3
  <2> QED BY <2>1, <2>4, <1>2, ChangeKeeps DEF runs, run
<1>7. CASE Reconfigure
  <2>1. PICK s \in Settings : Change([world EXCEPT !.settings = s])
    BY <1>7 DEF Reconfigure
  <2>2. [world EXCEPT !.settings = s] \in W
    BY <1>1, <1>2, SettingsAreSettings
  <2> QED BY <2>1, <2>2, <1>2, ChangeKeeps
<1>8. CASE ChangeTeam
  <2>1. PICK h \in Humans :
          Change([world EXCEPT !.members = (@ \ {h}) \cup ({h} \ @)])
    BY <1>8 DEF ChangeTeam
  <2> DEFINE members == (world.members \ {h}) \cup ({h} \ world.members)
  <2>2. members \in SUBSET Humans
    BY <1>1
  <2> HIDE DEF members
  <2>3. [world EXCEPT !.members = members] \in W
    BY <1>1, <1>2, <2>2
  <2> QED BY <2>1, <2>3, <1>2, ChangeKeeps DEF members
<1> QED BY <1>3, <1>4, <1>5, <1>6, <1>7, <1>8 DEF Others

LEMMA TickKeeps == Base /\ Tick => Base'
<1> SUFFICES ASSUME Base, Tick PROVE Base'
  OBVIOUS
<1>1. now \in 0..MaxTime /\ now < MaxTime /\ now' = now + 1
  BY DEF Base, TypeOK, Tick
<1>2. UNCHANGED <<world, past, troubles, pc, event, got, outcomes, minted, producers, enforcements>>
  BY DEF Tick, github, verifier, proofs
<1>3. TypeOK'
  BY <1>1, <1>2, BoundsAreNatural DEF Base, TypeOK
<1>4. Tabled' /\ Idle' /\ Counted'
  BY <1>2 DEF Base, Tabled, Idle, Counted, NothingAsked
<1>5. Present'
  <2>1. \A i \in DOMAIN past : past[i].from <= now /\ past[i].from \in 0..MaxTime
    BY WorldsOfThePast DEF Base, Present
  <2> QED BY <1>1, <1>2, <2>1, BoundsAreNatural DEF Base, Present
<1>6. Receipts'
  <2> SUFFICES ASSUME NEW k \in Keys, Good(k)'
               PROVE  /\ k \in MayBeMissing => got'[k].data # None
                      /\ \E i \in event'.since..Len(past') : Seen(k, i)'
    BY DEF Receipts
  <2>1. got'[k] = got[k] /\ Good(k)
    BY <1>2 DEF Good, Answered
  <2>2. PICK i \in event.since..Len(past) : Seen(k, i)
    BY <2>1 DEF Base, Receipts
  <2>3. Seen(k, i)'
    BY <1>2, <2>1, <2>2 DEF Seen, View
  <2> QED BY <1>2, <2>1, <2>2, <2>3 DEF Base, Receipts
<1> QED BY <1>3, <1>4, <1>5, <1>6 DEF Base

LEMMA BeginKeeps == Base /\ Begin => Base'
<1> SUFFICES ASSUME Base, Begin PROVE Base'
  OBVIOUS
<1>1. /\ pc = "idle" /\ pc' = "fetching" /\ Len(outcomes) < MaxCollections
      /\ UNCHANGED <<world, past, now, troubles, got, outcomes, minted, producers, enforcements>>
  BY DEF Begin, github, proofs
<1>2. PICK i \in DOMAIN past, s \in BOOLEAN :
        event' = [head |-> past[i].world.head, specialist |-> s, since |-> Len(past)]
  BY DEF Begin
<1>3. past[i].world.head \in Heads
  BY WorldsOfThePast, WorldParts
<1>4. Len(past) \in 1..Len(past)
  BY DEF Base, TypeOK
<1>5. event' \in [head : Heads, specialist : BOOLEAN, since : 1..Len(past')]
  BY <1>1, <1>2, <1>3, <1>4
<1>6. \A k \in Keys : got[k] = None
  BY <1>1 DEF Base, Idle, NothingAsked
<1>7. TypeOK'
  BY <1>1, <1>5 DEF Base, TypeOK
<1>8. Tabled' /\ Idle' /\ Counted' /\ Present'
  BY <1>1 DEF Base, Tabled, Idle, Counted, Present
<1>9. Receipts'
  BY <1>1, <1>6 DEF Receipts, Good, Answered
<1> QED BY <1>7, <1>8, <1>9 DEF Base

\* A collection ends: all receipts are forgotten.
LEMMA EndKeeps ==
  ASSUME Base, pc # "idle", NEW how \in Outcomes, End(how),
         UNCHANGED <<world, past, now, producers, enforcements>>,
         troubles' \in 0..MaxDisturbances, minted' \in Seq(Evidence),
         Len(minted') <= Len(minted) + 1, DOMAIN minted \subseteq DOMAIN minted'
  PROVE  Base'
<1>1. /\ pc' = "idle" /\ got' = NothingAsked /\ event' = event
      /\ outcomes' = Append(outcomes, how)
  BY DEF End
<1>2. \A k \in Keys : got'[k] = None
  BY <1>1 DEF NothingAsked
<1>3. outcomes \in Seq(Outcomes)
  BY DEF Base, TypeOK
<1>4. outcomes' \in Seq(Outcomes) /\ Len(outcomes') = Len(outcomes) + 1
  BY <1>1, <1>3
<1>5. Len(minted) <= Len(outcomes) /\ Len(outcomes) < MaxCollections
  BY DEF Base, Counted
<1>6. Len(minted) \in Nat /\ Len(minted') \in Nat /\ Len(outcomes) \in Nat
  BY <1>3 DEF Base, TypeOK
<1>7. Len(minted') <= Len(outcomes') /\ Len(outcomes') <= MaxCollections
  BY <1>4, <1>5, <1>6, BoundsAreNatural
<1>8. TypeOK'
  <2>1. Len(minted') <= MaxCollections
    BY <1>5, <1>6, BoundsAreNatural
  <2>2. /\ producers' \subseteq DOMAIN minted'
        /\ enforcements' \subseteq (DOMAIN minted') \X (DOMAIN minted')
    BY DEF Base, TypeOK
  <2> QED BY <1>1, <1>2, <1>4, <2>1, <2>2 DEF Base, TypeOK
<1>9. Tabled' /\ Idle' /\ Counted' /\ Present'
  BY <1>1, <1>7 DEF Base, Tabled, Idle, Counted, Present, NothingAsked
<1>10. Receipts'
  BY <1>2 DEF Receipts, Good, Answered
<1> QED BY <1>8, <1>9, <1>10 DEF Base

\* The requests come in a fixed order.
LEMMA FirstOfUnanswered ==
  ASSUME Unanswered # {}
  PROVE  (CHOOSE i \in Unanswered : \A j \in Unanswered : i <= j) \in Unanswered
<1>1. \E i \in Unanswered : \A j \in Unanswered : i <= j
  <2>1. Unanswered \subseteq 1..6
    BY DEF Unanswered, Order
  <2>2. CASE 1 \in Unanswered
    BY <2>1, <2>2
  <2>3. CASE 1 \notin Unanswered /\ 2 \in Unanswered
    BY <2>1, <2>3
  <2>4. CASE 1 \notin Unanswered /\ 2 \notin Unanswered /\ 3 \in Unanswered
    BY <2>1, <2>4
  <2>5. CASE Unanswered \subseteq 4..6 /\ 4 \in Unanswered
    BY <2>5
  <2>6. CASE Unanswered \subseteq 4..6 /\ 4 \notin Unanswered /\ 5 \in Unanswered
    BY <2>6
  <2>7. CASE Unanswered \subseteq 4..6 /\ 4 \notin Unanswered /\ 5 \notin Unanswered
    <3>1. PICK i \in Unanswered : TRUE
      OBVIOUS
    <3>2. \A j \in Unanswered : j = 6
      BY <2>7
    <3> QED BY <3>1, <3>2
  <2> QED BY <2>1, <2>2, <2>3, <2>4, <2>5, <2>6, <2>7
<1> QED BY <1>1

LEMMA AwaitedAreKeys ==
  ASSUME Base
  PROVE  Awaited \subseteq Keys
<1>1. Details \subseteq Keys
  BY ReceiptsHold, CoreKeys DEF Details
<1>2. Memberships \subseteq Keys
  BY CoreKeys DEF Memberships
<1>3. CASE Unanswered # {}
  <2>1. (CHOOSE i \in Unanswered : \A j \in Unanswered : i <= j) \in DOMAIN Order
    BY <1>3, FirstOfUnanswered DEF Unanswered
  <2> QED BY <1>3, <2>1 DEF Awaited, Keys, Core
<1>4. CASE Unanswered = {}
  BY <1>1, <1>2, <1>4 DEF Awaited
<1> QED BY <1>3, <1>4

\* The receipt is of the world there is.
LEMMA FetchKeeps == Base /\ Fetch => Base'
<1> SUFFICES ASSUME Base, Fetch PROVE Base'
  OBVIOUS
<1>1. /\ pc = "fetching"
      /\ UNCHANGED <<world, past, now, minted, producers, enforcements>>
  BY DEF Fetch, github, proofs
<1>2. PICK k \in Awaited, ok \in BOOLEAN :
        /\ ok => ~Absent(k)
        /\ ok \/ Absent(k) \/ Calm
        /\ troubles' = IF ok \/ Absent(k) THEN troubles ELSE troubles + 1
        /\ IF k = "repository" /\ ~ok
           THEN End("error")
           ELSE /\ got' = [got EXCEPT ![k] = [ok |-> ok, at |-> now, data |-> View(k, world)]]
                /\ UNCHANGED <<pc, event, outcomes>>
  BY DEF Fetch
<1>3. /\ k \in Keys /\ now \in 0..MaxTime /\ troubles \in 0..MaxDisturbances
      /\ Len(past) \in Nat /\ Len(past) >= 1
  BY AwaitedAreKeys DEF Base, TypeOK
<1>4. troubles' \in 0..MaxDisturbances
  <2>1. CASE ok \/ Absent(k)
    BY <1>2, <1>3, <2>1
  <2>2. CASE ~(ok \/ Absent(k))
    <3>1. now + troubles + Len(past) <= MaxDisturbances /\ troubles' = troubles + 1
      BY <1>2, <2>2 DEF Calm
    <3> QED BY <1>3, <3>1, BoundsAreNatural
  <2> QED BY <2>1, <2>2
<1>5. CASE End("error")
  <2>1. minted' \in Seq(Evidence) /\ minted' = minted /\ Len(minted) \in Nat
    BY <1>1 DEF Base, TypeOK
  <2>2. pc # "idle" /\ "error" \in Outcomes
    BY <1>1 DEF Outcomes
  <2> QED BY <1>1, <1>4, <1>5, <2>1, <2>2, EndKeeps
<1>6. CASE /\ got' = [got EXCEPT ![k] = [ok |-> ok, at |-> now, data |-> View(k, world)]]
           /\ UNCHANGED <<pc, event, outcomes>>
  <2>1. /\ got'[k] = [ok |-> ok, at |-> now, data |-> View(k, world)]
        /\ \A j \in Keys \ {k} : got'[j] = got[j]
        /\ got' = [j \in Keys |-> got'[j]]
    BY <1>3, <1>6 DEF Base, Tabled
  <2>2. TypeOK'
    <3>1. ASSUME NEW j \in Keys, got'[j] # None
          PROVE  got'[j].ok \in BOOLEAN /\ got'[j].at \in 0..now
      <4>1. CASE j = k
        BY <2>1, <4>1, <1>3, BoundsAreNatural
      <4>2. CASE j # k
        BY <2>1, <3>1, <4>2 DEF Base, TypeOK
      <4> QED BY <4>1, <4>2
    <3> QED BY <3>1, <1>1, <1>4, <1>6 DEF Base, TypeOK
  <2>3. Tabled' /\ Idle' /\ Counted' /\ Present'
    <3>1. Tabled'
      BY <2>1 DEF Tabled
    <3> QED BY <3>1, <1>1, <1>6 DEF Base, Idle, Counted, Present
  <2>4. Receipts'
    <3> SUFFICES ASSUME NEW j \in Keys, Good(j)'
                 PROVE  /\ j \in MayBeMissing => got'[j].data # None
                        /\ \E i \in event'.since..Len(past') : Seen(j, i)'
      BY DEF Receipts
    <3>1. CASE j = k
      <4>1. /\ ok /\ got'[k].data = View(k, world)
            /\ k \in MayBeMissing => got'[k].data # None
        BY <1>2, <2>1, <3>1 DEF Good, Answered, Absent
      <4>2. Len(past) \in event.since..Len(past)
        BY DEF Base, TypeOK
      <4>3. past[Len(past)].world = world
        BY DEF Base, Present
      <4>4. Seen(k, Len(past))'
        BY <1>1, <1>6, <4>1, <4>3 DEF Seen, View
      <4> QED BY <1>1, <1>6, <3>1, <4>1, <4>2, <4>4
    <3>2. CASE j # k
      <4>1. got'[j] = got[j] /\ Good(j)
        BY <2>1, <3>2 DEF Good, Answered
      <4>2. PICK i \in event.since..Len(past) : Seen(j, i)
        BY <4>1 DEF Base, Receipts
      <4>3. Seen(j, i)'
        BY <1>1, <1>6, <4>1, <4>2 DEF Seen, View
      <4> QED BY <1>1, <1>6, <4>1, <4>2, <4>3 DEF Base, Receipts
    <3> QED BY <3>1, <3>2
  <2> QED BY <2>2, <2>3, <2>4 DEF Base
<1> QED BY <1>2, <1>5, <1>6

LEMMA VerifierKeeps == Base /\ Verifier => Base'
<1> SUFFICES ASSUME Base, Verifier PROVE Base'
  OBVIOUS
<1>1. /\ minted \in Seq(Evidence) /\ Len(minted) \in Nat
      /\ troubles \in 0..MaxDisturbances
      /\ now \in 0..MaxTime /\ Len(past) \in Nat /\ Len(past) >= 1
  BY DEF Base, TypeOK
<1>2. CASE Begin
  BY <1>2, BeginKeeps
<1>3. CASE Fetch
  BY <1>3, FetchKeeps
<1>4. CASE FetchFails
  <2>1. /\ now + troubles + Len(past) <= MaxDisturbances /\ troubles' = troubles + 1
        /\ pc = "fetching" /\ End("error")
        /\ UNCHANGED <<world, past, now, minted, producers, enforcements>>
    BY <1>4 DEF FetchFails, Calm, github, proofs
  <2>2. troubles' \in 0..MaxDisturbances
    BY <1>1, <2>1, BoundsAreNatural
  <2>3. pc # "idle" /\ "error" \in Outcomes
    BY <2>1 DEF Outcomes
  <2> QED BY <1>1, <2>1, <2>2, <2>3, EndKeeps
<1>5. CASE FetchedAll
  <2>1. /\ pc = "fetching" /\ pc' = "fetched"
        /\ UNCHANGED <<world, past, now, troubles, event, got, minted, outcomes,
                       producers, enforcements>>
    BY <1>5 DEF FetchedAll, github, proofs
  <2>2. TypeOK'
    BY <2>1 DEF Base, TypeOK
  <2>3. Tabled' /\ Idle' /\ Counted' /\ Present'
    BY <2>1 DEF Base, Tabled, Idle, Counted, Present
  <2>4. Receipts'
    <3> SUFFICES ASSUME NEW k \in Keys, Good(k)'
                 PROVE  /\ k \in MayBeMissing => got'[k].data # None
                        /\ \E i \in event'.since..Len(past') : Seen(k, i)'
      BY DEF Receipts
    <3>1. got'[k] = got[k] /\ Good(k)
      BY <2>1 DEF Good, Answered
    <3>2. PICK i \in event.since..Len(past) : Seen(k, i)
      BY <3>1 DEF Base, Receipts
    <3>3. Seen(k, i)'
      BY <2>1, <3>1, <3>2 DEF Seen, View
    <3> QED BY <2>1, <3>1, <3>2, <3>3 DEF Base, Receipts
  <2> QED BY <2>2, <2>3, <2>4 DEF Base
<1>6. CASE Refuse
  <2>1. /\ pc = "fetched"
        /\ UNCHANGED <<world, past, now, troubles, minted, producers, enforcements>>
        /\ End("stale") \/ End("mismatch")
    BY <1>6 DEF Refuse, github, proofs
  <2>2. pc # "idle" /\ "stale" \in Outcomes /\ "mismatch" \in Outcomes
    BY <2>1 DEF Outcomes
  <2> QED BY <1>1, <2>1, <2>2, EndKeeps
<1>7. CASE Verify
  <2>1. /\ pc = "fetched" /\ End("minted") /\ minted' = Append(minted, Mint)
        /\ UNCHANGED <<world, past, now, troubles, producers, enforcements>>
    BY <1>7 DEF Verify, github, proofs
  <2>2. Mint \in Evidence
    BY MintTyped
  <2>3. /\ minted' \in Seq(Evidence) /\ Len(minted') = Len(minted) + 1
        /\ DOMAIN minted \subseteq DOMAIN minted'
    BY <1>1, <2>1, <2>2
  <2>4. pc # "idle" /\ "minted" \in Outcomes
    BY <2>1 DEF Outcomes
  <2> QED BY <1>1, <2>1, <2>3, <2>4, EndKeeps
<1> QED BY <1>2, <1>3, <1>4, <1>5, <1>6, <1>7 DEF Verifier

\* A step that changes neither the receipts nor what GitHub holds.
LEMMA ProofsKeep ==
  ASSUME Base,
         UNCHANGED <<world, past, now, troubles, pc, event, got, minted, outcomes>>,
         producers' \subseteq DOMAIN minted,
         enforcements' \subseteq (DOMAIN minted) \X (DOMAIN minted)
  PROVE  Base'
<1>1. TypeOK'
  BY DEF Base, TypeOK
<1>2. Tabled' /\ Idle' /\ Counted' /\ Present'
  BY DEF Base, Tabled, Idle, Counted, Present
<1>3. Receipts'
  <2> SUFFICES ASSUME NEW k \in Keys, Good(k)'
               PROVE  /\ k \in MayBeMissing => got'[k].data # None
                      /\ \E i \in event'.since..Len(past') : Seen(k, i)'
    BY DEF Receipts
  <2>1. got'[k] = got[k] /\ Good(k)
    BY DEF Good, Answered
  <2>2. PICK i \in event.since..Len(past) : Seen(k, i)
    BY <2>1 DEF Base, Receipts
  <2>3. Seen(k, i)'
    BY <2>1, <2>2 DEF Seen, View
  <2> QED BY <2>1, <2>2, <2>3 DEF Base, Receipts
<1> QED BY <1>1, <1>2, <1>3 DEF Base

LEMMA BaseKept == Base /\ [Next]_vars => Base'
<1> SUFFICES ASSUME Base, [Next]_vars PROVE Base'
  OBVIOUS
<1>1. /\ producers \subseteq DOMAIN minted
      /\ enforcements \subseteq (DOMAIN minted) \X (DOMAIN minted)
  BY DEF Base, TypeOK
<1>2. CASE Others
  BY <1>2, OthersKeep
<1>3. CASE Tick
  BY <1>3, TickKeeps
<1>4. CASE Verifier
  BY <1>4, VerifierKeeps
<1>5. CASE VerifyProducer
  <2>1. PICK i \in (DOMAIN minted) \ producers : producers' = producers \cup {i}
    BY <1>5 DEF VerifyProducer
  <2>2. UNCHANGED <<world, past, now, troubles, pc, event, got, minted, outcomes, enforcements>>
    BY <1>5 DEF VerifyProducer, github, verifier
  <2> QED BY <1>1, <2>1, <2>2, ProofsKeep
<1>6. CASE VerifyEnforcement
  <2>1. PICK i \in DOMAIN minted, p \in producers : enforcements' = enforcements \cup {<<i, p>>}
    BY <1>6 DEF VerifyEnforcement
  <2>2. UNCHANGED <<world, past, now, troubles, pc, event, got, minted, outcomes, producers>>
    BY <1>6 DEF VerifyEnforcement, github, verifier
  <2> QED BY <1>1, <2>1, <2>2, ProofsKeep
<1>7. CASE UNCHANGED vars
  <2>1. UNCHANGED <<world, past, now, troubles, pc, event, got, minted, outcomes,
                    producers, enforcements>>
    BY <1>7 DEF vars
  <2> QED BY <1>1, <2>1, ProofsKeep
<1> QED BY <1>2, <1>3, <1>4, <1>5, <1>6, <1>7 DEF Next

THEOREM BaseHolds == Spec => []Base
<1> QED BY InitBase, BaseKept, PTL DEF Spec

\* Type correctness: the receipts, the capabilities and what rests on them are
\* what _fetch_governance and the verifiers make of GitHub's answers.
THEOREM TypesHold == Spec => []TypeOK
<1>1. Base => TypeOK
  BY DEF Base
<1> QED BY <1>1, BaseHolds, PTL

-----------------------------------------------------------------------------
(* What the evidence rests on.                                             *)

\* The window of e when the past is p.
WindowIn(p, e) ==
  {p[i].world : i \in {j \in e.since..e.until :
                          j = e.until \/ p[j + 1].from + MaxAge >= e.at}}

\* What is claimed of e was so in its window.
Grounded(p, e) ==
  /\ e.since \in 1..e.until /\ e.until \in 1..Len(p)
  /\ \E w \in WindowIn(p, e) : w.head = e.head
  /\ e.approvers \cap (Bots \cup {Author}) = {}
  /\ \A r \in e.approvers : \E w \in WindowIn(p, e) : r \in Approving(w, e.head)
  /\ e.satisfied => \A c \in e.required : \E w \in WindowIn(p, e) : c \in Passing(w, e.head)
  /\ e.authorized => e.satisfied
  /\ e.authorized /\ e.wanted =>
       /\ e.specialist \in e.approvers
       /\ \E w \in WindowIn(p, e) : e.specialist \in w.members

Held == \A n \in DOMAIN minted : Grounded(past, minted[n])

\* The evidence and the producer of an enforcement capability are the same.
Enforced == \A c \in enforcements : c[1] = c[2] /\ Designated(c[1])

\* A fresh receipt shows a world of the window.
LEMMA FreshIsInWindow ==
  ASSUME Base, NEW k \in Keys, Good(k), Fresh(k),
         NEW i \in event.since..Len(past), Seen(k, i),
         NEW e, e.since = event.since, e.until = Len(past), e.at = now
  PROVE  past[i].world \in WindowIn(past, e)
<1>1. /\ Len(past) \in Nat /\ event.since \in 1..Len(past) /\ i \in DOMAIN past
      /\ got[k].at \in 0..now /\ now \in 0..MaxTime
  BY DEF Base, TypeOK, Good, Answered
<1>2. i = e.until \/ past[i + 1].from + MaxAge >= e.at
  <2>1. CASE i # Len(past)
    <3>1. past[i + 1].from \in 0..MaxTime
      BY <1>1, <2>1, WorldsOfThePast
    <3>2. got[k].at <= past[i + 1].from /\ now <= got[k].at + MaxAge
      BY <2>1 DEF Seen, Fresh
    <3> QED BY <1>1, <3>1, <3>2, BoundsAreNatural
  <2> QED BY <2>1
<1>3. i \in e.since..e.until
  OBVIOUS
<1> QED BY <1>2, <1>3 DEF WindowIn

LEMMA MintIsGrounded ==
  ASSUME Base, \A k \in Used : Fresh(k),
         Good("pull_request"), got["pull_request"].data = event.head
  PROVE  Grounded(past, Mint)
<1> DEFINE e == Mint
<1>1. /\ e.head = event.head /\ e.at = now /\ e.since = event.since /\ e.until = Len(past)
      /\ e.wanted = event.specialist /\ e.approvers = ValidReviewers
      /\ e.satisfied => e.required \subseteq Passed
      /\ e.authorized => e.satisfied /\ ~NeedsSpecialist
      /\ e.specialist = IF event.specialist /\ Qualified # {}
                        THEN CHOOSE h \in Qualified : TRUE ELSE None
  BY DEF Mint
<1> HIDE DEF e
<1>2. /\ Core \subseteq Used /\ Core \subseteq Keys
      /\ "pull_request" \in Core /\ "reviews" \in Core /\ "checks" \in Core
  BY CoreKeys DEF Used
<1>3. e.since \in 1..e.until /\ e.until \in 1..Len(past)
  BY <1>1 DEF Base, TypeOK
<1>4. \E w \in WindowIn(past, e) : w.head = e.head
  <2>1. PICK i \in event.since..Len(past) :
          Seen("pull_request", i) /\ got["pull_request"].data = past[i].world.head
    BY ReceiptsHold
  <2>2. past[i].world \in WindowIn(past, e)
    BY <1>1, <1>2, <2>1, FreshIsInWindow
  <2> QED BY <1>1, <2>1, <2>2
<1>5. e.approvers \cap (Bots \cup {Author}) = {}
  BY <1>1 DEF ValidReviewers
<1>6. ASSUME NEW r \in e.approvers
      PROVE  \E w \in WindowIn(past, e) : r \in Approving(w, e.head)
  <2>1. Good("reviews") /\ r \in Approved(got["reviews"].data)
    BY <1>1 DEF ValidReviewers
  <2>2. PICK i \in event.since..Len(past) :
          /\ Seen("reviews", i)
          /\ got["reviews"].data \subseteq {past[i].world.reviews[j] : j \in DOMAIN past[i].world.reviews}
    BY <2>1, ReceiptsHold
  <2>3. past[i].world \in WindowIn(past, e)
    BY <1>1, <1>2, <2>1, <2>2, FreshIsInWindow
  <2>4. PICK v \in got["reviews"].data :
          v.state = "APPROVED" /\ v.commit = event.head /\ v.by = r
    BY <2>1 DEF Approved
  <2>5. PICK j \in DOMAIN past[i].world.reviews : v = past[i].world.reviews[j]
    BY <2>2
  <2>6. r \in Approving(past[i].world, e.head)
    BY <1>1, <2>4, <2>5 DEF Approving
  <2> QED BY <2>3, <2>6
<1>7. ASSUME e.satisfied, NEW c \in e.required
      PROVE  \E w \in WindowIn(past, e) : c \in Passing(w, e.head)
  <2>1. c \in Passed
    BY <1>1, <1>7
  <2>2. Good("checks") /\ \E r \in got["checks"].data : r.state = "passed" /\ r.check = c
    BY <2>1 DEF Passed
  <2>3. PICK i \in event.since..Len(past) :
          /\ Seen("checks", i)
          /\ got["checks"].data \subseteq
               {past[i].world.runs[j] : j \in OnHead(event.head, past[i].world.runs)}
    BY <2>2, ReceiptsHold
  <2>4. past[i].world \in WindowIn(past, e)
    BY <1>1, <1>2, <2>2, <2>3, FreshIsInWindow
  <2>5. PICK r \in got["checks"].data : r.state = "passed" /\ r.check = c
    BY <2>2
  <2>6. PICK j \in OnHead(event.head, past[i].world.runs) : r = past[i].world.runs[j]
    BY <2>3
  <2>7. c \in Passing(past[i].world, e.head)
    BY <1>1, <2>5, <2>6 DEF OnHead, Passing
  <2> QED BY <2>4, <2>7
<1>8. ASSUME e.authorized, e.wanted
      PROVE  /\ e.specialist \in e.approvers
             /\ \E w \in WindowIn(past, e) : e.specialist \in w.members
  <2>1. event.specialist /\ Qualified # {} /\ e.specialist \in Qualified
    BY <1>1, <1>8 DEF NeedsSpecialist
  <2> DEFINE h == e.specialist
  <2>2. h \in ValidReviewers /\ Good(h) /\ got[h].data
    BY <2>1 DEF Qualified
  <2>3. h \in Humans /\ h \in Keys
    BY <2>2, ReviewersAreReviewers, CoreKeys
  <2>4. h \in Used
    BY <2>1, <2>2 DEF Used, Good
  <2>5. PICK i \in event.since..Len(past) :
          Seen(h, i) /\ got[h].data = (h \in past[i].world.members)
    BY <2>2, <2>3, ReceiptsHold
  <2>6. past[i].world \in WindowIn(past, e)
    BY <1>1, <2>2, <2>3, <2>4, <2>5, FreshIsInWindow
  <2> QED BY <1>1, <2>2, <2>5, <2>6
<1>9. Grounded(past, e)
  BY <1>1, <1>3, <1>4, <1>5, <1>6, <1>7, <1>8 DEF Grounded
<1> QED BY <1>9 DEF e

\* What GitHub changes to later does not change what was in a window.
LEMMA GroundedStays ==
  ASSUME NEW p, NEW q, NEW e, Len(p) \in Nat, Len(q) \in Nat, Len(p) <= Len(q),
         \A i \in 1..Len(p) : q[i] = p[i], Grounded(p, e)
  PROVE  Grounded(q, e)
<1>1. e.since \in 1..e.until /\ e.until \in 1..Len(p)
  BY DEF Grounded
<1>2. WindowIn(q, e) = WindowIn(p, e)
  <2>1. \A j \in e.since..e.until : q[j] = p[j]
    BY <1>1
  <2>2. \A j \in e.since..e.until : j # e.until => q[j + 1] = p[j + 1]
    BY <1>1
  <2> QED BY <2>1, <2>2 DEF WindowIn
<1>3. e.until \in 1..Len(q)
  BY <1>1
<1> QED BY <1>1, <1>2, <1>3 DEF Grounded

LEMMA PastGrows ==
  ASSUME Base, [Next]_vars
  PROVE  /\ Len(past) \in Nat /\ Len(past') \in Nat /\ Len(past) <= Len(past')
         /\ \A i \in 1..Len(past) : past'[i] = past[i]
<1>1. past \in Seq(Episode) /\ Len(past) \in Nat
  BY DEF Base, TypeOK, Episode
<1>2. past' \in Seq(Episode)
  BY BaseKept DEF Base, TypeOK, Episode
<1>3. past' = past \/ \E x : past' = Append(past, x)
  BY DEF Next, Others, Push, Review, Dismiss, Run, Reconfigure, ChangeTeam, Change, Tick,
         Verifier, Begin, Fetch, FetchFails, FetchedAll, Refuse, Verify, VerifyProducer,
         VerifyEnforcement, github, vars
<1>4. ASSUME NEW x, past' = Append(past, x)
      PROVE  Len(past') = Len(past) + 1 /\ \A i \in 1..Len(past) : past'[i] = past[i]
  BY <1>1, <1>4
<1> QED BY <1>1, <1>3, <1>4

LEMMA MintedGrows ==
  ASSUME Base, [Next]_vars
  PROVE  \/ minted' = minted
         \/ Verify /\ minted' = Append(minted, Mint)
BY DEF Next, Others, Push, Review, Dismiss, Run, Reconfigure, ChangeTeam, Change, Tick,
       Verifier, Begin, Fetch, FetchFails, FetchedAll, Refuse, Verify, VerifyProducer,
       VerifyEnforcement, github, vars

LEMMA HeldKept == Base /\ Held /\ [Next]_vars => Held'
<1> SUFFICES ASSUME Base, Held, [Next]_vars, NEW n \in DOMAIN minted'
             PROVE  Grounded(past', minted'[n])
  BY DEF Held
<1>1. minted \in Seq(Evidence) /\ Len(minted) \in Nat
  BY DEF Base, TypeOK
<1>2. Grounded(past, minted'[n])
  <2>1. CASE minted' = minted
    BY <2>1 DEF Held
  <2>2. CASE Verify /\ minted' = Append(minted, Mint)
    <3>1. Grounded(past, Mint)
      BY <2>2, MintIsGrounded DEF Verify
    <3>2. CASE n \in DOMAIN minted
      BY <1>1, <2>2, <3>2 DEF Held
    <3>3. CASE n \notin DOMAIN minted
      <4>1. minted'[n] = Mint
        BY <1>1, <2>2, <3>3
      <4> QED BY <3>1, <4>1
    <3> QED BY <3>2, <3>3
  <2> QED BY <2>1, <2>2, MintedGrows
<1>3. /\ Len(past) \in Nat /\ Len(past') \in Nat /\ Len(past) <= Len(past')
      /\ \A i \in 1..Len(past) : past'[i] = past[i]
  BY PastGrows
<1> DEFINE e == minted'[n]
<1> HIDE DEF e
<1>4. Grounded(past', e)
  BY <1>2, <1>3, GroundedStays DEF e
<1> QED BY <1>4 DEF e

LEMMA EnforcedKept == Base /\ Enforced /\ [Next]_vars => Enforced'
<1> SUFFICES ASSUME Base, Enforced, [Next]_vars, NEW c \in enforcements'
             PROVE  c[1] = c[2] /\ Designated(c[1])'
  BY DEF Enforced
<1>1. minted \in Seq(Evidence) /\ Len(minted) \in Nat
      /\ enforcements \subseteq (DOMAIN minted) \X (DOMAIN minted)
  BY DEF Base, TypeOK
<1>2. \A i \in DOMAIN minted : minted'[i] = minted[i]
  <2>1. ASSUME minted' = Append(minted, Mint), NEW i \in DOMAIN minted
        PROVE  minted'[i] = minted[i]
    BY <1>1, <2>1
  <2> QED BY <2>1, MintedGrows
<1>3. CASE c \in enforcements
  <2>1. c[1] = c[2] /\ Designated(c[1]) /\ c[1] \in DOMAIN minted
    BY <1>1, <1>3 DEF Enforced
  <2> QED BY <1>2, <2>1 DEF Designated
<1>4. CASE c \notin enforcements
  <2>1. VerifyEnforcement
    BY <1>4 DEF Next, Others, Push, Review, Dismiss, Run, Reconfigure, ChangeTeam, Change,
         Tick, Verifier, Begin, Fetch, FetchFails, FetchedAll, Refuse, Verify,
         VerifyProducer, proofs, vars
  <2>2. PICK i \in DOMAIN minted, p \in producers :
          /\ ProducerMatches(i, p) /\ Designated(i)
          /\ enforcements' = enforcements \cup {<<i, p>>}
    BY <2>1 DEF VerifyEnforcement
  <2>3. c = <<i, p>>
    BY <1>4, <2>2
  <2> QED BY <1>2, <2>2, <2>3 DEF ProducerMatches, Designated
<1> QED BY <1>3, <1>4

THEOREM HeldHolds == Spec => [](Base /\ Held /\ Enforced)
<1>1. Init => Base /\ Held /\ Enforced
  BY InitBase DEF Init, Held, Enforced
<1>2. Base /\ Held /\ Enforced /\ [Next]_vars => (Base /\ Held /\ Enforced)'
  BY BaseKept, HeldKept, EnforcedKept
<1> QED BY <1>1, <1>2, PTL DEF Spec

\* What authorizes a merge was so, every part of it, in a world GitHub was in within
\* MaxAge of the record, though the responses of one record are fetched one by one.
THEOREM AuthorizedWithinWindow == Spec => []HeldWithinWindow
<1>1. Held => HeldWithinWindow
  <2> SUFFICES ASSUME Held, NEW n \in DOMAIN minted, minted[n].authorized
               PROVE  LET e == minted[n] IN
                      /\ \E w \in Window(e) : w.head = e.head
                      /\ e.approvers \cap (Bots \cup {Author}) = {}
                      /\ \A r \in e.approvers : \E w \in Window(e) : r \in Approving(w, e.head)
                      /\ \A c \in e.required : \E w \in Window(e) : c \in Passing(w, e.head)
                      /\ e.wanted => /\ e.specialist \in e.approvers
                                     /\ \E w \in Window(e) : e.specialist \in w.members
    BY DEF HeldWithinWindow
  <2>1. Grounded(past, minted[n])
    BY DEF Held
  <2>2. Window(minted[n]) = WindowIn(past, minted[n])
    BY DEF Window, WindowIn
  <2> QED BY <2>1, <2>2 DEF Grounded
<1> QED BY <1>1, HeldHolds, PTL

\* An enforcement capability rests on one collection: its producer was verified for
\* the very evidence in whose window the sequence check had passed on the head.
THEOREM EnforcementOfOneWindow == Spec => []EnforcementIsOfOneWindow
<1>1. Base /\ Held /\ Enforced => EnforcementIsOfOneWindow
  <2> SUFFICES ASSUME Base, Held, Enforced, NEW c \in enforcements
               PROVE  LET e == minted[c[1]] p == minted[c[2]] IN
                      /\ e.head = p.head /\ e.at <= p.at + MaxAge
                      /\ \E w \in Window(e) : SequenceCheck \in Passing(w, e.head)
    BY DEF EnforcementIsOfOneWindow
  <2>1. c[1] = c[2] /\ Designated(c[1]) /\ c[1] \in DOMAIN minted
    BY DEF Enforced, Base, TypeOK
  <2> DEFINE e == minted[c[1]]
  <2>2. Grounded(past, e) /\ e \in Evidence
    BY <2>1 DEF Held, Base, TypeOK
  <2>3. e.at \in Nat
    BY <2>2 DEF Evidence
  <2>4. Window(e) = WindowIn(past, e)
    BY DEF Window, WindowIn
  <2>5. \E w \in Window(e) : SequenceCheck \in Passing(w, e.head)
    BY <2>1, <2>2, <2>4 DEF Grounded, Designated
  <2> QED BY <2>1, <2>3, <2>5, BoundsAreNatural
<1> QED BY <1>1, HeldHolds, PTL

-----------------------------------------------------------------------------
(* Every collection comes to an end.                                       *)

Unasked == {k \in Keys : got[k] = None}

\* How many steps of a collection are left at place p, with n requests to go.
ToDo(p, n) == CASE p = "fetching" -> n + 2 [] p = "fetched" -> 1 [] OTHER -> 0

StepsLeft == ToDo(pc, Cardinality(Unasked))

\* A collection that runs is not set back, by GitHub or by the clock, and every step
\* of the verifier brings it nearer to its end; an answer stands until then.
CollectionsAdvance ==
  [][pc # "idle" =>
       /\ StepsLeft' <= StepsLeft
       /\ Verifier => StepsLeft' < StepsLeft
       /\ pc' # "idle" => \A k \in Keys : got[k] # None => got'[k] = got[k]]_vars

LEMMA KeysAreFinite == IsFiniteSet(Keys)
<1>1. IsFiniteSet(Core)
  <2>1. IsFiniteSet({"repository", "pull_request", "branch_protection"})
    <3>1. IsFiniteSet({"repository"})
      BY FS_Singleton
    <3>2. IsFiniteSet({"repository"} \cup {"pull_request"})
      BY <3>1, FS_AddElement
    <3>3. IsFiniteSet(({"repository"} \cup {"pull_request"}) \cup {"branch_protection"})
      BY <3>2, FS_AddElement
    <3>4. ({"repository"} \cup {"pull_request"}) \cup {"branch_protection"}
            = {"repository", "pull_request", "branch_protection"}
      OBVIOUS
    <3> QED BY <3>3, <3>4
  <2>2. IsFiniteSet({"rulesets", "reviews", "checks"})
    <3>1. IsFiniteSet({"rulesets"})
      BY FS_Singleton
    <3>2. IsFiniteSet({"rulesets"} \cup {"reviews"})
      BY <3>1, FS_AddElement
    <3>3. IsFiniteSet(({"rulesets"} \cup {"reviews"}) \cup {"checks"})
      BY <3>2, FS_AddElement
    <3>4. ({"rulesets"} \cup {"reviews"}) \cup {"checks"} = {"rulesets", "reviews", "checks"}
      OBVIOUS
    <3> QED BY <3>3, <3>4
  <2>3. Core = {"repository", "pull_request", "branch_protection"}
                 \cup {"rulesets", "reviews", "checks"}
    BY CoreKeys
  <2> QED BY <2>1, <2>2, <2>3, FS_Union
<1>2. IsFiniteSet(Core \cup Rulesets)
  BY <1>1, FS_Union, KeysAreDistinct
<1> QED BY <1>2, FS_Union, KeysAreDistinct DEF Keys

\* A request that was answered is not made again.
LEMMA AwaitedAreNew ==
  ASSUME Base, NEW k \in Awaited
  PROVE  k \in Unasked
<1>1. k \in Keys
  BY AwaitedAreKeys
<1>2. CASE Unanswered # {}
  <2>1. (CHOOSE i \in Unanswered : \A j \in Unanswered : i <= j) \in Unanswered
    BY <1>2, FirstOfUnanswered
  <2>2. ~Answered(k)
    BY <1>2, <2>1 DEF Awaited, Unanswered
  <2> QED BY <1>1, <2>2 DEF Unasked, Answered
<1>3. CASE Unanswered = {}
  BY <1>1, <1>3 DEF Awaited, Unasked, Answered
<1> QED BY <1>2, <1>3

LEMMA ToDos ==
  ASSUME NEW n \in Nat
  PROVE  ToDo("fetching", n) = n + 2 /\ ToDo("fetched", n) = 1 /\ ToDo("idle", n) = 0
  BY DEF ToDo

LEMMA CountOfUnasked ==
  ASSUME Base
  PROVE  /\ IsFiniteSet(Unasked)
         /\ Cardinality(Unasked) \in 0..Cardinality(Keys) /\ Cardinality(Keys) \in Nat
         /\ pc \in {"idle", "fetching", "fetched"}
<1>1. Unasked \in SUBSET Keys
  BY DEF Unasked
<1>2. IsFiniteSet(Unasked) /\ Cardinality(Unasked) <= Cardinality(Keys)
  BY <1>1, KeysAreFinite, FS_Subset
<1>3. Cardinality(Unasked) \in Nat /\ Cardinality(Keys) \in Nat
  BY <1>2, KeysAreFinite, FS_CardinalityType
<1> QED BY <1>2, <1>3 DEF Base, TypeOK

LEMMA BooleansAreAnswers == \A b \in BOOLEAN : b \in Answers
  BY Zenon DEF Answers

\* An answer is something.
LEMMA ViewIsAnAnswer ==
  ASSUME Base, NEW k \in Keys
  PROVE  View(k, world) \in Answers
<1>1. world \in World
  BY DEF Base, TypeOK
<1>2. /\ world.head \in Heads /\ world.settings \in Setting
      /\ world.reviews \in Seq(OneReview) /\ world.runs \in Seq(OneRun)
  BY <1>1, WorldParts
<1>3. CASE k = "repository"
  <2>1. View(k, world) = TRUE
    <3>1. k \notin Rulesets /\ k \notin Humans
      BY <1>3, CoreKeys, KeysAreDistinct
    <3> QED BY <1>3, <3>1 DEF View
  <2>2. TRUE \in Answers
    BY Zenon, BooleansAreAnswers
  <2> QED BY Zenon, <2>1, <2>2
<1>4. CASE k = "pull_request"
  BY <1>2, <1>4, ViewOfKeys DEF Answers
<1>5. CASE k = "branch_protection"
  BY <1>2, <1>5, ViewOfKeys, SettingParts DEF Answers
<1>6. CASE k = "rulesets"
  <2>1. View(k, world) \in SUBSET Rulesets
    BY <1>6, ViewOfKeys
  <2> QED BY <2>1 DEF Answers
<1>7. CASE k = "reviews"
  <2>1. View(k, world) = {world.reviews[i] : i \in FirstPage(DOMAIN world.reviews)}
    BY <1>7, ViewOfKeys
  <2>2. \A i \in DOMAIN world.reviews : world.reviews[i] \in OneReview
    BY <1>2
  <2>3. View(k, world) \in SUBSET OneReview
    BY <2>1, <2>2 DEF FirstPage
  <2> QED BY <2>3 DEF Answers
<1>8. CASE k = "checks"
  <2>1. View(k, world) = {world.runs[i] : i \in FirstPage(OnHead(event.head, world.runs))}
    BY <1>8, ViewOfKeys
  <2>2. \A i \in DOMAIN world.runs : world.runs[i] \in OneRun
    BY <1>2
  <2>3. View(k, world) \in SUBSET OneRun
    BY <2>1, <2>2 DEF FirstPage, OnHead
  <2> QED BY <2>3 DEF Answers
<1>9. CASE k \in Rulesets
  <2>1. View(k, world) \in {None} \cup Ruleset
    BY <1>2, <1>9, ViewOfKeys, SettingParts
  <2> QED BY <2>1 DEF Answers
<1>10. CASE k \in Humans
  <2>1. View(k, world) = (k \in world.members)
    BY <1>10, ViewOfKeys
  <2>2. (k \in world.members) \in BOOLEAN
    OBVIOUS
  <2>3. View(k, world) \in BOOLEAN
    BY Zenon, <2>1, <2>2
  <2> QED BY <2>3, BooleansAreAnswers
<1> QED BY <1>3, <1>4, <1>5, <1>6, <1>7, <1>8, <1>9, <1>10, CoreKeys DEF Keys

\* What an answer does: one request less is left, or the collection is over.
LEMMA FetchAnswersOne ==
  ASSUME Base, Fetch
  PROVE  /\ pc = "fetching"
         /\ \/ pc' = "idle"
            \/ /\ pc' = "fetching"
               /\ Cardinality(Unasked)' = Cardinality(Unasked) - 1
               /\ \A k \in Keys : got[k] # None => got'[k] = got[k]
<1>1. PICK k \in Awaited, ok \in BOOLEAN :
        IF k = "repository" /\ ~ok
        THEN End("error")
        ELSE /\ got' = [got EXCEPT ![k] = [ok |-> ok, at |-> now, data |-> View(k, world)]]
             /\ UNCHANGED <<pc, event, outcomes>>
  BY DEF Fetch
<1>2. pc = "fetching"
  BY DEF Fetch
<1>3. CASE End("error")
  BY <1>2, <1>3 DEF End
<1>4. CASE /\ got' = [got EXCEPT ![k] = [ok |-> ok, at |-> now, data |-> View(k, world)]]
           /\ UNCHANGED <<pc, event, outcomes>>
  <2>1. k \in Unasked /\ k \in Keys
    BY AwaitedAreKeys, AwaitedAreNew
  <2>2. /\ got'[k] = [ok |-> ok, at |-> now, data |-> View(k, world)]
        /\ \A j \in Keys \ {k} : got'[j] = got[j]
    BY <2>1, <1>4 DEF Base, Tabled
  <2>3. got'[k] # None
    <3>1. View(k, world) \in Answers
      BY <2>1, ViewIsAnAnswer
    <3>2. now \in Nat
      BY BoundsAreNatural DEF Base, TypeOK
    <3>3. got'[k] \in Receipt
      BY <2>2, <3>1, <3>2 DEF Receipt
    <3> QED BY <3>3, ReceiptsAreSomething
  <2>4. Unasked' = Unasked \ {k}
    BY <2>2, <2>3 DEF Unasked
  <2>5. Cardinality(Unasked \ {k}) = Cardinality(Unasked) - 1
    BY <2>1, CountOfUnasked, FS_RemoveElement
  <2>6. \A j \in Keys : got[j] # None => got'[j] = got[j]
    BY <2>1, <2>2 DEF Unasked
  <2> QED BY <1>2, <1>4, <2>4, <2>5, <2>6
<1> QED BY <1>1, <1>2, <1>3, <1>4

\* What the other steps of the verifier do: the collection goes on to its
\* verification or is over.
LEMMA VerifierGoesOn ==
  ASSUME pc # "idle", FetchFails \/ FetchedAll \/ Refuse \/ Verify
  PROVE  \/ pc \in {"fetching", "fetched"} /\ pc' = "idle"
         \/ pc = "fetching" /\ pc' = "fetched" /\ got' = got
<1>1. CASE FetchFails
  BY <1>1 DEF FetchFails, End
<1>2. CASE FetchedAll
  BY <1>2 DEF FetchedAll
<1>3. CASE Refuse \/ Verify
  BY <1>3 DEF Refuse, Verify, End
<1> QED BY <1>1, <1>2, <1>3

\* Nobody else touches it.
LEMMA NobodyElseCollects ==
  ASSUME Others \/ Tick \/ VerifyProducer \/ VerifyEnforcement \/ UNCHANGED vars
  PROVE  UNCHANGED <<pc, got>>
<1>1. CASE Others
  BY <1>1 DEF Others, Push, Review, Dismiss, Run, Reconfigure, ChangeTeam, Change, verifier
<1>2. CASE Tick \/ VerifyProducer \/ VerifyEnforcement
  BY <1>2 DEF Tick, VerifyProducer, VerifyEnforcement, verifier
<1>3. CASE UNCHANGED vars
  BY <1>3 DEF vars
<1> QED BY <1>1, <1>2, <1>3

\* Whatever GitHub answers and however it changes meanwhile, _fetch_governance
\* asks for each thing at most once, never replaces a receipt, whether it is
\* positive or negative, and is through after a request for every ruleset and
\* every member at most: a collection is over, minted or refused, after at most
\* two more steps than there are things to ask for.
THEOREM CollectionsAreBounded ==
  Spec => [](StepsLeft \in 0..(Cardinality(Keys) + 2)) /\ CollectionsAdvance
<1>1. Base => StepsLeft \in 0..(Cardinality(Keys) + 2)
  BY CountOfUnasked, ToDos DEF StepsLeft
<1>2. Base /\ Base' /\ [Next]_vars =>
        [pc # "idle" =>
           /\ StepsLeft' <= StepsLeft
           /\ Verifier => StepsLeft' < StepsLeft
           /\ pc' # "idle" => \A k \in Keys : got[k] # None => got'[k] = got[k]]_vars
  <2> SUFFICES ASSUME Base, Base', Next, pc # "idle"
               PROVE  /\ StepsLeft' <= StepsLeft
                      /\ Verifier => StepsLeft' < StepsLeft
                      /\ pc' # "idle" => \A k \in Keys : got[k] # None => got'[k] = got[k]
    OBVIOUS
  <2>1. PICK n \in Nat, m \in Nat :
          /\ n = Cardinality(Unasked) /\ m = Cardinality(Unasked)'
          /\ StepsLeft = ToDo(pc, n) /\ StepsLeft' = ToDo(pc', m)
    <3>1. Cardinality(Unasked) \in Nat
      BY CountOfUnasked
    <3>2. Cardinality(Unasked)' \in Nat
      <4>1. IsFiniteSet(Unasked')
        BY KeysAreFinite, FS_Subset DEF Unasked
      <4> QED BY <4>1, FS_CardinalityType
    <3> QED BY <3>1, <3>2 DEF StepsLeft
  <2>2. CASE Verifier
    <3>1. Fetch \/ FetchFails \/ FetchedAll \/ Refuse \/ Verify
      BY <2>2 DEF Verifier, Begin
    <3>2. \/ pc \in {"fetching", "fetched"} /\ pc' = "idle"
          \/ pc = "fetching" /\ pc' = "fetched" /\ got' = got
          \/ /\ pc = "fetching" /\ pc' = "fetching" /\ m = n - 1
             /\ \A k \in Keys : got[k] # None => got'[k] = got[k]
      BY <2>1, <3>1, FetchAnswersOne, VerifierGoesOn
    <3>3. StepsLeft' < StepsLeft
      BY <2>1, <3>2, ToDos
    <3>4. StepsLeft \in Int /\ StepsLeft' \in Int
      BY <2>1, <3>2, ToDos
    <3> QED BY <3>2, <3>3, <3>4
  <2>3. CASE ~Verifier
    <3>1. UNCHANGED <<pc, got>>
      BY <2>3, NobodyElseCollects DEF Next
    <3>2. m = n
      BY <2>1, <3>1 DEF Unasked
    <3>3. StepsLeft' = StepsLeft /\ StepsLeft \in Int
      BY <2>1, <3>1, <3>2, ToDos, CountOfUnasked
    <3> QED BY <2>3, <3>1, <3>3
  <2> QED BY <2>2, <2>3
<1> QED BY <1>1, <1>2, BaseHolds, PTL DEF Spec, CollectionsAdvance
=============================================================================
