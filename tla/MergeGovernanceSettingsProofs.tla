--------------------- MODULE MergeGovernanceSettingsProofs ---------------------
(***************************************************************************)
(* Theorems about what the verifier concludes from the settings of the     *)
(* repository when they stand still during the collection: what is found   *)
(* enforced is enforced, and what is authorized GitHub would let be merged.*)
(***************************************************************************)
EXTENDS MergeGovernanceProofs

-----------------------------------------------------------------------------
(* The largest of the counts.                                              *)

\* A finite set of naturals that is not empty has a largest member: of the sets
\* without one, a smallest would have a smaller one.
LEMMA LargestIsLargest ==
  ASSUME NEW S \in SUBSET Nat, IsFiniteSet(S), S # {}
  PROVE  Largest(S) \in S /\ \A m \in S : m <= Largest(S)
<1> DEFINE Unbounded == {T \in SUBSET S : T # {} /\ \A n \in T : \E m \in T : n < m}
           R == StrictSubsetOrdering(S)
<1>1. Unbounded = {}
  <2> SUFFICES ASSUME Unbounded # {} PROVE FALSE
    OBVIOUS
  <2>1. IsWellFoundedOn(R, FiniteSubsetsOf(S))
    BY FS_StrictSubsetOrderingWellFounded
  <2>2. Unbounded \subseteq FiniteSubsetsOf(S)
    BY FS_FiniteSubsetsOfFinite
  <2> HIDE DEF R
  <2>3. \E T \in Unbounded : \A U \in Unbounded : ~(<<U, T>> \in R)
    <3> HIDE DEF Unbounded
    <3> QED BY <2>1, <2>2, WFMin
  <2>4. PICK T \in Unbounded : \A U \in Unbounded : ~(<<U, T>> \in R)
    BY <2>3
  <2>5. PICK x \in T : TRUE
    OBVIOUS
  <2> DEFINE U == T \ {x}
  <2>6. \A n \in U : \E m \in U : n < m
    <3> SUFFICES ASSUME NEW n \in U PROVE \E m \in U : n < m
      OBVIOUS
    <3>1. PICK m \in T : n < m
      OBVIOUS
    <3>2. CASE m # x
      BY <3>1, <3>2
    <3>3. CASE m = x
      <4>1. PICK o \in T : x < o
        OBVIOUS
      <4> QED BY <3>1, <3>3, <4>1
    <3> QED BY <3>2, <3>3
  <2>7. U # {}
    <3>1. PICK o \in T : x < o
      OBVIOUS
    <3> QED BY <3>1
  <2>8. U \in Unbounded
    BY <2>6, <2>7
  <2>9. <<U, T>> \in R
    BY DEF R, StrictSubsetOrdering
  <2> QED BY <2>4, <2>8, <2>9
<1>2. \E n \in S : \A m \in S : m <= n
  <2>1. S \notin Unbounded
    BY <1>1
  <2>2. PICK n \in S : \A m \in S : ~(n < m)
    BY <2>1
  <2> QED BY <2>2
<1> HIDE DEF Unbounded
<1> QED BY <1>2 DEF Largest

LEMMA GreaterIsEither ==
  ASSUME NEW a \in Nat, NEW b \in Nat
  PROVE  Greater(a, b) \in {a, b} /\ a <= Greater(a, b) /\ b <= Greater(a, b)
<1>1. {a, b} \ {None} = {a, b} /\ {a, b} # {None}
  BY NoneIsNothing
<1>2. \E n \in {a, b} : \A m \in {a, b} : m <= n
  <2>1. a <= b \/ b <= a
    OBVIOUS
  <2> QED BY <2>1
<1>3. Largest({a, b}) \in {a, b} /\ \A m \in {a, b} : m <= Largest({a, b})
  BY <1>2 DEF Largest
<1> QED BY <1>1, <1>3 DEF Greater

-----------------------------------------------------------------------------
(* What the verifier reads.                                                *)

Applicable == {r \in Details : TargetsDefaultBranch(got[r].data.target)}

BranchRule == got["branch_protection"].data

\* The rules of the branch protection and of the rulesets found to apply.
RulesRead == {BranchRule.rule} \cup {got[r].data.rule : r \in Applicable}

LEMMA ReadIsTyped ==
  ASSUME Base, Good("branch_protection"), DetailsComplete
  PROVE  /\ BranchRule \in Protection
         /\ Details \subseteq Rulesets
         /\ \A r \in Details : got[r].data \in Ruleset
         /\ RulesRead \subseteq Rule
<1>1. BranchRule \in Protection
  BY SettingsOfReceipts DEF BranchRule
<1>2. Details \subseteq Rulesets
  BY ReceiptsHold DEF Details
<1>3. \A r \in Details : got[r].data \in Ruleset
  BY <1>2, SettingsOfReceipts DEF DetailsComplete
<1>4. BranchRule.rule \in Rule
  BY <1>1 DEF Protection
<1>5. \A r \in Applicable : got[r].data.rule \in Rule
  BY <1>3 DEF Applicable, Ruleset
<1> QED BY <1>1, <1>2, <1>3, <1>4, <1>5 DEF RulesRead

\* The count of the rulesets is the largest of those that ask for reviews.
LEMMA RulesetCount ==
  ASSUME Base, Good("branch_protection"), DetailsComplete
  PROVE  /\ RulesetValues.count \in Nat
         /\ RulesetValues.count >= 1 =>
              \E u \in RulesRead : u.reviews /\ u.count = RulesetValues.count
         /\ \A r \in Applicable : got[r].data.rule.reviews =>
              got[r].data.rule.count <= RulesetValues.count
<1> DEFINE asking == {r \in Applicable : got[r].data.rule.reviews}
           counts == {got[r].data.rule.count : r \in asking}
<1>1. RulesetValues.count = Largest(counts)
  <2> DEFINE reviews == {u \in {got[r].data.rule : r \in Applicable} : u.reviews}
  <2>1. RulesetValues.count = Largest({u.count : u \in reviews})
    BY DEF RulesetValues, Applicable
  <2>2. {u.count : u \in reviews} = counts
    OBVIOUS
  <2> QED BY <2>1, <2>2
<1>2. \A r \in asking : got[r].data.rule \in Rule
  BY ReadIsTyped DEF RulesRead
<1>3. counts \in SUBSET Nat
  BY <1>2 DEF Rule
<1>4. IsFiniteSet(counts)
  <2>1. asking \in SUBSET Rulesets
    BY ReadIsTyped DEF Applicable
  <2>2. IsFiniteSet(asking)
    BY <2>1, KeysAreDistinct, FS_Subset
  <2> DEFINE f == [r \in asking |-> got[r].data.rule.count]
  <2>3. f \in Surjection(asking, counts)
    BY DEF Surjection
  <2> HIDE DEF f, asking, counts
  <2> QED BY <2>2, <2>3, FS_Surjection
<1>5. counts # {} => Largest(counts) \in counts /\ \A m \in counts : m <= Largest(counts)
  <2> HIDE DEF counts
  <2> QED BY <1>3, <1>4, LargestIsLargest
<1>6. counts = {} => Largest(counts) = 0
  BY DEF Largest
<1>7. RulesetValues.count \in Nat
  <2>1. Largest(counts) \in Nat
    <3>1. CASE counts = {}
      <4> HIDE DEF counts
      <4> QED BY <1>6, <3>1
    <3>2. CASE counts # {}
      <4> HIDE DEF counts
      <4> QED BY <1>3, <1>5, <3>2
    <3> QED BY <3>1, <3>2
  <2> QED BY <1>1, <2>1
<1>8. ASSUME RulesetValues.count >= 1
      PROVE  \E u \in RulesRead : u.reviews /\ u.count = RulesetValues.count
  <2>1. RulesetValues.count \in counts
    <3> HIDE DEF counts
    <3> QED BY <1>1, <1>5, <1>6, <1>8
  <2>2. PICK r \in asking : got[r].data.rule.count = RulesetValues.count
    BY <2>1
  <2>3. got[r].data.rule \in RulesRead /\ got[r].data.rule.reviews
    BY <2>2 DEF RulesRead
  <2> QED BY <2>2, <2>3
<1>9. ASSUME NEW r \in Applicable, got[r].data.rule.reviews
      PROVE  got[r].data.rule.count <= RulesetValues.count
  <2>1. got[r].data.rule.count \in counts
    BY <1>9
  <2> QED BY <1>1, <1>5, <2>1
<1> QED BY <1>7, <1>8, <1>9

LEMMA AllAreTrue ==
  ASSUME NEW a, NEW b, NEW c, NEW d, NEW e, {a, b, c, d, e} = {TRUE}
  PROVE  a = TRUE /\ b = TRUE /\ c = TRUE /\ d = TRUE /\ e = TRUE
<1>1. a \in {TRUE} /\ b \in {TRUE} /\ c \in {TRUE} /\ d \in {TRUE} /\ e \in {TRUE}
  BY Zenon
<1> QED BY Zenon, <1>1

LEMMA StatusMeans ==
  ASSUME NEW s, NEW limited, Status(s, limited) = "verified_enforced"
  PROVE  /\ ~limited /\ s.bypass = {}
         /\ {s.reviews, s.checks # {}, s.count >= 1, s.dismiss, s.owner} = {TRUE}
         /\ \A f \in DOMAIN s : s[f] # None
<1> DEFINE unknown == limited \/ \E f \in DOMAIN s : s[f] = None
           all == {s.reviews, s.checks # {}, s.count >= 1, s.dismiss, s.owner}
           enforced == s.bypass = {} /\ all = {TRUE}
<1>1. Status(s, limited) =
        IF unknown THEN "insufficient_evidence"
        ELSE IF enforced THEN "verified_enforced"
        ELSE IF s.bypass = {} /\ all = {FALSE} THEN "verified_not_enforced"
        ELSE "partially_enforced"
  BY Zenon DEF Status
<1>2. ~unknown
  <2> HIDE DEF unknown, enforced
  <2> QED BY <1>1
<1>3. enforced
  <2> HIDE DEF unknown, enforced
  <2> QED BY <1>1, <1>2
<1> QED BY Zenon, <1>2, <1>3

\* What is found enforced: every protection is asked for by a rule that was read,
\* and nobody may bypass one.
LEMMA EnforcedMeans ==
  ASSUME Base, Status(Derived, Limited) = "verified_enforced"
  PROVE  /\ Good("branch_protection") /\ DetailsComplete /\ Good("reviews") /\ Good("checks")
         /\ BranchRule.bypass = {} /\ BranchRule.admins
         /\ \A r \in Applicable : got[r].data.bypass = {}
         /\ \E u \in RulesRead : u.reviews /\ u.count >= 1
         /\ \E u \in RulesRead : u.reviews /\ u.dismiss
         /\ \E u \in RulesRead : u.reviews /\ u.owner
         /\ Derived.count \in Nat
         /\ \A u \in RulesRead : u.reviews => u.count <= Derived.count
         /\ Derived.checks = UNION {u.checks : u \in RulesRead}
         /\ Derived.checks # None /\ Derived.checks # {}
<1> DEFINE b == BranchValues
           r == RulesetValues
           s == Derived
<1>0. Status(s, Limited) = "verified_enforced"
  OBVIOUS
<1>1. ~Limited /\ s.bypass = {}
      /\ {s.reviews, s.checks # {}, s.count >= 1, s.dismiss, s.owner} = {TRUE}
      /\ \A f \in DOMAIN s : s[f] # None
  <2> HIDE DEF s
  <2> QED BY Zenon, <1>0, StatusMeans
<1>2. s.reviews = TRUE /\ s.checks # {} /\ s.count >= 1 /\ s.dismiss = TRUE /\ s.owner = TRUE
  <2> HIDE DEF s
  <2>1. (s.checks # {}) = TRUE /\ (s.count >= 1) = TRUE
        /\ s.reviews = TRUE /\ s.dismiss = TRUE /\ s.owner = TRUE
    BY <1>1, AllAreTrue
  <2> QED BY <2>1
<1>3. /\ s.count = Greater(b.count, r.count)
      /\ s.dismiss = Either(b.dismiss, r.dismiss) /\ s.owner = Either(b.owner, r.owner)
      /\ s.checks = Both(b.checks, r.checks) /\ s.bypass = Both(b.bypass, r.bypass)
      /\ s.checks # None /\ s.bypass # None
  <2>1. "checks" \in DOMAIN s /\ "bypass" \in DOMAIN s
    BY DEF Derived
  <2> QED BY <1>1, <2>1 DEF Derived
<1>4. /\ Good("branch_protection") /\ DetailsComplete /\ Good("reviews") /\ Good("checks")
      /\ b.bypass # None
  BY <1>1 DEF Limited
<1>5. BranchRule \in Protection /\ RulesRead \subseteq Rule /\ BranchRule.rule \in RulesRead
  BY <1>4, ReadIsTyped DEF RulesRead
<1>6. /\ BranchRule.rule.reviews /\ BranchRule.bypass # None
      /\ b.count = BranchRule.rule.count /\ b.dismiss = BranchRule.rule.dismiss
      /\ b.owner = BranchRule.rule.owner /\ b.checks = BranchRule.rule.checks
      /\ b.bypass = BranchRule.bypass \cup
           (IF BranchRule.admins THEN {} ELSE {"repository_admins"})
  <2>1. BranchRule.rule.reviews
    BY <1>4 DEF BranchValues, BranchRule
  <2>2. BranchRule.bypass # None
    BY <1>4, <2>1 DEF BranchValues, BranchRule
  <2> QED BY <1>4, <2>1, <2>2 DEF BranchValues, BranchRule
<1>7. /\ r.dismiss => \E u \in RulesRead : u.reviews /\ u.dismiss
      /\ r.owner => \E u \in RulesRead : u.reviews /\ u.owner
      /\ r.checks = UNION {u.checks : u \in {got[q].data.rule : q \in Applicable}}
      /\ r.bypass = UNION {got[q].data.bypass : q \in Applicable}
  BY <1>4 DEF RulesetValues, Applicable, RulesRead
<1>8. b.bypass = {} /\ r.bypass = {}
  BY <1>1, <1>3 DEF Both
<1>9. BranchRule.bypass = {} /\ BranchRule.admins
  BY <1>6, <1>8
<1>10. \A q \in Applicable : got[q].data.bypass = {}
  BY <1>7, <1>8
<1>11. b.count \in Nat /\ r.count \in Nat
  BY <1>4, <1>5, <1>6, RulesetCount DEF Rule
<1>12. s.count \in {b.count, r.count} /\ b.count <= s.count /\ r.count <= s.count
  BY <1>3, <1>11, GreaterIsEither
<1>13. \E u \in RulesRead : u.reviews /\ u.count >= 1
  <2>1. CASE s.count = b.count
    BY <1>2, <1>5, <1>6, <2>1
  <2>2. CASE s.count = r.count
    <3>1. r.count >= 1
      BY <1>2, <2>2
    <3> QED BY <1>4, <3>1, RulesetCount
  <2> QED BY <1>12, <2>1, <2>2
<1>14. ASSUME NEW u \in RulesRead, u.reviews
       PROVE  u.count <= s.count
  <2>1. CASE u = BranchRule.rule
    BY <1>6, <1>12, <2>1
  <2>2. CASE u # BranchRule.rule
    <3>1. u.count <= r.count /\ u.count \in Nat
      BY <1>4, <1>5, <1>14, <2>2, RulesetCount DEF RulesRead, Rule
    <3> QED BY <1>11, <1>12, <3>1
  <2> QED BY <2>1, <2>2
<1>15. \E u \in RulesRead : u.reviews /\ u.dismiss
  <2>1. b.dismiss = TRUE \/ r.dismiss = TRUE
    <3> HIDE DEF b, r, s
    <3> QED BY <1>2, <1>3, NoneIsNothing DEF Either
  <2> QED BY <1>5, <1>6, <1>7, <2>1
<1>16. \E u \in RulesRead : u.reviews /\ u.owner
  <2>1. b.owner = TRUE \/ r.owner = TRUE
    <3> HIDE DEF b, r, s
    <3> QED BY <1>2, <1>3, NoneIsNothing DEF Either
  <2> QED BY <1>5, <1>6, <1>7, <2>1
<1>17. s.checks = UNION {u.checks : u \in RulesRead}
  <2>1. s.checks = b.checks \cup r.checks
    BY <1>3 DEF Both
  <2> QED BY <1>6, <1>7, <2>1 DEF RulesRead
<1> QED BY <1>2, <1>3, <1>4, <1>9, <1>10, <1>11, <1>12, <1>13, <1>14, <1>15, <1>16, <1>17

-----------------------------------------------------------------------------
(* A quiet collection.                                                     *)

\* When GitHub stood still, every receipt is of the world there is.
LEMMA QuietReceipts ==
  ASSUME Base, event.since = Len(past), NEW k \in Keys, Good(k)
  PROVE  got[k].data = View(k, world) /\ (k \in MayBeMissing => got[k].data # None)
<1>1. PICK i \in event.since..Len(past) : Seen(k, i)
  BY DEF Base, Receipts
<1>2. i = Len(past) /\ past[Len(past)].world = world
  BY <1>1 DEF Base, TypeOK, Present
<1> QED BY <1>1, <1>2 DEF Seen, Base, Receipts

\* What was read are the settings, but for the rulesets that name the branch by a
\* pattern and those that spare it by one.
LEMMA QuietSettings ==
  ASSUME Base, event.since = Len(past), Good("branch_protection"), DetailsComplete
  PROVE  /\ BranchRule = world.settings.protection /\ BranchRule # None
         /\ \A r \in Details : /\ r \in Rulesets /\ world.settings.rulesets[r] # None
                               /\ world.settings.rulesets[r].active
                               /\ got[r].data = world.settings.rulesets[r]
         /\ \A r \in Rulesets :
              world.settings.rulesets[r] # None /\ world.settings.rulesets[r].active
                => r \in Details
<1>1. BranchRule = world.settings.protection /\ BranchRule # None
  BY QuietReceipts, ViewOfKeys, CoreKeys DEF BranchRule, MayBeMissing
<1>2. Details = {r \in Rulesets : /\ world.settings.rulesets[r] # None
                                  /\ world.settings.rulesets[r].active}
  <2>1. Good("rulesets") /\ "rulesets" \in Keys
    BY CoreKeys DEF DetailsComplete
  <2>2. got["rulesets"].data = View("rulesets", world)
    BY <2>1, QuietReceipts
  <2> QED BY <2>1, <2>2, ViewOfKeys DEF Details
<1>3. ASSUME NEW r \in Details
      PROVE  got[r].data = world.settings.rulesets[r]
  <2>1. r \in Rulesets /\ r \in Keys /\ Good(r)
    BY <1>2, CoreKeys DEF DetailsComplete
  <2> QED BY <2>1, QuietReceipts, ViewOfKeys
<1> QED BY <1>1, <1>2, <1>3

LEMMA ReadIsApplied ==
  ASSUME Base, event.since = Len(past), Good("branch_protection"), DetailsComplete,
         ~Spares(world.settings)
  PROVE  RulesRead \subseteq AppliedRules(world.settings)
<1> DEFINE s == world.settings
<1>1. BranchRule.rule \in AppliedRules(s)
  BY QuietSettings DEF AppliedRules
<1>2. ASSUME NEW r \in Applicable
      PROVE  got[r].data.rule \in AppliedRules(s)
  <2>1. /\ r \in Rulesets /\ s.rulesets[r] # None /\ s.rulesets[r].active
        /\ got[r].data = s.rulesets[r]
    BY QuietSettings DEF Applicable
  <2>2. s.rulesets[r].target \in {"named", "pattern"}
    BY <2>1 DEF Applicable, TargetsDefaultBranch, Spares
  <2> QED BY <2>1, <2>2 DEF Sources, AppliedRules
<1> QED BY <1>1, <1>2 DEF RulesRead

LEMMA AppliedIsRead ==
  ASSUME Base, event.since = Len(past), Good("branch_protection"), DetailsComplete,
         ~ByPattern(world.settings)
  PROVE  AppliedRules(world.settings) \subseteq RulesRead
<1> DEFINE s == world.settings
<1>1. ASSUME NEW q \in Sources(s)
      PROVE  q.rule \in RulesRead
  <2>1. PICK r \in Rulesets : /\ q = s.rulesets[r] /\ s.rulesets[r] # None
                              /\ s.rulesets[r].active
                              /\ s.rulesets[r].target \in {"named", "pattern"}
    BY DEF Sources
  <2>2. s.rulesets[r].target = "named"
    BY <2>1 DEF ByPattern
  <2>3. r \in Details /\ got[r].data = s.rulesets[r]
    BY <2>1, QuietSettings
  <2>4. r \in Applicable
    BY <2>2, <2>3 DEF Applicable, TargetsDefaultBranch
  <2> QED BY <2>1, <2>3, <2>4 DEF RulesRead
<1>2. s.protection # None => s.protection.rule \in RulesRead
  BY QuietSettings DEF RulesRead
<1> QED BY <1>1, <1>2 DEF AppliedRules

-----------------------------------------------------------------------------
(* What is found enforced is enforced.                                     *)

\* What EnforcedIsEnforced says of evidence e collected under the settings s.
EnforcedBy(e, s) ==
  e.status = "verified_enforced" /\ Quiet(e) /\ ~Spares(s) =>
    /\ \E u \in {v \in AppliedRules(s) : v.reviews} : u.count >= 1
    /\ \E u \in {v \in AppliedRules(s) : v.reviews} : u.dismiss
    /\ \E u \in {v \in AppliedRules(s) : v.reviews} : u.owner
    /\ e.required # {} /\ e.required \subseteq UNION {u.checks : u \in AppliedRules(s)}
    /\ s.protection.admins /\ s.protection.bypass = {}
    /\ \A q \in Sources(s) : q.target = "named" => q.bypass = {}

\* What AuthorizedIsSatisfied says of evidence e collected in the world w.
SatisfiedBy(e, w) ==
  e.authorized /\ Quiet(e) /\ ~Overtaken(e, w) /\ ~ByPattern(w.settings)
    => Satisfied(w, e.head)

Sound == \A n \in DOMAIN minted :
  LET e == minted[n] w == past[e.since].world IN
  EnforcedBy(e, w.settings) /\ SatisfiedBy(e, w)

LEMMA MintIsEnforced ==
  ASSUME Base
  PROVE  EnforcedBy(Mint, past[Mint.since].world.settings)
<1> DEFINE e == Mint
           s == world.settings
<1>1. /\ e.since = event.since /\ e.until = Len(past)
      /\ e.status = Status(Derived, Limited)
      /\ e.required = IF Derived.checks = None THEN {} ELSE Derived.checks
  BY DEF Mint
<1> HIDE DEF e
<1> SUFFICES ASSUME e.status = "verified_enforced", e.since = e.until, ~Spares(s)
             PROVE  /\ \E u \in {v \in AppliedRules(s) : v.reviews} : u.count >= 1
                    /\ \E u \in {v \in AppliedRules(s) : v.reviews} : u.dismiss
                    /\ \E u \in {v \in AppliedRules(s) : v.reviews} : u.owner
                    /\ e.required # {}
                    /\ e.required \subseteq UNION {u.checks : u \in AppliedRules(s)}
                    /\ s.protection.admins /\ s.protection.bypass = {}
                    /\ \A q \in Sources(s) : q.target = "named" => q.bypass = {}
  <2>1. Quiet(e) => past[e.since].world = world
    BY <1>1 DEF Quiet, Base, Present
  <2> QED BY <2>1 DEF EnforcedBy, Quiet, e
<1>2. event.since = Len(past) /\ Status(Derived, Limited) = "verified_enforced"
  BY <1>1
<1>3. RulesRead \subseteq AppliedRules(s)
  BY <1>2, EnforcedMeans, ReadIsApplied
<1>4. e.required # {} /\ e.required \subseteq UNION {u.checks : u \in AppliedRules(s)}
  BY <1>1, <1>2, <1>3, EnforcedMeans
<1>5. s.protection.admins /\ s.protection.bypass = {}
  BY <1>2, EnforcedMeans, QuietSettings
<1>6. ASSUME NEW q \in Sources(s), q.target = "named"
      PROVE  q.bypass = {}
  <2>1. PICK r \in Rulesets : /\ q = s.rulesets[r] /\ s.rulesets[r] # None
                              /\ s.rulesets[r].active
    BY DEF Sources
  <2>2. r \in Details /\ got[r].data = s.rulesets[r]
    BY <1>2, <2>1, EnforcedMeans, QuietSettings
  <2>3. r \in Applicable
    BY <1>6, <2>1, <2>2 DEF Applicable, TargetsDefaultBranch
  <2> QED BY <1>2, <2>1, <2>2, <2>3, EnforcedMeans
<1>7. /\ \E u \in RulesRead : u.reviews /\ u.count >= 1
      /\ \E u \in RulesRead : u.reviews /\ u.dismiss
      /\ \E u \in RulesRead : u.reviews /\ u.owner
  BY <1>2, EnforcedMeans
<1> QED BY <1>3, <1>4, <1>5, <1>6, <1>7

-----------------------------------------------------------------------------
(* What is authorized GitHub would let be merged.                          *)

LEMMA MintIsSatisfied ==
  ASSUME Base, Good("pull_request"), got["pull_request"].data = event.head
  PROVE  SatisfiedBy(Mint, past[Mint.since].world)
<1> DEFINE e == Mint
<1>1. /\ e.since = event.since /\ e.until = Len(past) /\ e.head = event.head
      /\ e.status = Status(Derived, Limited)
      /\ e.required = IF Derived.checks = None THEN {} ELSE Derived.checks
      /\ e.approvers = ValidReviewers
      /\ e.authorized => /\ Cardinality(ValidReviewers) >= Derived.count
                         /\ e.status = "verified_enforced"
  BY DEF Mint
<1> HIDE DEF e
<1> SUFFICES ASSUME e.authorized, e.since = e.until, ~Overtaken(e, world),
                    ~ByPattern(world.settings)
             PROVE  Satisfied(world, e.head)
  <2>1. Quiet(e) => past[e.since].world = world
    BY <1>1 DEF Quiet, Base, Present
  <2> QED BY <2>1 DEF SatisfiedBy, Quiet, e
<1>2. event.since = Len(past) /\ Status(Derived, Limited) = "verified_enforced"
  BY <1>1
<1>3. AppliedRules(world.settings) \subseteq RulesRead
  BY <1>2, EnforcedMeans, AppliedIsRead
<1>4. world.head = e.head
  <2>1. got["pull_request"].data = View("pull_request", world)
    BY <1>2, CoreKeys, QuietReceipts
  <2> QED BY <1>1, <2>1, ViewOfKeys
<1>5. /\ ~Objected(world) /\ \A r \in ValidReviewers : Stands(world, r, e.head)
      /\ \A c \in e.required : Passes(world, c, e.head)
  BY <1>1 DEF Overtaken
<1>6. ASSUME NEW u \in AppliedRules(world.settings), u.reviews
      PROVE  Cardinality({r \in Humans \ {Author} : Stands(world, r, e.head)}) >= u.count
  <2> DEFINE standing == {r \in Humans \ {Author} : Stands(world, r, e.head)}
  <2>1. IsFiniteSet(standing)
    BY KeysAreDistinct, FS_Subset
  <2>2. ValidReviewers \in SUBSET standing
    BY <1>5, ReviewersAreReviewers
  <2>3. /\ IsFiniteSet(ValidReviewers)
        /\ Cardinality(ValidReviewers) <= Cardinality(standing)
    <3> HIDE DEF standing
    <3> QED BY <2>1, <2>2, FS_Subset
  <2>4. Cardinality(ValidReviewers) \in Nat /\ Cardinality(standing) \in Nat
    <3> HIDE DEF standing
    <3> QED BY <2>1, <2>3, FS_CardinalityType
  <2>5. u.count <= Derived.count /\ Derived.count \in Nat /\ u \in Rule
    BY <1>2, <1>3, <1>6, EnforcedMeans, ReadIsTyped
  <2>6. u.count \in Nat
    BY <2>5 DEF Rule
  <2>7. Cardinality(ValidReviewers) >= Derived.count
    BY <1>1
  <2> HIDE DEF standing
  <2>8. Cardinality(standing) >= u.count
    BY <2>3, <2>4, <2>5, <2>6, <2>7
  <2> QED BY <2>8 DEF standing
<1>7. ASSUME NEW u \in AppliedRules(world.settings), NEW c \in u.checks
      PROVE  Passes(world, c, e.head)
  <2>1. e.required = UNION {v.checks : v \in RulesRead}
    BY <1>1, <1>2, EnforcedMeans
  <2> QED BY <1>3, <1>5, <2>1
<1> QED BY <1>4, <1>5, <1>6, <1>7 DEF Satisfied

-----------------------------------------------------------------------------

LEMMA SoundKept == Base /\ Held /\ Sound /\ [Next]_vars => Sound'
<1> SUFFICES ASSUME Base, Held, Sound, [Next]_vars, NEW n \in DOMAIN minted'
             PROVE  LET e == minted'[n] w == past'[e.since].world IN
                    EnforcedBy(e, w.settings) /\ SatisfiedBy(e, w)
  BY DEF Sound
<1> DEFINE e == minted'[n]
<1>1. minted \in Seq(Evidence) /\ Len(minted) \in Nat
  BY DEF Base, TypeOK
<1>2. Grounded(past, e) /\ EnforcedBy(e, past[e.since].world.settings)
      /\ SatisfiedBy(e, past[e.since].world)
  <2>1. CASE n \in DOMAIN minted /\ e = minted[n]
    BY <2>1 DEF Sound, Held
  <2>2. CASE Verify /\ e = Mint
    BY <2>2, MintIsGrounded, MintIsEnforced, MintIsSatisfied DEF Verify
  <2>3. (n \in DOMAIN minted /\ e = minted[n]) \/ (Verify /\ e = Mint)
    <3>1. CASE minted' = minted
      BY <3>1
    <3>2. CASE Verify /\ minted' = Append(minted, Mint)
      BY <1>1, <3>2
    <3> QED BY <3>1, <3>2, MintedGrows
  <2> QED BY <2>1, <2>2, <2>3
<1> HIDE DEF e
<1>3. past'[e.since] = past[e.since]
  <2>1. e.since \in 1..Len(past)
    BY <1>2, PastGrows DEF Grounded
  <2> QED BY <2>1, PastGrows
<1> QED BY <1>2, <1>3 DEF e

THEOREM SoundHolds == Spec => []Sound
<1>1. Init => Sound
  BY DEF Init, Sound
<1>2. Base /\ Held /\ Enforced /\ Sound /\ [Next]_vars => Sound'
  BY SoundKept
<1> QED BY <1>1, <1>2, HeldHolds, PTL DEF Spec

\* Settings that stand still and are found enforced are enforced by GitHub, unless a
\* ruleset spares the branch by a wildcard: governance.py compares names.
THEOREM EnforcedAreEnforced == Spec => []EnforcedIsEnforced
<1>1. Sound => EnforcedIsEnforced
  BY DEF Sound, EnforcedBy, EnforcedIsEnforced
<1> QED BY <1>1, SoundHolds, PTL

\* What is authorized while GitHub stands still, GitHub itself would let be merged,
\* but for a later opinion, a later run and a ruleset that names the branch by a
\* pattern.
THEOREM AuthorizedAreSatisfied == Spec => []AuthorizedIsSatisfied
<1>1. Sound => AuthorizedIsSatisfied
  BY DEF Sound, SatisfiedBy, AuthorizedIsSatisfied
<1> QED BY <1>1, SoundHolds, PTL

-----------------------------------------------------------------------------
(* The converse: what GitHub would let be merged is authorized.            *)

Void(k) == Answered(k) /\ ~got[k].ok

\* Without trouble only what GitHub did not have is answered with an error.
Untroubled ==
  troubles = 0 => \A k \in Keys : Void(k) =>
    k \in MayBeMissing /\ \E i \in event.since..Len(past) : View(k, past[i].world) = None

\* The verifier starts when all has been asked.
Asked == pc = "fetched" => Awaited = {}

\* What SatisfiedIsAuthorized says of evidence e collected in the world w.
AuthorizedBy(e, w) ==
  /\ Quiet(e) /\ OnePage(w) /\ Recognisable(w.settings) /\ Satisfied(w, e.head)
  /\ e.wanted => \E r \in e.approvers : r \in w.members
  => e.authorized

Complete == troubles = 0 => \A n \in DOMAIN minted :
  AuthorizedBy(minted[n], past[minted[n].since].world)

\* The receipts and the event stay.
Resting == got' = got /\ event' = event /\ (pc' = "fetched" => pc = "fetched" \/ Awaited = {})

\* How a step is related to the receipts.
LEMMA StepsOfTheVerifier ==
  ASSUME Base, [Next]_vars
  PROVE  /\ troubles' = 0 => troubles = 0
         /\ \/ Resting
            \/ got' = NothingAsked /\ pc' # "fetched"
            \/ Fetch
<1>1. troubles \in Nat
  BY BoundsAreNatural DEF Base, TypeOK
<1>2. CASE Others \/ Tick \/ VerifyProducer \/ VerifyEnforcement
  BY <1>2 DEF Others, Push, Review, Dismiss, Run, Reconfigure, ChangeTeam, Change, Tick,
       VerifyProducer, VerifyEnforcement, verifier, Resting
<1>3. CASE Begin
  BY <1>3 DEF Begin, Base, Idle
<1>4. CASE Fetch
  <2>1. troubles' = troubles \/ troubles' = troubles + 1
    BY <1>4 DEF Fetch
  <2> QED BY <1>1, <1>4, <2>1
<1>5. CASE FetchFails \/ Refuse \/ Verify
  BY <1>1, <1>5 DEF FetchFails, Refuse, Verify, End
<1>6. CASE FetchedAll
  BY <1>6 DEF FetchedAll, Resting
<1>7. CASE UNCHANGED vars
  BY <1>7 DEF vars, Resting
<1> QED BY <1>2, <1>3, <1>4, <1>5, <1>6, <1>7 DEF Next, Verifier

LEMMA UntroubledKept == Base /\ Untroubled /\ [Next]_vars => Untroubled'
<1> SUFFICES ASSUME Base, Untroubled, [Next]_vars, troubles' = 0, NEW k \in Keys, Void(k)'
             PROVE  /\ k \in MayBeMissing
                    /\ \E i \in event'.since..Len(past') : View(k, past[i].world)' = None
  BY DEF Untroubled
<1>1. troubles = 0
  BY StepsOfTheVerifier
<1>2. CASE got' = got /\ event' = event
  <2>1. Void(k)
    BY <1>2 DEF Void, Answered
  <2>2. k \in MayBeMissing
    BY <1>1, <2>1 DEF Untroubled
  <2>3. PICK i \in event.since..Len(past) : View(k, past[i].world) = None
    BY <1>1, <2>1 DEF Untroubled
  <2>4. past'[i] = past[i] /\ i \in event'.since..Len(past')
    <3>1. i \in 1..Len(past)
      BY DEF Base, TypeOK
    <3> QED BY <1>2, <3>1, PastGrows
  <2>5. View(k, past[i].world)' = None
    BY <1>2, <2>3, <2>4 DEF View
  <2> QED BY <2>2, <2>4, <2>5
<1>3. CASE got' = NothingAsked
  BY <1>3 DEF Void, Answered, NothingAsked
<1>4. CASE Fetch
  <2>1. UNCHANGED <<world, past>>
    BY <1>4 DEF Fetch, github
  <2>2. PICK j \in Awaited, ok \in BOOLEAN :
          /\ ok => ~Absent(j)
          /\ troubles' = IF ok \/ Absent(j) THEN troubles ELSE troubles + 1
          /\ IF j = "repository" /\ ~ok
             THEN End("error")
             ELSE /\ got' = [got EXCEPT ![j] = [ok |-> ok, at |-> now, data |-> View(j, world)]]
                  /\ UNCHANGED <<pc, event, outcomes>>
    BY <1>4 DEF Fetch
  <2>3. CASE End("error")
    BY <1>3, <2>3 DEF End
  <2>4. CASE /\ got' = [got EXCEPT ![j] = [ok |-> ok, at |-> now, data |-> View(j, world)]]
             /\ event' = event
    <3>1. /\ got'[j] = [ok |-> ok, at |-> now, data |-> View(j, world)]
          /\ \A q \in Keys \ {j} : got'[q] = got[q]
      BY <2>4, AwaitedAreKeys DEF Base, Tabled
    <3>2. CASE k # j
      <4>1. Void(k)
        BY <3>1, <3>2 DEF Void, Answered
      <4>2. k \in MayBeMissing
        BY <1>1, <4>1 DEF Untroubled
      <4>3. PICK i \in event.since..Len(past) : View(k, past[i].world) = None
        BY <1>1, <4>1 DEF Untroubled
      <4>4. View(k, past[i].world)' = None
        BY <2>1, <2>4, <4>3 DEF View
      <4> QED BY <2>1, <2>4, <4>2, <4>4
    <3>3. CASE k = j
      <4>1. ~ok
        BY <3>1, <3>3 DEF Void, Answered
      <4>2. Absent(k)
        BY <1>1, <2>2, <3>3, <4>1
      <4>3. Len(past) \in event.since..Len(past) /\ past[Len(past)].world = world
        BY DEF Base, TypeOK, Present
      <4>4. View(k, past[Len(past)].world)' = None
        BY <2>1, <2>4, <4>2, <4>3 DEF View, Absent
      <4> QED BY <2>1, <2>4, <4>2, <4>3, <4>4 DEF Absent
    <3> QED BY <3>2, <3>3
  <2> QED BY <2>2, <2>3, <2>4
<1> QED BY <1>2, <1>3, <1>4, StepsOfTheVerifier DEF Resting

LEMMA AskedKept == Base /\ Asked /\ [Next]_vars => Asked'
<1> SUFFICES ASSUME Base, Asked, [Next]_vars, pc' = "fetched" PROVE Awaited' = {}
  BY DEF Asked
<1>1. CASE Resting
  <2>1. Awaited = {}
    BY <1>1 DEF Resting, Asked
  <2> QED BY <1>1, <2>1 DEF Resting, Awaited, Unanswered, Answered, Details, Good, Memberships,
                Approved
<1>2. CASE Fetch
  BY <1>2 DEF Fetch, End
<1> QED BY <1>1, <1>2, StepsOfTheVerifier

\* All has been asked and answered well.
LEMMA AllAnswered ==
  ASSUME Base, Untroubled, Asked, pc = "fetched", troubles = 0,
         event.since = Len(past), world.settings.protection # None
  PROVE  /\ Good("branch_protection") /\ Good("reviews") /\ Good("checks")
         /\ DetailsComplete /\ \A h \in Memberships : Good(h)
<1>1. Unanswered = {}
  <2> SUFFICES ASSUME Unanswered # {} PROVE FALSE
    OBVIOUS
  <2>1. Awaited # {}
    BY DEF Awaited
  <2> QED BY <2>1 DEF Asked
<1>2. \A k \in Core : Answered(k)
  BY <1>1 DEF Unanswered, Core
<1>3. Awaited = IF \E r \in Details : ~Answered(r) THEN {r \in Details : ~Answered(r)}
                ELSE {h \in Memberships : ~Answered(h)}
  BY <1>1 DEF Awaited
<1>4. (\A r \in Details : Answered(r)) /\ \A h \in Memberships : Answered(h)
  BY <1>3 DEF Asked
<1>5. ASSUME NEW k \in Keys, Answered(k), k \in MayBeMissing => View(k, world) # None
      PROVE  Good(k)
  <2>1. got[k].ok \in BOOLEAN
    BY <1>5 DEF Base, TypeOK, Answered
  <2> SUFFICES ASSUME ~got[k].ok PROVE FALSE
    BY <1>5, <2>1 DEF Good
  <2>2. k \in MayBeMissing /\ \E i \in event.since..Len(past) : View(k, past[i].world) = None
    BY <1>5 DEF Untroubled, Void
  <2>3. PICK i \in event.since..Len(past) : View(k, past[i].world) = None
    BY <2>2
  <2>4. i = Len(past) /\ past[Len(past)].world = world
    BY <2>3 DEF Base, TypeOK, Present
  <2> QED BY <1>5, <2>2, <2>3, <2>4
<1>6. /\ "reviews" \notin MayBeMissing /\ "checks" \notin MayBeMissing
      /\ "rulesets" \notin MayBeMissing
  BY CoreKeys, KeysAreDistinct DEF MayBeMissing
<1>7. Good("branch_protection")
  <2>1. View("branch_protection", world) # None
    BY ViewOfKeys
  <2> QED BY <1>2, <1>5, <2>1, CoreKeys
<1>8. Good("reviews") /\ Good("checks") /\ Good("rulesets")
  BY <1>2, <1>5, <1>6, CoreKeys
<1>9. ASSUME NEW r \in Details
      PROVE  Good(r)
  <2>1. Details = {q \in Rulesets : /\ world.settings.rulesets[q] # None
                                    /\ world.settings.rulesets[q].active}
    <3>1. got["rulesets"].data = View("rulesets", world)
      BY <1>8, QuietReceipts, CoreKeys
    <3> QED BY <1>8, <3>1, ViewOfKeys DEF Details
  <2>2. View(r, world) # None /\ r \in Keys
    BY <2>1, ViewOfKeys, CoreKeys
  <2> QED BY <1>4, <1>5, <2>2
<1>10. ASSUME NEW h \in Memberships
       PROVE  Good(h)
  <2>1. h \in Humans /\ h \in Keys /\ h \notin MayBeMissing
    BY CoreKeys, KeysAreDistinct DEF Memberships, MayBeMissing
  <2> QED BY <1>4, <1>5, <2>1
<1> QED BY <1>7, <1>8, <1>9, <1>10 DEF DetailsComplete

LEMMA FirstPageOfFew ==
  ASSUME NEW n \in Nat, n <= PageSize, NEW I \in SUBSET (1..n)
  PROVE  FirstPage(I) = I
<1> SUFFICES ASSUME NEW i \in I PROVE Cardinality({j \in I : j < i}) < PageSize
  BY DEF FirstPage
<1> DEFINE before == {j \in I : j < i}
<1>1. i \in 1..n /\ i - 1 \in Nat
  OBVIOUS
<1>2. before \in SUBSET (1..(i - 1))
  <2> SUFFICES ASSUME NEW j \in I, j < i PROVE j \in 1..(i - 1)
    OBVIOUS
  <2>1. j \in 1..n
    OBVIOUS
  <2> QED BY <1>1, <2>1
<1>3. IsFiniteSet(1..(i - 1)) /\ Cardinality(1..(i - 1)) = i - 1
  BY <1>1, FS_Interval
<1> HIDE DEF before
<1>4. IsFiniteSet(before) /\ Cardinality(before) <= i - 1
  BY <1>2, <1>3, FS_Subset
<1>5. Cardinality(before) \in Nat
  BY <1>4, FS_CardinalityType
<1>6. Cardinality(before) < PageSize
  BY <1>1, <1>4, <1>5, BoundsAreNatural
<1> QED BY <1>6 DEF before

LEMMA LatestIsMember ==
  ASSUME NEW n \in Nat, NEW S \in SUBSET (1..n), S # {}
  PROVE  Latest(S) \in S
<1>1. IsFiniteSet(S) /\ S \in SUBSET Nat
  <2>1. IsFiniteSet(1..n)
    BY FS_Interval
  <2>2. IsFiniteSet(S)
    BY <2>1, FS_Subset
  <2> QED BY <2>2
<1>2. Largest(S) \in S /\ \A m \in S : m <= Largest(S)
  BY <1>1, LargestIsLargest
<1>3. \E i \in S : \A j \in S : j <= i
  BY <1>2
<1> QED BY <1>3 DEF Latest

\* When no list is longer than a page, all that counts at GitHub has been read.
LEMMA AllRead ==
  ASSUME Base, Good("reviews"), Good("checks"), event.since = Len(past), OnePage(world)
  PROVE  /\ {r \in Humans \ {Author} : Stands(world, r, event.head)} \subseteq ValidReviewers
         /\ \A c \in Checks : Passes(world, c, event.head) => c \in Passed
<1>1. /\ world.reviews \in Seq(OneReview) /\ world.runs \in Seq(OneRun)
      /\ Len(world.reviews) \in Nat /\ DOMAIN world.reviews = 1..Len(world.reviews)
      /\ Len(world.runs) \in Nat /\ DOMAIN world.runs = 1..Len(world.runs)
  <2>1. world.reviews \in Seq(OneReview) /\ world.runs \in Seq(OneRun)
    BY WorldParts DEF Base, TypeOK
  <2> QED BY <2>1
<1>2. got["reviews"].data = {world.reviews[i] : i \in DOMAIN world.reviews}
  <2>1. got["reviews"].data = View("reviews", world)
    BY QuietReceipts, CoreKeys
  <2>2. FirstPage(DOMAIN world.reviews) = DOMAIN world.reviews
    BY <1>1, FirstPageOfFew DEF OnePage
  <2> QED BY <2>1, <2>2, ViewOfKeys
<1>3. got["checks"].data = {world.runs[i] : i \in OnHead(event.head, world.runs)}
  <2>1. got["checks"].data = View("checks", world)
    BY QuietReceipts, CoreKeys
  <2>2. OnHead(event.head, world.runs) \in SUBSET (1..Len(world.runs))
    BY <1>1 DEF OnHead
  <2>3. FirstPage(OnHead(event.head, world.runs)) = OnHead(event.head, world.runs)
    BY <1>1, <2>2, FirstPageOfFew DEF OnePage
  <2> QED BY <2>1, <2>3, ViewOfKeys
<1>4. ASSUME NEW r \in Humans \ {Author}, Stands(world, r, event.head)
      PROVE  r \in ValidReviewers
  <2> DEFINE mine == {i \in DOMAIN world.reviews : world.reviews[i].by = r}
  <2>1. mine # {}
    <3> SUFFICES ASSUME mine = {} PROVE FALSE
      OBVIOUS
    <3>1. Opinion(world, r) = [by |-> r, state |-> "COMMENTED", commit |-> world.head]
      BY DEF Opinion
    <3> QED BY <1>4, <3>1 DEF Stands
  <2>2. Opinion(world, r) = world.reviews[Latest(mine)]
    BY <2>1 DEF Opinion
  <2>3. Latest(mine) \in mine
    <3>1. mine \in SUBSET (1..Len(world.reviews))
      BY <1>1
    <3> HIDE DEF mine
    <3> QED BY <1>1, <2>1, <3>1, LatestIsMember
  <2> DEFINE v == world.reviews[Latest(mine)]
  <2>4. v \in got["reviews"].data /\ v.by = r
    BY <1>2, <2>3
  <2>5. v.state = "APPROVED" /\ v.commit = event.head
    BY <1>4, <2>2 DEF Stands
  <2> HIDE DEF v
  <2>6. r \in Approved(got["reviews"].data)
    BY <2>4, <2>5 DEF Approved
  <2> QED BY <1>4, <2>6, AuthorIsHuman DEF ValidReviewers
<1>5. ASSUME NEW c \in Checks, Passes(world, c, event.head)
      PROVE  c \in Passed
  <2> DEFINE all == Runs(world, c, event.head)
  <2>1. all # {} /\ world.runs[Latest(all)].state = "passed"
    BY <1>5 DEF Passes
  <2>2. Latest(all) \in all
    <3>1. all \in SUBSET (1..Len(world.runs))
      BY <1>1 DEF Runs
    <3> HIDE DEF all
    <3> QED BY <1>1, <2>1, <3>1, LatestIsMember
  <2> DEFINE run == world.runs[Latest(all)]
  <2>3. run \in got["checks"].data /\ run.check = c /\ run.state = "passed"
    BY <1>3, <2>1, <2>2 DEF Runs, OnHead
  <2> HIDE DEF run
  <2> QED BY <2>3 DEF Passed
<1> QED BY <1>4, <1>5

LEMMA CountIsOfARule ==
  ASSUME NEW a \in Nat, NEW b \in Nat, a >= 1
  PROVE  /\ Greater(a, b) >= 1 /\ Greater(a, b) \in Nat
         /\ Greater(a, b) = a \/ (Greater(a, b) = b /\ b >= 1)
BY GreaterIsEither

\* Full protection is recognised, with what is asked for by the rules that apply.
LEMMA RecognisedIsEnforced ==
  ASSUME Base, event.since = Len(past), Good("branch_protection"), DetailsComplete,
         Recognisable(world.settings), ~Limited
  PROVE  /\ Status(Derived, Limited) = "verified_enforced" /\ Derived.bypass = {}
         /\ \E u \in AppliedRules(world.settings) : u.reviews /\ Derived.count = u.count
         /\ Derived.count \in Nat /\ Derived.count >= 1
         /\ Derived.checks # None /\ Derived.checks # {}
         /\ Derived.checks \subseteq UNION {u.checks : u \in AppliedRules(world.settings)}
<1> DEFINE p == world.settings.protection
           b == BranchValues
           r == RulesetValues
           s == Derived
<1>1. /\ BranchRule = p /\ p.rule.reviews /\ p.rule.count >= 1 /\ p.rule.dismiss /\ p.rule.owner
      /\ p.rule.checks # {} /\ p.bypass = {} /\ p.admins
      /\ ~Spares(world.settings) /\ \A q \in Sources(world.settings) : q.bypass = {}
  BY QuietSettings DEF Recognisable
<1>2. BranchRule.rule \in Rule /\ BranchRule.rule \in RulesRead /\ RulesRead \subseteq Rule
  BY ReadIsTyped DEF RulesRead
<1>3. RulesRead \subseteq AppliedRules(world.settings)
  BY <1>1, ReadIsApplied
<1>4. b.bypass # None
  BY DEF Limited
<1>5. b = [reviews |-> TRUE, count |-> p.rule.count, dismiss |-> p.rule.dismiss,
           owner |-> p.rule.owner, checks |-> p.rule.checks, bypass |-> {}]
  <2>1. BranchRule.bypass # None
    BY <1>1, <1>4 DEF BranchValues, BranchRule
  <2> QED BY <1>1, <2>1 DEF BranchValues, BranchRule
<1>6. ASSUME NEW q \in Applicable
      PROVE  got[q].data.bypass = {}
  <2>1. /\ q \in Rulesets /\ world.settings.rulesets[q] # None
        /\ world.settings.rulesets[q].active /\ got[q].data = world.settings.rulesets[q]
    BY QuietSettings DEF Applicable
  <2>2. world.settings.rulesets[q].target \in {"named", "pattern"}
    BY <1>1, <2>1 DEF Applicable, TargetsDefaultBranch, Spares
  <2>3. world.settings.rulesets[q] \in Sources(world.settings)
    BY <2>1, <2>2 DEF Sources
  <2> QED BY <1>1, <2>1, <2>3
<1>7. /\ r.bypass = {} /\ r.count \in Nat
      /\ r.count >= 1 => \E u \in RulesRead : u.reviews /\ u.count = r.count
      /\ r.checks = UNION {u.checks : u \in {got[q].data.rule : q \in Applicable}}
  <2>1. r.bypass = UNION {got[q].data.bypass : q \in Applicable}
    BY DEF RulesetValues, Applicable
  <2>2. r.checks = UNION {u.checks : u \in {got[q].data.rule : q \in Applicable}}
    BY DEF RulesetValues, Applicable
  <2>3. r.bypass = {}
    BY <1>6, <2>1
  <2> QED BY <2>2, <2>3, RulesetCount
<1>8. r.checks \in SUBSET Checks /\ b.checks \in SUBSET Checks
  <2>1. \A u \in RulesRead : u.checks \in SUBSET Checks
    BY <1>2 DEF Rule
  <2>2. {got[q].data.rule : q \in Applicable} \subseteq RulesRead
    BY DEF RulesRead
  <2>3. b.checks = BranchRule.rule.checks
    BY <1>1, <1>5
  <2> QED BY <1>2, <1>7, <2>1, <2>2, <2>3
<1>9. /\ s.reviews = Either(b.reviews, r.reviews) /\ s.count = Greater(b.count, r.count)
      /\ s.dismiss = Either(b.dismiss, r.dismiss) /\ s.owner = Either(b.owner, r.owner)
      /\ s.checks = Both(b.checks, r.checks) /\ s.bypass = Both(b.bypass, r.bypass)
      /\ DOMAIN s = {"reviews", "count", "dismiss", "owner", "checks", "bypass"}
  BY DEF Derived
<1>10. b.reviews = TRUE /\ b.dismiss = TRUE /\ b.owner = TRUE
  BY <1>1, <1>2, <1>5 DEF Rule
<1>11. s.reviews = TRUE /\ s.dismiss = TRUE /\ s.owner = TRUE
  <2> HIDE DEF b, r, s
  <2> QED BY <1>9, <1>10 DEF Either
<1>12. /\ s.count \in Nat /\ s.count >= 1
       /\ \E u \in RulesRead : u.reviews /\ s.count = u.count
  <2>1. b.count \in Nat /\ b.count >= 1 /\ b.count = BranchRule.rule.count
    BY <1>1, <1>2, <1>5 DEF Rule
  <2>2. /\ s.count >= 1 /\ s.count \in Nat
        /\ s.count = b.count \/ (s.count = r.count /\ r.count >= 1)
    <3> HIDE DEF b, r, s
    <3> QED BY <1>7, <1>9, <2>1, CountIsOfARule
  <2> QED BY <1>1, <1>2, <1>7, <2>1, <2>2
<1>13. s.checks = b.checks \cup r.checks /\ s.checks # None /\ s.checks # {}
  <2>1. None \notin {b.checks, r.checks}
    BY <1>8, NoneIsNothing
  <2>2. s.checks = b.checks \cup r.checks
    BY <1>9, <2>1 DEF Both
  <2>3. s.checks \in SUBSET Checks /\ b.checks # {}
    BY <1>1, <1>5, <1>8, <2>2
  <2> QED BY <2>2, <2>3, NoneIsNothing
<1>14. s.checks \subseteq UNION {u.checks : u \in RulesRead}
  <2>1. b.checks = BranchRule.rule.checks
    BY <1>1, <1>5
  <2> QED BY <1>2, <1>7, <1>13, <2>1 DEF RulesRead
<1>15. s.bypass = {} /\ {} # None
  <2>1. {} # None
    BY NoneIsNothing
  <2>2. b.bypass = {}
    BY <1>5
  <2> QED BY <1>7, <1>9, <2>1, <2>2 DEF Both
<1>16. Status(s, Limited) = "verified_enforced"
  <2> HIDE DEF s
  <2>1. \A f \in DOMAIN s : s[f] # None
    BY <1>9, <1>11, <1>12, <1>13, <1>15, NoneIsNothing
  <2>2. {s.reviews, s.checks # {}, s.count >= 1, s.dismiss, s.owner} = {TRUE}
    <3>1. (s.checks # {}) = TRUE /\ (s.count >= 1) = TRUE
      BY <1>12, <1>13
    <3> QED BY Zenon, <1>11, <3>1
  <2> QED BY Zenon, <1>15, <2>1, <2>2 DEF Status
<1> QED BY <1>3, <1>12, <1>13, <1>14, <1>15, <1>16

LEMMA MintIsComplete ==
  ASSUME Base, Untroubled, Asked, pc = "fetched", troubles = 0
  PROVE  AuthorizedBy(Mint, past[Mint.since].world)
<1> DEFINE e == Mint
           sat == e.required # {} /\ e.required \subseteq Passed
           done == /\ Derived.count # None /\ Derived.count >= 1
                   /\ Cardinality(ValidReviewers) >= Derived.count
<1>1. /\ e.since = event.since /\ e.until = Len(past) /\ e.head = event.head
      /\ e.wanted = event.specialist /\ e.approvers = ValidReviewers
      /\ e.required = IF Derived.checks = None THEN {} ELSE Derived.checks
      /\ e.authorized = /\ done /\ sat /\ ~NeedsSpecialist
                        /\ Status(Derived, Limited) = "verified_enforced"
                        /\ Derived.bypass = {}
  BY DEF Mint
<1> HIDE DEF e
<1> SUFFICES ASSUME e.since = e.until, OnePage(world), Recognisable(world.settings),
                    Satisfied(world, e.head),
                    e.wanted => \E r \in e.approvers : r \in world.members
             PROVE  e.authorized
  <2>1. Quiet(e) => past[e.since].world = world
    BY <1>1 DEF Quiet, Base, Present
  <2> QED BY <2>1 DEF AuthorizedBy, Quiet, e
<1>2. event.since = Len(past) /\ world.settings.protection # None
  BY <1>1 DEF Recognisable
<1>3. /\ Good("branch_protection") /\ Good("reviews") /\ Good("checks")
      /\ DetailsComplete /\ \A h \in Memberships : Good(h)
  BY <1>2, AllAnswered
<1>4. ~NeedsSpecialist
  <2> SUFFICES ASSUME event.specialist PROVE Qualified # {}
    BY DEF NeedsSpecialist
  <2>1. PICK r \in ValidReviewers : r \in world.members
    BY <1>1
  <2>2. r \in Humans /\ r \in Keys
    BY <2>1, ReviewersAreReviewers, CoreKeys
  <2>3. r \in Memberships
    BY <1>3, <2>1, <2>2 DEF Memberships, ValidReviewers
  <2>4. Good(r) /\ got[r].data
    BY <1>2, <1>3, <2>1, <2>2, <2>3, QuietReceipts, ViewOfKeys
  <2> QED BY <2>1, <2>4 DEF Qualified
<1>5. BranchValues.bypass # None
  <2>1. /\ BranchRule = world.settings.protection /\ BranchRule.rule.reviews
        /\ BranchRule.bypass = {} /\ BranchRule.admins
    BY <1>2, <1>3, QuietSettings DEF Recognisable
  <2>2. {} # None
    BY NoneIsNothing
  <2>3. BranchValues.bypass = {}
    BY <1>3, <2>1, <2>2 DEF BranchValues, BranchRule
  <2> QED BY <2>2, <2>3
<1>6. ~Limited
  BY <1>3, <1>4, <1>5 DEF Limited
<1>7. /\ Status(Derived, Limited) = "verified_enforced" /\ Derived.bypass = {}
      /\ \E u \in AppliedRules(world.settings) : u.reviews /\ Derived.count = u.count
      /\ Derived.count \in Nat /\ Derived.count >= 1
      /\ Derived.checks # None /\ Derived.checks # {}
      /\ Derived.checks \subseteq UNION {u.checks : u \in AppliedRules(world.settings)}
  BY <1>2, <1>3, <1>6, RecognisedIsEnforced
<1>8. /\ {r \in Humans \ {Author} : Stands(world, r, event.head)} \subseteq ValidReviewers
      /\ \A c \in Checks : Passes(world, c, event.head) => c \in Passed
  BY <1>2, <1>3, AllRead
<1>9. done
  <2> DEFINE standing == {r \in Humans \ {Author} : Stands(world, r, event.head)}
  <2>1. IsFiniteSet(ValidReviewers)
    BY KeysAreDistinct, ReviewersAreReviewers, FS_Subset
  <2>2. Cardinality(standing) >= Derived.count
    BY <1>1, <1>7 DEF Satisfied
  <2>3. standing \in SUBSET ValidReviewers
    BY <1>8
  <2> HIDE DEF standing
  <2>4. IsFiniteSet(standing) /\ Cardinality(standing) <= Cardinality(ValidReviewers)
    BY <2>1, <2>3, FS_Subset
  <2>5. Cardinality(standing) \in Nat /\ Cardinality(ValidReviewers) \in Nat
    BY <2>1, <2>4, FS_CardinalityType
  <2>6. Cardinality(ValidReviewers) >= Derived.count
    BY <1>7, <2>2, <2>4, <2>5
  <2> QED BY <1>7, <2>6, NoneIsNothing
<1>10. sat
  <2>1. e.required = Derived.checks
    BY <1>1, <1>7
  <2>2. Derived.checks \subseteq Checks
    BY <1>7, RequiredAreChecks
  <2>3. \A c \in Derived.checks : Passes(world, c, event.head)
    BY <1>1, <1>7 DEF Satisfied
  <2> QED BY <1>7, <1>8, <2>1, <2>2, <2>3
<1> QED BY <1>1, <1>4, <1>7, <1>9, <1>10

LEMMA CompleteKept ==
  Base /\ Held /\ Untroubled /\ Asked /\ Complete /\ [Next]_vars => Complete'
<1> SUFFICES ASSUME Base, Held, Untroubled, Asked, Complete, [Next]_vars, troubles' = 0,
                    NEW n \in DOMAIN minted'
             PROVE  LET e == minted'[n] IN AuthorizedBy(e, past'[e.since].world)
  BY DEF Complete
<1> DEFINE e == minted'[n]
<1>1. minted \in Seq(Evidence) /\ Len(minted) \in Nat /\ troubles = 0
  BY StepsOfTheVerifier DEF Base, TypeOK
<1>2. Grounded(past, e) /\ AuthorizedBy(e, past[e.since].world)
  <2>1. CASE n \in DOMAIN minted /\ e = minted[n]
    BY <1>1, <2>1 DEF Complete, Held
  <2>2. CASE Verify /\ e = Mint
    BY <1>1, <2>2, MintIsGrounded, MintIsComplete DEF Verify
  <2>3. (n \in DOMAIN minted /\ e = minted[n]) \/ (Verify /\ e = Mint)
    <3>1. CASE minted' = minted
      BY <3>1
    <3>2. CASE Verify /\ minted' = Append(minted, Mint)
      BY <1>1, <3>2
    <3> QED BY <3>1, <3>2, MintedGrows
  <2> QED BY <2>1, <2>2, <2>3
<1> HIDE DEF e
<1>3. past'[e.since] = past[e.since]
  <2>1. e.since \in 1..Len(past)
    BY <1>2, PastGrows DEF Grounded
  <2> QED BY <2>1, PastGrows
<1> QED BY <1>2, <1>3 DEF e

\* What GitHub would let be merged under full protection is authorized, when every
\* answer is good, no list is longer than a page and a specialist, where one is
\* needed, is among the approvers.
THEOREM SatisfiedAreAuthorized == Spec => []SatisfiedIsAuthorized
<1>1. Init => Untroubled /\ Asked /\ Complete
  BY DEF Init, Untroubled, Asked, Complete, Void, Answered, NothingAsked
<1>2. Base /\ Held /\ Enforced /\ Untroubled /\ Asked /\ Complete /\ [Next]_vars
        => (Untroubled /\ Asked /\ Complete)'
  BY UntroubledKept, AskedKept, CompleteKept
<1>3. Complete => SatisfiedIsAuthorized
  BY DEF Complete, AuthorizedBy, SatisfiedIsAuthorized
<1> QED BY <1>1, <1>2, <1>3, HeldHolds, PTL DEF Spec
=============================================================================
