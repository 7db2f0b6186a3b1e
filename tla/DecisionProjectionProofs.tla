----------------------- MODULE DecisionProjectionProofs -----------------------
(***************************************************************************)
(* Theorems about the decision, for every pull request, assessment, set of *)
(* evidence and hand-written package.                                      *)
(*                                                                         *)
(* The argument: every state holds what was derived from one package under *)
(* one evidence (Derived), so each theorem is a fact about the operators.  *)
(* Those facts come from which reasons a package gives (ReasonGiven).      *)
(***************************************************************************)
EXTENDS DecisionProjection, TLAPS

Known == Evidence \cup {None}

Hit(p, c) == p.findings \cap FindingReasons[c] # {}

-----------------------------------------------------------------------------
(* Which reasons a package gives.                                          *)

\* A reason is given exactly by what the code collects it for: no two rules
\* give the same one.
LEMMA ReasonGiven ==
  ASSUME NEW p, NEW e
  PROVE  /\ \A c \in DOMAIN FindingReasons : c \in Reasons(p, e) <=> Hit(p, c)
         /\ \A c \in DOMAIN PackageReasons(p) : c \in Reasons(p, e) <=> PackageReasons(p)[c]
         /\ \A c \in DOMAIN ProfileReasons(p, e) :
              c \in Reasons(p, e) <=> ProfileReasons(p, e)[c]
<1>1. /\ DOMAIN FindingReasons \cap DOMAIN PackageReasons(p) = {}
      /\ DOMAIN FindingReasons \cap DOMAIN ProfileReasons(p, e) = {}
      /\ DOMAIN PackageReasons(p) \cap DOMAIN ProfileReasons(p, e) = {}
  BY DEF PackageReasons, ProfileReasons, FindingReasons
<1> QED BY <1>1 DEF Reasons, Given, Hit

\* What calls for a repair.
LEMMA RepairGiven ==
  ASSUME NEW p, NEW e
  PROVE  /\ Reasons(p, e) \cap RedCodes # {} <=>
              \/ p.red_gate_flags
              \/ Required(p.checks, {"FAIL"})
              \/ Hit(p, "critical_supported_finding")
              \/ Hit(p, "high_reproduced_finding")
         /\ Reasons(p, e) \cap RepairCodes # {} <=>
              \/ Reasons(p, e) \cap RedCodes # {}
              \/ Hit(p, "high_code_supported_finding")
              \/ Hit(p, "blocking_medium_supported")
              \/ p.repair_handoff
              \/ p.accepted_suggestions
<1>1. /\ "red_gate_flag" \in Reasons(p, e) <=> p.red_gate_flags
      /\ "required_check_failed" \in Reasons(p, e) <=> Required(p.checks, {"FAIL"})
  BY ReasonGiven DEF PackageReasons
<1>2. /\ "repair_handoff_present" \in Reasons(p, e) <=> p.repair_handoff
      /\ "external_repair_accepted" \in Reasons(p, e) <=> p.accepted_suggestions
  BY ReasonGiven DEF PackageReasons
<1>3. \A c \in {"critical_supported_finding", "high_reproduced_finding",
                "high_code_supported_finding", "blocking_medium_supported"} :
        c \in Reasons(p, e) <=> Hit(p, c)
  BY ReasonGiven DEF FindingReasons
<1> QED BY <1>1, <1>2, <1>3 DEF RedCodes, RepairCodes

\* What keeps the status from being Green.
LEMMA GreenGiven ==
  ASSUME NEW p, NEW e
  PROVE  Status(Reasons(p, e)) = "GREEN" <=>
           /\ \A c \in DOMAIN FindingReasons : ~Hit(p, c)
           /\ \A c \in DOMAIN ProfileReasons(p, e) : ~ProfileReasons(p, e)[c]
           /\ p.validity = "CURRENT" /\ p.review_mode # "PARTIAL"
           /\ ~Required(p.checks, {"FAIL"}) /\ ~Required(p.checks, {"UNKNOWN", "NOT_RUN"})
           /\ ~p.red_gate_flags /\ ~p.high_risk_unreviewed /\ p.coverage_complete
           /\ p.intent # "missing" /\ p.intent # "not_assessable" /\ ~p.unsupported_claims
           /\ ~p.repair_handoff /\ ~p.accepted_suggestions /\ ~p.external_incomplete
<1> DEFINE Own == {"review_not_current", "red_gate_flag", "required_check_failed",
                   "required_check_unresolved", "partial_review", "high_risk_area_unreviewed",
                   "coverage_incomplete", "intent_missing", "intent_unsatisfied",
                   "intent_unsupported_claim", "repair_handoff_present",
                   "external_repair_accepted", "external_review_incomplete"}
<1>1. RedCodes \cup YellowCodes = DOMAIN FindingReasons \cup DOMAIN ProfileReasons(p, e) \cup Own
  BY DEF RedCodes, YellowCodes, RepairCodes, VerifyCodes, PendingCodes, ProfileCodes,
         RerunCodes, FindingReasons, ProfileReasons
<1>2. Status(Reasons(p, e)) = "GREEN" <=> Reasons(p, e) \cap (RedCodes \cup YellowCodes) = {}
  BY DEF Status
<1>3. Reasons(p, e) \cap DOMAIN FindingReasons = {}
        <=> \A c \in DOMAIN FindingReasons : ~Hit(p, c)
  BY ReasonGiven
<1>4. Reasons(p, e) \cap DOMAIN ProfileReasons(p, e) = {}
        <=> \A c \in DOMAIN ProfileReasons(p, e) : ~ProfileReasons(p, e)[c]
  BY ReasonGiven
<1>5. /\ "review_not_current" \in Reasons(p, e) <=> p.validity # "CURRENT"
      /\ "red_gate_flag" \in Reasons(p, e) <=> p.red_gate_flags
      /\ "partial_review" \in Reasons(p, e) <=> p.review_mode = "PARTIAL"
  BY ReasonGiven DEF PackageReasons
<1>6. /\ "required_check_failed" \in Reasons(p, e) <=> Required(p.checks, {"FAIL"})
      /\ "required_check_unresolved" \in Reasons(p, e)
           <=> Required(p.checks, {"UNKNOWN", "NOT_RUN"})
  BY ReasonGiven DEF PackageReasons
<1>7. /\ "high_risk_area_unreviewed" \in Reasons(p, e) <=> p.high_risk_unreviewed
      /\ "coverage_incomplete" \in Reasons(p, e) <=> ~p.coverage_complete
      /\ "repair_handoff_present" \in Reasons(p, e) <=> p.repair_handoff
  BY ReasonGiven DEF PackageReasons
<1>8. /\ "intent_missing" \in Reasons(p, e) <=> p.intent = "missing"
      /\ "intent_unsatisfied" \in Reasons(p, e) <=> p.intent = "not_assessable"
      /\ "intent_unsupported_claim" \in Reasons(p, e) <=> p.unsupported_claims
  BY ReasonGiven DEF PackageReasons
<1>9. /\ "external_repair_accepted" \in Reasons(p, e) <=> p.accepted_suggestions
      /\ "external_review_incomplete" \in Reasons(p, e) <=> p.external_incomplete
  BY ReasonGiven DEF PackageReasons
<1>10. Reasons(p, e) \cap Own = {} <=>
        /\ p.validity = "CURRENT" /\ p.review_mode # "PARTIAL"
        /\ ~Required(p.checks, {"FAIL"}) /\ ~Required(p.checks, {"UNKNOWN", "NOT_RUN"})
        /\ ~p.red_gate_flags /\ ~p.high_risk_unreviewed /\ p.coverage_complete
        /\ p.intent # "missing" /\ p.intent # "not_assessable" /\ ~p.unsupported_claims
        /\ ~p.repair_handoff /\ ~p.accepted_suggestions /\ ~p.external_incomplete
  BY <1>5, <1>6, <1>7, <1>8, <1>9
<1> HIDE DEF Own
<1> QED BY <1>1, <1>2, <1>3, <1>4, <1>10

\* What is pending keeps nobody from Green, but calls for a verification.
LEMMA PendingGiven ==
  ASSUME NEW p, NEW e, Reasons(p, e) \cap VerifyCodes = {}
  PROVE  /\ ~p.unverified_areas /\ ~p.required_actions
         /\ p.review_mode # "PARTIAL"
<1>1. /\ "unverified_area" \in Reasons(p, e) <=> p.unverified_areas
      /\ "required_action_pending" \in Reasons(p, e) <=> p.required_actions
      /\ "partial_review" \in Reasons(p, e) <=> p.review_mode = "PARTIAL"
  BY ReasonGiven DEF PackageReasons
<1> QED BY <1>1 DEF VerifyCodes, PendingCodes

\* A repair, a verification or a new review: nothing else makes the status other
\* than Green.
LEMMA NotGreenGiven ==
  ASSUME NEW codes, Status(codes) # "GREEN", codes \cap RepairCodes = {}, codes \cap VerifyCodes = {}
  PROVE  codes \cap RerunCodes # {}
  BY DEF Status, YellowCodes, RepairCodes

-----------------------------------------------------------------------------
(* What the assembler puts together.                                       *)

LEMMA PackageIsPackage ==
  ASSUME NEW r \in WellFormedRequests
  PROVE  Package(r) \in Packages
<1>1. {Record(f) : f \in r.findings} \in SUBSET Findings
  BY DEF WellFormedRequests, Record, Label, Findings, Assertions, Classes, Labels
<1>2. r.checks \in SUBSET Checks /\ r.subject \in Subjects /\ r.unverified \in BOOLEAN
      /\ r.suggested \in BOOLEAN /\ r.profile \in Profiles /\ r.governance \in Evidence \cup {None}
      /\ r.sequence \in BOOLEAN
  BY DEF WellFormedRequests
<1> QED BY <1>1, <1>2 DEF Package, Packages, Approvals, Covered, ChecksPass

\* A finding that does not block gives no reason exactly if it is harmless.
LEMMA FindingHarmless ==
  ASSUME NEW f \in Assertions, ~f.blocking
  PROVE  Harmless(f) <=> \A c \in DOMAIN FindingReasons : Record(f) \notin FindingReasons[c]
<1>1. /\ f.severity \in Severities /\ f.class \in Classes
      /\ Record(f) \in Findings /\ Record(f).severity = f.severity
      /\ Record(f).label = Label(f) /\ ~Record(f).blocking
  BY DEF Assertions, Record, Findings, Label, Classes, Labels
<1>2. Record(f) \notin Blocking
  BY <1>1 DEF Blocking
<1>3. \A S, L : Record(f) \in Of(S, L) <=> f.severity \in S /\ Label(f) \in L
  BY <1>1 DEF Of
<1>4. (\A c \in DOMAIN FindingReasons : Record(f) \notin FindingReasons[c]) <=>
        /\ ~(f.severity = "CRITICAL" /\ Label(f) \in Supported)
        /\ ~(f.severity = "HIGH" /\ Label(f) \in {"REPRODUCED", "CODE_SUPPORTED", "HYPOTHESIS"})
        /\ Label(f) # "NOT_ASSESSABLE"
  BY <1>1, <1>2, <1>3 DEF FindingReasons
<1> QED BY <1>1, <1>4 DEF Harmless, Label, Supported, Classes

\* The reasons of the security profile, for an assembled package.
LEMMA ProfileGiven ==
  ASSUME NEW r \in WellFormedRequests
  PROVE  LET p == Package(r)
             e == r.governance
             borne == e # None /\ e.subject = r.subject /\ e.enforced IN
         (\A c \in DOMAIN ProfileReasons(p, e) : ~ProfileReasons(p, e)[c]) <=>
            /\ r.sequence \/ (r.checks # {} /\ ChecksPass(r)) \/ borne
            /\ e # None => borne
<1> DEFINE p == Package(r)
           e == r.governance
           borne == e # None /\ e.subject = r.subject /\ e.enforced
<1>1. /\ p.subject = r.subject /\ p.evidence = e /\ ~p.claim_merge /\ ~p.hosted_demanded
      /\ p.claim_settings <=> e # None
      /\ p.sequence_ci_enforced <=> r.sequence \/ (r.checks # {} /\ ChecksPass(r))
  BY DEF Package
<1>2. e \in Evidence <=> e # None
  BY NoneIsNothing DEF WellFormedRequests
<1>3. Hosted(p, e) <=> borne
  BY <1>1, <1>2 DEF Hosted, Matches
<1>4. (\A c \in DOMAIN ProfileReasons(p, e) : ~ProfileReasons(p, e)[c]) <=>
        /\ p.sequence_ci_enforced \/ Hosted(p, e)
        /\ HostedRequired(p) => Hosted(p, e)
        /\ p.claim_settings => SettingsVerified(p, e)
        /\ p.claim_merge => MergeVerified(p, e)
  <2> HIDE DEF p, e
  <2>1. DOMAIN ProfileReasons(p, e) =
          {"merge_enforcement_minimum_missing", "repository_hosted_enforcement_required",
           "repository_settings_claim_unverified", "merge_authorization_claim_unverified"}
    BY DEF ProfileReasons
  <2>2. /\ ProfileReasons(p, e)["merge_enforcement_minimum_missing"]
             <=> ~p.sequence_ci_enforced /\ ~Hosted(p, e)
        /\ ProfileReasons(p, e)["repository_hosted_enforcement_required"]
             <=> HostedRequired(p) /\ ~Hosted(p, e)
        /\ ProfileReasons(p, e)["repository_settings_claim_unverified"]
             <=> p.claim_settings /\ ~SettingsVerified(p, e)
        /\ ProfileReasons(p, e)["merge_authorization_claim_unverified"]
             <=> p.claim_merge /\ ~MergeVerified(p, e)
    BY DEF ProfileReasons
  <2> QED BY <2>1, <2>2
<1>5. (HostedRequired(p) <=> e # None) /\ (SettingsVerified(p, e) <=> e # None /\ Hosted(p, e))
  BY <1>1 DEF HostedRequired, SettingsVerified
<1> QED BY <1>1, <1>3, <1>4, <1>5

\* The status of an assembled package is Green exactly if the request is clean.
LEMMA CleanIsGreen ==
  ASSUME NEW r \in WellFormedRequests, ~Refused(r)
  PROVE  StatusOf(r) = "GREEN" <=> Clean(r)
<1> DEFINE p == Package(r)
           e == r.governance
<1>1. /\ p.validity = "CURRENT" /\ p.checks = r.checks
      /\ p.findings = {Record(f) : f \in r.findings}
      /\ ~p.red_gate_flags /\ ~p.high_risk_unreviewed /\ ~p.unsupported_claims /\ ~p.repair_handoff
      /\ p.review_mode # "PARTIAL" <=> Covered(r) /\ Reconciled(r)
      /\ p.coverage_complete <=> Covered(r)
      /\ p.intent # "missing" /\ (p.intent # "not_assessable" <=> IntentFit(r))
      /\ p.accepted_suggestions <=> \E s \in r.triaged : r.dispositions[s].accepted
      /\ p.external_incomplete <=> r.sources \ r.triaged # {}
  BY DEF Package, Reconciliation
<1>2. /\ r.findings \subseteq Assertions /\ r.checks \subseteq Checks
      /\ r.reviewed \subseteq r.changed /\ r.triaged \subseteq r.sources
  BY DEF WellFormedRequests, Refused, DispositionRefused
<1>3. ~Required(p.checks, {"FAIL"}) /\ ~Required(p.checks, {"UNKNOWN", "NOT_RUN"}) <=> ChecksPass(r)
  BY <1>1, <1>2 DEF Required, ChecksPass, Checks
<1>4. ASSUME \A f \in r.findings : ~f.blocking
      PROVE  (\A c \in DOMAIN FindingReasons : ~Hit(p, c)) <=> \A f \in r.findings : Harmless(f)
  <2>1. \A f \in r.findings :
          Harmless(f) <=> \A c \in DOMAIN FindingReasons : Record(f) \notin FindingReasons[c]
    BY <1>2, <1>4, FindingHarmless
  <2>2. \A c : ~Hit(p, c) <=> \A f \in r.findings : Record(f) \notin FindingReasons[c]
    BY <1>1 DEF Hit
  <2> HIDE DEF p
  <2> QED BY <2>1, <2>2
<1>5. /\ r.changed = r.reviewed <=> Covered(r)
      /\ r.triaged = r.sources <=> Reconciled(r)
  BY <1>2 DEF Covered, Reconciled, Reconciliation
<1>6. (\A c \in DOMAIN ProfileReasons(p, e) : ~ProfileReasons(p, e)[c]) <=>
         /\ \/ r.sequence \/ (r.checks # {} /\ ChecksPass(r))
            \/ e # None /\ e.subject = r.subject /\ e.enforced
         /\ e # None => e.subject = r.subject /\ e.enforced
  BY ProfileGiven
<1>7. StatusOf(r) = "GREEN" <=>
        /\ \A c \in DOMAIN FindingReasons : ~Hit(p, c)
        /\ \A c \in DOMAIN ProfileReasons(p, e) : ~ProfileReasons(p, e)[c]
        /\ Covered(r) /\ Reconciled(r) /\ ChecksPass(r) /\ IntentFit(r)
        /\ ~\E s \in r.triaged : r.dispositions[s].accepted
        /\ r.sources \subseteq r.triaged
  <2> HIDE DEF p
  <2>1. StatusOf(r) = Status(Reasons(p, e))
    BY DEF StatusOf, p
  <2> QED BY <1>1, <1>3, <2>1, GreenGiven
<1>8. IntentFit(r) <=> /\ Covered(r) /\ Reconciled(r) /\ ChecksPass(r)
                       /\ \A f \in r.findings : ~f.blocking
  BY DEF IntentFit
<1>9. Clean(r) => \A f \in r.findings : ~f.blocking
  BY DEF Clean, Harmless
<1> HIDE DEF p, e
<1>10. CASE \A f \in r.findings : ~f.blocking
  BY <1>4, <1>5, <1>6, <1>7, <1>8, <1>10 DEF Clean, ChecksPass, Reconciled, e
<1>11. CASE ~\A f \in r.findings : ~f.blocking
  BY <1>7, <1>8, <1>9, <1>11
<1> QED BY <1>10, <1>11

\* Either the evidence of a review is in scope, or its package names none and no
\* evidence matters.
LEMMA ScopeIsIrrelevant ==
  ASSUME NEW r \in WellFormedRequests, ~Refused(r), NEW around \in Known
  PROVE  Projection(Package(r), InScope(r.governance, around))
           = Projection(Package(r), r.governance)
<1>1. CASE r.governance # None
  BY <1>1 DEF InScope
<1>2. CASE r.governance = None
  <2> DEFINE p == Package(r)
  <2>1. p.evidence = None /\ p.profile = "minimal"
    BY <1>2 DEF Package, Refused, WellFormedRequests, Profiles
  <2> HIDE DEF p
  <2>2. ~Matches(p, around) /\ ~Matches(p, None)
    BY <2>1, NoneIsNothing DEF Matches
  <2>3. /\ Hosted(p, around) = Hosted(p, None) /\ Matches(p, around) = Matches(p, None)
        /\ SettingsVerified(p, around) = SettingsVerified(p, None)
        /\ MergeVerified(p, around) = MergeVerified(p, None)
        /\ Governance(p, around) = Governance(p, None)
    BY <2>1, <2>2 DEF Hosted, Matches, SettingsVerified, MergeVerified, Governance
  <2>4. Reasons(p, around) = Reasons(p, None)
    BY <2>3 DEF Reasons, ProfileReasons
  <2>5. Projection(p, around) = Projection(p, None)
    BY <2>3, <2>4 DEF Projection
  <2> QED BY <1>2, <2>5 DEF InScope, p
<1> QED BY <1>1, <1>2

-----------------------------------------------------------------------------
(* What every state holds.                                                 *)

\* The evidence a reading was made under.
ReadUnder == IF reading.by = "directory" THEN reading.around
             ELSE InScope(request.governance, reading.around)

PromptFits ==
  /\ reading.by \in {"delivery", "result"} => reading.prompt = PromptKind[reading.projection.action]
  /\ reading.by \in {"completion", "directory"} => reading.prompt = "none"

AssembledHolds ==
  Assembled =>
    /\ ~Refused(request)
    /\ package = Package(request)
    /\ projection = Projection(package, request.governance)
    /\ stage = "failed" => ProjectionFails(package, request.governance)

SubmittedHolds ==
  package # None /\ request = None =>
    \E e \in Known :
      /\ projection = Projection(package, e)
      /\ stage = "failed" => ProjectionFails(package, e)

ReadingHolds ==
  reading # None =>
    /\ Assembled
    /\ reading.around \in Known
    /\ reading.projection = Projection(package, ReadUnder)
    /\ reading.by \in {"completion", "delivery", "result", "directory"}
    /\ PromptFits

Derived ==
  /\ request # None => request \in WellFormedRequests
  /\ package # None => package \in Packages
  /\ package = None => projection = None /\ reading = None
  /\ stage = "minted" => Assembled
  /\ stage = "idle" => request = None /\ package = None
  /\ AssembledHolds
  /\ SubmittedHolds
  /\ ReadingHolds

LEMMA DerivedInitially == Init => Derived
  BY DEF Init, Derived, AssembledHolds, SubmittedHolds, ReadingHolds, Assembled

\* Each step of the assembler, of a submission and of a reader keeps it.
LEMMA DerivedStays ==
  ASSUME Derived, [Next]_vars
  PROVE  Derived'
<1>1. ASSUME NEW r \in Requests, Refuse(r)
      PROVE  Derived'
  <2>1. r \in WellFormedRequests
    BY RequestsAreWellFormed
  <2> QED BY <1>1, <2>1 DEF Refuse, Derived, AssembledHolds, SubmittedHolds, ReadingHolds, Assembled
<1>2. ASSUME NEW r \in Requests, NEW e \in Known, Assemble(r, e)
      PROVE  Derived'
  <2>1. r \in WellFormedRequests /\ r # None /\ Package(r) \in Packages /\ Package(r) # None
    BY RequestsAreWellFormed, NoneIsNothing, PackageIsPackage
  <2>2. package = None /\ reading = None /\ ~Refused(r)
    BY <1>2 DEF Assemble, Derived
  <2>3. Projection(Package(r), InScope(r.governance, e)) = Projection(Package(r), r.governance)
    BY <1>2, <2>1, <2>2, ScopeIsIrrelevant
  <2>4. ProjectionFails(Package(r), InScope(r.governance, e))
          => ProjectionFails(Package(r), r.governance)
    BY <2>3 DEF ProjectionFails
  <2>5. /\ request' = r /\ package' = Package(r) /\ reading' = reading
        /\ projection' = Projection(Package(r), r.governance)
        /\ stage' \in {"failed", "minted", "invalid"}
        /\ stage' = "failed" => ProjectionFails(Package(r), r.governance)
    BY <1>2, <2>3, <2>4 DEF Assemble, Decided, Outcome
  <2> QED BY <2>1, <2>2, <2>5 DEF Derived, AssembledHolds, SubmittedHolds, ReadingHolds, Assembled
<1>3. ASSUME NEW p \in Submissions, NEW e \in Known, Submit(p, e)
      PROVE  Derived'
  <2>1. p \in Packages /\ p # None
    BY SubmissionsAreWellFormed, NoneIsNothing
  <2>2. request = None /\ reading = None
    BY <1>3 DEF Submit, Derived
  <2>3. /\ request' = None /\ package' = p /\ reading' = None
        /\ projection' = Projection(p, e)
        /\ stage' \in {"failed", "submitted"}
        /\ stage' = "failed" => ProjectionFails(p, e)
    BY <1>3, <2>2 DEF Submit
  <2> QED BY <2>1, <2>3 DEF Derived, AssembledHolds, SubmittedHolds, ReadingHolds, Assembled
<1>4. ASSUME NEW e \in Known, Reverify(e) \/ Deliver(e) \/ Result(e) \/ Revalidate(e)
      PROVE  Derived'
  <2>1. /\ UNCHANGED <<stage, request, package, projection>>
        /\ Assembled
        /\ reading'.around = e
        /\ reading'.by \in {"completion", "delivery", "result", "directory"}
        /\ reading'.projection = Projection(package, ReadUnder')
        /\ PromptFits'
    BY <1>4 DEF Reverify, Deliver, Result, Revalidate, Reads, Reverified, Derived, ReadUnder,
                PromptFits
  <2> QED BY <2>1 DEF Derived, AssembledHolds, SubmittedHolds, ReadingHolds, Assembled
<1>5. CASE UNCHANGED vars
  BY <1>5 DEF vars, Derived, AssembledHolds, SubmittedHolds, ReadingHolds, ReadUnder,
              PromptFits, Assembled
<1> QED BY <1>1, <1>2, <1>3, <1>4, <1>5 DEF Next, Known

LEMMA DerivedAlways == Spec => []Derived
  BY DerivedInitially, DerivedStays, PTL DEF Spec

-----------------------------------------------------------------------------
(* Theorems.                                                               *)

LEMMA ReasonsAreCodes ==
  ASSUME NEW p, NEW e
  PROVE  Reasons(p, e) \subseteq Codes
<1>1. /\ DOMAIN FindingReasons \subseteq Codes
      /\ DOMAIN PackageReasons(p) \subseteq Codes
      /\ DOMAIN ProfileReasons(p, e) \subseteq Codes
  BY DEF FindingReasons, PackageReasons, ProfileReasons, Codes, RepairCodes, RedCodes,
         VerifyCodes, PendingCodes, ProfileCodes, RerunCodes, ApprovalCodes
<1> QED BY <1>1 DEF Reasons, Given

LEMMA ProjectionIsProjection ==
  ASSUME NEW p \in Packages, NEW e \in Known
  PROVE  Projection(p, e) \in Projections
<1>1. p.approval \in Approvals /\ p.claim_settings \in BOOLEAN
  BY DEF Packages
<1>2. ApprovalAction[p.approval] \in Actions
  BY <1>1 DEF ApprovalAction, Approvals, Actions
<1>3. \A codes : Action(p, codes) \in Actions /\ Status(codes) \in {"GREEN", "YELLOW", "RED"}
  BY <1>2 DEF Action, Actions, Status
<1>4. \A status, action : Color(status, action) \in {"GREEN", "YELLOW", "RED"}
  BY DEF Color
<1>5. /\ Governance(p, e) \in {"NOT_REQUESTED", "NOT_VERIFIABLE", "VERIFIED", "GAP_FOUND"}
      /\ Matches(p, e) \in BOOLEAN /\ SettingsVerified(p, e) \in BOOLEAN
      /\ MergeVerified(p, e) \in BOOLEAN
  BY DEF Governance, Matches, SettingsVerified, MergeVerified
<1> QED BY <1>3, <1>4, <1>5, ReasonsAreCodes DEF Projection, Projections

\* No decision contradicts itself, whoever wrote the package.
LEMMA NeverContradicted ==
  ASSUME NEW p \in Packages, NEW e
  PROVE  ~RoutingContradicted(p, Projection(p, e)) /\ ~ProfileContradicted(p, Projection(p, e))
<1> DEFINE codes == Reasons(p, e)
<1>1. Action(p, codes) = "merge_now" =>
        /\ Status(codes) = "GREEN" /\ p.validity = "CURRENT"
        /\ p.approval = "NO_ADDITIONAL_TECHNICAL_APPROVAL"
  <2> HIDE DEF codes
  <2> QED BY DEF Action, ApprovalAction, Packages, Approvals
<1>2. codes \subseteq Codes
  BY ReasonsAreCodes
<1>3. ProfileCodes \subseteq YellowCodes
  BY DEF ProfileCodes, YellowCodes, RepairCodes, VerifyCodes, RedCodes, PendingCodes
<1>4. codes \cap ProfileCodes # {} => Status(codes) # "GREEN"
  BY <1>3 DEF Status
<1>5. SettingsVerified(p, e) \/ MergeVerified(p, e) => Matches(p, e)
  BY DEF SettingsVerified, MergeVerified, Hosted
<1>6. p.profile = "minimal" => Governance(p, e) = "NOT_REQUESTED"
  BY DEF Governance
<1>7. ~RoutingContradicted(p, Projection(p, e))
  BY <1>1, <1>2 DEF RoutingContradicted, Projection
<1>8. ~ProfileContradicted(p, Projection(p, e))
  BY <1>1, <1>4, <1>5, <1>6 DEF ProfileContradicted, Projection
<1> QED BY <1>7, <1>8

\* Whatever is assembled leaves the owner with an action and a message for it.
LEMMA AssembledIsActionable ==
  ASSUME NEW r \in WellFormedRequests, ~Refused(r)
  PROVE  ~ProjectionFails(Package(r), r.governance)
<1> DEFINE p == Package(r)
           e == r.governance
           codes == Reasons(p, e)
           action == Action(p, codes)
<1>1. /\ p.validity = "CURRENT" /\ p.approval = "NO_ADDITIONAL_TECHNICAL_APPROVAL"
      /\ p.external_incomplete => p.review_mode = "PARTIAL"
  BY DEF Package, Reconciled
<1>0. p \in Packages
  BY PackageIsPackage
<1>2. /\ "review_not_current" \in codes <=> p.validity # "CURRENT"
      /\ "external_review_incomplete" \in codes <=> p.external_incomplete
  <2> HIDE DEF p, e
  <2> QED BY ReasonGiven DEF PackageReasons
<1>3. Status(codes) = "GREEN" \/ codes \cap RepairCodes # {} \/ codes \cap VerifyCodes # {}
  BY <1>1, <1>2, NotGreenGiven, PendingGiven DEF RerunCodes
<1>4. ApprovalAction[p.approval] = "merge_now"
  BY <1>1 DEF ApprovalAction
<1>5. Status(codes) = "RED" => codes \cap RepairCodes # {}
  BY DEF Status, RepairCodes
<1>6. codes \cap RepairCodes # {} => Status(codes) # "GREEN"
  BY DEF Status, YellowCodes, PendingCodes, RepairCodes, RedCodes
<1> HIDE DEF p, e, codes
<1>7. /\ action \in {"repair", "repair_and_verify", "verify", "merge_now"}
      /\ action \in {"repair", "repair_and_verify"} <=> codes \cap RepairCodes # {}
      /\ action = "merge_now" => Status(codes) = "GREEN"
  BY <1>1, <1>3, <1>4 DEF Action
<1>8. Status(codes) \in {"GREEN", "YELLOW", "RED"}
  BY DEF Status
<1> HIDE DEF action
<1>9. action # "none" /\ <<Color(Status(codes), action), action>> \in OwnerResults
  BY <1>5, <1>6, <1>7, <1>8 DEF Color, OwnerResults
<1>10. ~RoutingContradicted(p, Projection(p, e)) /\ ~ProfileContradicted(p, Projection(p, e))
  BY <1>0, NeverContradicted
<1> QED BY <1>9, <1>10 DEF ProjectionFails, Projection, action, codes, p, e

\* Nothing the assembler puts together leaves the owner without a next action.
THEOREM Actionable == Spec => []AlwaysAnAction
<1>1. Derived => AlwaysAnAction
  BY AssembledIsActionable DEF Derived, AssembledHolds, AlwaysAnAction, Assembled
<1> QED BY <1>1, DerivedAlways, PTL

\* The technical status is Green exactly for a clean request.
THEOREM GreenIsClean == Spec => []GreenIffClean
<1>1. Derived => GreenIffClean
  BY CleanIsGreen DEF Derived, AssembledHolds, GreenIffClean, Assembled, Projection, StatusOf
<1> QED BY <1>1, DerivedAlways, PTL

\* Nobody is told to merge while anything is pending, unverified or unapproved.
THEOREM MergingIsFinal == Spec => []MergeNowIsFinal
<1>1. ASSUME NEW p \in Packages, NEW e, Action(p, Reasons(p, e)) = "merge_now"
      PROVE  /\ p.validity = "CURRENT" /\ Status(Reasons(p, e)) = "GREEN"
             /\ Reasons(p, e) \cap VerifyCodes = {}
             /\ p.approval = "NO_ADDITIONAL_TECHNICAL_APPROVAL"
  <2>1. /\ p.validity = "CURRENT" /\ Status(Reasons(p, e)) = "GREEN"
        /\ Reasons(p, e) \cap VerifyCodes = {}
        /\ ApprovalAction[p.approval] = "merge_now"
    BY <1>1 DEF Action
  <2> QED BY <2>1 DEF ApprovalAction, Packages, Approvals
<1>2. ASSUME Derived, projection # None, projection.action = "merge_now"
      PROVE  /\ package.validity = "CURRENT" /\ projection.color = "GREEN"
             /\ ~package.unverified_areas /\ ~package.required_actions
             /\ package.approval = "NO_ADDITIONAL_TECHNICAL_APPROVAL"
             /\ Assembled => projection.status = "GREEN"
  <2>1. PICK e \in Known : projection = Projection(package, e)
    BY <1>2 DEF Derived, AssembledHolds, SubmittedHolds, Assembled, Known, WellFormedRequests
  <2>2. package \in Packages
    BY <1>2 DEF Derived
  <2>3. /\ Action(package, Reasons(package, e)) = "merge_now"
        /\ projection.status = Status(Reasons(package, e))
        /\ projection.color = Color(projection.status, "merge_now")
    BY <1>2, <2>1 DEF Projection
  <2> QED BY <1>1, <2>2, <2>3, PendingGiven DEF Color
<1>3. ASSUME Derived, Assembled, projection.status = "GREEN"
      PROVE  Clean(request)
  BY <1>3, CleanIsGreen DEF Derived, AssembledHolds, Assembled, Projection, StatusOf
<1>4. ASSUME Derived, Assembled, ~package.unverified_areas, ~package.required_actions
      PROVE  ~request.unverified /\ ~request.suggested
  BY <1>4 DEF Derived, AssembledHolds, Package
<1>5. Derived => MergeNowIsFinal
  BY <1>2, <1>3, <1>4 DEF MergeNowIsFinal
<1> QED BY <1>5, DerivedAlways, PTL

\* Through its completion, a review reads as it was decided.
LEMMA ReadingIsProjection ==
  ASSUME Derived, reading # None, reading.by # "directory"
  PROVE  reading.projection = projection
  BY ScopeIsIrrelevant DEF Derived, AssembledHolds, ReadingHolds, ReadUnder, Assembled

\* Code is only changed on account of something with evidence behind it.
THEOREM RepairsAreGrounded == Spec => []RepairIsGrounded
<1>1. ASSUME Derived, Assembled, MayModifyCode(projection.action)
      PROVE  Grounded(request)
  <2> DEFINE r == request
  <2>1. /\ package = Package(r) /\ package \in Packages
        /\ projection = Projection(package, r.governance)
    BY <1>1 DEF Derived, AssembledHolds, Assembled
  <2>2. Reasons(package, r.governance) \cap RepairCodes # {}
    <3>1. Action(package, Reasons(package, r.governance)) \in {"repair", "repair_and_verify"}
      BY <1>1, <2>1 DEF MayModifyCode, Projection
    <3>2. ApprovalAction[package.approval] \notin {"repair", "repair_and_verify"}
      BY <2>1 DEF ApprovalAction, Packages, Approvals
    <3> QED BY <3>1, <3>2 DEF Action
  <2>3. /\ ~package.red_gate_flags /\ ~package.repair_handoff /\ package.checks = r.checks
        /\ package.findings = {Record(f) : f \in r.findings}
        /\ package.accepted_suggestions <=> \E s \in r.triaged : r.dispositions[s].accepted
    BY <2>1 DEF Package, Reconciliation
  <2>4. ASSUME NEW c \in {"critical_supported_finding", "high_reproduced_finding",
                          "high_code_supported_finding", "blocking_medium_supported"},
               Hit(package, c)
        PROVE  \E f \in r.findings :
                 /\ f.class \in {"CODE_SUPPORTED", "REPRODUCED"}
                 /\ f.severity \in {"CRITICAL", "HIGH"} \/ (f.severity = "MEDIUM" /\ f.blocking)
    <3>1. PICK f \in r.findings : Record(f) \in FindingReasons[c]
      BY <2>3, <2>4 DEF Hit
    <3>2. /\ Record(f).label \in Supported
          /\ \/ Record(f).severity \in {"CRITICAL", "HIGH"}
             \/ Record(f).severity = "MEDIUM" /\ Record(f).blocking
      BY <3>1 DEF FindingReasons, Of, Blocking, Supported
    <3>3. /\ f.class \in {"CODE_SUPPORTED", "REPRODUCED"}
          /\ f.severity = Record(f).severity /\ f.blocking = Record(f).blocking
      BY <3>2 DEF Record, Label, Supported
    <3> QED BY <3>2, <3>3
  <2> HIDE DEF r
  <2>5. \/ Required(r.checks, {"FAIL"})
        \/ \E c \in {"critical_supported_finding", "high_reproduced_finding",
                     "high_code_supported_finding", "blocking_medium_supported"} : Hit(package, c)
        \/ \E s \in r.triaged : r.dispositions[s].accepted
    BY <2>2, <2>3, RepairGiven
  <2> QED BY <2>4, <2>5 DEF r, Grounded
<1>2. ASSUME Derived, Assembled, reading # None, reading.prompt = "implementer_repair_prompt"
      PROVE  MayModifyCode(projection.action)
  <2>1. /\ reading.by \in {"delivery", "result"}
        /\ PromptKind[reading.projection.action] = "implementer_repair_prompt"
    BY <1>2 DEF Derived, ReadingHolds, PromptFits
  <2>2. reading.projection = projection
    BY <1>2, <2>1, ReadingIsProjection
  <2>3. projection.action \in Actions
    BY <1>2, ProjectionIsProjection
       DEF Derived, AssembledHolds, Assembled, WellFormedRequests, Known, Projections
  <2> QED BY <2>1, <2>2, <2>3 DEF PromptKind, Actions, MayModifyCode
<1>3. Derived => RepairIsGrounded
  BY <1>1, <1>2 DEF RepairIsGrounded
<1> QED BY <1>3, DerivedAlways, PTL

\* A review of another head asks for a new review and for nothing else.
THEOREM StaleOnlyRerunsAlways == Spec => []StaleOnlyReruns
<1>1. ASSUME NEW p \in Packages, NEW e, p.validity # "CURRENT"
      PROVE  /\ ~ProjectionFails(p, e)
             /\ Projection(p, e).status # "GREEN"
             /\ Projection(p, e).action = "rerun_review" /\ Projection(p, e).color = "YELLOW"
  <2>1. Status(Reasons(p, e)) # "GREEN"
    BY <1>1, GreenGiven
  <2>2. Action(p, Reasons(p, e)) = "rerun_review"
    BY <1>1 DEF Action
  <2>3. Color(Status(Reasons(p, e)), "rerun_review") = "YELLOW"
    BY DEF Color
  <2>4. ~RoutingContradicted(p, Projection(p, e)) /\ ~ProfileContradicted(p, Projection(p, e))
    BY NeverContradicted
  <2> QED BY <2>1, <2>2, <2>3, <2>4 DEF ProjectionFails, Projection, OwnerResults
<1>2. ASSUME Derived, projection # None
      PROVE  /\ package \in Packages
             /\ \E e : /\ projection = Projection(package, e)
                       /\ stage = "failed" => ProjectionFails(package, e)
  BY <1>2 DEF Derived, AssembledHolds, SubmittedHolds, Assembled
<1>3. Derived => StaleOnlyReruns
  BY <1>1, <1>2 DEF StaleOnlyReruns
<1> QED BY <1>3, DerivedAlways, PTL

\* A completion reads back what it was minted with: either its own evidence is
\* in scope, or its package names none and no evidence matters.
THEOREM Rereads == Spec => []RereadsAlike
<1>1. ASSUME Derived, reading # None, reading.by # "directory", reading.by # "completion"
      PROVE  reading.prompt = PromptKind[projection.action]
  BY <1>1, ReadingIsProjection DEF Derived, ReadingHolds, PromptFits
<1>2. Derived => RereadsAlike
  BY <1>1, ReadingIsProjection DEF RereadsAlike
<1> QED BY <1>2, DerivedAlways, PTL

\* Without its completion a package of verified governance is confirmed only in
\* the presence of its own evidence.
THEOREM VerificationNeedsEvidence == Spec => []VerifiedNeedsItsEvidence
<1>1. ASSUME Derived, reading # None, reading.projection = projection,
             projection.governance = "VERIFIED", reading.by = "directory"
      PROVE  reading.around = request.governance
  <2>1. /\ package = Package(request)
        /\ projection = Projection(package, request.governance)
        /\ reading.projection = Projection(package, reading.around)
    BY <1>1 DEF Derived, AssembledHolds, ReadingHolds, ReadUnder
  <2>2. package.evidence = request.governance
    BY <2>1 DEF Package
  <2>3. Governance(package, request.governance) = "VERIFIED"
    BY <1>1, <2>1 DEF Projection
  <2>4. Matches(package, request.governance)
    BY <2>2, <2>3 DEF Governance, Matches
  <2>5. Matches(package, reading.around)
    BY <1>1, <2>1, <2>4 DEF Projection
  <2> QED BY <2>2, <2>5 DEF Matches
<1>2. Derived => VerifiedNeedsItsEvidence
  BY <1>1 DEF VerifiedNeedsItsEvidence
<1> QED BY <1>2, DerivedAlways, PTL

\* What is read back later is what was decided, and a verified governance is read
\* back only where its evidence is.
THEOREM RereadingIsAlwaysFaithful == Spec => []RereadingIsFaithful
BY Rereads, VerificationNeedsEvidence, PTL DEF RereadingIsFaithful

\* Nobody is told to merge, or to repair, what the review does not stand for.
THEOREM ActionsAlwaysFit == Spec => []ActionsFitTheReview
BY MergingIsFinal, StaleOnlyRerunsAlways, PTL DEF ActionsFitTheReview

\* What makes a request worse keeps it well-formed and accepted.
LEMMA WorseIsAccepted ==
  ASSUME NEW r \in WellFormedRequests, ~Refused(r), NEW w \in Worse(r)
  PROVE  /\ w \in WellFormedRequests /\ ~Refused(w)
         /\ r.findings \subseteq w.findings /\ r.checks = w.checks
         /\ r.sources \subseteq w.sources /\ r.triaged = w.triaged
         /\ w.reviewed \subseteq r.reviewed /\ r.changed = w.changed
         /\ r.dispositions = w.dispositions /\ r.subject = w.subject
         /\ r.governance = w.governance /\ r.sequence = w.sequence
<1>1. CASE \E f \in Assertions : f.evidenced /\ w = [r EXCEPT !.findings = @ \cup {f}]
  BY <1>1 DEF WellFormedRequests, Refused, CatalogRefused, DispositionRefused
<1>2. CASE \E s \in Sources : w = [r EXCEPT !.sources = @ \cup {s}]
  BY <1>2 DEF WellFormedRequests, Refused, CatalogRefused, DispositionRefused
<1>3. CASE \E x \in Files : w = [r EXCEPT !.reviewed = @ \ {x}]
  BY <1>3 DEF WellFormedRequests, Refused, CatalogRefused, DispositionRefused
<1> QED BY <1>1, <1>2, <1>3 DEF Worse

\* A further problem never makes the status better.
THEOREM ProblemsStayProblems == Spec => []ProblemsNeverHelp
<1>1. ASSUME NEW r \in WellFormedRequests, ~Refused(r), NEW w \in Worse(r)
      PROVE  Rank[StatusOf(r)] <= Rank[StatusOf(w)]
  <2>1. w \in WellFormedRequests /\ ~Refused(w)
    BY <1>1, WorseIsAccepted
  <2>2. StatusOf(w) = "GREEN" => StatusOf(r) = "GREEN"
    <3>1. ASSUME Clean(w)
          PROVE  Clean(r)
      <4>1. r.reviewed \subseteq r.changed /\ r.triaged \subseteq r.sources
        BY <1>1 DEF Refused, DispositionRefused
      <4>2. /\ r.findings \subseteq w.findings /\ r.checks = w.checks
            /\ r.sources \subseteq w.sources /\ r.triaged = w.triaged
            /\ w.reviewed \subseteq r.reviewed /\ r.changed = w.changed
            /\ r.dispositions = w.dispositions /\ r.subject = w.subject
            /\ r.governance = w.governance /\ r.sequence = w.sequence
        BY <1>1, WorseIsAccepted
      <4>3. w.changed = w.reviewed /\ w.triaged = w.sources
        BY <3>1 DEF Clean
      <4>4. r.reviewed = r.changed /\ r.triaged = r.sources /\ r.sources = w.sources
        BY <4>1, <4>2, <4>3
      <4> QED BY <3>1, <4>2, <4>4 DEF Clean
    <3> QED BY <1>1, <2>1, <3>1, CleanIsGreen
  <2>3. StatusOf(r) = "RED" => StatusOf(w) = "RED"
    <3> DEFINE p == Package(r)
               q == Package(w)
    <3>1. /\ ~p.red_gate_flags /\ q.checks = p.checks /\ p.findings \subseteq q.findings
      BY <1>1, WorseIsAccepted DEF Package
    <3>2. StatusOf(r) = Status(Reasons(p, r.governance))
          /\ StatusOf(w) = Status(Reasons(q, w.governance))
      BY DEF StatusOf
    <3> HIDE DEF p, q
    <3>3. Reasons(p, r.governance) \cap RedCodes # {} => Reasons(q, w.governance) \cap RedCodes # {}
      BY <3>1, RepairGiven DEF Hit
    <3> QED BY <3>2, <3>3 DEF Status
  <2>4. StatusOf(r) \in {"GREEN", "YELLOW", "RED"} /\ StatusOf(w) \in {"GREEN", "YELLOW", "RED"}
    BY DEF StatusOf, Status
  <2> QED BY <2>2, <2>3, <2>4 DEF Rank
<1>2. ASSUME Derived, Assembled
      PROVE  \A w \in Worse(request) : Rank[projection.status] <= Rank[StatusOf(w)]
  BY <1>1, <1>2 DEF Derived, AssembledHolds, Assembled, Projection, StatusOf
<1>3. Derived => ProblemsNeverHelp
  BY <1>2 DEF ProblemsNeverHelp
<1> QED BY <1>3, DerivedAlways, PTL

\* The state keeps its declared values.
THEOREM DecisionTypes == Spec => []TypeOK
<1>1. Init => TypeOK
  BY DEF Init, TypeOK
<1>2. ASSUME TypeOK, Derived, [Next]_vars
      PROVE  TypeOK'
  <2>1. ASSUME NEW r \in Requests, NEW e \in Known, Refuse(r) \/ Assemble(r, e)
        PROVE  TypeOK'
    <3>1. /\ r \in WellFormedRequests /\ Package(r) \in Packages
          /\ InScope(r.governance, e) \in Known
      BY RequestsAreWellFormed, PackageIsPackage DEF WellFormedRequests, InScope, Known
    <3>2. Projection(Package(r), InScope(r.governance, e)) \in Projections
      BY <3>1, ProjectionIsProjection
    <3> QED BY <1>2, <2>1, <3>1, <3>2 DEF TypeOK, Refuse, Assemble, Decided, Outcome
  <2>2. ASSUME NEW p \in Submissions, NEW e \in Known, Submit(p, e)
        PROVE  TypeOK'
    <3>1. p \in Packages /\ Projection(p, e) \in Projections
      BY SubmissionsAreWellFormed, ProjectionIsProjection
    <3> QED BY <1>2, <2>2, <3>1 DEF TypeOK, Submit
  <2>3. ASSUME NEW e \in Known, Reverify(e) \/ Deliver(e) \/ Result(e) \/ Revalidate(e)
        PROVE  TypeOK'
    <3>1. package \in Packages /\ request.governance \in Known
      BY <1>2, <2>3
         DEF Reverify, Deliver, Result, Revalidate, Reads, Derived, Assembled, WellFormedRequests, Known
    <3>2. InScope(request.governance, e) \in Known
      BY <3>1 DEF InScope
    <3>3. \A x \in Known : Projection(package, x) \in Projections
      BY <3>1, ProjectionIsProjection
    <3>4. /\ PromptKind[Reverified(e).action] \in Prompts /\ "none" \in Prompts
      BY <3>2, <3>3 DEF Reverified, Projections, Prompts, Actions, PromptKind
    <3>5. reading' \in Readings
      BY <2>3, <3>2, <3>3, <3>4
         DEF Reverify, Deliver, Result, Revalidate, Reads, Reverified, Readings, Known
    <3> QED BY <1>2, <2>3, <3>5 DEF TypeOK, Reverify, Deliver, Result, Revalidate, Reads
  <2>4. CASE UNCHANGED vars
    BY <1>2, <2>4 DEF TypeOK, vars
  <2> QED BY <1>2, <2>1, <2>2, <2>3, <2>4 DEF Next, Known
<1> QED BY <1>1, <1>2, DerivedAlways, PTL DEF Spec
=============================================================================
