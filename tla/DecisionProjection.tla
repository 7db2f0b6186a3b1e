-------------------------- MODULE DecisionProjection --------------------------
(***************************************************************************)
(* How a review becomes a decision: assemble_review_package puts collected *)
(* facts and a reviewer's assessment into a package, project_decision       *)
(* derives status, next action and governance from it, and whoever reads   *)
(* the package later derives them again and compares.                      *)
(*                                                                         *)
(* Reason RSN-HIGH-REPRODUCED-FINDING is high_reproduced_finding here, and *)
(* so on.  Lists whose contents the decision only tests for emptiness are  *)
(* BOOLEAN: "there is one".                                                *)
(***************************************************************************)
EXTENDS Naturals, FiniteSets

CONSTANTS
  Subjects,     \* repository, pull request number and head SHA together
  Files,        \* paths
  Sources,      \* comments and reviews of other reviewers
  Evidence,     \* minted governance evidence
  Requests,     \* what the assembler can be called with
  Submissions,  \* packages written by somebody else
  None

Severities == {"CRITICAL", "HIGH", "MEDIUM", "LOW"}

Classes == {"HUMAN_JUDGMENT", "HYPOTHESIS", "CODE_SUPPORTED", "REPRODUCED", "NOT_ASSESSABLE"}

Labels == {"REPRODUCED", "CODE_SUPPORTED", "HYPOTHESIS", "NOT_ASSESSABLE"}

\* NOT_RUN occurs in submitted packages only.
Checks == [required : BOOLEAN, result : {"PASS", "FAIL", "UNKNOWN", "NOT_RUN"}]

\* A finding as the reviewer asserts it; "evidenced" when its references exist
\* in the catalog and are of the kind its class demands.
Assertions ==
  [severity : Severities, blocking : BOOLEAN, class : Classes, evidenced : BOOLEAN]

Findings == [severity : Severities, blocking : BOOLEAN, label : Labels]

\* What the reviewer made of a source, and the findings linked to it.
Dispositions ==
  [accepted : BOOLEAN, links : {"none", "known", "unknown"}]

Approvals == {"NO_ADDITIONAL_TECHNICAL_APPROVAL", "PROJECT_OWNER_CONFIRMATION",
              "HUMAN_TECHNICAL_REVIEW_REQUIRED", "SECURITY_OR_DOMAIN_SPECIALIST_REQUIRED"}

Profiles == {"minimal", "strict"}

\* Evidence is identified by a hash; it authorizes only what it found enforced.
GovernanceRecord(e) ==
  /\ e.subject \in Subjects
  /\ e.enforced \in BOOLEAN
  /\ e.authorized \in BOOLEAN
  /\ e.authorized => e.enforced

\* Facts about a pull request and an assessment of it.  Of the dispositions, those
\* of the sources the reviewer triaged count.
WellFormedRequests ==
  [subject : Subjects,
   catalog : SUBSET Subjects,   \* what the records of the evidence catalog are about
   checks : SUBSET Checks,
   enumerated : BOOLEAN,
   changed : SUBSET Files,
   reviewed : SUBSET Files,
   findings : SUBSET Assertions,
   sources : SUBSET Sources,
   triaged : SUBSET Sources,
   dispositions : [Sources -> Dispositions],
   unverified : BOOLEAN,
   suggested : BOOLEAN,
   profile : Profiles,
   governance : Evidence \cup {None},
   sequence : BOOLEAN]

\* The fields of a package that the decision depends on.  A RISK_PRIORITIZED review
\* counts as FULL, an intent that is partially or not satisfied as not assessable.
Packages ==
  [subject : Subjects,
   validity : {"CURRENT", "STALE", "UNKNOWN"},
   review_mode : {"FULL", "PARTIAL"},
   checks : SUBSET Checks,
   findings : SUBSET Findings,
   red_gate_flags : BOOLEAN,
   high_risk_unreviewed : BOOLEAN,
   coverage_complete : BOOLEAN,
   unverified_areas : BOOLEAN,
   intent : {"satisfied", "not_assessable", "missing"},
   unsupported_claims : BOOLEAN,
   repair_handoff : BOOLEAN,
   accepted_suggestions : BOOLEAN,
   external_incomplete : BOOLEAN,
   required_actions : BOOLEAN,
   approval : Approvals,
   profile : Profiles,
   sequence_ci_enforced : BOOLEAN,
   hosted_demanded : BOOLEAN,   \* explicit, external or by activation trigger
   claim_settings : BOOLEAN,
   claim_merge : BOOLEAN,
   evidence : Evidence \cup {None}]

ASSUME NoneIsNothing == None \notin Evidence \cup Requests \cup Packages
ASSUME EvidenceIsMinted == \A e \in Evidence : GovernanceRecord(e)
ASSUME RequestsAreWellFormed == Requests \subseteq WellFormedRequests
ASSUME SubmissionsAreWellFormed == Submissions \subseteq Packages

VARIABLES
  stage,       \* how far the review has come
  request,     \* what the assembler was called with, or None
  package,     \* the package at hand, or None
  projection,  \* the decision derived from it, or None
  reading      \* the last later derivation, or None

vars == <<stage, request, package, projection, reading>>

-----------------------------------------------------------------------------
(* DECISION_REASON_REGISTRY.yaml: what each reason does to the status and  *)
(* which action it calls for.                                              *)

RedCodes == {"red_gate_flag", "required_check_failed", "critical_supported_finding",
             "high_reproduced_finding"}

RepairCodes == RedCodes \cup
  {"high_code_supported_finding", "blocking_medium_supported", "repair_handoff_present",
   "external_repair_accepted"}

PendingCodes == {"unverified_area", "required_action_pending"}

ProfileCodes == {"merge_enforcement_minimum_missing", "repository_hosted_enforcement_required",
                 "repository_settings_claim_unverified", "merge_authorization_claim_unverified"}

VerifyCodes == PendingCodes \cup ProfileCodes \cup
  {"required_check_unresolved", "high_hypothesis_finding", "blocking_medium_unverified",
   "blocking_hypothesis", "not_assessable_finding", "partial_review",
   "high_risk_area_unreviewed", "coverage_incomplete", "intent_missing",
   "intent_unsatisfied", "intent_unsupported_claim"}

RerunCodes == {"review_not_current", "external_review_incomplete"}

ApprovalCodes == {"owner_confirmation_required", "human_technical_review_required",
                  "specialist_review_required"}

YellowCodes == ((RepairCodes \cup VerifyCodes) \ (RedCodes \cup PendingCodes)) \cup RerunCodes

Codes == RepairCodes \cup VerifyCodes \cup RerunCodes \cup ApprovalCodes

-----------------------------------------------------------------------------
(* Reasons.                                                                *)

\* Mutant: a hypothesis counts as supported.
Suspected == {"REPRODUCED", "CODE_SUPPORTED", "HYPOTHESIS"}

Supported == {"REPRODUCED", "CODE_SUPPORTED"}

Of(severities, labels) == {f \in Findings : f.severity \in severities /\ f.label \in labels}

Blocking == {f \in Findings : f.blocking}

\* The findings that give each reason.
FindingReasons ==
  [critical_supported_finding |-> Of({"CRITICAL"}, Supported),
   high_reproduced_finding |-> Of({"HIGH"}, {"REPRODUCED"}),
   high_code_supported_finding |-> Of({"HIGH"}, {"CODE_SUPPORTED"}),
   high_hypothesis_finding |-> Of({"HIGH"}, {"HYPOTHESIS"}),
   blocking_medium_supported |-> Of({"MEDIUM"}, Supported) \cap Blocking,
   blocking_medium_unverified |-> Of({"MEDIUM"}, Labels \ Supported) \cap Blocking,
   blocking_hypothesis |-> Of(Severities, {"HYPOTHESIS"}) \cap Blocking,
   not_assessable_finding |-> Of(Severities, {"NOT_ASSESSABLE"})]

Required(checks, results) == \E c \in checks : c.required /\ c.result \in results

\* The reasons that are not about findings, with what gives them.
PackageReasons(p) ==
  [review_not_current |-> p.validity # "CURRENT",
   red_gate_flag |-> p.red_gate_flags,
   required_check_failed |-> Required(p.checks, {"FAIL"}),
   required_check_unresolved |-> Required(p.checks, {"UNKNOWN", "NOT_RUN"}),
   partial_review |-> p.review_mode = "PARTIAL",
   high_risk_area_unreviewed |-> p.high_risk_unreviewed,
   coverage_incomplete |-> ~p.coverage_complete,
   unverified_area |-> p.unverified_areas,
   intent_missing |-> p.intent = "missing",
   intent_unsatisfied |-> p.intent = "not_assessable",
   intent_unsupported_claim |-> p.unsupported_claims,
   repair_handoff_present |-> p.repair_handoff,
   external_repair_accepted |-> p.accepted_suggestions,
   external_review_incomplete |-> p.external_incomplete,
   required_action_pending |-> p.required_actions,
   owner_confirmation_required |-> p.approval = "PROJECT_OWNER_CONFIRMATION",
   human_technical_review_required |-> p.approval = "HUMAN_TECHNICAL_REVIEW_REQUIRED",
   specialist_review_required |-> p.approval = "SECURITY_OR_DOMAIN_SPECIALIST_REQUIRED"]

\* Mutant: evidence for the same head will do, whatever its identifier.
MatchesHead(p, e) == e \in Evidence /\ e.subject = p.subject /\ p.evidence # None

\* _matching_verified_evidence
Matches(p, e) == e \in Evidence /\ e.subject = p.subject /\ p.evidence = e

\* assess_security_profile
Hosted(p, e) == Matches(p, e) /\ e.enforced

SettingsVerified(p, e) == p.claim_settings /\ Hosted(p, e)

MergeVerified(p, e) == p.claim_merge /\ Matches(p, e) /\ e.authorized

HostedRequired(p) ==
  p.hosted_demanded \/ p.claim_settings \/ p.claim_merge \/ p.evidence # None

ProfileReasons(p, e) ==
  [merge_enforcement_minimum_missing |-> ~p.sequence_ci_enforced /\ ~Hosted(p, e),
   repository_hosted_enforcement_required |-> HostedRequired(p) /\ ~Hosted(p, e),
   repository_settings_claim_unverified |-> p.claim_settings /\ ~SettingsVerified(p, e),
   merge_authorization_claim_unverified |-> p.claim_merge /\ ~MergeVerified(p, e)]

Given(reasons) == {c \in DOMAIN reasons : reasons[c]}

\* _canonical_reason_instances, for a package read in the presence of evidence e.
Reasons(p, e) ==
  Given(PackageReasons(p)) \cup Given(ProfileReasons(p, e))
    \cup {c \in DOMAIN FindingReasons : p.findings \cap FindingReasons[c] # {}}

-----------------------------------------------------------------------------
(* Decision.                                                               *)

\* Mutant: a reason for Yellow is looked for first.
YellowFirst(codes) ==
  IF codes \cap YellowCodes # {} THEN "YELLOW"
  ELSE IF codes \cap RedCodes # {} THEN "RED" ELSE "GREEN"

\* _technical_status
Status(codes) ==
  IF codes \cap RedCodes # {} THEN "RED"
  ELSE IF codes \cap YellowCodes # {} THEN "YELLOW" ELSE "GREEN"

ApprovalAction ==
  [NO_ADDITIONAL_TECHNICAL_APPROVAL |-> "merge_now",
   PROJECT_OWNER_CONFIRMATION |-> "owner_confirmation",
   HUMAN_TECHNICAL_REVIEW_REQUIRED |-> "human_technical_review",
   SECURITY_OR_DOMAIN_SPECIALIST_REQUIRED |-> "specialist_review"]

\* Mutant: what is pending is looked at only while the status is not Green.
ActionOnStatus(p, codes) ==
  LET repair == codes \cap RepairCodes # {}
      verify == codes \cap VerifyCodes # {} IN
  IF p.validity # "CURRENT" THEN "rerun_review"
  ELSE IF Status(codes) = "GREEN" THEN ApprovalAction[p.approval]
  ELSE IF repair /\ verify THEN "repair_and_verify"
  ELSE IF repair THEN "repair"
  ELSE IF verify THEN "verify" ELSE "none"

\* Mutant: what was found is acted upon although the review is stale.
ActionOnStale(p, codes) ==
  IF codes \cap RepairCodes # {}
  THEN IF codes \cap VerifyCodes # {} THEN "repair_and_verify" ELSE "repair"
  ELSE IF p.validity # "CURRENT" THEN "rerun_review"
  ELSE IF codes \cap VerifyCodes # {} THEN "verify"
  ELSE IF Status(codes) = "GREEN" THEN ApprovalAction[p.approval] ELSE "none"

\* _choose_action.  A Green status has no repair reasons, and its verify reasons
\* are the pending ones.  "none" is the ProjectionError of a status without action.
Action(p, codes) ==
  LET repair == codes \cap RepairCodes # {}
      verify == codes \cap VerifyCodes # {} IN
  IF p.validity # "CURRENT" THEN "rerun_review"
  ELSE IF repair /\ verify THEN "repair_and_verify"
  ELSE IF repair THEN "repair"
  ELSE IF verify THEN "verify"
  ELSE IF Status(codes) = "GREEN" THEN ApprovalAction[p.approval] ELSE "none"

\* _owner_color
Color(status, action) ==
  IF action = "rerun_review" THEN "YELLOW"
  ELSE IF status = "RED" THEN "RED"
  ELSE IF action = "merge_now" THEN "GREEN" ELSE "YELLOW"

\* OWNER_RESULT_REGISTRY
OwnerResults ==
  ({"GREEN"} \X {"merge_now"})
    \cup ({"YELLOW"} \X {"owner_confirmation", "human_technical_review", "specialist_review",
                        "verify", "repair", "repair_and_verify", "rerun_review"})
    \cup ({"RED"} \X {"repair", "repair_and_verify"})

MayModifyCode(action) == action \in {"repair", "repair_and_verify"}

\* ACTION_ROUTING: prompt_kind, where a prompt is required.
PromptKind ==
  [merge_now |-> "none", owner_confirmation |-> "none", none |-> "none",
   human_technical_review |-> "human_review_handoff",
   specialist_review |-> "specialist_review_handoff",
   repair |-> "implementer_repair_prompt", repair_and_verify |-> "implementer_repair_prompt",
   verify |-> "verification_prompt", rerun_review |-> "fresh_review_prompt"]

\* Mutant: governance is judged although nobody asked for it.
GovernanceAnyway(p, e) ==
  IF e \notin Evidence \/ e.subject # p.subject THEN "NOT_VERIFIABLE"
  ELSE IF e.authorized THEN "VERIFIED" ELSE "GAP_FOUND"

\* _governance_decision
Governance(p, e) ==
  IF p.profile = "minimal" THEN "NOT_REQUESTED"
  ELSE IF e \notin Evidence \/ e.subject # p.subject THEN "NOT_VERIFIABLE"
  ELSE IF e.authorized THEN "VERIFIED" ELSE "GAP_FOUND"

\* project_decision
Projection(p, e) ==
  LET codes == Reasons(p, e)
      action == Action(p, codes) IN
  [status |-> Status(codes), codes |-> codes, action |-> action,
   color |-> Color(Status(codes), action), governance |-> Governance(p, e),
   evidence_matches |-> Matches(p, e), settings |-> SettingsVerified(p, e),
   merge |-> MergeVerified(p, e)]

\* The decision would contradict the routing of its action.
RoutingContradicted(p, d) ==
  \/ d.action = "merge_now" /\ ~( /\ d.status = "GREEN" /\ p.validity = "CURRENT"
                                 /\ p.approval = "NO_ADDITIONAL_TECHNICAL_APPROVAL")
  \/ d.codes \ Codes # {}

\* The decision would contradict the security profile or the inspection profile.
ProfileContradicted(p, d) ==
  \/ d.codes \cap ProfileCodes # {} /\ (d.status = "GREEN" \/ d.action = "merge_now")
  \/ (d.settings \/ d.merge) /\ ~d.evidence_matches
  \/ p.profile = "minimal" /\ d.governance # "NOT_REQUESTED"

\* Whether project_decision raises: no action, no message for it, or a contradiction.
ProjectionFails(p, e) ==
  LET d == Projection(p, e) IN
  \/ d.action = "none" \/ <<d.color, d.action>> \notin OwnerResults
  \/ RoutingContradicted(p, d) \/ ProfileContradicted(p, d)

-----------------------------------------------------------------------------
(* Assembly.                                                               *)

\* _validate_evidence_catalog: a record of another pull request or head.
CatalogRefused(r) == r.catalog \ {r.subject} # {}

\* _external_review_sections: what cannot be made of a source.
DispositionRefused(r, s) ==
  \/ s \notin r.sources
  \/ r.dispositions[s].links = "unknown"
  \/ r.dispositions[s].accepted /\ r.dispositions[s].links = "none"

\* What the assembler refuses with a ReviewAssemblyError before it projects.
Refused(r) ==
  \/ r.profile = "strict" /\ r.governance = None
  \/ ~r.enumerated
  \/ CatalogRefused(r)
  \/ \E f \in r.findings : ~f.evidenced
  \/ r.reviewed \ r.changed # {}
  \/ \E s \in r.triaged : DispositionRefused(r, s)

\* Mutant: the class a reviewer asserts is taken for the label.
AssertedLabel(f) == f.class

\* _finding_record
Label(f) == IF f.class = "HUMAN_JUDGMENT" THEN "HYPOTHESIS" ELSE f.class

Record(f) == [severity |-> f.severity, blocking |-> f.blocking, label |-> Label(f)]

Covered(r) == r.changed \subseteq r.reviewed

\* external_review_reconciliation and the suggestions to act upon.
Reconciliation(r) ==
  [uninspected |-> r.sources \ r.triaged,
   accepted |-> {s \in r.triaged : r.dispositions[s].accepted}]

\* Mutant: whether the collection is complete is not asked.
Collected(r) == r.sources \subseteq Sources

\* collection_status
Reconciled(r) == Reconciliation(r).uninspected = {}

ChecksPass(r) == \A c \in r.checks : c.required => c.result = "PASS"

\* Mutant: a blocking finding does not touch the intent.
FitIgnoringFindings(r) == Covered(r) /\ Reconciled(r) /\ ChecksPass(r)

IntentFit(r) ==
  /\ Covered(r) /\ Reconciled(r) /\ ChecksPass(r)
  /\ \A f \in r.findings : ~f.blocking

Package(r) ==
  [subject |-> r.subject,
   validity |-> "CURRENT",
   review_mode |-> IF Covered(r) /\ Reconciled(r) THEN "FULL" ELSE "PARTIAL",
   checks |-> r.checks,
   findings |-> {Record(f) : f \in r.findings},
   red_gate_flags |-> FALSE,
   high_risk_unreviewed |-> FALSE,
   coverage_complete |-> Covered(r),
   unverified_areas |-> r.unverified,
   intent |-> IF IntentFit(r) THEN "satisfied" ELSE "not_assessable",
   unsupported_claims |-> FALSE,
   repair_handoff |-> FALSE,
   accepted_suggestions |-> Reconciliation(r).accepted # {},
   external_incomplete |-> Reconciliation(r).uninspected # {},
   required_actions |-> r.suggested,
   approval |-> "NO_ADDITIONAL_TECHNICAL_APPROVAL",
   profile |-> r.profile,
   sequence_ci_enforced |-> r.sequence \/ (r.checks # {} /\ ChecksPass(r)),
   hosted_demanded |-> FALSE,
   claim_settings |-> r.governance # None,
   claim_merge |-> FALSE,
   evidence |-> r.governance]

\* validate_intent_fit: a satisfied intent needs a changed file as its evidence.
IntentSupported(r) == IntentFit(r) => r.changed # {}

-----------------------------------------------------------------------------
(* Behaviour.                                                              *)

Init ==
  /\ stage = "idle"
  /\ request = None /\ package = None /\ projection = None /\ reading = None

\* Mutant: the scope around the caller wins over the evidence of the completion.
CallersScope(bound, around) == IF around # None THEN around ELSE bound

\* evidence_scope: evidence given wins, otherwise the scope around it shows through.
InScope(bound, around) == IF bound # None THEN bound ELSE around

\* assemble_review_package
Refuse(r) ==
  /\ stage = "idle"
  /\ Refused(r)
  /\ stage' = "refused"
  /\ request' = r
  /\ UNCHANGED <<package, projection, reading>>

\* The decision the assembler makes in a scope with evidence "around".
Decided(r, around) == Projection(Package(r), InScope(r.governance, around))

\* What becomes of the package: it is validated in the same scope, and again as a
\* package of the active protocol, before it is minted.
Outcome(r, around) ==
  IF ProjectionFails(Package(r), InScope(r.governance, around)) THEN "failed"
  ELSE IF IntentSupported(r) THEN "minted" ELSE "invalid"

\* A review in a caller's scope with evidence "around".
Assemble(r, around) ==
  /\ stage = "idle"
  /\ ~Refused(r)
  /\ request' = r
  /\ package' = Package(r)
  /\ projection' = Decided(r, around)
  /\ stage' = Outcome(r, around)
  /\ UNCHANGED reading

\* Somebody's package is projected where evidence e is in scope.
Submit(p, e) ==
  /\ stage = "idle"
  /\ package' = p
  /\ projection' = Projection(p, e)
  /\ stage' = IF ProjectionFails(p, e) THEN "failed" ELSE "submitted"
  /\ UNCHANGED <<request, reading>>

\* A completion is re-verified under the evidence bound to it, in a caller's scope
\* with evidence "around".
Reverified(around) == Projection(package, InScope(request.governance, around))

\* What every accessor of a completion begins with.
Reads(by, around, prompt) ==
  /\ stage = "minted"
  /\ reading' = [by |-> by, around |-> around, projection |-> Reverified(around),
                 prompt |-> prompt]
  /\ UNCHANGED <<stage, request, package, projection>>

Reverify(around) == Reads("completion", around, "none")

\* official_owner_delivery hands out the owner's message, with the prompt if the
\* action requires one.
Deliver(around) == Reads("delivery", around, PromptKind[Reverified(around).action])

\* Mutant: the message is handed out whether or not a prompt goes with it.
ResultAnyway(around) == Reads("result", around, "none")

\* official_owner_result hands out the message alone, if it is all there is to say.
Result(around) ==
  /\ stage = "minted"
  /\ PromptKind[Reverified(around).action] = "none"
  /\ Reads("result", around, "none")

\* validate_directory and verify_review_directory know of no completion.
Revalidate(around) ==
  /\ stage = "minted"
  /\ reading' = [by |-> "directory", around |-> around,
                 projection |-> Projection(package, around), prompt |-> "none"]
  /\ UNCHANGED <<stage, request, package, projection>>

Next ==
  \/ \E r \in Requests : Refuse(r)
  \/ \E r \in Requests, e \in Evidence \cup {None} : Assemble(r, e)
  \/ \E p \in Submissions, e \in Evidence \cup {None} : Submit(p, e)
  \/ \E e \in Evidence \cup {None} : Reverify(e) \/ Deliver(e) \/ Result(e) \/ Revalidate(e)

Spec == Init /\ [][Next]_vars
-----------------------------------------------------------------------------
Actions == {"merge_now", "owner_confirmation", "human_technical_review", "specialist_review",
            "repair", "verify", "repair_and_verify", "rerun_review", "none"}

Projections ==
  [status : {"GREEN", "YELLOW", "RED"}, codes : SUBSET Codes, action : Actions,
   color : {"GREEN", "YELLOW", "RED"},
   governance : {"NOT_REQUESTED", "NOT_VERIFIABLE", "VERIFIED", "GAP_FOUND"},
   evidence_matches : BOOLEAN, settings : BOOLEAN, merge : BOOLEAN]

Prompts == {PromptKind[a] : a \in Actions}

Readings ==
  [by : {"completion", "delivery", "result", "directory"}, around : Evidence \cup {None},
   projection : Projections, prompt : Prompts]

TypeOK ==
  /\ stage \in {"idle", "refused", "failed", "invalid", "minted", "submitted"}
  /\ request = None \/ request \in WellFormedRequests
  /\ package = None \/ package \in Packages
  /\ projection = None \/ projection \in Projections
  /\ reading = None \/ reading \in Readings

Assembled == request # None /\ package # None

\* Nothing the assembler puts together leaves the owner without a next action:
\* whenever the status is not Green there is a repair or a verification to ask
\* for, although an incomplete external review by itself gives neither.
AlwaysAnAction == Assembled => stage # "failed"

\* The findings that do not stand in the way of a Green status.
Harmless(f) ==
  /\ ~f.blocking
  /\ f.class # "NOT_ASSESSABLE"
  /\ f.severity # "HIGH"
  /\ f.severity = "CRITICAL" => f.class \notin {"CODE_SUPPORTED", "REPRODUCED"}

\* What a Green review must have seen, said of the facts and the assessment.
Clean(r) ==
  /\ r.changed = r.reviewed
  /\ \A c \in r.checks : c.required => c.result = "PASS"
  /\ r.checks # {} \/ r.sequence \/ (r.governance # None)
  /\ \A f \in r.findings : Harmless(f)
  /\ r.triaged = r.sources
  /\ \A s \in r.sources : ~r.dispositions[s].accepted
  /\ r.governance # None => r.governance.subject = r.subject /\ r.governance.enforced

\* The technical status is Green exactly when the whole diff was reviewed,
\* every required check passed, no finding and no external reviewer's accepted
\* suggestion stands in the way, and the claims made of the repository's
\* settings are borne out by evidence for this head.
GreenIffClean == Assembled => (projection.status = "GREEN" <=> Clean(request))

\* Nobody is told to merge while anything is pending, unverified or to be
\* approved by somebody, whoever wrote the package.
MergeNowIsFinal ==
  projection # None /\ projection.action = "merge_now" =>
    /\ package.validity = "CURRENT" /\ projection.color = "GREEN"
    /\ ~package.unverified_areas /\ ~package.required_actions
    /\ package.approval = "NO_ADDITIONAL_TECHNICAL_APPROVAL"
    /\ Assembled => Clean(request) /\ ~request.unverified /\ ~request.suggested

Grounded(r) ==
  \/ Required(r.checks, {"FAIL"})
  \/ \E f \in r.findings :
       /\ f.class \in {"CODE_SUPPORTED", "REPRODUCED"}
       /\ f.severity \in {"CRITICAL", "HIGH"} \/ (f.severity = "MEDIUM" /\ f.blocking)
  \/ \E s \in r.triaged : r.dispositions[s].accepted

\* An implementer may change code, or is handed a prompt to do so in whatever
\* scope, only on account of a failed required check, a finding with evidence, or a
\* suggestion the reviewer accepted; never on account of a hypothesis.
RepairIsGrounded ==
  Assembled =>
    /\ MayModifyCode(projection.action) => Grounded(request)
    /\ reading # None /\ reading.prompt = "implementer_repair_prompt" => Grounded(request)

\* A package for another head than the live one asks for a new review and for
\* nothing else, whatever it found.
StaleOnlyReruns ==
  projection # None /\ package.validity # "CURRENT" =>
    /\ stage # "failed"
    /\ projection.status # "GREEN"
    /\ projection.action = "rerun_review" /\ projection.color = "YELLOW"

\* Merging and repairing are for reviews that still stand.
ActionsFitTheReview == MergeNowIsFinal /\ StaleOnlyReruns

\* A completion reads back what it was minted with, whatever evidence was in scope
\* then and is now, and the owner gets the prompt the decision calls for with it.
RereadsAlike ==
  reading # None /\ reading.by # "directory" =>
    /\ reading.projection = projection
    /\ reading.by # "completion" => reading.prompt = PromptKind[projection.action]

\* Read without its completion, a package whose merge governance is verified is
\* confirmed only in the presence of the very evidence it rests on.
VerifiedNeedsItsEvidence ==
  reading # None /\ reading.projection = projection /\ projection.governance = "VERIFIED" =>
    reading.around = request.governance \/ reading.by # "directory"

\* A later reading confirms a decision on the evidence it rests on, and only then.
RereadingIsFaithful == RereadsAlike /\ VerifiedNeedsItsEvidence

Rank == [GREEN |-> 0, YELLOW |-> 1, RED |-> 2]

StatusOf(r) == Status(Reasons(Package(r), r.governance))

\* One more finding, and one more source nobody has looked at.
Worse(r) ==
  {[r EXCEPT !.findings = @ \cup {f}] : f \in {g \in Assertions : g.evidenced}}
    \cup {[r EXCEPT !.sources = @ \cup {s}] : s \in Sources}
    \cup {[r EXCEPT !.reviewed = @ \ {x}] : x \in Files}

\* A further finding, an unread comment or an unreviewed file never makes the
\* status better.
ProblemsNeverHelp ==
  Assembled /\ reading = None =>
    \A r \in Worse(request) : Rank[projection.status] <= Rank[StatusOf(r)]

\* "important Hypothesis remains" is a Yellow gate (policies/DECISION_GATES.md).
ImportantHypothesisIsNotGreen ==
  Assembled /\ projection.status = "GREEN" =>
    \A f \in request.findings :
      f.class = "HYPOTHESIS" => f.severity \notin {"CRITICAL", "HIGH"}
=============================================================================
