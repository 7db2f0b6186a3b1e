------------------------ MODULE MCDecisionProjection ------------------------
(***************************************************************************)
(* Small instances of DecisionProjection for TLC.                          *)
(***************************************************************************)
EXTENDS DecisionProjection

CONSTANTS s1, s2, f1, f2, x1, x2, e1, e2, e3, e4

GovernanceEvidence(id, subject, enforced, authorized) ==
  [id |-> id, subject |-> subject, enforced |-> enforced, authorized |-> authorized]

\* Two that authorize the merge of s1, one that found a gap, one for another head.
Authorizing == GovernanceEvidence(e1, s1, TRUE, TRUE)
AllEvidence ==
  {Authorizing, GovernanceEvidence(e2, s1, TRUE, TRUE),
   GovernanceEvidence(e3, s1, FALSE, FALSE), GovernanceEvidence(e4, s2, TRUE, TRUE)}

Triage(accepted, links) == [accepted |-> accepted, links |-> links]

\* An assessment without a finding, of a pull request with one file, one passing
\* check and no other reviewer.
Simple ==
  [subject |-> s1, catalog |-> {s1}, checks |-> {[required |-> TRUE, result |-> "PASS"]}, enumerated |-> TRUE,
   changed |-> {f1}, reviewed |-> {f1}, findings |-> {}, sources |-> {}, triaged |-> {},
   dispositions |-> [x \in Sources |-> Triage(FALSE, "none")], unverified |-> FALSE, suggested |-> FALSE,
   profile |-> "minimal", governance |-> None, sequence |-> FALSE]

Check(required, result) == [required |-> required, result |-> result]

WithChecks(R) ==
  {[r EXCEPT !.checks = c] : r \in R,
     c \in {{}, {Check(TRUE, "PASS")}, {Check(TRUE, "PASS"), Check(TRUE, "FAIL")},
            {Check(TRUE, "UNKNOWN")}, {Check(FALSE, "FAIL")}}}

Assertion(severity, blocking, class) ==
  [severity |-> severity, blocking |-> blocking, class |-> class, evidenced |-> TRUE]

WithFinding(R) == {[r EXCEPT !.findings = {f}] : r \in R, f \in {g \in Assertions : g.evidenced}}

WithFindings(R) ==
  {[r EXCEPT !.findings = F] : r \in R,
     F \in {{}, {Assertion("LOW", FALSE, "HUMAN_JUDGMENT")},
            {Assertion("HIGH", TRUE, "REPRODUCED"), Assertion("MEDIUM", TRUE, "HYPOTHESIS")},
            {[Assertion("HIGH", TRUE, "REPRODUCED") EXCEPT !.evidenced = FALSE]}}}

WithDiff(R) ==
  {[r EXCEPT !.changed = d[1], !.reviewed = d[2]] : r \in R,
     d \in {<<{}, {}>>, <<{f1, f2}, {f1, f2}>>, <<{f1, f2}, {f1}>>, <<{f1}, {f2}>>}}

\* Sources, those of them triaged, and what was made of those.
WithSources(R) ==
  {[r EXCEPT !.sources = x[1], !.triaged = x[2], !.dispositions = [s \in Sources |-> x[3]]] :
     r \in R,
     x \in {<<{}, {}, Triage(FALSE, "none")>>, <<{x1, x2}, {x1}, Triage(FALSE, "none")>>,
            <<{x1}, {x1}, Triage(TRUE, "known")>>, <<{x1}, {x1}, Triage(FALSE, "known")>>,
            <<{x1}, {x1}, Triage(TRUE, "none")>>, <<{x1}, {x1}, Triage(FALSE, "unknown")>>,
            <<{}, {x1}, Triage(FALSE, "none")>>}}

WithPending(R) ==
  {[r EXCEPT !.unverified = u, !.suggested = a] : r \in R, u \in BOOLEAN, a \in BOOLEAN}

WithGovernance(R) ==
  {[r EXCEPT !.profile = p, !.governance = g, !.sequence = q] : r \in R, p \in Profiles,
     g \in AllEvidence \cup {None}, q \in BOOLEAN}

\* Every finding, against the checks and an unread file; a few findings against
\* everything else.
AllRequests ==
  WithFinding(WithChecks({Simple, [Simple EXCEPT !.reviewed = {}]}))
    \cup WithFindings(WithDiff(WithChecks(WithSources({Simple}))))
    \cup WithFindings(WithChecks(WithGovernance(WithPending({Simple}))))
    \cup {[Simple EXCEPT !.enumerated = FALSE], [Simple EXCEPT !.catalog = {s1, s2}]}

\* Packages nobody assembled: for a head that moved on, or with what only a
\* hand-written package has.
Handwritten ==
  LET base == Package(Simple) IN
  {base, [base EXCEPT !.external_incomplete = TRUE], [base EXCEPT !.hosted_demanded = TRUE],
   [base EXCEPT !.claim_merge = TRUE, !.evidence = Authorizing, !.profile = "strict"],
   [base EXCEPT !.red_gate_flags = TRUE], [base EXCEPT !.high_risk_unreviewed = TRUE],
   [base EXCEPT !.intent = "missing", !.unsupported_claims = TRUE],
   [base EXCEPT !.repair_handoff = TRUE], [base EXCEPT !.required_actions = TRUE],
   [base EXCEPT !.checks = {Check(TRUE, "NOT_RUN")}]}

AllSubmissions ==
  {[p EXCEPT !.validity = v, !.approval = a] : p \in Handwritten,
     v \in {"CURRENT", "STALE", "UNKNOWN"}, a \in Approvals}
=============================================================================
