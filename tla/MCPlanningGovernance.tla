------------------------ MODULE MCPlanningGovernance ------------------------
(***************************************************************************)
(* A small instance of PlanningGovernance for TLC: the foundation with     *)
(* two packages, the adoption with one.                                    *)
(***************************************************************************)
EXTENDS PlanningGovernance

CONSTANTS t1, t2, p1, p2, p3

MCOwner == [p \in Packages |-> IF p = p3 THEN t2 ELSE t1]

Planning == [class |-> "planning_infrastructure", excludes |-> Versions \cup {"aigov"},
             paths |-> {"planning"}]

Protocol(paths) ==
  [class |-> "protocol_authority_migration", excludes |-> {"v1.12.0", "aigov"} \ paths,
   paths |-> paths]

\* A planning change, protocol changes of the active version and of none, and one
\* that reaches for a released protocol.
SomeSubmissions ==
  {Planning, Protocol({"planning", "code", "v1.13.1"}), Protocol({"planning", "code"}),
   Protocol({"planning", "code", "v1.12.0"})}

Exact == {"exact_head_ci"}

\* Every stage with its evidence, and some with too little or too much.
SomeClaims ==
  {<<"implemented_pending_exact_head_validation", {}, FALSE>>,
   <<"exact_head_validated", Exact, FALSE>>,
   <<"merged", Exact \cup {"merge"}, FALSE>>,
   <<"post_merge_verified", EvidenceTypes, TRUE>>,
   <<"post_merge_verified", {"post_merge_verification"}, TRUE>>,
   <<"post_merge_verified", EvidenceTypes, FALSE>>,
   <<"closed", {}, TRUE>>, <<"dependency_blocked", {}, FALSE>>}

-----------------------------------------------------------------------------
(* The trees to begin with.                                                *)

ATask(status, needs, evidence) ==
  [status |-> status, authorized |-> status \in Authorizing,
   claimed |-> status = "complete", needs |-> needs, evidence |-> evidence]

Old(p, type) ==
  [type |-> type, task |-> Owner[p], package |-> p, base |-> 0, head |-> 0,
   merge |-> IF type = "exact_head_ci" THEN None ELSE 0, scope |-> p, impact |-> <<p, 1>>]

APackage(p, status, needs) ==
  [status |-> status, needs |-> needs, scope |-> p, impacts |-> <<<<p, 1>>>>,
   evidence |-> {Old(p, e) : e \in {x \in EvidenceTypes : status \in Stage(x)}}]

AScope(p, s) ==
  [package |-> p, task |-> Owner[p], base |-> 0, class |-> s.class,
   excludes |-> s.excludes, paths |-> s.paths]

AnImpact(p, s, done) ==
  [package |-> p, task |-> Owner[p], base |-> 0, paths |-> s.paths, sequence |-> 1,
   previous |-> None, claimed |-> done, complete |-> done]

ATree(tasks, packages, current, submission) ==
  LET tree ==
    [tasks |-> tasks, packages |-> packages, current |-> current,
     records |-> UNION {packages[p].evidence : p \in Packages},
     scopes |-> [p \in Packages |-> AScope(p, submission[p])],
     impacts |-> [ref \in ImpactRefs |->
        IF ref[2] > 1 THEN None
        ELSE AnImpact(ref[1], submission[ref[1]], packages[ref[1]].status \in PostMergeStates)],
     board |-> None]
  IN [tree EXCEPT !.board = Snapshot(tree)]

\* The foundation's first package was a change of the protocol before the active one.
Begun ==
  ATree([t \in Tasks |-> IF t = t1 THEN ATask("in_progress", {}, {})
                         ELSE ATask("registered", {}, {})],
        [p \in Packages |-> IF p = p1 THEN APackage(p, "post_merge_verified", {})
                            ELSE IF p = p2 THEN APackage(p, "implementing", {p1})
                            ELSE APackage(p, "planned", {p2})],
        p2, [p \in Packages |-> IF p = p1 THEN Protocol({"planning", "v1.12.0"})
                                ELSE Planning])

\* The foundation is laid: everything of its task is verified, adoption may begin.
Founded ==
  LET packages == [p \in Packages |-> IF p = p3 THEN APackage(p, "planned", {})
                                     ELSE APackage(p, "post_merge_verified", {})]
      posts == {Old(p, "post_merge_verification") : p \in Owned(t1)} IN
  ATree([t \in Tasks |-> IF t = t1 THEN ATask("complete", {}, posts)
                         ELSE ATask("blocked", {t1}, {})],
        packages, p3, [p \in Packages |-> Planning])

SomePlans == {Begun, Founded}
=============================================================================
