-------------------------- MODULE PlanningGovernance --------------------------
(***************************************************************************)
(* The planning registry of the repository (pr_inspector/planning_*.py): a *)
(* file of tasks, work packages and evidence records, with a scope and a   *)
(* chain of impact records for every package.  Whoever works on the        *)
(* repository edits these files in a pull request, together with the code. *)
(* A validator reads the tree at the head of the pull request and its diff *)
(* from the base, and nothing else: it remembers no earlier tree.          *)
(*                                                                         *)
(* An editor here may combine any edits, right or wrong; only trees the    *)
(* validator accepts are merged.  The properties speak of the trees that   *)
(* result, after any number of merges.                                     *)
(*                                                                         *)
(* The scope of a package is the file named after it, its n-th impact the  *)
(* file <<package, n>>.  A reference to an evidence record is the record.  *)
(***************************************************************************)
EXTENDS Naturals, Sequences, FiniteSets

CONSTANTS
  Tasks, Packages,  \* their identifiers
  Owner,            \* the task of each package (task_id)
  Foundation,       \* PINS-PLAN-001
  Adoption,         \* the tasks whose identifier begins with PINS-AIGOV-
  Plans,            \* the trees the history may begin with
  Submissions,      \* the changes made under a scope: class, excluded paths, paths
  Claims,           \* what is written of a package: a status, the types of evidence
                    \* cited for it, whether the last impact claims completion
  Decisions,        \* what is written of a task that is not complete
  None,             \* no reference, no document
  MaxMerges,        \* bound: pull requests merged
  MaxEdits,         \* bound: edits in all pull requests
  MaxImpacts        \* bound: impacts of one package

VARIABLES
  main,  \* the tree on the default branch
  log,   \* what was merged: whether under a scope of the current package, the class
         \* of the scope and the paths of each change
  pr,    \* the open pull request: its tree and the changed paths
  edits  \* how many edits were made, in all pull requests

vars == <<main, log, pr, edits>>

-----------------------------------------------------------------------------
(* The documents.                                                          *)

TaskStates == {"registered", "blocked", "authorized", "in_progress",
               "implemented", "complete", "superseded", "cancelled"}

Authorizing == {"authorized", "in_progress", "implemented", "complete"}

PackageStates == {"planned", "dependency_blocked", "ready", "implementing",
                  "implemented_pending_exact_head_validation",
                  "exact_head_validated", "merged", "post_merge_verified", "closed"}

\* _WP_POST_MERGE_STATES, also _WP_DEPENDENCY_COMPLETE_STATES.
PostMergeStates   == {"post_merge_verified", "closed"}
MergedStates      == PostMergeStates \cup {"merged"}
ExactHeadStates   == MergedStates \cup {"exact_head_validated"}
ImplementedStates == ExactHeadStates \cup {"implemented_pending_exact_head_validation"}
ActiveStates      == ImplementedStates \cup {"ready", "implementing"}

EvidenceTypes == {"exact_head_ci", "merge", "post_merge_verification"}

\* _EVIDENCE_TYPE_BY_STAGE with the states of each stage.
Stage(type) ==
  CASE type = "exact_head_ci" -> ExactHeadStates
    [] type = "merge" -> MergedStates
    [] type = "post_merge_verification" -> PostMergeStates

Versions == {"v1.12.0", "v1.13.0", "v1.13.1"}
\* protocols/<version>/, governance/aigov/, planning/, everything else.
Paths    == Versions \cup {"aigov", "planning", "code"}
Classes  == {"planning_infrastructure", "protocol_authority_migration"}

\* Commit 1 is the tip the history begins with, commit 0 an earlier one.
Commits    == 0..(MaxMerges + 2)
Heads      == 0..(2 * (MaxMerges + 2))
ScopeRefs  == Packages
ImpactRefs == Packages \X (1..MaxImpacts)

Record ==
  [type : EvidenceTypes, task : Tasks, package : Packages, base : Commits,
   head : Heads, merge : Commits \cup {None}, scope : ScopeRefs, impact : ImpactRefs]

Scope ==
  [package : Packages, task : Tasks, base : Commits, class : Classes,
   excludes : SUBSET Paths, paths : SUBSET Paths]

\* complete: state_after is one of _COMPLETION_IMPACT_STATES.
Impact ==
  [package : Packages, task : Tasks, base : Commits, paths : SUBSET Paths,
   sequence : 1..MaxImpacts, previous : ImpactRefs \cup {None},
   claimed : BOOLEAN, complete : BOOLEAN]

Task ==
  [status : TaskStates, authorized : BOOLEAN, claimed : BOOLEAN,
   needs : SUBSET Tasks, evidence : SUBSET Record]

Package ==
  [status : PackageStates, needs : SUBSET Packages, scope : ScopeRefs,
   impacts : Seq(ImpactRefs), evidence : SUBSET Record]

\* The dashboard and the plan repeat a snapshot of the registry.
Board ==
  [current : Packages, task : TaskStates, status : PackageStates,
   scope : Scope \cup {None}]

Tree ==
  [tasks : [Tasks -> Task], packages : [Packages -> Package],
   records : SUBSET Record, current : Packages,
   scopes : [ScopeRefs -> Scope \cup {None}],
   impacts : [ImpactRefs -> Impact \cup {None}], board : Board]

Owned(t) == {p \in Packages : Owner[p] = t}

Listed(k) == {k.impacts[i] : i \in DOMAIN k.impacts}

OfType(records, type) == {r \in records : r.type = type}

ASSUME PlanningAssumption ==
  /\ IsFiniteSet(Tasks) /\ IsFiniteSet(Packages)
  /\ Owner \in [Packages -> Tasks] /\ Foundation \in Tasks /\ Adoption \subseteq Tasks
  /\ Plans \subseteq Tree
  /\ Submissions \subseteq [class : Classes, excludes : SUBSET Paths, paths : SUBSET Paths]
  /\ Claims \subseteq PackageStates \X (SUBSET EvidenceTypes) \X BOOLEAN
  /\ Decisions \subseteq TaskStates \ {"complete"}
  /\ None \notin Commits \cup Scope \cup Impact \cup ImpactRefs
  /\ MaxMerges \in Nat /\ MaxEdits \in Nat /\ MaxImpacts \in Nat \ {0}


-----------------------------------------------------------------------------
(* planning_governance_registry.py: the registry by itself.  Identifiers   *)
(* are unique and known, since they are the keys of functions.             *)

\* Mutant: only what needs itself directly is found.
CyclicDirect(graph) == \E n \in DOMAIN graph : n \in graph[n]

\* A depth-first search: where it is and the nodes it is visiting.
Meets(graph) ==
  LET meets[s \in (DOMAIN graph) \X SUBSET DOMAIN graph] ==
        s[1] \in s[2] \/ \E d \in graph[s[1]] : meets[<<d, s[2] \cup {s[1]}>>]
  IN meets

\* The search meets a node it is still visiting.
Cyclic(graph) == \E n \in DOMAIN graph : Meets(graph)[<<n, {}>>]

TaskGraph(tree)    == [t \in Tasks |-> tree.tasks[t].needs]
PackageGraph(tree) == [p \in Packages |-> tree.packages[p].needs]

\* What the validator takes for completion of a task.
Eligible(t, tree) ==
  LET task == tree.tasks[t] IN
  /\ task.status = "complete" /\ task.claimed
  /\ Owned(t) # {}
  /\ \A p \in Owned(t) :
       LET k == tree.packages[p]
           posts == OfType(k.evidence, "post_merge_verification") IN
       /\ k.status \in PostMergeStates
       /\ k.evidence \subseteq tree.records
       /\ \A e \in EvidenceTypes : OfType(k.evidence, e) # {}
       /\ posts \subseteq task.evidence

RecordHolds(r, tree) ==
  LET k == tree.packages[r.package] IN
  /\ r.task = Owner[r.package]
  /\ r.scope = k.scope
  /\ r.impact \in Listed(k)

CompleteHolds(t, tree) ==
  LET task == tree.tasks[t] IN
  /\ task.claimed /\ task.evidence # {} /\ Owned(t) # {}
  /\ \A p \in Owned(t) :
       LET posts == OfType(tree.packages[p].evidence \cap tree.records,
                           "post_merge_verification") IN
       /\ tree.packages[p].status \in PostMergeStates
       /\ posts # {} /\ posts \subseteq task.evidence

RequiresDependencies(task) == task.authorized \/ task.status \in Authorizing

TaskHolds(t, tree) ==
  LET task == tree.tasks[t] IN
  /\ task.status \in Authorizing => task.authorized
  /\ task.evidence \subseteq tree.records
  /\ \A r \in task.evidence : r.task = t
  /\ IF task.status = "complete" THEN CompleteHolds(t, tree) ELSE ~task.claimed
  /\ RequiresDependencies(task) => \A d \in task.needs : Eligible(d, tree)

\* Mutant: only the authorization is looked at.
AdoptionHoldsUnauthorized(tree) ==
  Eligible(Foundation, tree) \/ \A t \in Adoption : ~tree.tasks[t].authorized

AdoptionHolds(tree) ==
  Eligible(Foundation, tree) \/
  \A t \in Adoption : /\ ~tree.tasks[t].authorized
                      /\ tree.tasks[t].status \in {"registered", "blocked"}

\* Mutant: the packages it needs are not looked at.
PackageHoldsOpen(p, tree) ==
  LET k == tree.packages[p]
      task == tree.tasks[Owner[p]]
      open == {d \in k.needs : tree.packages[d].status \notin PostMergeStates} IN
  /\ k.status = "dependency_blocked" => open # {}
  /\ k.status \in ActiveStates =>
       /\ task.authorized
       /\ \A d \in task.needs : Eligible(d, tree)
  /\ k.evidence \subseteq tree.records
  /\ \A r \in k.evidence : r.task = Owner[p] /\ r.package = p
  /\ k.status \in ImplementedStates => k.impacts # <<>>
  /\ \A e \in EvidenceTypes : (OfType(k.evidence, e) # {}) <=> k.status \in Stage(e)

\* Mutant: only the evidence of the last stage is required.
PackageHoldsLastStage(p, tree) ==
  LET k == tree.packages[p]
      task == tree.tasks[Owner[p]]
      open == {d \in k.needs : tree.packages[d].status \notin PostMergeStates} IN
  /\ k.status = "dependency_blocked" => open # {}
  /\ k.status \in ActiveStates =>
       /\ open = {}
       /\ task.authorized
       /\ \A d \in task.needs : Eligible(d, tree)
  /\ k.evidence \subseteq tree.records
  /\ \A r \in k.evidence : r.task = Owner[p] /\ r.package = p
  /\ k.status \in ImplementedStates => k.impacts # <<>>
  /\ \A e \in EvidenceTypes :
       /\ OfType(k.evidence, e) # {} => k.status \in Stage(e)
       /\ k.status \in Stage(e) /\ (\A f \in EvidenceTypes : k.status \in Stage(f) => Stage(e) \subseteq Stage(f))
          => OfType(k.evidence, e) # {}

PackageHolds(p, tree) ==
  LET k == tree.packages[p]
      task == tree.tasks[Owner[p]]
      open == {d \in k.needs : tree.packages[d].status \notin PostMergeStates} IN
  /\ k.status = "dependency_blocked" => open # {}
  /\ k.status \in ActiveStates =>
       /\ open = {}
       /\ task.authorized
       /\ \A d \in task.needs : Eligible(d, tree)
  /\ k.evidence \subseteq tree.records
  /\ \A r \in k.evidence : r.task = Owner[p] /\ r.package = p
  /\ k.status \in ImplementedStates => k.impacts # <<>>
  /\ \A e \in EvidenceTypes : (OfType(k.evidence, e) # {}) <=> k.status \in Stage(e)

RegistryHolds(tree) ==
  /\ \A r \in tree.records : RecordHolds(r, tree)
  /\ \A t \in Tasks : TaskHolds(t, tree)
  /\ ~Cyclic(TaskGraph(tree))
  /\ AdoptionHolds(tree)
  /\ \A p \in Packages : PackageHolds(p, tree)
  /\ ~Cyclic(PackageGraph(tree))
  /\ tree.packages[tree.current].status # "closed"

-----------------------------------------------------------------------------
(* planning_authority.py: what a scope may touch.                          *)

PlanningPolicy ==
  [allowed |-> {"planning"}, excluded |-> Versions \cup {"aigov"}]

\* _V1_12_PROTOCOL_POLICY, and the one that v1.13.0 and v1.13.1 share.
ProtocolPolicy(version) ==
  IF version = "v1.12.0"
  THEN [allowed |-> {"planning", "code", "v1.12.0"}, excluded |-> {"aigov"}]
  ELSE [allowed |-> {"planning", "code", "v1.13.0", "v1.13.1"},
        excluded |-> {"aigov", "v1.12.0"}]

ActiveVersion == "v1.13.1"

\* Mutant: even the current scope may choose its version.
ScopeVersionsNamed(doc, tree) == doc.paths \cap Versions

\* Mutant: a scope that is not current is taken for one of an earlier version.
ScopeVersionsPast(doc, tree) ==
  IF doc.package = tree.current THEN {ActiveVersion}
  ELSE (doc.paths \cap Versions) \ {ActiveVersion}

\* A protocol scope is held to the active version while it is current, and
\* later to the one version its own paths name.
ScopeVersions(doc, tree) ==
  IF doc.package = tree.current THEN {ActiveVersion} ELSE doc.paths \cap Versions

ScopePolicies(doc, tree) ==
  IF doc.class = "planning_infrastructure" THEN {PlanningPolicy}
  ELSE LET versions == ScopeVersions(doc, tree) IN
       IF Cardinality(versions) = 1 THEN {ProtocolPolicy(v) : v \in versions} ELSE {}

-----------------------------------------------------------------------------
(* planning_governance_artifacts.py, planning_governance_repository.py.    *)

\* validate_scope asks the package the document names for its scope_ref.
ScopeHolds(doc, ref, tree) ==
  /\ Owner[doc.package] = doc.task
  /\ tree.packages[doc.package].scope = ref
  /\ \E policy \in ScopePolicies(doc, tree) :
       /\ doc.paths \subseteq policy.allowed
       /\ policy.excluded \subseteq doc.excludes
  /\ doc.paths \cap doc.excludes = {}

\* validate_impact, for the package with the given status that lists it.
ImpactHolds(doc, ref, scope, status, latest, tree) ==
  /\ doc.package = scope.package /\ doc.task = scope.task /\ doc.base = scope.base
  /\ ref \in Listed(tree.packages[doc.package])
  /\ Owner[doc.package] = doc.task
  /\ doc.paths = scope.paths
  /\ IF latest /\ status \in PostMergeStates
     THEN doc.claimed /\ doc.complete
     ELSE ~doc.claimed /\ ~doc.complete

Latest(k) == k.impacts[Len(k.impacts)]

ImpactsHold(k, scope, tree) ==
  \A i \in DOMAIN k.impacts :
    LET doc == tree.impacts[k.impacts[i]] IN
    /\ doc # None
    /\ doc.sequence = i
    /\ doc.previous = IF i = 1 THEN None ELSE k.impacts[i - 1]
    /\ ImpactHolds(doc, k.impacts[i], scope, k.status, i = Len(k.impacts), tree)

\* Mutant: the head that was validated may differ from the one merged.
EvidenceChainHoldsHeadless(k, scope, tree) ==
  LET records == k.evidence \cap tree.records
      posts == OfType(records, "post_merge_verification") IN
  /\ \A r \in records : r.base = scope.base /\ r.scope = k.scope /\ r.impact \in Listed(k)
  /\ \A r, s \in records : r.type = s.type => r = s
  /\ \A x \in OfType(records, "merge"), r \in posts : r.merge = x.merge
  /\ \A r \in posts : r.impact = Latest(k)

\* The evidence of one package tells one history: one record of each type, one
\* base, one head, one merge commit, verified against the last impact.
EvidenceChainHolds(k, scope, tree) ==
  LET records == k.evidence \cap tree.records
      posts == OfType(records, "post_merge_verification") IN
  /\ \A r \in records : r.base = scope.base /\ r.scope = k.scope /\ r.impact \in Listed(k)
  /\ \A r, s \in records : r.type = s.type => r = s
  /\ \A x \in OfType(records, "exact_head_ci"), r \in records : r.head = x.head
  /\ \A x \in OfType(records, "merge"), r \in posts : r.merge = x.merge
  /\ \A r \in posts : r.impact = Latest(k)

ArtifactsHold(tree) ==
  /\ \A p \in Packages :
       LET k == tree.packages[p] scope == tree.scopes[k.scope] IN
       /\ scope # None /\ ScopeHolds(scope, k.scope, tree)
       /\ ImpactsHold(k, scope, tree)
       /\ k.impacts # <<>> => EvidenceChainHolds(k, scope, tree)
  /\ tree.packages[tree.current].impacts # <<>>

FullyEligible(t, tree) ==
  /\ Eligible(t, tree)
  /\ \A p \in Owned(t) :
       LET k == tree.packages[p] IN
       /\ tree.scopes[k.scope] # None /\ k.impacts # <<>>
       /\ tree.impacts[Latest(k)].claimed /\ tree.impacts[Latest(k)].complete

CompletionHolds(tree) ==
  \A t \in Tasks :
    /\ tree.tasks[t].status = "complete" => FullyEligible(t, tree)
    /\ RequiresDependencies(tree.tasks[t]) =>
         \A d \in tree.tasks[t].needs : FullyEligible(d, tree)

Snapshot(tree) ==
  LET k == tree.packages[tree.current] IN
  [current |-> tree.current, task |-> tree.tasks[Owner[tree.current]].status,
   status |-> k.status, scope |-> tree.scopes[k.scope]]

TreeAccepted(tree) ==
  /\ tree.board = Snapshot(tree)
  /\ RegistryHolds(tree)
  /\ ArtifactsHold(tree)
  /\ CompletionHolds(tree)

-----------------------------------------------------------------------------
(* planning_governance_git.py: the tree against the base of the pull       *)
(* request.  Paths renamed, copied or deleted count as changed.            *)

DiffAccepted(tree, base, changed) ==
  LET scope == tree.scopes[tree.packages[tree.current].scope] IN
  /\ scope # None
  /\ scope.base = base
  /\ changed = scope.paths
  /\ changed \cap scope.excludes = {}
  /\ \E policy \in ScopePolicies(scope, tree) : changed \subseteq policy.allowed

-----------------------------------------------------------------------------
(* The editor: any pull request, made of edits to the documents.           *)

\* The commit a pull request opened now would be based on.
Tip == Len(log) + 1

\* Package p becomes the current one, with a new scope; its impacts follow.
Submitted(tree, p, s, base) ==
  LET k == tree.packages[p] IN
  [tree EXCEPT
     !.current = p,
     !.scopes[k.scope] = [package |-> p, task |-> Owner[p], base |-> base,
                          class |-> s.class, excludes |-> s.excludes, paths |-> s.paths],
     !.impacts = [ref \in ImpactRefs |->
        IF ref \in Listed(k) /\ tree.impacts[ref] # None
        THEN [tree.impacts[ref] EXCEPT !.base = base, !.paths = s.paths]
        ELSE tree.impacts[ref]]]

\* The head reviewed in a pull request is the merged one, or one before it
\* that was validated while the pull request was still open.
DraftHead(commit) == 2 * commit - 1
MergedHead(commit) == 2 * commit

Recorded(tree, p, type, commit, head) ==
  [type |-> type, task |-> Owner[p], package |-> p, base |-> commit - 1, head |-> head,
   merge |-> IF type = "exact_head_ci" THEN None ELSE commit,
   scope |-> tree.packages[p].scope, impact |-> Latest(tree.packages[p])]

\* What can be said of package p with records of that change.
Reports(tree, p, types, commit) ==
  {{Recorded(tree, p, e, commit, IF e = "exact_head_ci" THEN head ELSE MergedHead(commit)) :
      e \in types} : head \in {DraftHead(commit), MergedHead(commit)}}

\* A change that is still open has no merge to speak of.
Citable(types) == {c \in 2..(Tip + 1) : c = Tip + 1 => types \subseteq {"exact_head_ci"}}

Init ==
  /\ main \in Plans /\ TreeAccepted(main)
  /\ log = <<>>
  /\ pr = None
  /\ edits = 0

Open ==
  /\ pr = None /\ Len(log) < MaxMerges
  /\ \E p \in Packages, s \in Submissions :
       pr' = [tree |-> Submitted(main, p, s, Tip), changed |-> s.paths]
  /\ UNCHANGED <<main, log, edits>>

Counted ==
  /\ edits < MaxEdits
  /\ edits' = edits + 1
  /\ UNCHANGED <<main, log>>

Edit(tree) == Counted /\ pr' = [pr EXCEPT !.tree = tree]

\* More or less is changed than the scope says.
Deviate ==
  /\ pr # None /\ Counted
  /\ \E s \in Submissions :
       s.paths # pr.changed /\ pr' = [pr EXCEPT !.changed = s.paths]

\* A scope is given another base, and with it the impacts under it.
Rebase ==
  /\ pr # None
  /\ \E p \in Packages, base \in 0..Tip :
       LET tree == pr.tree k == tree.packages[p] scope == tree.scopes[k.scope] IN
       /\ scope # None /\ scope.base # base
       /\ Edit([tree EXCEPT
            !.scopes[k.scope].base = base,
            !.impacts = [ref \in ImpactRefs |->
               IF ref \in Listed(k) /\ tree.impacts[ref] # None
               THEN [tree.impacts[ref] EXCEPT !.base = base] ELSE tree.impacts[ref]]])

\* The status of a package, with evidence from a change and what the last impact claims.
Advance ==
  /\ pr # None
  /\ \E p \in Packages, claim \in Claims :
       LET tree == pr.tree k == tree.packages[p] IN
       /\ k.impacts # <<>> /\ tree.impacts[Latest(k)] # None
       /\ \E c \in Citable(claim[2]) : \E new \in Reports(tree, p, claim[2], c) :
            Edit([tree EXCEPT
              !.packages[p] = [k EXCEPT !.status = claim[1], !.evidence = k.evidence \cup new],
              !.records = @ \cup new,
              !.impacts[Latest(k)] =
                [tree.impacts[Latest(k)] EXCEPT !.claimed = claim[3], !.complete = claim[3]]])

\* A record that is registered already is cited once more.
Cite ==
  /\ pr # None
  /\ \E p \in Packages : \E r \in pr.tree.records \ pr.tree.packages[p].evidence :
       Edit([pr.tree EXCEPT !.packages[p].evidence = @ \cup {r}])

\* Mutant: the sequence skips a number.
AddImpactPast ==
  /\ pr # None
  /\ \E p \in Packages :
       LET tree == pr.tree k == tree.packages[p] n == Len(k.impacts) + 1
           scope == tree.scopes[k.scope] IN
       /\ n <= MaxImpacts /\ scope # None
       /\ \E previous \in {None} \cup Listed(k) :
            Edit([tree EXCEPT
              !.packages[p].impacts = Append(@, <<p, n>>),
              !.impacts[<<p, n>>] =
                 [package |-> p, task |-> Owner[p], base |-> scope.base, paths |-> scope.paths,
                  sequence |-> n + 1, previous |-> previous, claimed |-> FALSE, complete |-> FALSE]])

AddImpact ==
  /\ pr # None
  /\ \E p \in Packages :
       LET tree == pr.tree k == tree.packages[p] n == Len(k.impacts) + 1
           scope == tree.scopes[k.scope] IN
       /\ n <= MaxImpacts /\ scope # None
       /\ \E previous \in {None} \cup Listed(k) :
            Edit([tree EXCEPT
              !.packages[p].impacts = Append(@, <<p, n>>),
              !.impacts[<<p, n>>] =
                 [package |-> p, task |-> Owner[p], base |-> scope.base, paths |-> scope.paths,
                  sequence |-> n, previous |-> previous, claimed |-> FALSE, complete |-> FALSE]])

\* Another package is declared the current one, without a scope for this change.
Select ==
  /\ pr # None
  /\ \E p \in Packages \ {pr.tree.current} : Edit([pr.tree EXCEPT !.current = p])

\* A package is pointed at the documents of another one.
Borrow ==
  /\ pr # None
  /\ \E p, q \in Packages :
       /\ pr.tree.packages[p].scope # pr.tree.packages[q].scope
       /\ Edit([pr.tree EXCEPT !.packages[p].scope = pr.tree.packages[q].scope,
                               !.packages[p].impacts = pr.tree.packages[q].impacts])

Authorize ==
  /\ pr # None
  /\ \E t \in Tasks, status \in Decisions :
       Edit([pr.tree EXCEPT !.tasks[t].status = status,
                            !.tasks[t].authorized = status \in Authorizing,
                            !.tasks[t].claimed = FALSE])

\* A task is declared complete with the evidence of some of its packages.
Complete ==
  /\ pr # None
  /\ \E t \in Tasks : \E own \in SUBSET Owned(t) :
       Edit([pr.tree EXCEPT
         !.tasks[t].status = "complete",
         !.tasks[t].claimed = TRUE,
         !.tasks[t].evidence =
            UNION {OfType(pr.tree.packages[p].evidence, "post_merge_verification") : p \in own}])

Depend ==
  /\ pr # None
  /\ \/ \E t, u \in Tasks :
          /\ u \notin pr.tree.tasks[t].needs
          /\ Edit([pr.tree EXCEPT !.tasks[t].needs = @ \cup {u}])
     \/ \E p, q \in Packages :
          /\ q \notin pr.tree.packages[p].needs
          /\ Edit([pr.tree EXCEPT !.packages[p].needs = @ \cup {q}])

\* The last commit may bring the dashboard and the plan up to date; when the
\* checks pass, the owner merges.
Merge ==
  /\ pr # None
  /\ \E board \in {pr.tree.board, Snapshot(pr.tree)} :
       LET tree == [pr.tree EXCEPT !.board = board] IN
       /\ TreeAccepted(tree) /\ DiffAccepted(tree, Tip, pr.changed)
       /\ main' = tree
  /\ LET scope == pr.tree.scopes[pr.tree.packages[pr.tree.current].scope] IN
     log' = Append(log, [own |-> scope.package = pr.tree.current, class |-> scope.class,
                         paths |-> pr.changed])
  /\ pr' = None
  /\ UNCHANGED edits

Close ==
  /\ pr # None
  /\ pr' = None
  /\ UNCHANGED <<main, log, edits>>

Editor == Open \/ Deviate \/ Rebase \/ Select \/ Advance \/ Cite \/ AddImpact \/ Borrow
            \/ Authorize \/ Complete \/ Depend
Next == Editor \/ Merge \/ Close

Spec == Init /\ [][Next]_vars

-----------------------------------------------------------------------------
(* What the merged trees promise.                                          *)

TypeOK ==
  /\ main \in Tree
  /\ log \in Seq([own : BOOLEAN, class : Classes, paths : SUBSET Paths])
  /\ Len(log) <= MaxMerges
  /\ pr = None \/ pr \in [tree : Tree, changed : SUBSET Paths]
  /\ edits \in 0..MaxEdits

\* The evidence of a package that is through: of one change, in all three
\* steps, the last of which verified an impact that claims completion.
Finished(p) ==
  LET k == main.packages[p] IN
  \E x, m, v \in k.evidence :
    /\ k.evidence = {x, m, v}
    /\ x.type = "exact_head_ci" /\ m.type = "merge" /\ v.type = "post_merge_verification"
    /\ \A r \in k.evidence : /\ r.package = p /\ r.head = x.head
                             /\ r.base = main.scopes[k.scope].base
    /\ m.merge = v.merge
    /\ main.impacts[v.impact].claimed /\ v.impact = Latest(k)

\* A set of tasks that need nothing but each other and are done.
Done(S) ==
  \A u \in S : /\ main.tasks[u].needs \subseteq S
               /\ main.tasks[u].status = "complete"
               /\ Owned(u) # {} /\ \A p \in Owned(u) : Finished(p)

Grounded(t) == \E S \in SUBSET Tasks : t \in S /\ Done(S)

\* A task is complete only on top of finished work, its own and that of every
\* task it needs, directly or not.
CompletionIsGrounded ==
  \A t \in Tasks : main.tasks[t].status = "complete" => Grounded(t)

\* Work on a package begins only when its task is authorized and everything it
\* needs, directly or not, tasks and packages alike, is finished.
WorkIsUnlocked ==
  \A p \in Packages : main.packages[p].status \in ActiveStates =>
    /\ main.tasks[Owner[p]].authorized
    /\ \A t \in main.tasks[Owner[p]].needs : Grounded(t)
    /\ \E S \in SUBSET Packages :
         /\ main.packages[p].needs \subseteq S
         /\ \A q \in S : main.packages[q].needs \subseteq S /\ Finished(q)

\* Nothing is planned in a circle: no set of tasks, or of packages, in which
\* each waits for another of the set.
NoCircle(graph) ==
  \A S \in SUBSET DOMAIN graph : S # {} => \E n \in S : graph[n] \cap S = {}

NothingWaitsForItself == NoCircle(TaskGraph(main)) /\ NoCircle(PackageGraph(main))

\* Adoption of AIGOV begins after the planning foundation, in word and in work.
FoundationFirst ==
  \A t \in Adoption :
    \/ main.tasks[t].authorized
    \/ main.tasks[t].status \notin {"registered", "blocked"}
    \/ \E p \in Owned(t) : main.packages[p].status \in ActiveStates
    => Grounded(Foundation)

\* Every package has evidence of its own, of one change, in the order of the
\* lifecycle.
EvidenceIsItsOwn ==
  \A p \in Packages :
    LET e == main.packages[p].evidence IN
    /\ \A q \in Packages \ {p} : e \cap main.packages[q].evidence = {}
    /\ \A r, s \in e : r.base = s.base /\ r.head = s.head
    /\ OfType(e, "post_merge_verification") # {} => OfType(e, "merge") # {}
    /\ OfType(e, "merge") # {} => OfType(e, "exact_head_ci") # {}

\* The AIGOV baseline stays as it is; a protocol changes only by a scope for
\* protocols; and v1.12.0, the one protocol that is not of the active series, not by
\* a scope of the current package, whatever scopes were taken up before.  v1.13.0,
\* which is released as well, is not protected: it shares the policy of the active
\* v1.13.1.  The exception for borrowed scopes is real: the current package may be
\* pointed at the scope of another one, which is held to the version its paths name.
ProtectedIsUntouched ==
  \A i \in DOMAIN log :
    /\ "aigov" \notin log[i].paths
    /\ log[i].paths \cap Versions # {} => log[i].class = "protocol_authority_migration"
    /\ log[i].own => "v1.12.0" \notin log[i].paths

SoundSubmission(s) ==
  s = [class |-> "planning_infrastructure", excludes |-> PlanningPolicy.excluded,
       paths |-> {"planning"}]

\* A package with documents of its own and no evidence that binds them.
Available(p) ==
  LET k == main.packages[p] IN
  /\ k.status # "closed" /\ k.evidence = {} /\ k.impacts # <<>>
  /\ main.scopes[k.scope].package = p
  /\ \A q \in Packages \ {p} : main.packages[q].scope # k.scope

Historical(scope) ==
  scope.class = "planning_infrastructure" \/ Cardinality(scope.paths \cap Versions) = 1

\* Whether the plan can go on is decided by the current scope alone: whatever was
\* merged, a pull request that merely takes up another package, one that is available,
\* is accepted exactly when the scope of the current package is historical.  A
\* protocol scope that does not name exactly one version is accepted while its
\* package is current and never again, so that no package can follow it in this way.
AnotherMayFollow ==
  pr = None => \A p \in Packages, s \in Submissions :
    p # main.current /\ Available(p) /\ SoundSubmission(s)
    => LET moved == Submitted(main, p, s, Tip) IN
       (/\ TreeAccepted([moved EXCEPT !.board = Snapshot(moved)])
        /\ DiffAccepted(moved, Tip, s.paths))
       <=> Historical(main.scopes[main.packages[main.current].scope])
=============================================================================
