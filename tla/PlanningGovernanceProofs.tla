----------------------- MODULE PlanningGovernanceProofs -----------------------
(***************************************************************************)
(* Theorems about the planning registry, for all tasks and packages, all   *)
(* plans, any edits and any number of merged pull requests.                *)
(*                                                                         *)
(* The argument: the validator remembers nothing, so the tree on the       *)
(* default branch is always one it accepted (Governed).  What such a tree  *)
(* promises are facts about TreeAccepted.                                  *)
(***************************************************************************)
EXTENDS PlanningGovernance, TLAPS, FiniteSetTheorems

-----------------------------------------------------------------------------
(* Types.                                                                  *)

\* A pull request is open only while another one may be merged.
Room == pr # None => Len(log) < MaxMerges

Typed == TypeOK /\ Room

LEMMA RefsOfAPackage ==
  ASSUME NEW k \in Package
  PROVE  /\ Listed(k) \subseteq ImpactRefs
         /\ k.impacts # <<>> => /\ Latest(k) \in ImpactRefs /\ Latest(k) \in Listed(k)
                                /\ Len(k.impacts) \in DOMAIN k.impacts
BY DEF Package, Listed, Latest

LEMMA SnapshotTyped ==
  ASSUME NEW tree \in Tree
  PROVE  Snapshot(tree) \in Board
<1>1. tree.current \in Packages /\ Owner[tree.current] \in Tasks
  BY PlanningAssumption DEF Tree
<1>2. tree.packages[tree.current] \in Package /\ tree.tasks[Owner[tree.current]] \in Task
  BY <1>1 DEF Tree
<1>3. tree.scopes[tree.packages[tree.current].scope] \in Scope \cup {None}
  BY <1>2 DEF Tree, Package
<1> QED BY <1>1, <1>2, <1>3 DEF Snapshot, Board, Task, Package

LEMMA SubmittedTyped ==
  ASSUME NEW tree \in Tree, NEW p \in Packages, NEW s \in Submissions, NEW base \in Commits
  PROVE  Submitted(tree, p, s, base) \in Tree
<1> DEFINE k == tree.packages[p]
           scope == [package |-> p, task |-> Owner[p], base |-> base,
                     class |-> s.class, excludes |-> s.excludes, paths |-> s.paths]
           scopes == [tree.scopes EXCEPT ![k.scope] = scope]
           impacts == [ref \in ImpactRefs |->
              IF ref \in Listed(k) /\ tree.impacts[ref] # None
              THEN [tree.impacts[ref] EXCEPT !.base = base, !.paths = s.paths]
              ELSE tree.impacts[ref]]
<1>1. scope \in Scope
  BY PlanningAssumption DEF Scope
<1>2. scopes \in [ScopeRefs -> Scope \cup {None}]
  BY <1>1 DEF Tree
<1>3. impacts \in [ImpactRefs -> Impact \cup {None}]
  <2> SUFFICES ASSUME NEW ref \in ImpactRefs
               PROVE  impacts[ref] \in Impact \cup {None}
    BY Zenon
  <2>1. tree.impacts[ref] \in Impact \cup {None}
    BY DEF Tree
  <2>2. s.paths \in SUBSET Paths
    BY PlanningAssumption
  <2> QED BY <2>1, <2>2 DEF Impact
<1>4. Submitted(tree, p, s, base)
        = [tree EXCEPT !.current = p, !.scopes = scopes, !.impacts = impacts]
  BY DEF Submitted, Tree
<1> HIDE DEF scopes, impacts
<1> QED BY <1>2, <1>3, <1>4 DEF Tree

\* An edit keeps the types when the tree it makes has one.
LEMMA EditTyped ==
  ASSUME Typed, pr # None, NEW tree \in Tree, Edit(tree)
  PROVE  Typed'
BY PlanningAssumption DEF Typed, TypeOK, Room, Edit, Counted

LEMMA OpenTyped == Typed /\ Open => Typed'
<1> SUFFICES ASSUME Typed, Open PROVE Typed'
  OBVIOUS
<1>1. PICK p \in Packages, s \in Submissions :
        pr' = [tree |-> Submitted(main, p, s, Tip), changed |-> s.paths]
  BY DEF Open
<1>2. Tip \in Commits
  BY PlanningAssumption DEF Open, Tip, Commits, Typed, TypeOK
<1>3. Submitted(main, p, s, Tip) \in Tree
  BY <1>2, SubmittedTyped DEF Typed, TypeOK
<1>4. s.paths \in SUBSET Paths
  BY PlanningAssumption
<1> QED BY <1>1, <1>3, <1>4 DEF Open, Typed, TypeOK, Room

LEMMA DeviateTyped == Typed /\ Deviate => Typed'
<1> SUFFICES ASSUME Typed, Deviate PROVE Typed'
  OBVIOUS
<1>1. PICK s \in Submissions : pr' = [pr EXCEPT !.changed = s.paths]
  BY DEF Deviate
<1>2. s.paths \in SUBSET Paths
  BY PlanningAssumption
<1> QED BY <1>1, <1>2, PlanningAssumption DEF Deviate, Counted, Typed, TypeOK, Room

LEMMA RebaseTyped == Typed /\ Rebase => Typed'
<1> SUFFICES ASSUME Typed, Rebase PROVE Typed'
  OBVIOUS
<1> DEFINE tree == pr.tree
<1>1. tree \in Tree /\ pr # None
  BY DEF Rebase, Typed, TypeOK
<1>2. PICK p \in Packages, base \in 0..Tip :
        /\ tree.scopes[tree.packages[p].scope] # None
        /\ Edit([tree EXCEPT
             !.scopes[tree.packages[p].scope].base = base,
             !.impacts = [ref \in ImpactRefs |->
                IF ref \in Listed(tree.packages[p]) /\ tree.impacts[ref] # None
                THEN [tree.impacts[ref] EXCEPT !.base = base] ELSE tree.impacts[ref]]])
  BY Zenon DEF Rebase
<1> DEFINE k == tree.packages[p]
           scopes == [tree.scopes EXCEPT ![k.scope] = [@ EXCEPT !.base = base]]
           impacts == [ref \in ImpactRefs |->
                IF ref \in Listed(k) /\ tree.impacts[ref] # None
                THEN [tree.impacts[ref] EXCEPT !.base = base] ELSE tree.impacts[ref]]
<1>3. base \in Commits
  BY PlanningAssumption, <1>1 DEF Tip, Commits, Typed, TypeOK, Room
<1>4. scopes \in [ScopeRefs -> Scope \cup {None}]
  <2>1. k.scope \in ScopeRefs /\ tree.scopes[k.scope] \in Scope
    BY <1>1, <1>2 DEF Tree, Package
  <2>2. [tree.scopes[k.scope] EXCEPT !.base = base] \in Scope
    BY Zenon, <2>1, <1>3 DEF Scope
  <2> QED BY SMTT(30), <2>1, <2>2, <1>1 DEF Tree
<1>5. impacts \in [ImpactRefs -> Impact \cup {None}]
  <2> SUFFICES ASSUME NEW ref \in ImpactRefs
               PROVE  impacts[ref] \in Impact \cup {None}
    OBVIOUS
  <2>1. tree.impacts[ref] \in Impact \cup {None}
    BY <1>1 DEF Tree
  <2> QED BY <2>1, <1>3 DEF Impact
<1>6. Edit([tree EXCEPT !.scopes = scopes, !.impacts = impacts])
  BY <1>1, <1>2 DEF Tree
<1> HIDE DEF scopes, impacts, tree
<1>7. [tree EXCEPT !.scopes = scopes, !.impacts = impacts] \in Tree
  BY <1>1, <1>4, <1>5 DEF Tree
<1> QED BY <1>1, <1>6, <1>7, EditTyped

\* What is reported of a change that was made, or is being made, is a record.
LEMMA ReportsTyped ==
  ASSUME Typed, pr # None, NEW p \in Packages, NEW types \in SUBSET EvidenceTypes,
         pr.tree.packages[p].impacts # <<>>,
         NEW c \in Citable(types), NEW new \in Reports(pr.tree, p, types, c)
  PROVE  new \in SUBSET Record
<1>1. pr.tree.packages[p] \in Package
  BY DEF Typed, TypeOK, Tree
<1>2. Latest(pr.tree.packages[p]) \in ImpactRefs /\ pr.tree.packages[p].scope \in ScopeRefs
  BY <1>1, RefsOfAPackage DEF Package
<1>3. c \in Nat /\ c >= 2 /\ c <= MaxMerges + 1
  BY PlanningAssumption DEF Citable, Tip, Typed, TypeOK, Room
<1>4. /\ c \in Commits /\ c - 1 \in Commits
      /\ DraftHead(c) \in Heads /\ MergedHead(c) \in Heads
  BY <1>3, PlanningAssumption DEF Commits, Heads, DraftHead, MergedHead
<1>5. \A e \in types : \A head \in {DraftHead(c), MergedHead(c)} :
        Recorded(pr.tree, p, e, c, head) \in Record
  BY <1>2, <1>4, PlanningAssumption DEF Recorded, Record
<1>6. PICK head \in {DraftHead(c), MergedHead(c)} :
        new = {Recorded(pr.tree, p, e, c, IF e = "exact_head_ci" THEN head ELSE MergedHead(c)) :
                 e \in types}
  BY DEF Reports
<1> QED BY <1>5, <1>6

LEMMA AdvanceTyped == Typed /\ Advance => Typed'
<1> SUFFICES ASSUME Typed, Advance PROVE Typed'
  OBVIOUS
<1> DEFINE tree == pr.tree
           k(p) == tree.packages[p]
           NewPackage(p, claim, new) ==
             [k(p) EXCEPT !.status = claim[1], !.evidence = k(p).evidence \cup new]
           NewImpact(p, claim) ==
             [tree.impacts[Latest(k(p))] EXCEPT !.claimed = claim[3], !.complete = claim[3]]
           Edited(p, claim, new) ==
             [tree EXCEPT !.packages[p] = NewPackage(p, claim, new),
                          !.records = @ \cup new,
                          !.impacts[Latest(k(p))] = NewImpact(p, claim)]
<1>1. tree \in Tree /\ pr # None
  BY DEF Advance, Typed, TypeOK
<1>2. PICK p \in Packages, claim \in Claims :
        /\ k(p).impacts # <<>> /\ tree.impacts[Latest(k(p))] # None
        /\ \E c \in Citable(claim[2]) : \E new \in Reports(tree, p, claim[2], c) :
             Edit(Edited(p, claim, new))
  BY Zenon DEF Advance
<1>3. claim[1] \in PackageStates /\ claim[2] \in SUBSET EvidenceTypes /\ claim[3] \in BOOLEAN
  BY PlanningAssumption
<1>4. PICK c \in Citable(claim[2]) : \E new \in Reports(tree, p, claim[2], c) :
        Edit(Edited(p, claim, new))
  BY Zenon, <1>2
<1>5. PICK new \in Reports(tree, p, claim[2], c) : Edit(Edited(p, claim, new))
  BY Zenon, <1>4
<1>6. new \in SUBSET Record
  BY <1>1, <1>2, <1>3, ReportsTyped
<1>7. k(p) \in Package /\ Latest(k(p)) \in ImpactRefs
  BY <1>1, <1>2, RefsOfAPackage DEF Tree
<1>8. NewPackage(p, claim, new) \in Package
  BY <1>3, <1>6, <1>7 DEF Package
<1>9. NewImpact(p, claim) \in Impact
  <2>1. tree.impacts[Latest(k(p))] \in Impact
    BY <1>1, <1>2, <1>7 DEF Tree
  <2> QED BY <2>1, <1>3 DEF Impact
<1> HIDE DEF tree, k, NewPackage, NewImpact
<1>10. Edited(p, claim, new) \in Tree
  BY <1>1, <1>6, <1>7, <1>8, <1>9 DEF Tree
<1> QED BY <1>1, <1>5, <1>10, EditTyped

\* Edits of one package, and of one task.
LEMMA PackageEdited ==
  ASSUME NEW tree \in Tree, NEW p \in Packages, NEW k \in Package
  PROVE  [tree EXCEPT !.packages[p] = k] \in Tree
BY DEF Tree

LEMMA TaskEdited ==
  ASSUME NEW tree \in Tree, NEW t \in Tasks, NEW task \in Task
  PROVE  [tree EXCEPT !.tasks[t] = task] \in Tree
BY DEF Tree

LEMMA CiteTyped == Typed /\ Cite => Typed'
<1> SUFFICES ASSUME Typed, Cite PROVE Typed'
  OBVIOUS
<1> DEFINE tree == pr.tree
<1>1. tree \in Tree /\ pr # None
  BY DEF Cite, Typed, TypeOK
<1>2. PICK p \in Packages, r \in tree.records :
        Edit([tree EXCEPT !.packages[p].evidence = @ \cup {r}])
  BY DEF Cite
<1> DEFINE k == [tree.packages[p] EXCEPT !.evidence = @ \cup {r}]
<1>3. k \in Package
  <2>1. tree.packages[p] \in Package /\ r \in Record
    BY <1>1 DEF Tree
  <2> QED BY <2>1 DEF Package
<1>4. [tree EXCEPT !.packages[p].evidence = @ \cup {r}] = [tree EXCEPT !.packages[p] = k]
  BY <1>1 DEF Tree
<1> HIDE DEF tree, k
<1> QED BY <1>1, <1>2, <1>3, <1>4, EditTyped, PackageEdited

LEMMA AddImpactTyped == Typed /\ AddImpact => Typed'
<1> SUFFICES ASSUME Typed, AddImpact PROVE Typed'
  OBVIOUS
<1> DEFINE tree == pr.tree
           Number(p) == Len(tree.packages[p].impacts) + 1
           Base(p) == tree.scopes[tree.packages[p].scope]
           Document(p, previous) ==
             [package |-> p, task |-> Owner[p], base |-> Base(p).base, paths |-> Base(p).paths,
              sequence |-> Number(p), previous |-> previous,
              claimed |-> FALSE, complete |-> FALSE]
<1>1. tree \in Tree /\ pr # None
  BY DEF AddImpact, Typed, TypeOK
<1>2. PICK p \in Packages :
        /\ Number(p) <= MaxImpacts /\ Base(p) # None
        /\ \E previous \in {None} \cup Listed(tree.packages[p]) :
             Edit([tree EXCEPT !.packages[p].impacts = Append(@, <<p, Number(p)>>),
                               !.impacts[<<p, Number(p)>>] = Document(p, previous)])
  BY Zenon DEF AddImpact
<1>3. PICK previous \in {None} \cup Listed(tree.packages[p]) :
        Edit([tree EXCEPT !.packages[p].impacts = Append(@, <<p, Number(p)>>),
                          !.impacts[<<p, Number(p)>>] = Document(p, previous)])
  BY Zenon, <1>2
<1> DEFINE package == [tree.packages[p] EXCEPT !.impacts = Append(@, <<p, Number(p)>>)]
           packages == [tree.packages EXCEPT ![p] = package]
           impacts == [tree.impacts EXCEPT ![<<p, Number(p)>>] = Document(p, previous)]
<1>4. tree.packages[p] \in Package
  BY <1>1 DEF Tree
<1>5. Number(p) \in 1..MaxImpacts
  <2>1. Len(tree.packages[p].impacts) \in Nat
    BY <1>4 DEF Package
  <2>2. MaxImpacts \in Nat
    BY PlanningAssumption
  <2>3. Number(p) <= MaxImpacts
    BY <1>2
  <2>4. Number(p) \in Nat /\ Number(p) >= 1
    BY SMTT(30), <2>1
  <2> HIDE DEF Number
  <2> QED BY <2>2, <2>3, <2>4
<1>6. <<p, Number(p)>> \in ImpactRefs
  BY <1>5 DEF ImpactRefs
<1>7. package \in Package
  <2>1. Append(tree.packages[p].impacts, <<p, Number(p)>>) \in Seq(ImpactRefs)
    BY <1>4, <1>6 DEF Package
  <2> HIDE DEF Number
  <2> QED BY <2>1, <1>4 DEF Package
<1>8. Base(p) \in Scope
  BY SMTT(30), <1>1, <1>2, <1>4 DEF Tree, Package
<1>9. previous \in ImpactRefs \cup {None}
  BY <1>4, RefsOfAPackage
<1>10. Document(p, previous) \in Impact
  BY <1>5, <1>8, <1>9, PlanningAssumption DEF Impact, Scope
<1>11. packages \in [Packages -> Package] /\ impacts \in [ImpactRefs -> Impact \cup {None}]
  BY SMTT(30), <1>1, <1>6, <1>7, <1>10 DEF Tree
<1>12. Edit([tree EXCEPT !.packages = packages, !.impacts = impacts])
  <2>1. [tree EXCEPT !.packages[p].impacts = Append(@, <<p, Number(p)>>),
                     !.impacts[<<p, Number(p)>>] = Document(p, previous)]
         = [tree EXCEPT !.packages = packages, !.impacts = impacts]
    BY <1>1 DEF Tree
  <2> QED BY Zenon, <1>3, <2>1
<1> HIDE DEF tree, packages, impacts
<1>13. [tree EXCEPT !.packages = packages, !.impacts = impacts] \in Tree
  BY <1>1, <1>11 DEF Tree
<1> QED BY <1>1, <1>12, <1>13, EditTyped

LEMMA SelectTyped == Typed /\ Select => Typed'
<1> SUFFICES ASSUME Typed, Select PROVE Typed'
  OBVIOUS
<1>1. pr.tree \in Tree /\ pr # None
  BY DEF Select, Typed, TypeOK
<1>2. PICK p \in Packages : Edit([pr.tree EXCEPT !.current = p])
  BY DEF Select
<1>3. [pr.tree EXCEPT !.current = p] \in Tree
  BY <1>1 DEF Tree
<1> QED BY <1>1, <1>2, <1>3, EditTyped

LEMMA BorrowTyped == Typed /\ Borrow => Typed'
<1> SUFFICES ASSUME Typed, Borrow PROVE Typed'
  OBVIOUS
<1> DEFINE tree == pr.tree
<1>1. tree \in Tree /\ pr # None
  BY DEF Borrow, Typed, TypeOK
<1>2. PICK p \in Packages, q \in Packages :
        Edit([tree EXCEPT !.packages[p].scope = tree.packages[q].scope,
                          !.packages[p].impacts = tree.packages[q].impacts])
  BY Zenon DEF Borrow
<1> DEFINE k == [tree.packages[p] EXCEPT !.scope = tree.packages[q].scope,
                                         !.impacts = tree.packages[q].impacts]
<1>3. k \in Package
  <2>1. tree.packages[p] \in Package /\ tree.packages[q] \in Package
    BY <1>1 DEF Tree
  <2> QED BY <2>1 DEF Package
<1>4. [tree EXCEPT !.packages[p].scope = tree.packages[q].scope,
                   !.packages[p].impacts = tree.packages[q].impacts]
       = [tree EXCEPT !.packages[p] = k]
  BY <1>1 DEF Tree
<1> HIDE DEF tree, k
<1> QED BY <1>1, <1>2, <1>3, <1>4, EditTyped, PackageEdited

LEMMA AuthorizeTyped == Typed /\ Authorize => Typed'
<1> SUFFICES ASSUME Typed, Authorize PROVE Typed'
  OBVIOUS
<1> DEFINE tree == pr.tree
<1>1. tree \in Tree /\ pr # None
  BY DEF Authorize, Typed, TypeOK
<1>2. PICK t \in Tasks, status \in Decisions :
        Edit([tree EXCEPT !.tasks[t].status = status,
                          !.tasks[t].authorized = status \in Authorizing,
                          !.tasks[t].claimed = FALSE])
  BY Zenon DEF Authorize
<1> DEFINE task == [tree.tasks[t] EXCEPT !.status = status,
                       !.authorized = status \in Authorizing, !.claimed = FALSE]
<1>3. status \in TaskStates /\ (status \in Authorizing) \in BOOLEAN
  BY PlanningAssumption
<1>4. task \in Task
  <2>1. tree.tasks[t] \in Task
    BY <1>1 DEF Tree
  <2> QED BY <2>1, <1>3 DEF Task
<1>5. [tree EXCEPT !.tasks[t].status = status,
                   !.tasks[t].authorized = status \in Authorizing,
                   !.tasks[t].claimed = FALSE]
       = [tree EXCEPT !.tasks[t] = task]
  BY ZenonT(30), <1>1 DEF Tree
<1> HIDE DEF tree, task
<1> QED BY <1>1, <1>2, <1>4, <1>5, EditTyped, TaskEdited

LEMMA CompleteTyped == Typed /\ Complete => Typed'
<1> SUFFICES ASSUME Typed, Complete PROVE Typed'
  OBVIOUS
<1> DEFINE tree == pr.tree
           posts(own) == UNION {OfType(tree.packages[p].evidence, "post_merge_verification") :
                                  p \in own}
<1>1. tree \in Tree /\ pr # None
  BY DEF Complete, Typed, TypeOK
<1>2. PICK t \in Tasks : \E own \in SUBSET Owned(t) :
        Edit([tree EXCEPT !.tasks[t].status = "complete",
                          !.tasks[t].claimed = TRUE,
                          !.tasks[t].evidence = posts(own)])
  BY Zenon DEF Complete
<1>6. PICK own \in SUBSET Owned(t) :
        Edit([tree EXCEPT !.tasks[t].status = "complete",
                          !.tasks[t].claimed = TRUE,
                          !.tasks[t].evidence = posts(own)])
  BY Zenon, <1>2
<1>3. posts(own) \in SUBSET Record
  <2> SUFFICES ASSUME NEW p \in own
               PROVE  OfType(tree.packages[p].evidence, "post_merge_verification") \subseteq Record
    OBVIOUS
  <2>1. tree.packages[p] \in Package
    BY <1>1 DEF Owned, Tree
  <2> QED BY <2>1 DEF Package, OfType
<1> DEFINE task == [tree.tasks[t] EXCEPT !.status = "complete", !.claimed = TRUE,
                                         !.evidence = posts(own)]
<1> HIDE DEF posts
<1>4. task \in Task
  <2>1. tree.tasks[t] \in Task
    BY <1>1 DEF Tree
  <2> QED BY <2>1, <1>3 DEF Task, TaskStates
<1>5. [tree EXCEPT !.tasks[t].status = "complete",
                   !.tasks[t].claimed = TRUE,
                   !.tasks[t].evidence = posts(own)]
       = [tree EXCEPT !.tasks[t] = task]
  BY <1>1 DEF Tree
<1> HIDE DEF tree, task
<1> QED BY <1>1, <1>6, <1>4, <1>5, EditTyped, TaskEdited

LEMMA DependTyped == Typed /\ Depend => Typed'
<1> SUFFICES ASSUME Typed, Depend PROVE Typed'
  OBVIOUS
<1> DEFINE tree == pr.tree
<1>1. tree \in Tree /\ pr # None
  BY DEF Depend, Typed, TypeOK
<1>2. CASE \E t, u \in Tasks : Edit([tree EXCEPT !.tasks[t].needs = @ \cup {u}])
  <2>1. PICK t \in Tasks, u \in Tasks : Edit([tree EXCEPT !.tasks[t].needs = @ \cup {u}])
    BY <1>2
  <2> DEFINE task == [tree.tasks[t] EXCEPT !.needs = @ \cup {u}]
  <2>2. task \in Task
    BY <1>1 DEF Tree, Task
  <2>3. [tree EXCEPT !.tasks[t].needs = @ \cup {u}] = [tree EXCEPT !.tasks[t] = task]
    BY <1>1 DEF Tree
  <2> HIDE DEF tree, task
  <2> QED BY <1>1, <2>1, <2>2, <2>3, EditTyped, TaskEdited
<1>3. CASE \E p, q \in Packages : Edit([tree EXCEPT !.packages[p].needs = @ \cup {q}])
  <2>1. PICK p \in Packages, q \in Packages : Edit([tree EXCEPT !.packages[p].needs = @ \cup {q}])
    BY <1>3
  <2> DEFINE k == [tree.packages[p] EXCEPT !.needs = @ \cup {q}]
  <2>2. k \in Package
    <3>1. tree.packages[p] \in Package
      BY <1>1 DEF Tree
    <3> QED BY <3>1 DEF Package
  <2>3. [tree EXCEPT !.packages[p].needs = @ \cup {q}] = [tree EXCEPT !.packages[p] = k]
    BY <1>1 DEF Tree
  <2> HIDE DEF tree, k
  <2> QED BY <1>1, <2>1, <2>2, <2>3, EditTyped, PackageEdited
<1> QED BY <1>2, <1>3 DEF Depend

\* A merged tree is the one of the pull request, with another board perhaps.
LEMMA MergedTree ==
  ASSUME Typed, Merge
  PROVE  /\ main' \in Tree /\ TreeAccepted(main')
         /\ DiffAccepted(main', Tip, pr.changed)
         /\ main'.scopes = pr.tree.scopes /\ main'.packages = pr.tree.packages
         /\ main'.current = pr.tree.current
<1>1. pr.tree \in Tree
  BY SMTT(30) DEF Merge, Typed, TypeOK
<1>2. PICK board \in {pr.tree.board, Snapshot(pr.tree)} :
        LET tree == [pr.tree EXCEPT !.board = board] IN
        /\ TreeAccepted(tree) /\ DiffAccepted(tree, Tip, pr.changed)
        /\ main' = tree
  BY ZenonT(30) DEF Merge
<1>3. board \in Board
  BY <1>1, <1>2, SnapshotTyped DEF Tree
<1> QED BY <1>1, <1>2, <1>3 DEF Tree

LEMMA MergeTyped == Typed /\ Merge => Typed'
<1> SUFFICES ASSUME Typed, Merge PROVE Typed'
  OBVIOUS
<1>1. main' \in Tree
  BY MergedTree
<1> DEFINE scope == pr.tree.scopes[pr.tree.packages[pr.tree.current].scope]
           entry == [own |-> scope.package = pr.tree.current, class |-> scope.class,
                     paths |-> pr.changed]
<1>2. scope \in Scope
  <2>1. scope # None
    BY SMTT(30), MergedTree DEF DiffAccepted
  <2>2. pr.tree.current \in Packages /\ pr.tree \in Tree
    BY DEF Merge, Typed, TypeOK, Tree
  <2> QED BY <2>1, <2>2 DEF Tree, Package
<1>3. pr.changed \in SUBSET Paths
  BY DEF Merge, Typed, TypeOK
<1>4. entry \in [own : BOOLEAN, class : Classes, paths : SUBSET Paths]
  BY <1>2, <1>3 DEF Scope
<1>5. log' = Append(log, entry) /\ pr' = None /\ edits' = edits
  BY DEF Merge
<1>6. Len(log) < MaxMerges
  BY DEF Merge, Typed, Room
<1> HIDE DEF entry
<1> QED BY <1>1, <1>4, <1>5, <1>6, PlanningAssumption DEF Typed, TypeOK, Room

LEMMA TypedIsInductive == Typed /\ [Next]_vars => Typed'
<1> SUFFICES ASSUME Typed, [Next]_vars PROVE Typed'
  OBVIOUS
<1>1. CASE Editor
  BY <1>1, OpenTyped, DeviateTyped, RebaseTyped, SelectTyped, AdvanceTyped, CiteTyped,
     AddImpactTyped, BorrowTyped, AuthorizeTyped, CompleteTyped, DependTyped DEF Editor
<1>2. CASE Merge
  BY <1>2, MergeTyped
<1>3. CASE Close
  BY <1>3 DEF Close, Typed, TypeOK, Room
<1>4. CASE UNCHANGED vars
  BY <1>4 DEF vars, Typed, TypeOK, Room
<1> QED BY <1>1, <1>2, <1>3, <1>4 DEF Next

LEMMA InitTyped == Init => Typed
BY PlanningAssumption DEF Init, Typed, TypeOK, Room

\* The registry on the default branch, the log of merges and the open pull request
\* always have their types (TypeOK), whatever is edited.
THEOREM TypesHold == Spec => []TypeOK
<1>1. Typed => TypeOK
  BY DEF Typed
<1> QED BY <1>1, InitTyped, TypedIsInductive, PTL DEF Spec

-----------------------------------------------------------------------------
(* The tree on the default branch is one the validator accepted.           *)

Governed == main \in Tree /\ TreeAccepted(main)

\* Whatever is edited and merged, the tree on the default branch is one the validator
\* accepts (TreeAccepted).
THEOREM MainIsAccepted == Spec => []Governed
<1>1. Init => Governed
  BY InitTyped DEF Init, Governed, Typed, TypeOK
<1>2. Typed /\ Governed /\ [Next]_vars => Governed'
  <2> SUFFICES ASSUME Typed, Governed, [Next]_vars PROVE Governed'
    OBVIOUS
  <2>1. CASE Merge
    BY <2>1, MergedTree DEF Governed
  <2>2. CASE UNCHANGED main
    BY <2>2 DEF Governed
  <2>3. CASE Editor
    <3>1. UNCHANGED main
      BY Zenon, <2>3 DEF Editor, Open, Deviate, Rebase, Select, Advance, Cite, AddImpact, Borrow,
                  Authorize, Complete, Depend, Edit, Counted
    <3> QED BY <3>1, <2>2
  <2> QED BY <2>1, <2>2, <2>3 DEF Next, Close, vars
<1> QED BY <1>1, <1>2, InitTyped, TypedIsInductive, PTL DEF Spec

-----------------------------------------------------------------------------
(* What an accepted tree promises.                                         *)

\* The evidence of a package is its own, and tells one history.
LEMMA EvidenceOfAPackage ==
  ASSUME Governed, NEW p \in Packages
  PROVE  LET k == main.packages[p] e == k.evidence scope == main.scopes[k.scope] IN
         /\ k \in Package /\ e \subseteq main.records
         /\ \A r \in e : r.package = p /\ r.type \in EvidenceTypes
         /\ \A r \in e : k.status \in Stage(r.type)
         /\ e # {} => k.impacts # <<>>
         /\ \A r \in e : r.base = scope.base
         /\ \A r, s \in e : r.type = s.type => r = s
         /\ \A x \in e, r \in e : x.type = "exact_head_ci" => r.head = x.head
         /\ \A x \in e, r \in e :
              x.type = "merge" /\ r.type = "post_merge_verification" => r.merge = x.merge
         /\ \A r \in e : r.type = "post_merge_verification" => r.impact = Latest(k)
<1> DEFINE k == main.packages[p]
           e == k.evidence
           scope == main.scopes[k.scope]
<1>1. k \in Package
  BY DEF Governed, Tree
<1>2. PackageHolds(p, main)
  BY DEF Governed, TreeAccepted, RegistryHolds
<1>3. e \subseteq main.records /\ \A r \in e : r.package = p
  BY <1>2 DEF PackageHolds
<1>4. \A r \in e : r.type \in EvidenceTypes
  BY <1>1 DEF Package, Record
<1>5. \A r \in e : k.status \in Stage(r.type)
  BY <1>2, <1>4 DEF PackageHolds, OfType
<1>6. \A type \in EvidenceTypes : Stage(type) \subseteq ImplementedStates
  BY DEF EvidenceTypes, Stage, ImplementedStates, ExactHeadStates, MergedStates
<1>7. e # {} => k.impacts # <<>>
  BY <1>2, <1>4, <1>5, <1>6 DEF PackageHolds
<1>8. e # {} => EvidenceChainHolds(k, scope, main)
  BY <1>7 DEF Governed, TreeAccepted, ArtifactsHold
<1>9. e \cap main.records = e
  BY <1>3
<1>10. /\ \A r \in e : r.base = scope.base
       /\ \A r, s \in e : r.type = s.type => r = s
       /\ \A x \in e, r \in e : x.type = "exact_head_ci" => r.head = x.head
       /\ \A x \in e, r \in e :
            x.type = "merge" /\ r.type = "post_merge_verification" => r.merge = x.merge
       /\ \A r \in e : r.type = "post_merge_verification" => r.impact = Latest(k)
  BY <1>8, <1>9 DEF EvidenceChainHolds, OfType
<1> QED BY <1>1, <1>3, <1>4, <1>5, <1>7, <1>10

\* A package beyond its merge is finished: it has all its evidence, of one change,
\* and its last impact claims completion.
LEMMA VerifiedIsFinished ==
  ASSUME Governed, NEW p \in Packages, main.packages[p].status \in PostMergeStates
  PROVE  Finished(p)
<1> DEFINE k == main.packages[p]
           e == k.evidence
           scope == main.scopes[k.scope]
<1>1. PackageHolds(p, main)
  BY DEF Governed, TreeAccepted, RegistryHolds
<1>2. \A type \in EvidenceTypes : k.status \in Stage(type)
  BY DEF EvidenceTypes, Stage, ExactHeadStates, MergedStates
<1>3. \A type \in EvidenceTypes : \E r \in e : r.type = type
  BY <1>1, <1>2 DEF PackageHolds, OfType
<1>4. PICK x \in e : x.type = "exact_head_ci"
  BY <1>3 DEF EvidenceTypes
<1>5. PICK m \in e : m.type = "merge"
  BY <1>3 DEF EvidenceTypes
<1>6. PICK v \in e : v.type = "post_merge_verification"
  BY <1>3 DEF EvidenceTypes
<1>7. e = {x, m, v}
  BY <1>4, <1>5, <1>6, EvidenceOfAPackage DEF EvidenceTypes
<1>8. /\ \A r \in e : r.package = p /\ r.head = x.head /\ r.base = scope.base
      /\ m.merge = v.merge /\ v.impact = Latest(k) /\ k.impacts # <<>>
  BY <1>4, <1>5, <1>6, EvidenceOfAPackage
<1>9. main.impacts[Latest(k)].claimed
  <2>1. Len(k.impacts) \in DOMAIN k.impacts
    BY <1>8, EvidenceOfAPackage, RefsOfAPackage
  <2>2. ImpactsHold(k, scope, main)
    BY DEF Governed, TreeAccepted, ArtifactsHold
  <2>3. ImpactHolds(main.impacts[Latest(k)], Latest(k), scope, k.status, TRUE, main)
    BY ZenonT(30), <2>1, <2>2 DEF ImpactsHold, Latest
  <2> QED BY <2>3 DEF ImpactHolds
<1> QED BY Zenon, <1>4, <1>5, <1>6, <1>7, <1>8, <1>9 DEF Finished

\* A complete task needs complete tasks, and its packages are finished.
LEMMA CompleteIsGrounded ==
  ASSUME Governed, NEW t \in Tasks, main.tasks[t].status = "complete"
  PROVE  Grounded(t)
<1> DEFINE S == {u \in Tasks : main.tasks[u].status = "complete"}
<1> SUFFICES ASSUME NEW u \in S
             PROVE  /\ main.tasks[u].needs \subseteq S
                    /\ Owned(u) # {} /\ \A p \in Owned(u) : Finished(p)
  BY DEF Grounded, Done
<1>1. main.tasks[u] \in Task /\ main.tasks[u].needs \subseteq Tasks
  BY DEF Governed, Tree, Task
<1>2. TaskHolds(u, main)
  BY DEF Governed, TreeAccepted, RegistryHolds
<1>3. \A d \in main.tasks[u].needs : Eligible(d, main)
  BY <1>2 DEF TaskHolds, RequiresDependencies, Authorizing
<1>4. main.tasks[u].needs \subseteq S
  BY <1>1, <1>3 DEF Eligible
<1>5. CompleteHolds(u, main)
  BY <1>2 DEF TaskHolds
<1>6. Owned(u) # {} /\ \A p \in Owned(u) : main.packages[p].status \in PostMergeStates
  BY <1>5 DEF CompleteHolds
<1>7. \A p \in Owned(u) : Finished(p)
  BY <1>6, VerifiedIsFinished DEF Owned
<1> QED BY <1>4, <1>6, <1>7

LEMMA GovernedIsGrounded == Governed => CompletionIsGrounded
BY CompleteIsGrounded DEF CompletionIsGrounded

\* Eligible tasks are complete ones.
LEMMA EligibleIsGrounded ==
  ASSUME Governed, NEW t \in Tasks, Eligible(t, main)
  PROVE  Grounded(t)
BY CompleteIsGrounded DEF Eligible

LEMMA GovernedIsUnlocked == Governed => WorkIsUnlocked
<1> SUFFICES ASSUME Governed, NEW p \in Packages, main.packages[p].status \in ActiveStates
             PROVE  /\ main.tasks[Owner[p]].authorized
                    /\ \A t \in main.tasks[Owner[p]].needs : Grounded(t)
                    /\ \E S \in SUBSET Packages :
                         /\ main.packages[p].needs \subseteq S
                         /\ \A q \in S : main.packages[q].needs \subseteq S /\ Finished(q)
  BY DEF WorkIsUnlocked
<1> DEFINE S == {q \in Packages : main.packages[q].status \in PostMergeStates}
<1>1. \A q \in Packages : main.packages[q].needs \subseteq Packages
  BY DEF Governed, Tree, Package
<1>2. Owner[p] \in Tasks /\ main.tasks[Owner[p]].needs \subseteq Tasks
  BY PlanningAssumption DEF Governed, Tree, Task
<1>3. \A q \in Packages : PackageHolds(q, main)
  BY DEF Governed, TreeAccepted, RegistryHolds
<1>4. /\ main.tasks[Owner[p]].authorized
      /\ \A t \in main.tasks[Owner[p]].needs : Eligible(t, main)
  BY <1>3 DEF PackageHolds
<1>5. \A q \in Packages : main.packages[q].status \in ActiveStates
                            => main.packages[q].needs \subseteq S
  BY <1>1, <1>3 DEF PackageHolds
<1>6. PostMergeStates \subseteq ActiveStates
  BY DEF ActiveStates, ImplementedStates, ExactHeadStates, MergedStates
<1>7. \A q \in S : main.packages[q].needs \subseteq S /\ Finished(q)
  BY <1>5, <1>6, VerifiedIsFinished
<1> QED BY <1>2, <1>4, <1>5, <1>7, EligibleIsGrounded

LEMMA GovernedIsFounded == Governed => FoundationFirst
<1> SUFFICES ASSUME Governed, NEW t \in Adoption,
                    \/ main.tasks[t].authorized
                    \/ main.tasks[t].status \notin {"registered", "blocked"}
                    \/ \E p \in Owned(t) : main.packages[p].status \in ActiveStates
             PROVE  Grounded(Foundation)
  BY DEF FoundationFirst
<1>1. main.tasks[t].authorized \/ main.tasks[t].status \notin {"registered", "blocked"}
  <2> SUFFICES ASSUME NEW p \in Owned(t), main.packages[p].status \in ActiveStates
               PROVE  main.tasks[t].authorized
    OBVIOUS
  <2>1. PackageHolds(p, main) /\ Owner[p] = t
    BY DEF Governed, TreeAccepted, RegistryHolds, Owned
  <2> QED BY <2>1 DEF PackageHolds
<1>2. Eligible(Foundation, main)
  BY <1>1 DEF Governed, TreeAccepted, RegistryHolds, AdoptionHolds
<1> QED BY <1>2, EligibleIsGrounded, PlanningAssumption

LEMMA GovernedEvidence == Governed => EvidenceIsItsOwn
<1> SUFFICES ASSUME Governed, NEW p \in Packages
             PROVE  LET e == main.packages[p].evidence IN
                    /\ \A q \in Packages \ {p} : e \cap main.packages[q].evidence = {}
                    /\ \A r, s \in e : r.base = s.base /\ r.head = s.head
                    /\ OfType(e, "post_merge_verification") # {} => OfType(e, "merge") # {}
                    /\ OfType(e, "merge") # {} => OfType(e, "exact_head_ci") # {}
  BY DEF EvidenceIsItsOwn
<1> DEFINE k == main.packages[p]
           e == k.evidence
<1>1. \A q \in Packages : \A r \in main.packages[q].evidence : r.package = q
  BY EvidenceOfAPackage
<1>2. PackageHolds(p, main)
  BY DEF Governed, TreeAccepted, RegistryHolds
<1>3. \A type \in EvidenceTypes : OfType(e, type) # {} <=> k.status \in Stage(type)
  BY <1>2 DEF PackageHolds
<1>4. /\ Stage("post_merge_verification") \subseteq Stage("merge")
      /\ Stage("merge") \subseteq Stage("exact_head_ci")
      /\ \A type \in EvidenceTypes : Stage(type) \subseteq Stage("exact_head_ci")
  BY DEF EvidenceTypes, Stage, ExactHeadStates, MergedStates
<1>5. /\ OfType(e, "post_merge_verification") # {} => OfType(e, "merge") # {}
      /\ OfType(e, "merge") # {} => OfType(e, "exact_head_ci") # {}
  BY <1>3, <1>4 DEF EvidenceTypes
<1>6. e # {} => \E x \in e : x.type = "exact_head_ci"
  <2> SUFFICES ASSUME NEW r \in e PROVE OfType(e, "exact_head_ci") # {}
    BY DEF OfType
  <2>1. r.type \in EvidenceTypes /\ k.status \in Stage(r.type)
    BY EvidenceOfAPackage
  <2> QED BY <2>1, <1>3, <1>4 DEF EvidenceTypes
<1>7. \A r, s \in e : r.base = s.base /\ r.head = s.head
  BY <1>6, EvidenceOfAPackage
<1> QED BY <1>1, <1>5, <1>7

\* On the default branch a task is complete only on top of finished work, its own
\* and that of every task it needs (CompletionIsGrounded).
THEOREM CompletionGrounded == Spec => []CompletionIsGrounded
BY MainIsAccepted, GovernedIsGrounded, PTL

\* Work on a package begins only when all it needs is finished (WorkIsUnlocked).
THEOREM WorkUnlocked == Spec => []WorkIsUnlocked
BY MainIsAccepted, GovernedIsUnlocked, PTL

\* Adoption of AIGOV begins after the planning foundation (FoundationFirst).
THEOREM AdoptionAfterFoundation == Spec => []FoundationFirst
BY MainIsAccepted, GovernedIsFounded, PTL

\* No package lives on the evidence of another one, and its own is of one change
\* (EvidenceIsItsOwn).
THEOREM EvidenceOwned == Spec => []EvidenceIsItsOwn
BY MainIsAccepted, GovernedEvidence, PTL

-----------------------------------------------------------------------------
(* What was merged.                                                        *)

\* What a policy allows under a scope that is accepted.
LEMMA AcceptedPaths ==
  ASSUME NEW tree, NEW scope \in Scope, NEW policy \in ScopePolicies(scope, tree)
  PROVE  /\ "aigov" \notin policy.allowed
         /\ policy.allowed \cap Versions # {} => scope.class = "protocol_authority_migration"
         /\ scope.package = tree.current => "v1.12.0" \notin policy.allowed
<1>1. CASE scope.class = "planning_infrastructure"
  BY <1>1 DEF ScopePolicies, PlanningPolicy, Versions
<1>2. CASE scope.class # "planning_infrastructure"
  <2>1. scope.class = "protocol_authority_migration"
    BY <1>2 DEF Scope, Classes
  <2>2. PICK v \in ScopeVersions(scope, tree) : policy = ProtocolPolicy(v)
    BY <1>2 DEF ScopePolicies
  <2>3. scope.package = tree.current => v = "v1.13.1"
    BY <2>2 DEF ScopeVersions, ActiveVersion
  <2> QED BY <2>1, <2>2, <2>3 DEF ProtocolPolicy
<1> QED BY <1>1, <1>2

Untouched(entry) ==
  /\ "aigov" \notin entry.paths
  /\ entry.paths \cap Versions # {} => entry.class = "protocol_authority_migration"
  /\ entry.own => "v1.12.0" \notin entry.paths

LEMMA MergeLeavesProtected ==
  ASSUME Typed, Merge, ProtectedIsUntouched
  PROVE  ProtectedIsUntouched'
<1> DEFINE tree == pr.tree
           scope == tree.scopes[tree.packages[tree.current].scope]
           entry == [own |-> scope.package = tree.current, class |-> scope.class,
                     paths |-> pr.changed]
<1>1. /\ main' \in Tree /\ DiffAccepted(main', Tip, pr.changed)
      /\ main'.scopes = tree.scopes /\ main'.packages = tree.packages
      /\ main'.current = tree.current
  BY MergedTree
<1>2. scope \in Scope
  BY Zenon, <1>1 DEF DiffAccepted, Tree, Package
<1>3. PICK policy \in ScopePolicies(scope, main') : pr.changed \subseteq policy.allowed
  BY Zenon, <1>1 DEF DiffAccepted
<1>4. Untouched(entry)
  BY ZenonT(30), <1>1, <1>2, <1>3, AcceptedPaths DEF Untouched
<1>5. log' = Append(log, entry)
  BY SMTT(30) DEF Merge
<1>6. \A i \in DOMAIN log : Untouched(log[i])
  BY DEF ProtectedIsUntouched, Untouched
<1> HIDE DEF entry
<1>7. \A i \in DOMAIN log' : Untouched(log'[i])
  BY <1>4, <1>5, <1>6 DEF Typed, TypeOK
<1> QED BY <1>7 DEF ProtectedIsUntouched, Untouched

\* Whatever was merged left the AIGOV baseline alone, touched a protocol only under a
\* scope for protocols, and did not touch v1.12.0, the one protocol that is not of the
\* active series, under a scope of the current package (ProtectedIsUntouched).  It may
\* well have touched v1.13.0, which is released but shares the active one's policy.
THEOREM ProtectedUntouched == Spec => []ProtectedIsUntouched
<1>1. Init => ProtectedIsUntouched
  BY DEF Init, ProtectedIsUntouched
<1>2. Typed /\ ProtectedIsUntouched /\ [Next]_vars => ProtectedIsUntouched'
  <2> SUFFICES ASSUME Typed, ProtectedIsUntouched, [Next]_vars PROVE ProtectedIsUntouched'
    OBVIOUS
  <2>1. CASE Merge
    BY <2>1, MergeLeavesProtected
  <2>2. CASE UNCHANGED log
    BY <2>2 DEF ProtectedIsUntouched
  <2>3. CASE Editor
    <3>1. UNCHANGED log
      BY Zenon, <2>3 DEF Editor, Open, Deviate, Rebase, Select, Advance, Cite, AddImpact, Borrow,
                  Authorize, Complete, Depend, Edit, Counted
    <3> QED BY <3>1, <2>2
  <2> QED BY <2>1, <2>2, <2>3 DEF Next, Close, vars
<1> QED BY <1>1, <1>2, InitTyped, TypedIsInductive, PTL DEF Spec

-----------------------------------------------------------------------------
(* The plan can go on.                                                     *)

\* The tree in which p is taken up, on any base.
TakenUp(tree, p, s, base) ==
  LET k == main.packages[p] IN
  /\ tree.tasks = main.tasks /\ tree.packages = main.packages
  /\ tree.records = main.records /\ tree.current = p
  /\ tree.scopes \in [ScopeRefs -> Scope \cup {None}]
  /\ tree.impacts \in [ImpactRefs -> Impact \cup {None}]
  /\ tree.scopes[k.scope].package = p /\ tree.scopes[k.scope].task = Owner[p]
  /\ tree.scopes[k.scope].base = base /\ tree.scopes[k.scope].class = s.class
  /\ tree.scopes[k.scope].excludes = s.excludes /\ tree.scopes[k.scope].paths = s.paths
  /\ tree.scopes[k.scope] # None
  /\ \A ref \in ScopeRefs \ {k.scope} : tree.scopes[ref] = main.scopes[ref]
  /\ \A ref \in ImpactRefs : main.impacts[ref] = None => tree.impacts[ref] = None
  /\ \A ref \in ImpactRefs \ Listed(k) : tree.impacts[ref] = main.impacts[ref]
  /\ \A ref \in Listed(k) : main.impacts[ref] # None =>
       /\ tree.impacts[ref] # None
       /\ tree.impacts[ref].base = base /\ tree.impacts[ref].paths = s.paths
       /\ tree.impacts[ref].package = main.impacts[ref].package
       /\ tree.impacts[ref].task = main.impacts[ref].task
       /\ tree.impacts[ref].sequence = main.impacts[ref].sequence
       /\ tree.impacts[ref].previous = main.impacts[ref].previous
       /\ tree.impacts[ref].claimed = main.impacts[ref].claimed
       /\ tree.impacts[ref].complete = main.impacts[ref].complete

LEMMA SubmittedIsTakenUp ==
  ASSUME Governed, NEW p \in Packages, NEW s \in Submissions, NEW base \in Commits
  PROVE  TakenUp(Submitted(main, p, s, base), p, s, base)
<1> DEFINE tree == Submitted(main, p, s, base)
           k == main.packages[p]
           scope == [package |-> p, task |-> Owner[p], base |-> base,
                     class |-> s.class, excludes |-> s.excludes, paths |-> s.paths]
<1>1. tree \in Tree /\ k \in Package /\ k.scope \in ScopeRefs /\ Listed(k) \subseteq ImpactRefs
  BY SubmittedTyped, RefsOfAPackage DEF Governed, Tree, Package
<1>2. scope \in Scope /\ scope # None
  BY PlanningAssumption DEF Scope
<1>3. /\ tree.tasks = main.tasks /\ tree.packages = main.packages
      /\ tree.records = main.records /\ tree.current = p
      /\ tree.scopes = [main.scopes EXCEPT ![k.scope] = scope]
      /\ tree.impacts = [ref \in ImpactRefs |->
           IF ref \in Listed(k) /\ main.impacts[ref] # None
           THEN [main.impacts[ref] EXCEPT !.base = base, !.paths = s.paths]
           ELSE main.impacts[ref]]
  BY DEF Submitted, Governed, Tree
<1>4. tree.scopes[k.scope] = scope
  BY Zenon, <1>1, <1>3 DEF Governed, Tree
<1>5. \A ref \in ScopeRefs \ {k.scope} : tree.scopes[ref] = main.scopes[ref]
  BY Zenon, <1>1, <1>3 DEF Governed, Tree
<1>6. \A ref \in ImpactRefs : ~(ref \in Listed(k) /\ main.impacts[ref] # None)
        => tree.impacts[ref] = main.impacts[ref]
  BY Zenon, <1>3
<1>7. ASSUME NEW ref \in Listed(k), main.impacts[ref] # None
      PROVE  /\ tree.impacts[ref] # None
             /\ tree.impacts[ref].base = base /\ tree.impacts[ref].paths = s.paths
             /\ tree.impacts[ref].package = main.impacts[ref].package
             /\ tree.impacts[ref].task = main.impacts[ref].task
             /\ tree.impacts[ref].sequence = main.impacts[ref].sequence
             /\ tree.impacts[ref].previous = main.impacts[ref].previous
             /\ tree.impacts[ref].claimed = main.impacts[ref].claimed
             /\ tree.impacts[ref].complete = main.impacts[ref].complete
  <2>1. main.impacts[ref] \in Impact
    BY <1>1, <1>7 DEF Governed, Tree
  <2>2. tree.impacts[ref] = [main.impacts[ref] EXCEPT !.base = base, !.paths = s.paths]
    BY Zenon, <1>1, <1>3, <1>7
  <2>3. tree.impacts[ref] \in Impact
    BY Zenon, <2>1, <2>2, PlanningAssumption DEF Impact
  <2>4. tree.impacts[ref] # None
    BY <2>3, PlanningAssumption
  <2> QED BY <2>1, <2>2, <2>4 DEF Impact
<1>8. /\ tree.scopes \in [ScopeRefs -> Scope \cup {None}]
      /\ tree.impacts \in [ImpactRefs -> Impact \cup {None}]
  BY <1>1 DEF Tree
<1>9. TakenUp(tree, p, s, base)
  <2> HIDE DEF tree
  <2>1. /\ tree.tasks = main.tasks /\ tree.packages = main.packages
        /\ tree.records = main.records /\ tree.current = p
    BY Zenon, <1>3
  <2>2. /\ tree.scopes[k.scope].package = p /\ tree.scopes[k.scope].task = Owner[p]
        /\ tree.scopes[k.scope].base = base /\ tree.scopes[k.scope].class = s.class
        /\ tree.scopes[k.scope].excludes = s.excludes /\ tree.scopes[k.scope].paths = s.paths
        /\ tree.scopes[k.scope] # None
    BY <1>2, <1>4
  <2>3. \A ref \in ImpactRefs \ Listed(k) : tree.impacts[ref] = main.impacts[ref]
    BY <1>6
  <2>4. \A ref \in ImpactRefs : main.impacts[ref] = None => tree.impacts[ref] = None
    BY <1>6
  <2> HIDE DEF k
  <2> QED BY SMTT(30), <2>1, <2>2, <2>3, <2>4, <1>5, <1>7, <1>8 DEF TakenUp, k
<1> QED BY <1>9

\* The registry by itself does not tell the two trees apart.
LEMMA RegistryTakenUp ==
  ASSUME Governed, NEW p \in Packages, NEW s, NEW base, NEW tree,
         TakenUp(tree, p, s, base), main.packages[p].status # "closed"
  PROVE  RegistryHolds(tree) /\ \A t \in Tasks : Eligible(t, tree) <=> Eligible(t, main)
<1>1. /\ tree.tasks = main.tasks /\ tree.packages = main.packages
      /\ tree.records = main.records /\ tree.current = p
  BY DEF TakenUp
<1>2. RegistryHolds(main)
  BY DEF Governed, TreeAccepted
<1>3. \A t : Eligible(t, tree) <=> Eligible(t, main)
  BY <1>1 DEF Eligible
<1>4. \A r \in tree.records : RecordHolds(r, tree)
  BY <1>1, <1>2 DEF RegistryHolds, RecordHolds
<1>5. \A t \in Tasks : TaskHolds(t, tree)
  <2> SUFFICES ASSUME NEW t \in Tasks PROVE TaskHolds(t, tree)
    OBVIOUS
  <2>1. TaskHolds(t, main)
    BY <1>2 DEF RegistryHolds
  <2>2. CompleteHolds(t, main) <=> CompleteHolds(t, tree)
    BY <1>1 DEF CompleteHolds
  <2> QED BY <1>1, <1>3, <2>1, <2>2 DEF TaskHolds
<1>6. ~Cyclic(TaskGraph(tree)) /\ ~Cyclic(PackageGraph(tree))
  <2>1. TaskGraph(tree) = TaskGraph(main) /\ PackageGraph(tree) = PackageGraph(main)
    BY <1>1 DEF TaskGraph, PackageGraph
  <2> QED BY <2>1, <1>2 DEF RegistryHolds
<1>7. AdoptionHolds(tree)
  BY <1>1, <1>2, <1>3 DEF RegistryHolds, AdoptionHolds
<1>8. \A q \in Packages : PackageHolds(q, tree)
  <2> SUFFICES ASSUME NEW q \in Packages PROVE PackageHolds(q, tree)
    OBVIOUS
  <2>1. PackageHolds(q, main)
    BY <1>2 DEF RegistryHolds
  <2> QED BY <1>1, <1>3, <2>1 DEF PackageHolds
<1> QED BY <1>1, <1>3, <1>4, <1>5, <1>6, <1>7, <1>8 DEF RegistryHolds

\* What the current scope may do, it may do as a historical one, when it names one
\* version.
LEMMA PolicyStays ==
  ASSUME NEW tree, NEW other, NEW scope \in Scope, Historical(scope),
         scope.package = tree.current, scope.package # other.current,
         NEW policy \in ScopePolicies(scope, tree), scope.paths \subseteq policy.allowed
  PROVE  policy \in ScopePolicies(scope, other)
<1>1. CASE scope.class = "planning_infrastructure"
  BY <1>1 DEF ScopePolicies
<1>2. CASE scope.class # "planning_infrastructure"
  <2>1. policy = ProtocolPolicy("v1.13.1")
    BY <1>2 DEF ScopePolicies, ScopeVersions, ActiveVersion
  <2>2. IsFiniteSet(Versions)
    <3>1. /\ IsFiniteSet({"v1.12.0"})
          /\ IsFiniteSet({"v1.12.0"} \cup {"v1.13.0"})
          /\ IsFiniteSet(({"v1.12.0"} \cup {"v1.13.0"}) \cup {"v1.13.1"})
      BY FS_Singleton, FS_AddElement
    <3>2. Versions = ({"v1.12.0"} \cup {"v1.13.0"}) \cup {"v1.13.1"}
      BY DEF Versions
    <3> QED BY <3>1, <3>2
  <2>3. ScopeVersions(scope, other) = scope.paths \cap Versions
    BY DEF ScopeVersions
  <2>4. Cardinality(scope.paths \cap Versions) = 1
    BY <1>2 DEF Historical
  <2>5. PICK v : scope.paths \cap Versions = {v}
    BY <2>2, <2>4, FS_Subset, FS_Singleton
  <2>6. v \in {"v1.13.0", "v1.13.1"}
    BY <2>1, <2>5 DEF ProtocolPolicy, Versions
  <2>7. ProtocolPolicy(v) = policy
    BY <2>1, <2>6 DEF ProtocolPolicy
  <2> QED BY <1>2, <2>3, <2>4, <2>5, <2>7 DEF ScopePolicies
<1> QED BY <1>1, <1>2

Movable(p, s) ==
  /\ p # main.current /\ Available(p) /\ SoundSubmission(s)
  /\ Historical(main.scopes[main.packages[main.current].scope])

\* Every scope is accepted under the policy it had, but for the new one.
LEMMA ScopesTakenUp ==
  ASSUME Governed, NEW p \in Packages, NEW s, NEW base, NEW tree,
         TakenUp(tree, p, s, base), Movable(p, s), NEW q \in Packages
  PROVE  LET k == main.packages[q] scope == tree.scopes[k.scope] IN
         /\ scope # None
         /\ ScopeHolds(scope, k.scope, tree)
         /\ q # p => scope = main.scopes[k.scope] /\ scope.package # p
<1> DEFINE k == main.packages[q]
           ref == k.scope
           scope == tree.scopes[ref]
<1>1. /\ tree.packages = main.packages /\ tree.current = p
      /\ ref \in ScopeRefs /\ main.packages[p].scope \in ScopeRefs
  BY DEF TakenUp, Governed, Tree, Package
<1>2. CASE q = p
  <2>1. /\ scope # None /\ scope.package = p /\ scope.task = Owner[p]
        /\ scope.class = s.class /\ scope.excludes = s.excludes /\ scope.paths = s.paths
    BY SMTT(30), <1>2 DEF TakenUp
  <2>2. /\ s.class = "planning_infrastructure" /\ s.paths = {"planning"}
        /\ s.excludes = PlanningPolicy.excluded
    BY DEF Movable, SoundSubmission
  <2>3. ScopePolicies(scope, tree) = {PlanningPolicy}
    BY <2>1, <2>2 DEF ScopePolicies
  <2>4. /\ scope.paths \subseteq PlanningPolicy.allowed
        /\ PlanningPolicy.excluded \subseteq scope.excludes
        /\ scope.paths \cap scope.excludes = {}
    BY <2>1, <2>2 DEF PlanningPolicy, Versions
  <2>5. ScopeHolds(scope, ref, tree)
    <3> HIDE DEF scope
    <3> QED BY <1>1, <1>2, <2>1, <2>3, <2>4 DEF ScopeHolds
  <2> QED BY <1>2, <2>1, <2>5
<1>3. CASE q # p
  <2>1. ref # main.packages[p].scope
    BY <1>3 DEF Movable, Available
  <2>2. scope = main.scopes[ref]
    BY <1>1, <2>1 DEF TakenUp
  <2>3. scope # None /\ ScopeHolds(scope, ref, main)
    BY <2>2 DEF Governed, TreeAccepted, ArtifactsHold
  <2>4. scope \in Scope
    BY <1>1, <2>2, <2>3 DEF Governed, Tree
  <2>5. scope.package # p
    BY Zenon, <2>1, <2>3 DEF ScopeHolds
  <2>6. PICK policy \in ScopePolicies(scope, main) :
          scope.paths \subseteq policy.allowed /\ policy.excluded \subseteq scope.excludes
    BY Zenon, <2>3 DEF ScopeHolds
  <2>7. policy \in ScopePolicies(scope, tree)
    <3>1. CASE scope.package = main.current
      <4>1. scope = main.scopes[main.packages[main.current].scope]
        BY Zenon, <2>2, <2>3, <3>1 DEF ScopeHolds
      <4>2. Historical(scope)
        BY <4>1 DEF Movable
      <4> HIDE DEF scope
      <4> QED BY <1>1, <2>4, <2>5, <2>6, <3>1, <4>2, PolicyStays
    <3>2. CASE scope.package # main.current
      <4> HIDE DEF scope
      <4> QED BY <1>1, <2>5, <2>6, <3>2 DEF ScopePolicies, ScopeVersions
    <3> QED BY <3>1, <3>2
  <2>8. ScopeHolds(scope, ref, tree)
    BY Zenon, <1>1, <2>3, <2>6, <2>7 DEF ScopeHolds
  <2> QED BY <2>2, <2>3, <2>5, <2>8
<1> QED BY <1>2, <1>3

\* The impacts of p follow its scope; those of other packages stay as they are, for
\* none of them is an impact of p.
LEMMA ImpactsTakenUp ==
  ASSUME Governed, NEW p \in Packages, NEW s, NEW base, NEW tree,
         TakenUp(tree, p, s, base), Movable(p, s), NEW q \in Packages
  PROVE  LET k == main.packages[q] IN ImpactsHold(k, tree.scopes[k.scope], tree)
<1> DEFINE k == main.packages[q]
           old == main.scopes[k.scope]
           new == tree.scopes[k.scope]
<1>1. /\ tree.packages = main.packages
      /\ k \in Package /\ Listed(k) \subseteq ImpactRefs
      /\ main.packages[p] \in Package
  BY RefsOfAPackage DEF TakenUp, Governed, Tree
<1>2. ImpactsHold(k, old, main)
  BY DEF Governed, TreeAccepted, ArtifactsHold
<1> SUFFICES ASSUME NEW i \in DOMAIN k.impacts
             PROVE  LET doc == tree.impacts[k.impacts[i]] IN
                    /\ doc # None
                    /\ doc.sequence = i
                    /\ doc.previous = IF i = 1 THEN None ELSE k.impacts[i - 1]
                    /\ ImpactHolds(doc, k.impacts[i], new, k.status, i = Len(k.impacts), tree)
  BY DEF ImpactsHold
<1> DEFINE ref == k.impacts[i]
           was == main.impacts[ref]
           doc == tree.impacts[ref]
<1>3. /\ was # None /\ was.sequence = i
      /\ was.previous = IF i = 1 THEN None ELSE k.impacts[i - 1]
      /\ ImpactHolds(was, ref, old, k.status, i = Len(k.impacts), main)
  BY <1>2 DEF ImpactsHold
<1>4. ref \in Listed(k) /\ ref \in ImpactRefs
  BY <1>1 DEF Listed
<1>5. CASE q = p
  <2>1. /\ doc # None /\ doc.base = base /\ doc.paths = s.paths
        /\ doc.package = was.package /\ doc.task = was.task
        /\ doc.sequence = was.sequence /\ doc.previous = was.previous
        /\ doc.claimed = was.claimed /\ doc.complete = was.complete
    BY Zenon, <1>3, <1>4, <1>5 DEF TakenUp
  <2>2. /\ new.package = p /\ new.task = Owner[p] /\ new.base = base /\ new.paths = s.paths
    BY <1>5 DEF TakenUp
  <2>3. old.package = p
    BY <1>5 DEF Movable, Available
  <2>4. old.task = Owner[p]
    <3>1. ScopeHolds(old, k.scope, main)
      BY DEF Governed, TreeAccepted, ArtifactsHold
    <3> QED BY SMTT(30), <2>3, <3>1 DEF ScopeHolds
  <2> HIDE DEF old, new, was, doc, ref
  <2>5. ImpactHolds(doc, ref, new, k.status, i = Len(k.impacts), tree)
    BY <1>1, <1>3, <2>1, <2>2, <2>3, <2>4 DEF ImpactHolds
  <2> QED BY Zenon, <1>3, <2>1, <2>5 DEF doc, ref
<1>6. CASE q # p
  <2>1. new = old /\ new.package # p
    BY <1>6, ScopesTakenUp
  <2>2. was.package # p
    BY SMTT(30), <1>3, <2>1 DEF ImpactHolds
  <2>3. ref \notin Listed(main.packages[p])
    <3> SUFFICES ASSUME NEW j \in DOMAIN main.packages[p].impacts,
                        ref = main.packages[p].impacts[j]
                 PROVE  FALSE
      BY DEF Listed
    <3> DEFINE scope == main.scopes[main.packages[p].scope]
    <3>1. ImpactsHold(main.packages[p], scope, main)
      BY DEF Governed, TreeAccepted, ArtifactsHold
    <3>2. was.package = scope.package
      BY Zenon, <3>1 DEF ImpactsHold, ImpactHolds
    <3>3. scope.package = p
      BY DEF Movable, Available
    <3> QED BY <2>2, <3>2, <3>3
  <2>4. doc = was
    BY <1>4, <2>3 DEF TakenUp
  <2>5. ImpactHolds(was, ref, new, k.status, i = Len(k.impacts), tree)
    BY Zenon, <1>1, <1>3, <2>1 DEF ImpactHolds
  <2> QED BY Zenon, <1>3, <2>4, <2>5
<1> QED BY SMTT(30), <1>5, <1>6

LEMMA TakenUpIsAccepted ==
  ASSUME Governed, NEW p \in Packages, NEW s, NEW base, NEW tree,
         TakenUp(tree, p, s, base), Movable(p, s), tree.board = Snapshot(tree)
  PROVE  TreeAccepted(tree)
<1>1. /\ tree.tasks = main.tasks /\ tree.packages = main.packages
      /\ tree.records = main.records /\ tree.current = p
  BY DEF TakenUp
<1>2. /\ main.packages[p].status # "closed" /\ main.packages[p].evidence = {}
      /\ main.packages[p].impacts # <<>>
  BY DEF Movable, Available
<1>3. RegistryHolds(tree) /\ \A t \in Tasks : Eligible(t, tree) <=> Eligible(t, main)
  BY <1>2, RegistryTakenUp
<1>4. ASSUME NEW q \in Packages, main.packages[q].impacts # <<>>
      PROVE  EvidenceChainHolds(main.packages[q], tree.scopes[main.packages[q].scope], tree)
  <2>1. CASE q = p
    BY <1>2, <2>1 DEF EvidenceChainHolds, OfType
  <2>2. CASE q # p
    <3>1. tree.scopes[main.packages[q].scope] = main.scopes[main.packages[q].scope]
      BY <2>2, ScopesTakenUp
    <3>2. EvidenceChainHolds(main.packages[q], main.scopes[main.packages[q].scope], main)
      BY <1>4 DEF Governed, TreeAccepted, ArtifactsHold
    <3> QED BY <1>1, <3>1, <3>2 DEF EvidenceChainHolds
  <2> QED BY <2>1, <2>2
<1>5. ArtifactsHold(tree)
  BY <1>1, <1>2, <1>4, ScopesTakenUp, ImpactsTakenUp DEF ArtifactsHold
<1>6. ASSUME NEW t \in Tasks, FullyEligible(t, main)
      PROVE  FullyEligible(t, tree)
  <2>1. Eligible(t, tree)
    BY <1>3, <1>6 DEF FullyEligible
  <2> SUFFICES ASSUME NEW q \in Owned(t)
               PROVE  LET k == tree.packages[q] IN
                      /\ tree.scopes[k.scope] # None /\ k.impacts # <<>>
                      /\ tree.impacts[Latest(k)].claimed /\ tree.impacts[Latest(k)].complete
    BY <2>1 DEF FullyEligible
  <2> DEFINE k == main.packages[q]
  <2>2. q \in Packages /\ k \in Package
    BY DEF Owned, Governed, Tree
  <2>3. /\ k.impacts # <<>>
        /\ main.impacts[Latest(k)].claimed /\ main.impacts[Latest(k)].complete
    BY <1>6 DEF FullyEligible
  <2>4. Latest(k) \in ImpactRefs /\ Len(k.impacts) \in DOMAIN k.impacts
    BY <2>2, <2>3, RefsOfAPackage
  <2>5. main.impacts[Latest(k)] # None
    BY <2>2, <2>4 DEF Governed, TreeAccepted, ArtifactsHold, ImpactsHold, Latest
  <2>6. /\ tree.impacts[Latest(k)].claimed = main.impacts[Latest(k)].claimed
        /\ tree.impacts[Latest(k)].complete = main.impacts[Latest(k)].complete
    BY <2>4, <2>5 DEF TakenUp
  <2>7. tree.scopes[k.scope] # None
    BY <2>2, ScopesTakenUp
  <2> QED BY <1>1, <2>3, <2>6, <2>7
<1>7. CompletionHolds(tree)
  <2>1. \A t \in Tasks : main.tasks[t].needs \subseteq Tasks
    BY DEF Governed, Tree, Task
  <2>2. CompletionHolds(main)
    BY DEF Governed, TreeAccepted
  <2> QED BY <1>1, <1>6, <2>1, <2>2 DEF CompletionHolds
<1> QED BY <1>3, <1>5, <1>7 DEF TreeAccepted

\* What merely takes up an available package after a historical scope is accepted.
LEMMA MovableIsAccepted ==
  ASSUME Typed, Governed, NEW p \in Packages, NEW s \in Submissions, Movable(p, s)
  PROVE  LET moved == Submitted(main, p, s, Tip) IN
         /\ TreeAccepted([moved EXCEPT !.board = Snapshot(moved)])
         /\ DiffAccepted(moved, Tip, s.paths)
<1> DEFINE moved == Submitted(main, p, s, Tip)
           final == [moved EXCEPT !.board = Snapshot(moved)]
<1>1. Tip \in Commits
  BY PlanningAssumption DEF Tip, Commits, Typed, TypeOK
<1>2. moved \in Tree /\ TakenUp(moved, p, s, Tip)
  BY <1>1, SubmittedTyped, SubmittedIsTakenUp DEF Governed
<1> HIDE DEF moved
<1>3. /\ final.tasks = moved.tasks /\ final.packages = moved.packages
      /\ final.records = moved.records /\ final.current = moved.current
      /\ final.scopes = moved.scopes /\ final.impacts = moved.impacts
      /\ final.board = Snapshot(moved)
  BY <1>2 DEF Tree
<1> HIDE DEF final
<1>4. TakenUp(final, p, s, Tip) /\ final.board = Snapshot(final)
  <2>1. TakenUp(final, p, s, Tip)
    <3>1. TakenUp(moved, p, s, Tip)
      BY <1>2
    <3> QED BY SMTT(30), <3>1, <1>3 DEF TakenUp
  <2>2. Snapshot(final) = Snapshot(moved)
    BY <1>3 DEF Snapshot
  <2> QED BY <1>3, <2>1, <2>2
<1>5. TreeAccepted(final)
  BY <1>4, TakenUpIsAccepted
<1>6. DiffAccepted(moved, Tip, s.paths)
  <2> DEFINE scope == moved.scopes[main.packages[p].scope]
  <2>1. /\ moved.current = p /\ moved.packages = main.packages
        /\ scope # None /\ scope.base = Tip /\ scope.class = s.class
        /\ scope.paths = s.paths /\ scope.excludes = s.excludes
    BY <1>2 DEF TakenUp
  <2>2. /\ s.class = "planning_infrastructure" /\ s.paths = {"planning"}
        /\ s.excludes = PlanningPolicy.excluded
    BY DEF Movable, SoundSubmission
  <2>3. ScopePolicies(scope, moved) = {PlanningPolicy}
    BY <2>1, <2>2 DEF ScopePolicies
  <2>4. s.paths \subseteq PlanningPolicy.allowed /\ s.paths \cap s.excludes = {}
    BY <2>2 DEF PlanningPolicy, Versions
  <2> HIDE DEF scope
  <2> QED BY <2>1, <2>3, <2>4 DEF DiffAccepted, scope
<1> QED BY <1>5, <1>6 DEF final, moved

\* The scope that was current is judged as one that is not, whichever package it is
\* the scope of: it must be historical for the tree to be accepted.
LEMMA OnlyHistoryIsFollowed ==
  ASSUME Governed, NEW p \in Packages, NEW s, NEW base, NEW tree,
         TakenUp(tree, p, s, base), p # main.current, Available(p), TreeAccepted(tree)
  PROVE  Historical(main.scopes[main.packages[main.current].scope])
<1> DEFINE ref == main.packages[main.current].scope
           scope == main.scopes[ref]
<1>1. /\ tree.packages = main.packages /\ tree.current = p
      /\ main.current \in Packages /\ ref \in ScopeRefs
  BY DEF TakenUp, Governed, Tree, Package
<1>2. ref # main.packages[p].scope
  BY <1>1 DEF Available
<1>3. tree.scopes[ref] = scope
  BY <1>1, <1>2 DEF TakenUp
<1>4. ScopeHolds(scope, ref, tree)
  BY <1>1, <1>3 DEF TreeAccepted, ArtifactsHold
<1>5. scope.package # p
  BY Zenon, <1>1, <1>2, <1>4 DEF ScopeHolds
<1>6. ScopePolicies(scope, tree) # {}
  BY Zenon, <1>4 DEF ScopeHolds
<1> HIDE DEF scope
<1>7. Historical(scope)
  BY <1>1, <1>5, <1>6 DEF Historical, ScopePolicies, ScopeVersions
<1> QED BY <1>7 DEF scope

LEMMA FollowingNeedsHistory ==
  ASSUME Typed, Governed, NEW p \in Packages, NEW s \in Submissions,
         p # main.current, Available(p),
         LET moved == Submitted(main, p, s, Tip) IN
         TreeAccepted([moved EXCEPT !.board = Snapshot(moved)])
  PROVE  Historical(main.scopes[main.packages[main.current].scope])
<1> DEFINE moved == Submitted(main, p, s, Tip)
           final == [moved EXCEPT !.board = Snapshot(moved)]
<1>1. moved \in Tree /\ TakenUp(moved, p, s, Tip)
  <2>1. Tip \in Commits
    BY PlanningAssumption DEF Tip, Commits, Typed, TypeOK
  <2> QED BY <2>1, SubmittedTyped, SubmittedIsTakenUp DEF Governed
<1>2. TreeAccepted(final)
  OBVIOUS
<1> HIDE DEF moved
<1>3. /\ final.tasks = moved.tasks /\ final.packages = moved.packages
      /\ final.records = moved.records /\ final.current = moved.current
      /\ final.scopes = moved.scopes /\ final.impacts = moved.impacts
  BY <1>1 DEF Tree
<1> HIDE DEF final
<1>4. TakenUp(final, p, s, Tip)
  BY SMTT(30), <1>1, <1>3 DEF TakenUp
<1> QED BY <1>2, <1>4, OnlyHistoryIsFollowed

LEMMA GovernedDecides == Typed /\ Governed => AnotherMayFollow
<1> SUFFICES ASSUME Typed, Governed, NEW p \in Packages, NEW s \in Submissions,
                    p # main.current, Available(p), SoundSubmission(s)
             PROVE  LET moved == Submitted(main, p, s, Tip) IN
                    (/\ TreeAccepted([moved EXCEPT !.board = Snapshot(moved)])
                     /\ DiffAccepted(moved, Tip, s.paths))
                    <=> Historical(main.scopes[main.packages[main.current].scope])
  BY DEF AnotherMayFollow
<1>1. CASE Historical(main.scopes[main.packages[main.current].scope])
  <2>1. Movable(p, s)
    BY <1>1 DEF Movable
  <2> QED BY <1>1, <2>1, MovableIsAccepted
<1>2. CASE ~Historical(main.scopes[main.packages[main.current].scope])
  BY <1>2, FollowingNeedsHistory
<1> QED BY <1>1, <1>2

\* Whatever was merged, the scope of the current package alone decides whether the plan
\* can go on with another, available package: a pull request that merely takes it up is
\* accepted if that scope is historical, and rejected if not (AnotherMayFollow).
THEOREM FollowingIsDecided == Spec => []AnotherMayFollow
<1>1. Spec => []Typed
  BY InitTyped, TypedIsInductive, PTL DEF Spec
<1> QED BY <1>1, MainIsAccepted, GovernedDecides, PTL

-----------------------------------------------------------------------------
(* The search for circles finds them.                                      *)

Steps(graph) == (DOMAIN graph) \X SUBSET DOMAIN graph

\* Where the search goes on from s.
Onwards(s, d) == <<d, s[2] \cup {s[1]}>>

Searches(graph, f) ==
  f = [s \in Steps(graph) |-> s[1] \in s[2] \/ \E d \in graph[s[1]] : f[Onwards(s, d)]]

LEMMA MeetsIfAny ==
  ASSUME NEW graph, \E f : Searches(graph, f)
  PROVE  Searches(graph, Meets(graph))
<1>1. Meets(graph) = CHOOSE f : Searches(graph, f)
  BY DEF Meets, Searches, Steps, Onwards
<1> QED BY <1>1

\* The least set of steps from which a node is met again defines a search.
LEMMA SearchExists ==
  ASSUME NEW graph, \A n \in DOMAIN graph : graph[n] \subseteq DOMAIN graph
  PROVE  \E f : Searches(graph, f)
<1> DEFINE All == Steps(graph)
           Meeting(s, X) == s[1] \in s[2] \/ \E d \in graph[s[1]] : Onwards(s, d) \in X
           Closed(X) == \A s \in All : Meeting(s, X) => s \in X
           L == {s \in All : \A X \in SUBSET All : Closed(X) => s \in X}
           M == {s \in All : Meeting(s, L)}
<1>1. ASSUME NEW s \in All, NEW d \in graph[s[1]]
      PROVE  Onwards(s, d) \in All
  BY <1>1 DEF Steps, Onwards
<1>2. Closed(L)
  <2> SUFFICES ASSUME NEW s \in All, Meeting(s, L), NEW X \in SUBSET All, Closed(X)
               PROVE  s \in X
    OBVIOUS
  <2>1. Meeting(s, X)
    OBVIOUS
  <2> QED BY <2>1
<1>3. M \subseteq L
  BY <1>2
<1>4. Closed(M)
  <2> SUFFICES ASSUME NEW s \in All, Meeting(s, M) PROVE Meeting(s, L)
    OBVIOUS
  <2> QED BY <1>3
<1>5. L \subseteq M
  <2>1. M \in SUBSET All
    OBVIOUS
  <2> HIDE DEF M
  <2> QED BY <1>4, <2>1
<1> DEFINE f == [s \in All |-> s \in L]
<1>6. ASSUME NEW s \in All
      PROVE  f[s] = (s[1] \in s[2] \/ \E d \in graph[s[1]] : f[Onwards(s, d)])
  <2>1. \A d \in graph[s[1]] : f[Onwards(s, d)] = (Onwards(s, d) \in L)
    <3> HIDE DEF L
    <3> QED BY <1>1
  <2>2. (s \in L) = Meeting(s, L)
    <3>1. s \in L <=> s \in M
      BY <1>3, <1>5
    <3>2. s \in M <=> Meeting(s, L)
      OBVIOUS
    <3> HIDE DEF L, M, Meeting
    <3> QED BY <3>1, <3>2 DEF Meeting
  <2> HIDE DEF L
  <2> QED BY <2>1, <2>2
<1> HIDE DEF L
<1>7. Searches(graph, f)
  BY <1>6 DEF Searches
<1> QED BY <1>7

\* In a set of nodes each of which leads to another the search never ends without
\* meeting a node again: the nodes it may still visit become fewer.
LEMMA CircleIsFound ==
  ASSUME NEW graph, IsFiniteSet(DOMAIN graph),
         \A n \in DOMAIN graph : graph[n] \subseteq DOMAIN graph,
         ~Cyclic(graph)
  PROVE  NoCircle(graph)
<1> DEFINE N == DOMAIN graph
           g == Meets(graph)
<1>1. Searches(graph, g)
  BY SearchExists, MeetsIfAny
<1> HIDE DEF g
<1>2. \A s \in Steps(graph) : g[s] = (s[1] \in s[2] \/ \E d \in graph[s[1]] : g[Onwards(s, d)])
  BY <1>1 DEF Searches
<1> SUFFICES ASSUME NEW S \in SUBSET N, S # {}, \A n \in S : graph[n] \cap S # {}
             PROVE  FALSE
  BY DEF NoCircle
<1> DEFINE Bad == {A \in SUBSET N : \E n \in S : ~g[<<n, N \ A>>]}
           R == StrictSubsetOrdering(N)
<1>3. Bad = {}
  <2> SUFFICES ASSUME Bad # {} PROVE FALSE
    OBVIOUS
  <2>1. IsWellFoundedOn(R, FiniteSubsetsOf(N))
    BY FS_StrictSubsetOrderingWellFounded
  <2>2. Bad \subseteq FiniteSubsetsOf(N)
    BY FS_FiniteSubsetsOfFinite
  <2> HIDE DEF R
  <2>3. \E A \in Bad : \A B \in Bad : ~(<<B, A>> \in R)
    <3> HIDE DEF Bad
    <3> QED BY <2>1, <2>2, WFMin
  <2>4. PICK A \in Bad : \A B \in Bad : ~(<<B, A>> \in R)
    BY <2>3
  <2>5. PICK n \in S : ~g[<<n, N \ A>>]
    OBVIOUS
  <2>6. PICK d \in S : d \in graph[n]
    OBVIOUS
  <2>7. <<n, N \ A>> \in Steps(graph)
    BY DEF Steps
  <2>8. n \in A /\ ~g[<<d, (N \ A) \cup {n}>>]
    BY <1>2, <2>5, <2>6, <2>7 DEF Onwards
  <2> DEFINE B == A \ {n}
  <2>9. (N \ A) \cup {n} = N \ B
    BY <2>8
  <2>10. B \in Bad
    BY <2>6, <2>8, <2>9
  <2>11. <<B, A>> \in R
    BY <2>8 DEF R, StrictSubsetOrdering
  <2> QED BY <2>4, <2>10, <2>11
<1>4. \A n \in S : g[<<n, {}>>]
  <2>1. N \notin Bad /\ N \ N = {}
    BY <1>3
  <2> QED BY <2>1
<1>5. Cyclic(graph)
  BY <1>4 DEF Cyclic, g
<1> QED BY <1>5

LEMMA GovernedIsStraight == Governed => NothingWaitsForItself
<1> SUFFICES ASSUME Governed PROVE NothingWaitsForItself
  OBVIOUS
<1>1. main \in Tree /\ ~Cyclic(TaskGraph(main)) /\ ~Cyclic(PackageGraph(main))
  BY DEF Governed, TreeAccepted, RegistryHolds
<1>2. NoCircle(TaskGraph(main))
  <2>1. DOMAIN TaskGraph(main) = Tasks
    BY DEF TaskGraph
  <2>2. \A t \in Tasks : TaskGraph(main)[t] \subseteq Tasks
    BY <1>1 DEF TaskGraph, Tree, Task
  <2> QED BY <1>1, <2>1, <2>2, CircleIsFound, PlanningAssumption
<1>3. NoCircle(PackageGraph(main))
  <2>1. DOMAIN PackageGraph(main) = Packages
    BY DEF PackageGraph
  <2>2. \A p \in Packages : PackageGraph(main)[p] \subseteq Packages
    BY <1>1 DEF PackageGraph, Tree, Package
  <2> QED BY <1>1, <2>1, <2>2, CircleIsFound, PlanningAssumption
<1> QED BY <1>2, <1>3 DEF NothingWaitsForItself

\* No set of tasks, or of packages, waits for itself: the search of the registry
\* validator (_cycle) overlooks no circle of any length.
THEOREM NoneWaitsForItself == Spec => []NothingWaitsForItself
<1> QED BY GovernedIsStraight, MainIsAccepted, PTL
=============================================================================
