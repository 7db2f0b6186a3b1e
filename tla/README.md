# A verification model of PR-Inspector

PR-Inspector reviews a GitHub pull request at an exact head commit. It collects
evidence, assembles one canonical package, projects one decision from it,
renders a bundle of artifacts, publishes the bundle at an output directory and
hands the caller a process-local *completion*, through whose accessors alone the
result may be read. This directory holds TLA+ models of that program, the TLC
configurations that check them on small instances, and theorems about them that
TLAPS checks for every instance.

Paths below are those of the repository, with `src/` in front.

## 1. Inventory

| Component | Source | State | Operations | What makes it correct |
|---|---|---|---|---|
| Publisher | `pr_inspector/_official_complete.py` | output directory; staging, backup and quarantine siblings | `complete_review`, `publish`, `restore`, `_bounded_restore` | a failing review never costs the previous bundle; nothing unverified stays authoritative; a commit completes |
| Bundle and completion | `_official_bundle.py` | weak registry of completions, their hashes | `validate_bundle`, `completion`, accessors | an accessor returns only what was verified, for the live head |
| Live head | `_official_head.py` | none (GitHub's) | `fetch`, `require_head` | a partial or foreign payload is never a head |
| Runtime and evidence scope | `official_review.py`, `evidence_context.py`, `functional_review.py` | context variable, weak map of bound evidence, package registry | `complete_review(request, ...)`, `evidence_scope`, `_reverify` | a completion is re-verified under the evidence it was minted with |
| Evidence collection, assembly | `verified_review.py` | the pages of four lists while they are read | `collect`, pagination, `assemble_review_package` | complete enumeration or failure; facts of one head |
| Decision projection | `decision_projection_core.py`, `decision_projection.py`, `security_profile.py` | none (pure) | `collect_reason_instances`, `_technical_status`, `_choose_action`, `project_decision` | never green with a blocking reason; always exactly one next action |
| Re-review sequence | `sequence_policy.py`, `scripts/validate_rereview_sequence.py` | pending head and passed evidence per pull request | `validate_rereview_sequence` | no acceptance without a current re-review of the pending head |
| Merge governance | `governance.py`, `_governance_transport.py`, `_governance_settings.py`, `sequence_enforcement.py` | receipts of responses, minted evidence, producer and enforcement capabilities | `_fetch_governance`, `verify_github_governance_source`, `verify_governance_record`, `verify_sequence_*` | authorization only from fresh evidence of the exact head, for what GitHub itself enforces |
| Review provenance | `review_provenance.py` | minted commits and evidence | `verify_review_directory` | evidence only from a validated directory |
| Runtime contract | `functional_runtime.py` | installed adapters | startup and contract validation | the active protocol is the one validated |
| Package validation, rendering | `validation_v2*.py`, `semantic*.py`, `derived_outputs.py`, `prompt_semantics.py`, `behavioral_coverage.py`, `render.py` | none (pure) | `validate_package`, `validate_directory`, `write_review_artifacts` | what was rendered validates |
| Planning governance | `planning_*.py` | tasks, work packages, evidence, scopes and impacts in Git | `validate_planning_repository`, `validate_git_diff` | completion rests on finished work, work on what it needs, and the plan can go on |
| Owner delivery | `owner_delivery.py` | none | `official_owner_delivery`, `official_owner_result` | message and prompt of one verified snapshot |
| Repository, CI identity, trust gate | `repository.py`, `ci_identity.py`, `scripts/verify_coverage_trust_gate.py` | files | validation | static |
| Legacy, scripts | `candidate_v1_11.py`, `scripts/` | none | compatibility, command lines | |

How they interact: the public `official_review.complete_review` builds a runtime
(head source, evidence source, protocol context), collects facts, assembles the
package (which projects the decision), opens an evidence scope and calls the
publisher. The publisher renders and validates a bundle in a staging directory,
moves it to the output directory, and mints the completion; the runtime binds
the evidence to it. Accessors and owner delivery re-verify through the completion.
The re-review sequence and the governance evidence consume published directories
and GitHub state later, on behalf of a merge decision. Planning governance stands
beside all this: it judges the pull requests of the repository itself.

What is hard: a review takes many steps on a shared directory while the pull
request moves, other reviews may run, every file operation can fail half way
and the process can die; the error paths (rollback, its own failures, their
bounds) are longer than the main path. Whatever is read from GitHub is read piece by
piece while it changes: lists page by page, governance responses one after the other.
And what one reader concluded is derived again by another one, in another scope, from
another tree. `PROJECT.json` lists each such hazard at
its line with the properties that watch it.

## 2. Plan

1. `OfficialOutput`, `OfficialCompletion`: the publisher, its abstract promise,
   its proofs. *Done.*
2. The re-review sequence policy and its theorem: an accepted event is always
   preceded by a current, verified re-review of the pending head. *Done.*
3. The decision: assembly of a package, projection, later readings in other
   evidence scopes, and theorems that tie the decision to the facts. *Done.*
4. Evidence collection: pagination of a list that changes between pages. *Done.*
5. Runtime and evidence scope, owner delivery: what a completion decides and hands
   out in any caller's scope. *Done as part of 3;* the composition with the
   publisher's shared directory is not.
6. Merge governance: freshness of responses fetched one after the other,
   approvals, required checks, settings. *Done.*
7. Planning governance: what a validator without memory lets through. *Done.*
   Provenance of review evidence: not begun.
8. Proofs of every safety property of every passing run, and of the refinement
   `OfficialCompletion => OfficialOutput`. *Done.*
9. Proofs beyond the runs: that calls and collections end, the safety half of
   `Recovers`, what a commit makes final, what an exception inside `restore` can cost, and
   how accepted heads change. *Done.*

Each component has one module that models it, an `MC` module with its instances, and a
`...Proofs` module with its theorems (merge governance has two, the second one about
settings).

## 3. The publisher

### 3.1 OfficialOutput: the promise

Four variables: the bundle a validator would accept at the official path
(`official`), the one committed last (`standing`), the ones moved aside
(`shelf`) and the candidates not yet exposed (`fresh`). A candidate is exposed
at most once; only an exposed bundle is committed; a bundle taken off the path is
shelved or, if it is not the standing one, gone. The promise is `StandingKept`.

### 3.2 OfficialCompletion: the code

One element of `Calls` is one invocation of `complete_review` for a package of
its own, all on one output directory. A call is a program counter `pc[c]`, the
locals that survive a step (`held`: a backup was taken; `restored`; `codes`: the
diagnostics; `bundle`: what the final validation captured) and three sibling
directories. The directories are the shared state.

| Action | Code (`_official_complete.py` unless named) |
|---|---|
| `Begin`, `FetchInitialHead` | 316-372: capability, first fetch, protocol, identity, package validation, validity |
| `CreateStage`, `Render` | 373-407: look at the output, staging directory, artifacts, staged validation |
| `RecheckHead` | 408-420 |
| `MoveAside`, `Promote` | 251-280: the two renames of `publish` |
| `ValidatePublished`, `FinalHeadCheck` | 426-456: final validation, final fetch, commit point |
| `CleanUpBackup`, `RemoveStage` | 457-484: `_remove_tree` of the backup, completion, `finally` |
| `QuarantineOutput`, `InvalidateOutput`, `DeleteOutput` | 146-179 of `restore` |
| `RestoreBackup`, `ConfirmRestored` | 181-213 |
| `InspectOutput`, `StripOutput`, `RemoveQuarantine` | 215-248 |
| `RollbackRaises`, `EmergencyInvalidate` | 270-280 and 283-313: exceptions inside `restore` |
| `FetchForAccess`, `ReadForAccess` | `_official_bundle.py` 88-182: an accessor's `_reverify` |
| `Push`, `CalmDown`, `Crash` | the pull request moves; failures stop; a process dies |

A directory entry is `absent`, a `file`, `torn` (partly written or deleted, or no
bundle), `unmarked` (a bundle without its manifest) or `sealed`, with the call
it came from. Only a sealed entry is authoritative. `Faults` says which failures
may happen: `net` (a fetch fails), `io` (a rename, write, read or recursive
deletion fails, the last one leaving any part behind), `stat` (an exception where
the code expects none, such as `Path.exists()` raising on an I/O error), `crash`
and `push`.

What the model abstracts, and why that is faithful:

- Every call has its own package, so the hashes a completion carries identify the
  bundle of one call: comparing hashes is comparing authors.
- A directory is read in one step. The manifest hashes every artifact, so a mix of
  two bundles does not validate.
- The check whether a path exists and the rename after it are one step. When two
  calls overlap, losing that race makes the rename fail, which is what `io` does.
- A recursive deletion is one step with three outcomes: gone, torn, untouched.
- `mkdtemp` names are unique, so siblings belong to their call. The renamed
  manifest (`invalid-manifest` sibling) is debris nobody reads and is left out.
- `_authoritative` judges a directory by its contents alone. In the code the
  projection inside may also depend on the evidence scope of the judging call.
- Diagnostics that only repeat another one (`ROLLBACK-002`, `-004`, `-005`,
  `-011`) are folded into it.

### 3.3 Runs

| Run | Instance | Question |
|---|---|---|
| `Sequential` | any 2 of 6 packages (two sound ones, one of each unfit kind), one at a time, 2 heads, 2 bases; net, io, crash, push | type, `StandingPreserved`, `CompletionIsOwn`, and the refinement `RefinesOfficialOutput` |
| `Overlap` | 2 overlapping calls for different heads; push, io | what can an accessor hand out, and who gives up a backup? |
| `Recovery` | 2 calls, one at a time, fair; net, io, stat, crash until they stop | does a failed review, one that ends by an exception included, leave the path as found, or say so, does a committed one return its completion, and does debris block later reviews? |

Bounds. Two calls (`MaxBegun`) are enough for the sequential properties to see a first
review leave any reachable debris (27 places where it can fail or die) for a second
one, on top of a bundle of an earlier run, and enough for every pair of steps to
overlap; a third call could only repeat what the second one finds. `Init` covers an
output path that is absent, a file, a directory that is no bundle, or an earlier
bundle. Two heads let the pull request move away and back.
Deadlock is not checked: when every call has returned and no failure is left, the
system rightly stops.

Fairness. `FairSpec` adds weak fairness of each call's own steps: a running
call is a thread of a live process. Nothing obliges anybody to start a call or use
an accessor, and nothing obliges failures to stop: `Recovers` says what follows
once they have.

### 3.4 Disagreements between code and documents

Two runs expect a violation; `PROJECT.json` quotes the documents.

- `UnexpectedRollback`: an exception inside `restore` after the previous bundle is
  back at the official path makes the bounded fallback strip that bundle.
- `OverlapOwnership`: of two overlapping reviews of one head, one can mint its
  completion for the other's bundle. `Exclusive` names the assumption (one review
  per output directory at a time) under which this cannot happen.

Two more consequences are part of the model and no disagreement with a document: the
official path is empty between the two renames of `publish`, and an exception while
looking at the obsolete backup or at the staging directory (`stat`) takes the completion
of a committed publication from its caller: an incomplete review, or no result at all.
`CommittedIsCompleted` admits that (`Deprived`) and nothing else, and
`CleanFailureRestores` holds calls that end by such an exception before their commit
point to leave the path as they found it.

## 4. The re-review sequence

### 4.1 RereviewSequence

A repaired pull request is followed as a list of events that somebody else wrote:
`implemented_pending_rereview`, `pr_inspector_rereview_completed`, and the three
acceptances. `validate_rereview_sequence` (`sequence_policy.py`) trusts none of
them. One step of the module is one iteration of its loop, over any list of
events; the variables are the code's dictionaries (`seen`, `pending`, `passed`),
the diagnostics by position, and the list read so far.

| Action | Code (`sequence_policy.py`) |
|---|---|
| `Replayed` | an event identifier seen before |
| `Implemented` | a repair opens its head, what was proved before is forgotten |
| `RereviewOfNothing`, `RereviewUnproved`, `RereviewProved` | a re-review with no pending head, one without matching evidence, one with it |
| `AcceptTooEarly`, `Accept` | an acceptance before the proof, one judged by what the proof and the governance evidence permit |

The properties do not repeat the policy. `Earned` says of a position in the list,
without looking at the policy's state, that the acceptance there has behind it a
repair of its head not replaced since, after that repair a proof of the same
head, and that the latest such proof, with the declared governance evidence,
allows what the event says. `AcceptanceIsEarned` and `EarnedIsAccepted` say that
the policy accepts exactly those; that a reported event leaves what the policy knows
as it was is proved (`RejectedEventsUnlockNothing`).

What the model abstracts, and why that is faithful:

- Evidence identifiers are hashes of the evidence's contents, so an event that
  cites one cites the contents: `cites` and `governance` are the evidence itself.
- `faithful` says whether the event's copies of the remaining fields of the
  evidence (its hashes, its commit, its flags) are right; the code compares them
  all and reports one code.
- A review's verdict is `repair`, `green` or `merge_now`.
  `validate_projection_invariants` admits `merge_now` only with the Green status
  and no further approval, so the three conditions the code reads form this chain.
- `WellFormed` is what the JSON schema demands of an event; a list that fails it
  is rejected before the loop.

Two consequences of the code are easily overlooked and are part of the model: a
rejected re-review does not withdraw what an earlier one proved, and `merged`
does not ask for a `merge_authorized` before it.

### 4.2 Run

| Run | Instance | Question |
|---|---|---|
| `PullRequests` | 2 pull requests whose heads are the same commits, one of them with a second head, every verdict and every way for a re-review or an authorization to be wrong; lists of up to 4 events | does the policy accept exactly the earned acceptances, and does no pull request profit from, or suffer under, another? |

Four events hold a repair, its proof, one event that interferes (a second repair,
a second or a wrong re-review, the other pull request's) and an acceptance. The
bound is the runs' alone: the theorems hold for lists of every length. `Events` is
symmetric in the identifiers, so is the symmetry reduction over them.
Deadlock is not checked: a list ends.

## 5. The decision

### 5.1 DecisionProjection

The module follows one review from the facts and the assessment (a *request*) over
the package to the decision, and on to whoever derives the decision again.

| Definition | Code |
|---|---|
| `Refused`, `CatalogRefused`, `DispositionRefused`, `Refuse` | `verified_review.py` 861-881, 1240-1259, 1095-1128: what the assembler refuses |
| `Label`, `Record`, `Reconciliation`, `IntentFit`, `Package` | 882-1017, 1130-1311: the fields of the package a decision depends on |
| `Decided`, `Outcome`, `Assemble` | 1018-1042, `functional_review.py` 15-71, `official_review.py` 135-167: the projection in a caller's scope, the validations, the capability |
| `Submit` | `project_decision` on a package somebody wrote by hand |
| `FindingReasons`, `PackageReasons`, `ProfileReasons` | `decision_projection_core.py` 280-487, `security_profile.py` 84-133 |
| `RedCodes` ... `ApprovalCodes` | the effects in `DECISION_REASON_REGISTRY.yaml` of v1.13.1 |
| `Status`, `Action`, `PromptKind`, `Color`, `Governance`, `Projection` | 47-149, 490-589; `decision_projection.py` 114-228 |
| `RoutingContradicted`, `ProfileContradicted`, `ProjectionFails` | the two `validate_projection_invariants` |
| `Reverify` | an accessor's re-verification under the bound evidence (`official_review.py` 72-77, `evidence_context.py`) |
| `Deliver`, `Result` | `owner_delivery.py`: the message with the prompt its action requires, and the message alone |
| `Revalidate` | `validate_directory` and `verify_review_directory`, which know the directory only |

A scope without evidence lets the scope around it show through (`InScope`), and the
official runtime binds none, so assembly, accessors and delivery all run in *any*
scope: `Assemble`, `Reverify`, `Deliver` and `Result` take the evidence around their
caller as a parameter.

The properties state the decision in the words of the request, not of the reason
codes: `Clean` says what a Green review must have seen, and `GreenIffClean` that
the 30 reasons, the relabelling of findings and the security profile amount to just
that. `ProblemsNeverHelp` compares the decision with the one for a worse request.

`RepairIsGrounded` follows the decision to the prompt that is handed out for it.
`ActionsFitTheReview` is `MergeNowIsFinal` (nobody merges while anything is pending)
and `StaleOnlyReruns` (a stale review leads to a new one only); `RereadingIsFaithful`
is `RereadsAlike` (a completion and its delivery read back what was minted) and
`VerifiedNeedsItsEvidence` (without the completion, verified governance is confirmed
only in the presence of the very evidence it rests on).

Two couplings of the code are worth knowing. An incomplete external review is Yellow
and asks for nothing by itself; `AlwaysAnAction` holds because the assembler also
makes such a review PARTIAL and its intent unassessable. It also holds because the
checks for contradictions never fire, which is a lemma (`NeverContradicted`). A package by another hand
has no such coupling: `project_decision` raises for it (`stage = "failed"`), which
is why `AlwaysAnAction` speaks of assembled packages. And a minimal review in a scope
with evidence of the same head reads back alike only because its package names
no evidence (`RereadsAlike`).

What the model abstracts, and why that is faithful:

- Lists the decision tests for emptiness are Booleans; findings and checks are
  sets of kinds, since no reason counts them.
- Repository, pull request and head are one `Subject`: the code compares all three
  together wherever it compares them.
- A finding's evidence is `evidenced` or not: the assembler refuses the ones whose
  references are missing or of the wrong kind.
- Of an external reviewer's source only whether it was accepted and what it links
  matters; the other seven classifications are alike to the decision.
- Evidence is minted elsewhere; the module assumes of it what
  `verify_governance_record` guarantees (`EvidenceIsMinted`).
- Of the validation of the finished package only the demand for evidence of a
  satisfied intent is modelled (`stage = "invalid"`). Other failures would only
  take states away.
- Schema and wording of the delivery contract are left out; what is delivered is which
  prompt goes with the message.

### 5.2 Runs

| Run | Instance | Question |
|---|---|---|
| `Decisions` | every kind of finding against checks and coverage; findings against diffs, checks and external reviews; against governance evidence (two that authorize, a gap, another head), profiles and what is pending; 120 hand-written packages; every assembly, reading and delivery in every scope | is the decision the right one, and is it read back? |
| `Hypotheses` | the same | does an important hypothesis keep the status from Green? (violated) |

One finding, source or check of each kind, next to one of another kind, is enough:
no reason relates two of them. Deadlock is not checked: a refused or failed review
ends.

`Hypotheses` is a disagreement with `policies/DECISION_GATES.md`: a hypothesis is a
reason when it is HIGH or blocking, but one that is CRITICAL and not marked
as blocking gives none, and the owner is told to merge.

The same document is superseded elsewhere. Its line 63 gives a stale review the
invalid colour; the active v1.13.1 registry, and the code that reads it, make a stale
review Yellow and ask for another one. The model follows the active code.

## 6. Evidence collection

### 6.1 EvidenceCollection

`GitHubReviewEvidenceSource.collect` fetches the head once and then follows four
lists to their ends: the check runs of that head, the comments, the reviews and the
inline comments of the pull request. The model cuts each page out of the list as it
is at the moment of the request.

| Action | Code (`verified_review.py`) |
|---|---|
| `Begin` | 539-565: the head, the checkout, the diff; nothing of it is looked at again |
| `RefuseRequest`, `FetchPage` | 1405-1502: loop and limit, the page, its link, the total |
| `IncompleteList`, `CloseList` | 627-694 and 711-764: total, conflicting duplicates, check facts, missing required checks |
| `Deliver` | `ReviewFacts` checks the evidence once more |
| `Fail` | any other `ReviewAssemblyError` |
| `Post`, `SubmitReview`, `StartRun`, `Rerun`, `Delete`, `Edit` | external: GitHub while it is read |

`seen` is history: what stood in a list from its first request to its last, and
whether it grew, shrank, was edited or sent the collector astray meanwhile. With it
the properties say what a changing list can do to the evidence: `NothingMissed` (what
stood there throughout is evidence, unless something was removed), `EvidenceCoheres`
(one version of everything, `OneVersion`; a review with its inline comments,
`ReviewsAreWhole`; a quiet list exactly, `QuietIsExact`), `RefusedForAReason`,
`RequiredAnswered` and `Terminates`.

`EvidenceCollectionProofs` proves the safety properties for lists of any length.

What the model abstracts: an item is an identifier, one field that may be edited, and
what it belongs to. The order of check runs is not documented, so a run may appear at
either end. Commits are named by their hash, so a push changes nothing that is read
after the head; payload shapes, the checkout and the diff are part of `Fail`.

### 6.2 Runs

| Run | Instance | Question |
|---|---|---|
| `Collection` | pages of 2, at most 2 pages; 8 combinations of lists that are empty, within a page, over several, at the limit and over it; 2 changes; links to any page, to no page and elsewhere | what is collected, what may be missing, why does it fail, and does it end? |
| `CompleteEnumeration` | the same without wrong links | is everything enumerated? (violated) |

Two pages of two have every boundary: within a page, between pages, at the limit. Two
changes are what a list with a total needs to hide one (a removal and an addition).
`FairSpec` assumes only that the collector goes on, since every request is answered or
times out; other people may do anything or nothing. Deadlock is not checked: a
collection ends.

`CompleteEnumeration` is a disagreement with `PR_REVIEW_CONTRACT.md`: a check that is run
again, or a comment that is deleted, between two pages shifts another item to a page
already read, and the enumeration that misses it calls itself complete.

## 7. Merge governance

### 7.1 MergeGovernance

A `merge_authorized` event needs evidence that the merge is enforced and approved. The
command line fetches six responses in a fixed order, then one per ruleset and
one per approver, while GitHub changes and time passes; `governance.py` judges the
receipts once all are in.

| Definition | Code |
|---|---|
| `Begin`, `Awaited`, `Fetch`, `FetchFails`, `FetchedAll` | `scripts/validate_rereview_sequence.py` 90-183 and `_governance_transport.py` 282-372: the requests, receipts and negative receipts |
| `BranchValues`, `RulesetValues`, `Derived`, `Status` | `_governance_settings.py`: settings from protection and rulesets, and whether they enforce |
| `Fresh`, `ValidReviewers`, `Passed`, `Qualified`, `Limited` | `_fresh_response`, and `governance.py` 59-220 |
| `Refuse`, `Verify`, `Mint` | `governance.py` 223-517 |
| `VerifyProducer`, `VerifyEnforcement` | `sequence_enforcement.py` |
| `Push`, `Review`, `Dismiss`, `Run`, `Reconfigure`, `ChangeTeam`, `Tick` | external: GitHub and the clock |

`past` is the history of GitHub. `HeldWithinWindow` says that everything an
authorization rests on was so at some moment not older than `MaxAge`, though perhaps
never all at once; `EnforcementIsOfOneWindow` that a capability of
`sequence_enforcement.py` rests on one collection. The other three compare the verdict
with what GitHub does: `EnforcedIsEnforced` with the rules it applies,
`AuthorizedIsSatisfied` and `SatisfiedIsAuthorized` with whether it would let the merge
through. They name the exceptions the code has: an approval counts whatever its author
said later, a check that once passed has passed, and a ruleset is recognised by the
literal names of the branch, so one that covers the branch by a pattern is overlooked
and one that spares it by a pattern counted; a repository protected by rulesets alone is
never recognised.

A ruleset or a membership that is gone when it is asked for is answered by 404 (`Absent`),
which the code turns into a negative receipt where `MayBeMissing` says so and into a failure
elsewhere. The module assumes of its constants that keys of receipts are distinct
(`KeysAreDistinct`) and that `None` is no value of anything (`NoneIsNothing`, `ReceiptsAreSomething`).
`MergeGovernanceProofs` and `MergeGovernanceSettingsProofs` prove all the properties.

What the model abstracts: required checks are pairs of context and app, reviews carry
the commit they are for, actors who may bypass are a set. `evidence_adapter.py` renames
fields. Only the first page of a list is fetched, which the model keeps (`PageSize`).

### 7.2 Run

| Run | Instance | Question |
|---|---|---|
| `Governance` | 2 heads, 3 people, a bot, 2 checks, one ruleset; 12 settings (each source alone, combined, with each protection missing, each way of naming the branch); states of reviews and checks that suffice and that do not; pages of 2; `MaxAge` 0, one tick; one change; 2 collections; changes, ticks and bad answers together at most 2 | was what the evidence authorizes so, and is what GitHub allows authorized? |

A receipt is either of the current tick or stale, so one tick shows both. Two collections
are what a capability of one with the producer of another takes. Deadlock is not
checked: collections are bounded.

## 8. Planning governance

### 8.1 PlanningGovernance

The registry of tasks, work packages and evidence, the scope of every package and its
chain of impacts are files, edited in the pull requests they govern. The validators read
one tree and one diff and remember nothing. The model has an editor who combines any
edits, right or wrong, and a `Merge` that takes only what the validators accept; the
properties speak of the trees that result.

| Definition | Code |
|---|---|
| `RecordHolds`, `TaskHolds`, `CompleteHolds`, `AdoptionHolds`, `PackageHolds`, `RegistryHolds` | `planning_governance_registry.py` 36-260 |
| `Cyclic`, `Eligible` | `planning_governance_base.py` 258-344 |
| `PlanningPolicy`, `ProtocolPolicy`, `ScopeVersions`, `ScopePolicies` | `planning_authority.py` |
| `ScopeHolds`, `ImpactHolds`, `Snapshot` | `planning_governance_artifacts.py` |
| `EvidenceChainHolds`, `ImpactsHold`, `ArtifactsHold`, `FullyEligible`, `CompletionHolds`, `TreeAccepted` | `planning_governance_repository.py` |
| `DiffAccepted` | `planning_governance_git.py` 72-269 |
| `Merge` | `scripts/validate_planning_governance.py`, then the owner merges |
| `Open`, `Deviate`, `Rebase`, `Select`, `Advance`, `Cite`, `AddImpact`, `Borrow`, `Authorize`, `Complete`, `Depend`, `Close` | external: whoever works on the repository |

`CompletionIsGrounded` and `WorkIsUnlocked` say of merged trees that what is complete, and
what work may begin on, has finished work behind it, transitively (`Done`, `Finished`);
`NothingWaitsForItself` that no set of tasks or packages waits for itself, whatever two
pull requests were combined; `EvidenceIsItsOwn` that no package lives on another one's
evidence, although it may point at another one's documents; `FoundationFirst` that the
adoption of AIGOV waits for the planning foundation; `ProtectedIsUntouched` that the AIGOV
baseline stays as it is, that a protocol changes only under a scope for protocols, and that
v1.12.0, the one protocol outside the active series, does not change under a scope of the
current package. v1.13.0 and v1.13.1, released as they are, may change under a current
scope for protocols: the policies of `planning_authority.py` allow it. `AnotherMayFollow`
says when the plan can go on: a pull request that merely takes up another package, one that
is not closed, has documents of its own and no evidence yet (`Available`), is accepted
if the scope of the current package is `Historical`, and is rejected if not, whatever was
merged before.

Three consequences of the code are part of these statements. A protocol scope that names
not exactly one version among its paths is accepted while its package is current and never
again (`Historical`; `planning_authority.py` 352-373), so that no other package can
simply be taken up after it: that is the rejected half of `AnotherMayFollow`. And the package a pull request is made under can never be recorded as merged by that
pull request: its evidence has the base of its scope, and that is the base of the pull
request. And a scope is judged by the package its document names, not by the one that
refers to it (`planning_governance_artifacts.py` 79-90, `planning_authority.py` 352-373,
`planning_governance_git.py` 91-97): the current package may be pointed at the scope of
another one, which then counts as historical and is held to the version its paths name,
so that `protocols/v1.12.0/` may change under it. That is the exception `own` of
`ProtectedIsUntouched`, and TLC reaches it: without the exception the property is
violated by `Open`, `Select`, `Borrow`, `Merge`. The release locks, which the planning
validators do not read, would still reject such a change (`repository.py` 595-623).

`PlanningGovernanceProofs` proves all of them for every number of tasks and packages.

What the model abstracts, and why that is faithful:

- Identifiers are unique and known, since they are keys of functions; the code's checks
  for duplicates and unknown references are left out. The chain of program, initiative
  and task is one `task` field.
- A path is one of six places a policy tells apart, three of them protocol versions:
  v1.12.0 with a policy of its own, v1.13.0 and the active v1.13.1, which share one. The
  syntax of patterns, the existence of declared files and `forbidden_changes` are left
  out.
- A state is what the rules read of it. Progress flags, the obligations of the very
  first package, the baseline document's phrases and the JSON schemas are left out:
  they are further conjuncts of acceptance.
- One pull request at a time, on the tip: every accepted one rewrites the scope revision
  on the board, so one that was opened on an older tip conflicts in Git. This is an
  assumption where two pull requests write byte-identical scopes: they would not
  conflict on that line, and could be merged without being validated together.
  `NothingWaitsForItself`, of circles that two pull requests close, and the other
  properties hold of trees that were validated on the tip.

### 8.2 Run

| Run | Instance | Question |
|---|---|---|
| `Planning` | 2 tasks, 3 packages, two plans (one under way, one whose foundation is laid), planning and protocol changes; 2 merges, 2 edits, 2 impacts a package | what can validators without memory be made to accept? |

Two merges let one pull request prepare the ground for another; two edits on top of the
change itself are what it takes to change two documents that must agree. A circle over
two pull requests, a task reopened under another one that needs it, and evidence
borrowed from another package are all within these bounds. Deadlock is not checked: the
edits are bounded.

## 9. Proofs

`OfficialCompletionProofs` proves, for every set of calls, heads, bases, packages
and failures (under `PublicationAssumption`, which only says what the constants are):

| Theorem | Assumes | Property |
|---|---|---|
| `TypeCorrect` | | `TypeOK` |
| `DeliveryIsVerified` | | `DeliveredWasVerified` |
| `ExposureIsSound` | | `OnlySoundPackagesExposed` |
| `CommitsComplete` | | `CommittedIsCompleted` |
| `CompletionsAreOwn` | `Exclusive` | `CompletionIsOwn` |
| `StandingIsPreserved` | `Exclusive`, no `stat` | `StandingPreserved` |
| `BackupsOutlive` | | `BackupOutlivesCommit` |
| `StrandingIsReported` | `Exclusive` | `StrandedIsReported` |
| `FailuresRestore` | `Exclusive` | `CleanFailureRestores` |
| `PublicationImplements` | `Exclusive`, no `stat` | `RefinesOfficialOutput` |

and, of which no run has a property of its own:

| Theorem | Assumes | What it says |
|---|---|---|
| `CallsAreBounded` | | Every step of a call lowers `StepsLeft`, a number of at most 20 that nobody else raises: a call that has begun ends after at most nineteen steps, and no rollback starts over. |
| `CommitsAreFinal` | | A committed call is never rolled back; its two cleanups touch neither the official path nor another call's backup, and all that can still go wrong is that its caller gets no completion. |
| `BundleSurvives` | `Exclusive` | The artifacts of the bundle committed last are all at the official path or in a backup, an exception inside `restore` included: it costs the manifest at most. |
| `LossesAreReported` | `Exclusive` | Only the rollback of an uncommitted call that has recorded `ROLLBACK-009`, `ROLLBACK-999` or `999` can take the authority from the bundle committed last, and no record is taken back. |
| `CalmCallsStayOnTrack` | `Exclusive` | Once failures have stopped, a call for a current package never leaves the way to its completion. |

`OfficialOutput` itself proves `StandingIsKept`: the abstract promise keeps
`StandingKept`, whatever the bundles are.

Overlapping calls and an exception inside `restore` are what `OverlapOwnership` and
`UnexpectedRollback` exhibit; no theorem excludes anything else.

The argument. None of the properties is inductive. `ControlInv` adds what a
call's place says about its result (a path to an incomplete review has recorded an
error, so only a committed call can reach `complete`), and is enough for
`DeliveredWasVerified`. `ExclusiveInv` adds that at most one call runs and that
the running one finds in the directories what it put there. `PreservationInv`
adds that from the moment the previous output is moved aside until it is back or
superseded, the standing bundle is on the shelf, and that `restore` strips
nothing it has just restored. `BackupInv` says that a call has no backup before it moves
the output aside, so that a backup is never written over. `StrandingInv` follows a
call's own bundle: it is loose (at the official path or in somebody's backup) only
after its promotion, and after the rollback only if that was reported. `FaithfulInv`
follows what the call found: it is at the official path, or in the backup, or the
diagnostics admit trouble. `MappingInv` joins these with `Once` (a complete bundle is
in one place only, so that restoring or deleting a backup takes it off the shelf) and
`OnlyOwn` (what a rollback withdraws is its own call's publication, which has no
standing); `Effects` lists what a step can do to the official path and the backups,
and `StepImplements` maps each of these to a step of `OfficialOutput` or to none.
Each invariant is proved for the step of the acting
call, one action at a time; `OthersUntouched` and `OthersAreNotRunning` carry it to
the other calls.

`Distance` is the longest way from each place through `publish`, its rollback, the
emergency and the finally clause; `StepsFollow` lists where each step leads
(`ControlFlow`), and `CommitsAreFinal` needs it too: all that is left to a committed
call (`Settled`) is `cleanup` and `finally`. `BundleSurvives` says what is left of
`StandingPreserved` when something raises inside `restore`, which it excludes.
`restore` moves the backup in one step and deletes nothing that has standing; but
where the look that confirms the move raises, it strips the manifest of what it has
just restored, and where it is cut short, the emergency does. `SurvivalInv` says
that where a call relies on the backup (`Relying`) some backup is whole, and that a
rollback which has not restored it, and inspects or strips what is at the official path,
still has it on the shelf or has recorded `ROLLBACK-009` (`Sparing`). `OnTrack` follows
a call once failures have stopped, whatever its predecessors left behind.

`RereviewSequenceProofs` proves, for every set of pull requests, heads,
identifiers, evidence and well-formed events and lists of every length
(`NothingIsNone`, `EvidenceIsVerified`, `SchemaHolds`):

| Theorem | Property |
|---|---|
| `SequenceTypes` | `TypeOK` |
| `OnlyEarned` | `AcceptanceIsEarned` |
| `AllEarned` | `EarnedIsAccepted` |
| `NothingUnlocked` | `RejectedEventsUnlockNothing` |
| `AcceptedHeadsChangeByRepair` | (no run's) between the acceptances of two heads of one pull request lie a repair to the second and a proof of it |
| `RepairsRevoke` | (no run's) after a review that calls for a repair, an acceptance needs a later, favourable proof |

The argument. What the policy accepts at a step depends on its dictionaries, what
`Earned` says depends on the list. `Faithful` ties the two: `seen` holds the
identifiers of the list (`SeenAll`), `pending` and `passed` hold of each pull
request the latest repair and the latest proof since it (`Remembers`), and every
acceptance already read was answered as it deserved (`Answers`). Appending an event
changes none of the formulas about earlier positions, which a few lemmas state
once; each action then only has to account for the position it adds. The last two theorems
follow from `Answers`, since two repairs of a pull request cannot both be its latest, nor two
proofs.

`DecisionProjectionProofs` proves all seven properties of the run `Decisions`, for
every set of subjects, files, sources, evidence, requests and hand-written packages
(`NoneIsNothing`, `EvidenceIsMinted`, `RequestsAreWellFormed`,
`SubmissionsAreWellFormed`):

| Theorem | Property |
|---|---|
| `Actionable` | `AlwaysAnAction` |
| `GreenIsClean` | `GreenIffClean` |
| `MergingIsFinal`, `StaleOnlyRerunsAlways`, `ActionsAlwaysFit` | `MergeNowIsFinal`, `StaleOnlyReruns`, `ActionsFitTheReview` |
| `RepairsAreGrounded` | `RepairIsGrounded` |
| `Rereads`, `VerificationNeedsEvidence`, `RereadingIsAlwaysFaithful` | `RereadsAlike`, `VerifiedNeedsItsEvidence`, `RereadingIsFaithful` |
| `ProblemsStayProblems` | `ProblemsNeverHelp` |
| `DecisionTypes` | `TypeOK` |

The argument. The inductive invariant `Derived` says that the package and the
decision at hand are derived from the request (or from a submission) and each
reading from them, so the theorems become facts about the operators. `ScopeIsIrrelevant` says
that a package the assembler made is decided alike in every scope a caller may be in,
which makes minting, re-verification and delivery one and the same derivation;
`NeverContradicted` that neither of the final checks can fail. `ReasonGiven`
says that a reason is given exactly by its own rule; from it follow what
calls for a repair, what keeps the status from Green, and (`CleanIsGreen`) that an
assembled package is Green exactly for a clean request. `ProblemsStayProblems` then
needs no case analysis of reasons: a worse request that were clean would make the
better one clean.

`EvidenceCollectionProofs` proves, for lists of every length, pages of every size, any
limit and any number of changes (`PagesArePositive`, `NumbersAreNatural`,
`LinksAreDistinct`, `SwitchIsBoolean`, `RequiredAreNames`, `ListsAreLists`, which say what the
constants are and that GitHub's lists are lists of distinct items):

| Theorem | Property |
|---|---|
| `CollectionTypes` | `TypeOK` |
| `NothingIsMissed` | `NothingMissed` |
| `RefusalsAreReasoned` | `RefusedForAReason` |
| `EvidenceAlwaysCoheres` | `EvidenceCoheres` |
| `RequiredAreAnswered` | `RequiredAnswered` |
| `CollectionsAreBounded` | (no run's) every step of the collector lowers `StepsLeft`, at most `4 * (MaxPages + 1) + 2`, which nobody else raises: the safety half of `Terminates` |

The argument. None of them is inductive, since each speaks of a list that has been read and
says nothing while it is read. `Course` says what holds of the list being read, as long as every
link was the right one: the pages served are the first ones and full (`Paged`); there are more
because the list is, or was, that long (`Sized`); the total still counts it (`Counted`); what stood
there throughout was served or is on a later page (`Caught`); and what a list without edits, or
without additions and removals, has kept (`Still`, `Uniform`, `Aligned`). `Whole` carries the
reviews over to the list of their inline comments. What other people do reaches the invariant only
through `Turns`, which says what additions, removals and edits do to a list, so their six
actions are dealt with once. `CloseList` turns `Course` into `Yielded`, which holds from then on. `Budget` counts the requests
left: a request that is answered was not made before (`RequestsAreNew`), so at most `MaxPages` of
them are made for a list, wherever links lead.

`MergeGovernanceProofs` proves, for every repository, settings, `MaxAge`, page size and
number of collections:

| Theorem | Property |
|---|---|
| `TypesHold` | `TypeOK` |
| `AuthorizedWithinWindow` | `HeldWithinWindow` |
| `EnforcementOfOneWindow` | `EnforcementIsOfOneWindow` |
| `CollectionsAreBounded` | (no run's) a collection asks for each key at most once, replaces no receipt, and is over after at most two more steps than there are keys |

and `MergeGovernanceSettingsProofs`:

| Theorem | Property |
|---|---|
| `EnforcedAreEnforced` | `EnforcedIsEnforced` |
| `AuthorizedAreSatisfied` | `AuthorizedIsSatisfied` |
| `SatisfiedAreAuthorized` | `SatisfiedIsAuthorized` |

The argument. `Receipts` says that each good receipt shows the world as it was at some
moment since the event and not yet replaced when the response came; a fresh one therefore shows
a world of the window. What each piece of evidence rests on is then found among the worlds in
`past`, and stays there because `past` only grows. For the other three, a collection during which
nothing changed has receipts of one world, and the verdict is compared with that world. The required
number of approvals is the largest one that any rule asks for; that a finite set of numbers has a
largest element is `LargestIsLargest`.

`PlanningGovernanceProofs` proves, for all finite sets of tasks and packages
(`PlanningAssumption`):

| Theorem | Property |
|---|---|
| `TypesHold` | `TypeOK` |
| `CompletionGrounded` | `CompletionIsGrounded` |
| `WorkUnlocked` | `WorkIsUnlocked` |
| `NoneWaitsForItself` | `NothingWaitsForItself` |
| `AdoptionAfterFoundation` | `FoundationFirst` |
| `EvidenceOwned` | `EvidenceIsItsOwn` |
| `ProtectedUntouched` | `ProtectedIsUntouched` |
| `FollowingIsDecided` | `AnotherMayFollow` |

The argument. The validator has no memory, so there is little to carry along: the tree on
the default branch is always one that the validator accepts (`MainIsAccepted`), and the theorems
are facts about accepted trees. `NoneWaitsForItself` needs the depth-first search to be right: `Meets`
is a recursive function whose existence is shown by a least fixpoint (`SearchExists`), and a
circle it did not find leads, by the smallest set of nodes not yet visited, to a contradiction
(`CircleIsFound`).

Every safety property of every passing run is a theorem. Model-checked only are the
liveness properties `Recovers` and `Terminates`. What they say of single steps is proved
(`CallsAreBounded` and `CalmCallsStayOnTrack`; `CollectionsAreBounded`): measures that
every step lowers, and a way that is never left. What is left to TLC is that some step
is always possible until the end and that fairness takes it, which needs `ENABLED` and
is out of the prover's reach.

## 10. Not modelled

See the `not_modelled` components of `PROJECT.json`. Rendering, the wording of messages,
JSON schemas, the literal comparison of rendered artifacts with what they are rendered
from (`validation_v2_core.py`, `derived_outputs.py`, `prompt_semantics.py`), the validation
of static files (`repository.py`, `functional_runtime.py`), CI metadata and its trust gate,
the earlier protocol (`candidate_v1_11.py`) and command-line wrappers are functions of
their input without state, order or failure of their own: what could be wrong with them
is a detail that an abstraction leaves out. `review_provenance.py` mints evidence that
the re-review model takes as given. Of the modelled components, what is left out is named
in their sections and notes.
