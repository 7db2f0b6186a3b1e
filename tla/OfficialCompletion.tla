------------------------- MODULE OfficialCompletion -------------------------
(***************************************************************************)
(* The publisher of PR-Inspector: complete_review of _official_complete.py *)
(* with its rollback, and the accessors of the completion it mints.        *)
(*                                                                         *)
(* Every element of Calls is one invocation of complete_review for its own *)
(* package, all of them on one output directory.  The directory and the    *)
(* siblings a call creates next to it (staging, backup, quarantine) are    *)
(* the shared state.  A pull request whose head and base move, and a file  *)
(* system, network and process that fail, are the environment.             *)
(*                                                                         *)
(* One action is one externally visible step of the code: one fetch, one   *)
(* rename, one recursive deletion, one validation of a directory.  What a  *)
(* call computes between two such steps is part of the step before it.     *)
(***************************************************************************)
EXTENDS Naturals, FiniteSets

CONSTANTS
  Calls,        \* invocations of complete_review on this output directory
  Earlier,      \* the author of the bundle an earlier program run left behind
  Nothing,      \* no bundle
  Heads,        \* head commits of the pull request
  Bases,        \* base commits of the pull request
  EarlierHead,  \* the head the earlier bundle was reviewed at
  Package,      \* the facts of each call's CanonicalReviewPackage
  Faults,       \* the kinds of failure the environment may still produce
  Exclusive,    \* TRUE: no call begins while another one is running
  MaxBegun      \* bound on the calls that begin, of all there might be

FaultKinds == {"net", "io", "stat", "crash", "push"}

Facts == [head: Heads, base: Bases, verified: BOOLEAN, active: BOOLEAN,
          valid: BOOLEAN, current: BOOLEAN]

ASSUME PublicationAssumption ==
  /\ Earlier \notin Calls
  /\ Nothing \notin Calls \cup {Earlier}
  /\ EarlierHead \in Heads
  /\ Package \in [Calls -> Facts]
  /\ Faults \subseteq FaultKinds
  /\ Exclusive \in BOOLEAN

VARIABLES
  live,        \* head and base of the pull request on GitHub
  faults,      \* the failures still possible
  output,      \* the entry at the official path
  stage,       \* stage[c]: the staging directory of call c
  backup,      \* backup[c]: the sibling c moved the previous output to
  quarantine,  \* quarantine[c]: the sibling c moved a failed publication to
  pc,          \* where each call is
  held,        \* held[c]: publish() returned or passed on a backup path
  restored,    \* restored[c]: the local of restore()
  codes,       \* codes[c]: the diagnostics of c's result
  bundle,      \* bundle[c]: whose bundle c's final validation captured
  delivered,   \* delivered[c]: whose text c's completion last handed out
  committed,   \* history: calls that passed the publication commit point
  standing,    \* history: the bundle that rightfully holds the official path
  found        \* history: found[c]: the entry at the official path as c began

files == <<output, stage, backup, quarantine>>
locals == <<held, restored, bundle>>
history == <<committed, standing, found>>
vars == <<live, faults, files, pc, locals, codes, delivered, history>>

Owners == Calls \cup {Earlier}

HeadOf(o) == IF o = Earlier THEN EarlierHead ELSE Package[o].head

-----------------------------------------------------------------------------
(***************************************************************************)
(* Directory entries.  "sealed" is a complete bundle with its manifest:    *)
(* the only form validate_directory accepts.  "unmarked" has lost its      *)
(* manifest; "torn" is partly written, partly deleted, or no bundle at all.*)
(***************************************************************************)
Forms == {"absent", "file", "torn", "unmarked", "sealed"}

Entry == [form: Forms, of: Owners]

Absent == [form |-> "absent", of |-> Earlier]
PlainFile == [form |-> "file", of |-> Earlier]
Torn(o) == [form |-> "torn", of |-> o]
Unmarked(o) == [form |-> "unmarked", of |-> o]
Sealed(o) == [form |-> "sealed", of |-> o]

Authoritative(e) == e.form = "sealed"

\* os.replace onto e works when nothing is there, or an empty directory.
Replaceable(e) == e.form \in {"absent", "torn"}

CanFail(kind) == kind \in faults

\* What _remove_tree can leave of e: nothing, or after a failure any part of it.
RemoveTree(e) ==
  IF e.form \in {"absent", "file"}
  THEN {e}
  ELSE {Absent} \cup (IF CanFail("io") THEN {e, Torn(e.of)} ELSE {})

\* What _invalidate_manifest can leave of e: only a bundle has a manifest, and
\* it stays when neither the rename nor the unlink of the manifest works.
InvalidateManifest(e) ==
  IF Authoritative(e)
  THEN {Unmarked(e.of)} \cup (IF CanFail("io") THEN {e} ELSE {})
  ELSE {e}

FormOfFailure(e) == IF Authoritative(e) THEN {e.form} ELSE {}

NothingToReport(e) == {}

StillAuthoritative(e) == IF Authoritative(e) THEN {"ROLLBACK-006"} ELSE {}

-----------------------------------------------------------------------------
(***************************************************************************)
(* Control of a call.                                                      *)
(***************************************************************************)
Building == {"fetch", "stage", "render", "recheck", "moveAside", "promote"}
Verifying == {"validate", "final"}
RollingBack == {"quarantine", "invalidate", "delete", "reinvalidate",
                "restore", "confirm", "inspect", "strip", "dequarantine"}
Running == Building \cup Verifying \cup RollingBack
             \cup {"emergency", "cleanup", "finally"}
Minted == {"complete", "accessing"}
Stages == Running \cup Minted \cup {"idle", "incomplete", "escaped", "crashed"}

Codes == {"AUTHORITY-001", "AUTHORITY-003", "002", "004", "005", "007", "008",
          "009", "999", "ROLLBACK-001", "ROLLBACK-003", "ROLLBACK-006",
          "ROLLBACK-007", "ROLLBACK-008", "ROLLBACK-009", "ROLLBACK-010",
          "ROLLBACK-998", "ROLLBACK-999"}

Goto(c, to) == pc' = [pc EXCEPT ![c] = to]
Report(c, new) == codes' = [codes EXCEPT ![c] = @ \cup new]

\* A return before the try block: there is nothing to clean up.
Refuse(c, code) ==
  /\ Report(c, {code})
  /\ Goto(c, "incomplete")
  /\ UNCHANGED <<live, faults, files, locals, delivered, history>>

\* A return from inside the try block: the finally clause still runs.
Abandon(c, code) ==
  /\ Report(c, {code})
  /\ Goto(c, "finally")
  /\ UNCHANGED <<live, faults, files, locals, delivered, history>>

ReturnWithoutRollback(c, code) == Abandon(c, code)

\* The call enters restore(); code 005 from publish, 008 from complete_review.
RollBack(c, code) ==
  /\ Report(c, {code})
  /\ Goto(c, "quarantine")
  /\ UNCHANGED <<live, faults, files, locals, delivered, history>>

\* complete_review wraps its own restore() in _bounded_restore, publish does not.
Bounded(c) == "008" \in codes[c]

HeadMatches(c) == live.head = Package[c].head

-----------------------------------------------------------------------------
(***************************************************************************)
(* The environment: the pull request moves, failures stop.                 *)
(***************************************************************************)
Init ==
  /\ live \in [head: Heads, base: Bases]
  /\ faults = Faults
  /\ output \in {Absent, PlainFile, Torn(Earlier), Sealed(Earlier)}
  /\ stage = [c \in Calls |-> Absent]
  /\ backup = [c \in Calls |-> Absent]
  /\ quarantine = [c \in Calls |-> Absent]
  /\ pc = [c \in Calls |-> "idle"]
  /\ held = [c \in Calls |-> FALSE]
  /\ restored = [c \in Calls |-> FALSE]
  /\ codes = [c \in Calls |-> {}]
  /\ bundle = [c \in Calls |-> Nothing]
  /\ delivered = [c \in Calls |-> Nothing]
  /\ committed = {}
  /\ standing = IF Authoritative(output) THEN Earlier ELSE Nothing
  /\ found = [c \in Calls |-> Absent]

Push ==
  /\ CanFail("push")
  /\ live' \in [head: Heads, base: Bases] \ {live}
  /\ UNCHANGED <<faults, files, pc, locals, codes, delivered, history>>

CalmDown ==
  /\ faults # {}
  /\ faults' = {}
  /\ UNCHANGED <<live, files, pc, locals, codes, delivered, history>>

\* The process of a call dies: its completion, if it had one, dies with it.
Crash(c) ==
  /\ CanFail("crash")
  /\ pc[c] \in Running \cup Minted
  /\ Goto(c, "crashed")
  /\ UNCHANGED <<live, faults, files, locals, codes, delivered, history>>

-----------------------------------------------------------------------------
(***************************************************************************)
(* Up to the staged bundle.                                                *)
(***************************************************************************)
Begin(c) ==
  /\ pc[c] = "idle"
  /\ Exclusive => \A d \in Calls : pc[d] \notin Running
  /\ Cardinality({d \in Calls : pc[d] # "idle"}) < MaxBegun
  /\ found' = [found EXCEPT ![c] = output]
  /\ IF Package[c].verified
     THEN Goto(c, "fetch") /\ UNCHANGED codes
     ELSE Goto(c, "incomplete") /\ Report(c, {"AUTHORITY-001"})
  /\ UNCHANGED <<live, faults, files, locals, delivered, committed, standing>>

\* The checks between the first fetch and the first look at the output
\* directory, in the code's order: the first one that fails names the code.
Refusals(p) ==
  LET sameTarget == p.head = live.head /\ p.base = live.base
  IN  CASE ~p.active -> {"AUTHORITY-003"}
        [] p.active /\ ~sameTarget -> {"007"}
        [] p.active /\ sameTarget /\ ~p.valid -> {"002"}
        [] p.active /\ sameTarget /\ p.valid /\ ~p.current -> {"007"}
        [] OTHER -> {}

FetchInitialHead(c) ==
  /\ pc[c] = "fetch"
  /\ \/ CanFail("net") /\ Refuse(c, "008")
     \/ \E code \in Refusals(Package[c]) : Refuse(c, code)
     \/ /\ Refusals(Package[c]) = {}
        /\ Goto(c, "stage")
        /\ UNCHANGED <<live, faults, files, locals, codes, delivered, history>>

\* The look at the output directory is outside every try of complete_review.
CreateStage(c) ==
  /\ pc[c] = "stage"
  /\ \/ /\ CanFail("stat")
        /\ Goto(c, "escaped")
        /\ UNCHANGED <<live, faults, files, locals, codes, delivered, history>>
     \/ output.form = "file" /\ Refuse(c, "005")
     \/ CanFail("io") /\ Refuse(c, "005")
     \/ /\ output.form # "file"
        /\ stage' = [stage EXCEPT ![c] = Torn(c)]
        /\ Goto(c, "render")
        /\ UNCHANGED <<live, faults, output, backup, quarantine, locals, codes,
                       delivered, history>>

\* Writes package and artifacts into the staging directory and validates them.
Render(c) ==
  /\ pc[c] = "render"
  /\ \/ CanFail("io") /\ Abandon(c, "004")
     \/ CanFail("stat") /\ Abandon(c, "999")
     \/ /\ stage' = [stage EXCEPT ![c] = Sealed(c)]
        /\ Goto(c, "recheck")
        /\ UNCHANGED <<live, faults, output, backup, quarantine, locals, codes,
                       delivered, history>>

RecheckHead(c) ==
  /\ pc[c] = "recheck"
  /\ \/ CanFail("net") /\ Abandon(c, "008")
     \/ ~HeadMatches(c) /\ Abandon(c, "008")
     \/ /\ HeadMatches(c)
        /\ Goto(c, "moveAside")
        /\ UNCHANGED <<live, faults, files, locals, codes, delivered, history>>

-----------------------------------------------------------------------------
(***************************************************************************)
(* publish(), the final validation and the commit point.                   *)
(***************************************************************************)
OnlyBundlesAreInTheWay == Authoritative(output)

Occupied == output # Absent

MoveAside(c) ==
  /\ pc[c] = "moveAside"
  /\ \/ Occupied /\ CanFail("io") /\ Abandon(c, "005")
     \/ CanFail("stat") /\ Abandon(c, "999")
     \/ /\ Occupied
        /\ backup' = [backup EXCEPT ![c] = output]
        /\ output' = Absent
        /\ held' = [held EXCEPT ![c] = TRUE]
        /\ Goto(c, "promote")
        /\ UNCHANGED <<live, faults, stage, quarantine, restored, bundle, codes,
                       delivered, history>>
     \/ /\ ~Occupied
        /\ Goto(c, "promote")
        /\ UNCHANGED <<live, faults, files, locals, codes, delivered, history>>

Promote(c) ==
  /\ pc[c] = "promote"
  /\ \/ (CanFail("io") \/ output # Absent) /\ RollBack(c, "005")
     \/ /\ Replaceable(output)
        /\ output' = stage[c]
        /\ stage' = [stage EXCEPT ![c] = Absent]
        /\ Goto(c, "validate")
        /\ UNCHANGED <<live, faults, backup, quarantine, locals, codes,
                       delivered, history>>

\* validate_bundle: a full bundle whose package names the expected head.
AnyHead(e, head) == Authoritative(e)

Validates(e, head) == Authoritative(e) /\ HeadOf(e.of) = head

ValidateThenCleanUp(c) ==
  /\ pc[c] = "validate"
  /\ Validates(output, Package[c].head)
  /\ bundle' = [bundle EXCEPT ![c] = output.of]
  /\ Goto(c, "cleanup")
  /\ UNCHANGED <<live, faults, files, held, restored, codes, delivered, history>>

ValidatePublished(c) ==
  /\ pc[c] = "validate"
  /\ \/ (CanFail("io") \/ ~Validates(output, Package[c].head)) /\ RollBack(c, "008")
     \/ /\ Validates(output, Package[c].head)
        /\ bundle' = [bundle EXCEPT ![c] = output.of]
        /\ Goto(c, "final")
        /\ UNCHANGED <<live, faults, files, held, restored, codes, delivered,
                       history>>

FinalHeadCheck(c) ==
  /\ pc[c] = "final"
  /\ \/ (CanFail("net") \/ ~HeadMatches(c)) /\ RollBack(c, "008")
     \/ /\ HeadMatches(c)
        /\ committed' = committed \cup {c}
        /\ standing' = bundle[c]
        /\ Goto(c, "cleanup")
        /\ UNCHANGED <<live, faults, files, locals, codes, delivered, found>>

\* The obsolete backup goes; its loss or survival no longer matters.
CleanUpBackup(c) ==
  /\ pc[c] = "cleanup"
  /\ \/ held[c] /\ CanFail("stat") /\ Abandon(c, "999")
     \/ /\ \E left \in (IF held[c] THEN RemoveTree(backup[c]) ELSE {backup[c]}) :
             /\ backup' = [backup EXCEPT ![c] = left]
             /\ Report(c, IF held[c] /\ left # Absent THEN {"009"} ELSE {})
        /\ Goto(c, "finally")
        /\ UNCHANGED <<live, faults, output, stage, quarantine, locals,
                       delivered, history>>

NothingToClean(c) == codes[c] = {}

ValidatedOnce(c) == bundle[c] # Nothing

Succeeded(c) == codes[c] \subseteq {"009"}

\* The finally clause.  Only stage.exists() is outside its inner try.
RemoveStage(c) ==
  /\ pc[c] = "finally"
  /\ \/ /\ CanFail("stat")
        /\ Goto(c, "escaped")
        /\ UNCHANGED <<live, faults, files, locals, codes, delivered, history>>
     \/ /\ \E left \in RemoveTree(stage[c]) : stage' = [stage EXCEPT ![c] = left]
        /\ Goto(c, IF Succeeded(c) THEN "complete" ELSE "incomplete")
        /\ UNCHANGED <<live, faults, output, backup, quarantine, locals, codes,
                       delivered, history>>

-----------------------------------------------------------------------------
(***************************************************************************)
(* restore() and its bound.                                                *)
(***************************************************************************)
QuarantineOutput(c) ==
  /\ pc[c] = "quarantine"
  /\ \/ /\ output # Absent
        /\ quarantine' = [quarantine EXCEPT ![c] = output]
        /\ output' = Absent
        /\ Goto(c, "restore")
        /\ UNCHANGED <<live, faults, stage, backup, locals, codes, delivered,
                       history>>
     \/ /\ output = Absent
        /\ Goto(c, "restore")
        /\ UNCHANGED <<live, faults, files, locals, codes, delivered, history>>
     \/ /\ output # Absent
        /\ CanFail("io")
        /\ Report(c, {"ROLLBACK-001"})
        /\ Goto(c, "invalidate")
        /\ UNCHANGED <<live, faults, files, locals, delivered, history>>

\* _invalidate_manifest(output), before and after the attempt to delete it.
InvalidateOutput(c) ==
  /\ \/ pc[c] = "invalidate" /\ Goto(c, "delete")
     \/ pc[c] = "reinvalidate" /\ Goto(c, "restore")
  /\ output' \in InvalidateManifest(output)
  /\ Report(c, StillAuthoritative(output'))
  /\ UNCHANGED <<live, faults, stage, backup, quarantine, locals, delivered,
                 history>>

DeleteOutput(c) ==
  /\ pc[c] = "delete"
  /\ output' \in RemoveTree(output)
  /\ \/ output' = Absent /\ Report(c, {}) /\ Goto(c, "restore")
     \/ output' # Absent /\ Report(c, {"ROLLBACK-003"}) /\ Goto(c, "reinvalidate")
  /\ UNCHANGED <<live, faults, stage, backup, quarantine, locals, delivered,
                 history>>

RestoreBackup(c) ==
  /\ pc[c] = "restore"
  /\ \/ /\ ~held[c]
        /\ Goto(c, "inspect")
        /\ UNCHANGED <<files, codes>>
     \/ /\ held[c]
        /\ \E code \in {"ROLLBACK-007", "ROLLBACK-008", "ROLLBACK-009"} :
             /\ code = "ROLLBACK-007" => backup[c] = Absent
             /\ code = "ROLLBACK-008" => backup[c] # Absent /\ output # Absent
             /\ code = "ROLLBACK-009" => /\ backup[c] # Absent /\ output = Absent
                                         /\ CanFail("io")
             /\ Report(c, {code})
        /\ Goto(c, "inspect")
        /\ UNCHANGED files
     \/ /\ held[c]
        /\ backup[c] # Absent
        /\ output = Absent
        /\ output' = backup[c]
        /\ backup' = [backup EXCEPT ![c] = Absent]
        /\ Goto(c, "confirm")
        /\ UNCHANGED <<stage, quarantine, codes>>
  /\ UNCHANGED <<live, faults, locals, delivered, history>>

\* The rename counts as a restoration only once it is seen on disk; not being
\* able to look counts against it.
ConfirmRestored(c) ==
  /\ pc[c] = "confirm"
  /\ \/ /\ output # Absent /\ backup[c] = Absent
        /\ restored' = [restored EXCEPT ![c] = TRUE]
        /\ UNCHANGED codes
     \/ /\ output = Absent \/ backup[c] # Absent \/ CanFail("stat")
        /\ Report(c, {"ROLLBACK-009"})
        /\ UNCHANGED restored
  /\ Goto(c, "inspect")
  /\ UNCHANGED <<live, faults, files, held, bundle, delivered, history>>

\* restore() may delete the quarantine when the previous output is back, or
\* when there was none and what is at the official path now is not a bundle.
CleanupAllowed(c, e) == restored[c] \/ (~held[c] /\ ~Authoritative(e))

AfterInspection(c, e) ==
  Goto(c, IF CleanupAllowed(c, e) THEN "dequarantine" ELSE "finally")

StripWhateverIsThere(c) == Authoritative(output)

\* What is official now is neither the restored output nor allowed to stay.
MustStrip(c) == Authoritative(output) /\ ~restored[c]

InspectOutput(c) ==
  /\ pc[c] = "inspect"
  /\ IF MustStrip(c)
     THEN Goto(c, "strip")
     ELSE AfterInspection(c, output)
  /\ UNCHANGED <<live, faults, files, locals, codes, delivered, history>>

StripOutput(c) ==
  /\ pc[c] = "strip"
  /\ output' \in InvalidateManifest(output)
  /\ Report(c, StillAuthoritative(output'))
  /\ AfterInspection(c, output')
  /\ UNCHANGED <<live, faults, stage, backup, quarantine, locals, delivered,
                 history>>

RemoveQuarantine(c) ==
  /\ pc[c] = "dequarantine"
  /\ \E left \in RemoveTree(quarantine[c]) :
       /\ quarantine' = [quarantine EXCEPT ![c] = left]
       /\ Report(c, IF left = Absent THEN {} ELSE {"ROLLBACK-010"})
  /\ Goto(c, "finally")
  /\ UNCHANGED <<live, faults, output, stage, backup, locals, delivered, history>>

\* An exception nobody expected inside restore(), anywhere but inside its one
\* try block.  The diagnostics restore() had gathered are lost.
RollbackRaises(c) ==
  /\ pc[c] \in RollingBack \ {"confirm"}
  /\ CanFail("stat")
  /\ codes' = [codes EXCEPT ![c] =
                 IF Bounded(c) THEN {"008", "ROLLBACK-999"} ELSE {"999"}]
  /\ Goto(c, IF Bounded(c) THEN "emergency" ELSE "finally")
  /\ UNCHANGED <<live, faults, files, locals, delivered, history>>

EmergencyInvalidate(c) ==
  /\ pc[c] = "emergency"
  /\ \/ CanFail("stat") /\ Report(c, {"ROLLBACK-998"}) /\ UNCHANGED output
     \/ output' \in InvalidateManifest(output) /\ Report(c, StillAuthoritative(output'))
     \/ /\ CanFail("stat")
        /\ output' \in InvalidateManifest(output)
        /\ codes' = [codes EXCEPT ![c] = {"999"}]
  /\ Goto(c, "finally")
  /\ UNCHANGED <<live, faults, stage, backup, quarantine, locals, delivered,
                 history>>

-----------------------------------------------------------------------------
(***************************************************************************)
(* The accessors of a completion: _reverify fetches the head, then reads   *)
(* and validates the directory and compares what it read with the hashes   *)
(* the completion was minted with.  A CompletionError changes nothing.     *)
(***************************************************************************)
FetchForAccess(c) ==
  /\ pc[c] = "complete"
  /\ HeadMatches(c)
  /\ Goto(c, "accessing")
  /\ UNCHANGED <<live, faults, files, locals, codes, delivered, history>>

AnyValidBundle(c) == Validates(output, Package[c].head)

\* The directory validates and every hash is the one the completion carries.
Unchanged(c) == Validates(output, Package[c].head) /\ output.of = bundle[c]

ReadForAccess(c) ==
  /\ pc[c] = "accessing"
  /\ \/ /\ Unchanged(c)
        /\ delivered' = [delivered EXCEPT ![c] = output.of]
     \/ /\ CanFail("io") \/ ~Unchanged(c)
        /\ UNCHANGED delivered
  /\ Goto(c, "complete")
  /\ UNCHANGED <<live, faults, files, locals, codes, history>>

-----------------------------------------------------------------------------
Publish(c) ==
  \/ FetchInitialHead(c) \/ CreateStage(c) \/ Render(c) \/ RecheckHead(c)
  \/ MoveAside(c) \/ Promote(c) \/ ValidatePublished(c) \/ FinalHeadCheck(c)
  \/ CleanUpBackup(c) \/ RemoveStage(c)

Rollback(c) ==
  \/ QuarantineOutput(c) \/ InvalidateOutput(c) \/ DeleteOutput(c)
  \/ RestoreBackup(c) \/ ConfirmRestored(c) \/ InspectOutput(c) \/ StripOutput(c)
  \/ RemoveQuarantine(c) \/ RollbackRaises(c) \/ EmergencyInvalidate(c)

Access(c) == FetchForAccess(c) \/ ReadForAccess(c)

Step(c) == Publish(c) \/ Rollback(c)

Next ==
  \/ Push \/ CalmDown
  \/ \E c \in Calls : Begin(c) \/ Step(c) \/ Access(c) \/ Crash(c)

Spec == Init /\ [][Next]_vars

\* A running call is a thread that the scheduler keeps running; nobody is
\* obliged to call complete_review or an accessor, and nothing obliges the
\* environment to calm down.
FairSpec == Spec /\ \A c \in Calls : WF_vars(Step(c))

-----------------------------------------------------------------------------
(***************************************************************************)
(* Properties.                                                             *)
(***************************************************************************)
TypeOK ==
  /\ live \in [head: Heads, base: Bases]
  /\ faults \subseteq Faults
  /\ output \in Entry
  /\ stage \in [Calls -> Entry]
  /\ backup \in [Calls -> Entry]
  /\ quarantine \in [Calls -> Entry]
  /\ pc \in [Calls -> Stages]
  /\ held \in [Calls -> BOOLEAN]
  /\ restored \in [Calls -> BOOLEAN]
  /\ codes \in [Calls -> SUBSET Codes]
  /\ bundle \in [Calls -> Owners \cup {Nothing}]
  /\ delivered \in [Calls -> Owners \cup {Nothing}]
  /\ committed \subseteq Calls
  /\ standing \in Owners \cup {Nothing}
  /\ found \in [Calls -> Entry]

\* "Head drift or any assembly/render/validation/publication failure ...
\* preserves a previously valid bundle": whatever fails and wherever a process
\* dies, the bundle that was committed last is intact at the official path or
\* in the backup of some call.
StandingPreserved ==
  standing # Nothing =>
    \/ output = Sealed(standing)
    \/ \E c \in Calls : backup[c] = Sealed(standing)

\* A completion speaks for its own package: one that exists, was committed,
\* and captured the bundle that this very call rendered.
CompletionIsOwn ==
  \A c \in Calls : pc[c] \in Minted => c \in committed /\ bundle[c] = c

\* What an accessor hands out was, in full, what the completion's final
\* validation captured, for the head the package was reviewed at, by a call
\* that passed the commit point.
DeliveredWasVerified ==
  \A c \in Calls : delivered[c] # Nothing =>
    /\ c \in committed
    /\ delivered[c] = bundle[c]
    /\ HeadOf(bundle[c]) = Package[c].head

\* The diagnostics that tell a caller the official path may not be as it was.
RollbackTrouble == {"999", "ROLLBACK-003", "ROLLBACK-007", "ROLLBACK-008",
                    "ROLLBACK-009", "ROLLBACK-998", "ROLLBACK-999"}

\* c ends without a completion, and without having passed its commit point if it
\* ends by an exception.
Fails(c) ==
  /\ pc[c] \notin {"incomplete", "escaped"}
  /\ pc'[c] = "incomplete" \/ (pc'[c] = "escaped" /\ c \notin committed)

\* "No failure is treated as success": a call that fails, with a result or with an
\* exception outside every handler, and has recorded no rollback diagnostic leaves
\* the official path exactly as it found it.
CleanFailureRestores ==
  [][\A c \in Calls :
       Fails(c) /\ codes'[c] \cap RollbackTrouble = {} => output' = found'[c]]_vars

\* A failed publication that is still authoritative is never passed over: the
\* incomplete result says that it could not be made non-authoritative.
StrandedIsReported ==
  \A c \in Calls :
    pc[c] = "incomplete" /\ c \notin committed /\ output = Sealed(c)
      => codes[c] \cap {"ROLLBACK-006", "ROLLBACK-998", "999"} # {}

Sound(p) == p.verified /\ p.active /\ p.valid /\ p.current

\* Nothing of a package that is unverified, of another protocol, invalid or
\* no longer current ever reaches the official path.
OnlySoundPackagesExposed ==
  \A c \in Calls :
    output.of = c \/ (\E d \in Calls : backup[d].of = c) \/ c \in committed => Sound(Package[c])

\* A bundle in a backup changes only by going back to the official path, or
\* after the call that holds it has committed its own.
BackupOutlivesCommit ==
  [][\A c \in Calls :
       Authoritative(backup[c]) /\ backup'[c] # backup[c]
         => c \in committed \/ output' = backup[c]]_vars

\* What an exception while looking at the obsolete backup or at the staging
\* directory leaves of a committed call: "999" or no result at all.
Deprived(c) ==
  /\ "stat" \in Faults
  /\ pc[c] = "escaped" \/ (pc[c] = "incomplete" /\ codes[c] = {"999"})

\* After the commit point only the death of the process, or an exception from a look
\* at a path, can keep the caller from the completion: failed cleanup is "not
\* publication failure", and no committed bundle is ever rolled back.
CommittedIsCompleted ==
  \A c \in committed :
    pc[c] \in Minted \cup {"cleanup", "finally", "crashed"} \/ Deprived(c)

Acceptable(p) ==
  /\ Sound(p)
  /\ p.head = live.head /\ p.base = live.base

\* Debris does no lasting harm: once failures have stopped, a call for a
\* current package completes and leaves its bundle at the official path,
\* whatever crashed or failed calls left behind.
Recovers ==
  \A c \in Calls :
    (/\ faults = {}
     /\ pc[c] = "fetch"
     /\ Acceptable(Package[c])
     /\ output.form # "file")
    ~> (pc[c] \in Minted /\ output = Sealed(c))

\* The abstract machine: a bundle is official when the path holds it sealed,
\* shelved when a backup does, and fresh until its call renames it into place.
Official == INSTANCE OfficialOutput WITH
  Bundles <- Owners,
  official <- IF Authoritative(output) THEN output.of ELSE Nothing,
  shelf <- {o \in Owners : \E c \in Calls : backup[c] = Sealed(o)},
  fresh <- {c \in Calls : pc[c] \in Building \cup {"idle"}}

\* Publication keeps the promises of OfficialOutput.
RefinesOfficialOutput == Official!Spec

=============================================================================
