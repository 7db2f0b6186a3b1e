---------------------- MODULE OfficialCompletionProofs ----------------------
(***************************************************************************)
(* Theorems about OfficialCompletion, for every set of calls, every set of *)
(* heads and bases, every package and every kind of failure.               *)
(***************************************************************************)
EXTENDS OfficialCompletion, TLAPS

-----------------------------------------------------------------------------
(***************************************************************************)
(* Directory entries.                                                      *)
(***************************************************************************)

\* The entries a call can write are entries.
LEMMA EntriesAreEntries ==
  /\ Absent \in Entry
  /\ PlainFile \in Entry
  /\ \A o \in Owners : Torn(o) \in Entry /\ Unmarked(o) \in Entry /\ Sealed(o) \in Entry
BY DEF Absent, PlainFile, Torn, Unmarked, Sealed, Entry, Forms, Owners

\* _remove_tree and _invalidate_manifest leave an entry behind.
LEMMA LeftoversAreEntries ==
  ASSUME NEW e \in Entry
  PROVE  RemoveTree(e) \subseteq Entry /\ InvalidateManifest(e) \subseteq Entry
BY EntriesAreEntries DEF RemoveTree, InvalidateManifest, Entry

-----------------------------------------------------------------------------
(***************************************************************************)
(* Types.                                                                  *)
(***************************************************************************)

\* The initial state is well typed.
LEMMA InitIsTyped == Init => TypeOK
BY PublicationAssumption, EntriesAreEntries
DEF Init, TypeOK, Stages, Owners, Authoritative

\* So does every way of giving up, whatever diagnostic it reports.
LEMMA GivingUpKeepsTypes ==
  ASSUME TypeOK, NEW c \in Calls, NEW code \in Codes,
         Refuse(c, code) \/ Abandon(c, code) \/ RollBack(c, code)
  PROVE  TypeOK'
BY DEF Refuse, Abandon, RollBack, Goto, Report, TypeOK, Stages, Running, RollingBack,
       files, locals, history

\* A flag of one call can be raised.
LEMMA RaisedFlag ==
  ASSUME NEW flags \in [Calls -> BOOLEAN], NEW c \in Calls
  PROVE  [flags EXCEPT ![c] = TRUE] \in [Calls -> BOOLEAN]
OBVIOUS

\* The steps up to the commit point keep the types.
LEMMA PublishKeepsTypes ==
  ASSUME TypeOK, NEW c \in Calls, Publish(c)
  PROVE  TypeOK'
<1> USE GivingUpKeepsTypes DEF Goto, Report, Stages, Running, Building,
        Verifying, Minted, Codes, files, locals, history
<1>1. CASE FetchInitialHead(c)
  BY <1>1 DEF FetchInitialHead, TypeOK, Refusals
<1>2. CASE CreateStage(c)
  BY <1>2, EntriesAreEntries DEF CreateStage, TypeOK, Owners
<1>3. CASE Render(c)
  BY <1>3, EntriesAreEntries DEF Render, TypeOK, Owners
<1>4. CASE RecheckHead(c)
  BY <1>4 DEF RecheckHead, TypeOK
<1>5. CASE MoveAside(c)
  <2>1. held' \in [Calls -> BOOLEAN]
    BY <1>5, RaisedFlag DEF MoveAside, Abandon, TypeOK
  <2> QED BY <1>5, <2>1, EntriesAreEntries DEF MoveAside, TypeOK
<1>6. CASE Promote(c)
  BY <1>6, EntriesAreEntries DEF Promote, TypeOK
<1>7. CASE ValidatePublished(c)
  BY <1>7 DEF ValidatePublished, TypeOK, Entry
<1>8. CASE FinalHeadCheck(c)
  BY <1>8 DEF FinalHeadCheck, TypeOK
<1>9. CASE CleanUpBackup(c)
  BY <1>9, LeftoversAreEntries DEF CleanUpBackup, TypeOK
<1>10. CASE RemoveStage(c)
  BY <1>10, LeftoversAreEntries DEF RemoveStage, TypeOK
<1> QED BY <1>1, <1>2, <1>3, <1>4, <1>5, <1>6, <1>7, <1>8, <1>9, <1>10 DEF Publish

\* The steps of restore() and of its bound keep the types.
LEMMA RollbackKeepsTypes ==
  ASSUME TypeOK, NEW c \in Calls, Rollback(c)
  PROVE  TypeOK'
<1> USE DEF Goto, Report, Stages, Running, RollingBack, Codes, files, locals, history
<1>1. CASE QuarantineOutput(c)
  BY <1>1, EntriesAreEntries DEF QuarantineOutput, TypeOK
<1>2. CASE InvalidateOutput(c)
  BY <1>2, LeftoversAreEntries DEF InvalidateOutput, TypeOK, StillAuthoritative
<1>3. CASE DeleteOutput(c)
  BY <1>3, LeftoversAreEntries DEF DeleteOutput, TypeOK
<1>4. CASE RestoreBackup(c)
  BY <1>4, EntriesAreEntries DEF RestoreBackup, TypeOK
<1>5. CASE ConfirmRestored(c)
  <2>1. restored' \in [Calls -> BOOLEAN]
    BY <1>5, RaisedFlag DEF ConfirmRestored, TypeOK
  <2>2. /\ \/ codes' = codes
           \/ codes' = [codes EXCEPT ![c] = @ \cup {"ROLLBACK-009"}]
        /\ pc' = [pc EXCEPT ![c] = "inspect"]
        /\ UNCHANGED <<live, faults, files, held, bundle, delivered, history>>
    BY <1>5, Zenon DEF ConfirmRestored
  <2> QED BY <2>1, <2>2 DEF TypeOK
<1>6. CASE InspectOutput(c)
  BY <1>6 DEF InspectOutput, AfterInspection, TypeOK
<1>7. CASE StripOutput(c)
  BY <1>7, LeftoversAreEntries
  DEF StripOutput, AfterInspection, TypeOK, StillAuthoritative
<1>8. CASE RemoveQuarantine(c)
  BY <1>8, LeftoversAreEntries DEF RemoveQuarantine, TypeOK
<1>9. CASE RollbackRaises(c)
  BY <1>9 DEF RollbackRaises, TypeOK
<1>10. CASE EmergencyInvalidate(c)
  BY <1>10, LeftoversAreEntries DEF EmergencyInvalidate, TypeOK, StillAuthoritative
<1> QED BY <1>1, <1>2, <1>3, <1>4, <1>5, <1>6, <1>7, <1>8, <1>9, <1>10 DEF Rollback

\* Every step keeps the types.
LEMMA NextKeepsTypes == TypeOK /\ [Next]_vars => TypeOK'
<1> SUFFICES ASSUME TypeOK, [Next]_vars PROVE TypeOK'
  OBVIOUS
<1> USE DEF Goto, Report, Stages, Running, Minted, Codes, files, locals, history
<1>1. CASE Push
  BY <1>1 DEF Push, TypeOK
<1>2. CASE CalmDown
  BY <1>2 DEF CalmDown, TypeOK
<1>3. ASSUME NEW c \in Calls, Begin(c) PROVE TypeOK'
  BY <1>3 DEF Begin, TypeOK, Building
<1>4. ASSUME NEW c \in Calls, Step(c) PROVE TypeOK'
  BY <1>4, PublishKeepsTypes, RollbackKeepsTypes DEF Step
<1>5. ASSUME NEW c \in Calls, Access(c) PROVE TypeOK'
  BY <1>5 DEF Access, FetchForAccess, ReadForAccess, TypeOK, Entry
<1>6. ASSUME NEW c \in Calls, Crash(c) PROVE TypeOK'
  BY <1>6 DEF Crash, TypeOK
<1>7. CASE UNCHANGED vars
  BY <1>7 DEF vars, TypeOK
<1> QED BY <1>1, <1>2, <1>3, <1>4, <1>5, <1>6, <1>7 DEF Next

\* Type correctness of the publisher: whatever fails and however calls overlap,
\* every variable keeps the values its declaration promises.
THEOREM TypeCorrect == Spec => []TypeOK
<1>1. Init => TypeOK
  BY InitIsTyped
<1>2. TypeOK /\ [Next]_vars => TypeOK'
  BY NextKeepsTypes
<1> QED BY <1>1, <1>2, PTL DEF Spec

-----------------------------------------------------------------------------
(***************************************************************************)
(* The inductive invariants.                                               *)
(***************************************************************************)

\* What the place of a call says about its result so far: an error is recorded
\* exactly on the paths that lead to an incomplete review.
Control(c) ==
  /\ pc[c] \in {"idle"} \cup Building \cup Verifying =>
       codes[c] = {} /\ c \notin committed /\ delivered[c] = Nothing
  /\ pc[c] \in RollingBack \cup {"emergency"} =>
       ~Succeeded(c) /\ c \notin committed /\ delivered[c] = Nothing
  /\ pc[c] = "cleanup" => codes[c] = {}
  /\ pc[c] = "finally" /\ Succeeded(c) => c \in committed
  /\ pc[c] \in {"cleanup"} \cup Minted => c \in committed

\* What the final validation captured and the accessors handed out.
Captured(c) ==
  /\ pc[c] = "final" \/ c \in committed => HeadOf(bundle[c]) = Package[c].head
  /\ delivered[c] # Nothing => c \in committed /\ delivered[c] = bundle[c]

ControlInv == TypeOK /\ \A c \in Calls : Control(c) /\ Captured(c)

\* One call at a time: what the running call may assume of the directories.
AtMostOneRuns ==
  \A c, d \in Calls : pc[c] \in Running /\ pc[d] \in Running => c = d

Own(c) ==
  /\ pc[c] \in {"recheck", "moveAside", "promote"} => stage[c] = Sealed(c)
  /\ pc[c] = "promote" => output = Absent
  /\ pc[c] = "validate" => output = Sealed(c)
  /\ pc[c] \in {"final", "cleanup"} => output = Sealed(c)
  /\ pc[c] = "final" \/ c \in committed => bundle[c] = c

ExclusiveInv == ControlInv /\ AtMostOneRuns /\ \A c \in Calls : Own(c)

\* The standing bundle waits in a backup.
Shelved == standing # Nothing => \E c \in Calls : backup[c] = Sealed(standing)

\* From the moment a call moves the previous output aside until its rollback
\* has brought it back or its commit has replaced it, the bundle with standing
\* is on the shelf, and no step of the rollback mistakes it for the failed one.
Kept(c) ==
  /\ pc[c] \in {"idle"} \cup (Building \ {"promote"}) => backup[c] = Absent
  /\ pc[c] \in {"promote", "quarantine", "invalidate", "delete",
                 "reinvalidate", "restore"} \cup Verifying => Shelved
  /\ pc[c] = "confirm" => output # Absent /\ backup[c] = Absent
  /\ pc[c] \in {"inspect", "strip"} /\ ~restored[c] => Shelved
  /\ pc[c] = "strip" => ~restored[c]
  /\ pc[c] = "cleanup" => standing = c
  /\ pc[c] # "emergency"

PreservationInv ==
  ExclusiveInv /\ StandingPreserved /\ \A c \in Calls : Kept(c)

-----------------------------------------------------------------------------
(***************************************************************************)
(* Calls do not touch each other's locals, nor the siblings they created.  *)
(***************************************************************************)

\* Only the caller's own entries change in a step of a call.
LEMMA OthersUntouched ==
  ASSUME TypeOK, NEW d \in Calls, Begin(d) \/ Step(d) \/ Access(d) \/ Crash(d),
         NEW c \in Calls, c # d
  PROVE  /\ pc'[c] = pc[c] /\ codes'[c] = codes[c] /\ bundle'[c] = bundle[c]
         /\ held'[c] = held[c] /\ restored'[c] = restored[c]
         /\ delivered'[c] = delivered[c] /\ (c \in committed' <=> c \in committed)
         /\ stage'[c] = stage[c] /\ backup'[c] = backup[c]
<1> USE DEF TypeOK, Goto, Report, Refuse, Abandon, RollBack, files, locals, history
<1>1. CASE Begin(d)
  BY <1>1 DEF Begin
<1>2. CASE Publish(d)
  <2>1. CASE FetchInitialHead(d) BY <2>1 DEF FetchInitialHead
  <2>2. CASE CreateStage(d) BY <2>2 DEF CreateStage
  <2>3. CASE Render(d) BY <2>3 DEF Render
  <2>4. CASE RecheckHead(d) BY <2>4 DEF RecheckHead
  <2>5. CASE MoveAside(d) BY <2>5 DEF MoveAside
  <2>6. CASE Promote(d) BY <2>6 DEF Promote
  <2>7. CASE ValidatePublished(d) BY <2>7 DEF ValidatePublished
  <2>8. CASE FinalHeadCheck(d) BY <2>8 DEF FinalHeadCheck
  <2>9. CASE CleanUpBackup(d) BY <2>9 DEF CleanUpBackup
  <2>10. CASE RemoveStage(d) BY <2>10 DEF RemoveStage
  <2> QED BY <1>2, <2>1, <2>2, <2>3, <2>4, <2>5, <2>6, <2>7, <2>8, <2>9, <2>10 DEF Publish
<1>3. CASE Rollback(d)
  <2>1. CASE QuarantineOutput(d) BY <2>1 DEF QuarantineOutput
  <2>2. CASE InvalidateOutput(d) BY <2>2 DEF InvalidateOutput
  <2>3. CASE DeleteOutput(d) BY <2>3 DEF DeleteOutput
  <2>4. CASE RestoreBackup(d) BY <2>4 DEF RestoreBackup
  <2>5. CASE ConfirmRestored(d) BY <2>5 DEF ConfirmRestored
  <2>6. CASE InspectOutput(d) BY <2>6 DEF InspectOutput, AfterInspection
  <2>7. CASE StripOutput(d) BY <2>7 DEF StripOutput, AfterInspection
  <2>8. CASE RemoveQuarantine(d) BY <2>8 DEF RemoveQuarantine
  <2>9. CASE RollbackRaises(d) BY <2>9 DEF RollbackRaises
  <2>10. CASE EmergencyInvalidate(d) BY <2>10 DEF EmergencyInvalidate
  <2> QED BY <1>3, <2>1, <2>2, <2>3, <2>4, <2>5, <2>6, <2>7, <2>8, <2>9, <2>10 DEF Rollback
<1>4. CASE Access(d)
  BY <1>4 DEF Access, FetchForAccess, ReadForAccess
<1>5. CASE Crash(d)
  BY <1>5 DEF Crash
<1> QED BY <1>1, <1>2, <1>3, <1>4, <1>5 DEF Step

\* The environment and the passing of time change no file and no local.
LEMMA EnvironmentTouchesNothing ==
  ASSUME Push \/ CalmDown \/ UNCHANGED vars
  PROVE  UNCHANGED <<files, pc, locals, codes, delivered, history>>
BY DEF Push, CalmDown, vars

-----------------------------------------------------------------------------
(***************************************************************************)
(* ControlInv is inductive.                                                *)
(***************************************************************************)

\* A call that gives up before the commit point has recorded an error.
LEMMA GivingUpKeepsControl ==
  ASSUME TypeOK, NEW c \in Calls, Control(c), Captured(c),
         pc[c] \in Building \cup Verifying, NEW code \in Codes \ {"009"},
         Refuse(c, code) \/ Abandon(c, code) \/ RollBack(c, code)
  PROVE  Control(c)' /\ Captured(c)'
<1>1. codes'[c] = {code} /\ pc'[c] \in {"incomplete", "finally", "quarantine"}
  BY DEF TypeOK, Control, Refuse, Abandon, RollBack, Goto, Report
<1>2. UNCHANGED <<committed, bundle, delivered>>
  BY DEF Refuse, Abandon, RollBack, locals, history
<1> QED
  BY <1>1, <1>2 DEF Control, Captured, Succeeded, Building, Verifying, RollingBack, Minted

\* The steps of a call that publishes keep what its place says.
LEMMA PublishKeepsControl ==
  ASSUME TypeOK, NEW c \in Calls, Control(c), Captured(c), Publish(c)
  PROVE  Control(c)' /\ Captured(c)'
<1> USE GivingUpKeepsControl DEF TypeOK, Control, Captured, Goto, Report, Codes,
        Building, Verifying, RollingBack, Minted, Succeeded, files, locals, history
<1>1. CASE FetchInitialHead(c)
  BY <1>1 DEF FetchInitialHead, Refusals
<1>2. CASE CreateStage(c)
  BY <1>2 DEF CreateStage
<1>3. CASE Render(c)
  BY <1>3 DEF Render
<1>4. CASE RecheckHead(c)
  BY <1>4 DEF RecheckHead
<1>5. CASE MoveAside(c)
  BY <1>5 DEF MoveAside
<1>6. CASE Promote(c)
  BY <1>6 DEF Promote
<1>7. CASE ValidatePublished(c)
  BY <1>7 DEF ValidatePublished, Validates
<1>8. CASE FinalHeadCheck(c)
  BY <1>8 DEF FinalHeadCheck
<1>9. CASE CleanUpBackup(c)
  BY <1>9 DEF CleanUpBackup, Abandon
<1>10. CASE RemoveStage(c)
  BY <1>10 DEF RemoveStage
<1> QED BY <1>1, <1>2, <1>3, <1>4, <1>5, <1>6, <1>7, <1>8, <1>9, <1>10 DEF Publish

\* So do the steps of restore() and of its bound.
LEMMA RollbackKeepsControl ==
  ASSUME TypeOK, NEW c \in Calls, Control(c), Captured(c), Rollback(c)
  PROVE  Control(c)' /\ Captured(c)'
<1>1. /\ pc[c] \in RollingBack \cup {"emergency"}
      /\ pc' = [pc EXCEPT ![c] = pc'[c]]
      /\ pc'[c] \in RollingBack \cup {"emergency", "finally"}
  <2> USE DEF TypeOK, Goto, RollingBack
  <2>1. CASE QuarantineOutput(c) BY <2>1 DEF QuarantineOutput
  <2>2. CASE InvalidateOutput(c) BY <2>2 DEF InvalidateOutput
  <2>3. CASE DeleteOutput(c) BY <2>3 DEF DeleteOutput
  <2>4. CASE RestoreBackup(c) BY <2>4 DEF RestoreBackup
  <2>5. CASE ConfirmRestored(c) BY <2>5 DEF ConfirmRestored
  <2>6. CASE InspectOutput(c) BY <2>6 DEF InspectOutput, AfterInspection
  <2>7. CASE StripOutput(c) BY <2>7 DEF StripOutput, AfterInspection
  <2>8. CASE RemoveQuarantine(c) BY <2>8 DEF RemoveQuarantine
  <2>9. CASE RollbackRaises(c) BY <2>9 DEF RollbackRaises
  <2>10. CASE EmergencyInvalidate(c) BY <2>10 DEF EmergencyInvalidate
  <2> QED BY <2>1, <2>2, <2>3, <2>4, <2>5, <2>6, <2>7, <2>8, <2>9, <2>10 DEF Rollback
<1>2. \/ codes[c] \subseteq codes'[c]
      \/ "008" \in codes'[c]
      \/ "999" \in codes'[c]
  <2> USE DEF TypeOK, Report
  <2>1. CASE QuarantineOutput(c) BY <2>1 DEF QuarantineOutput
  <2>2. CASE InvalidateOutput(c) BY <2>2 DEF InvalidateOutput
  <2>3. CASE DeleteOutput(c) BY <2>3 DEF DeleteOutput
  <2>4. CASE RestoreBackup(c) BY <2>4 DEF RestoreBackup
  <2>5. CASE ConfirmRestored(c) BY <2>5 DEF ConfirmRestored
  <2>6. CASE InspectOutput(c) BY <2>6 DEF InspectOutput
  <2>7. CASE StripOutput(c) BY <2>7 DEF StripOutput
  <2>8. CASE RemoveQuarantine(c) BY <2>8 DEF RemoveQuarantine
  <2>9. CASE RollbackRaises(c) BY <2>9 DEF RollbackRaises
  <2>10. CASE EmergencyInvalidate(c) BY <2>10 DEF EmergencyInvalidate
  <2> QED BY <2>1, <2>2, <2>3, <2>4, <2>5, <2>6, <2>7, <2>8, <2>9, <2>10 DEF Rollback
<1>3. UNCHANGED <<bundle, delivered, committed>>
  BY DEF Rollback, QuarantineOutput, InvalidateOutput, DeleteOutput, RestoreBackup,
         ConfirmRestored, InspectOutput, StripOutput, RemoveQuarantine, RollbackRaises,
         EmergencyInvalidate, locals, history
<1>4. ~Succeeded(c) /\ c \notin committed /\ delivered[c] = Nothing
  BY <1>1 DEF Control
<1>5. ~Succeeded(c)'
  BY <1>2, <1>4 DEF Succeeded
<1> QED
  BY <1>1, <1>3, <1>4, <1>5
  DEF Control, Captured, Building, Verifying, RollingBack, Minted

\* Starting a call, using its completion and losing its process keep it too.
LEMMA OutsideKeepsControl ==
  ASSUME TypeOK, NEW c \in Calls, Control(c), Captured(c),
         Begin(c) \/ Access(c) \/ Crash(c)
  PROVE  Control(c)' /\ Captured(c)'
<1> USE DEF TypeOK, Control, Captured, Goto, Report, Building, Verifying, RollingBack,
        Minted, Succeeded, Running, files, locals, history
<1>1. CASE Begin(c) BY <1>1 DEF Begin
<1>2. CASE Access(c)
  BY <1>2 DEF Access, FetchForAccess, ReadForAccess, Unchanged
<1>3. CASE Crash(c) BY <1>3 DEF Crash
<1> QED BY <1>1, <1>2, <1>3

\* ControlInv holds initially and every step keeps it.
LEMMA InitControl == Init => ControlInv
BY InitIsTyped
DEF Init, ControlInv, Control, Captured, Building, Verifying, RollingBack, Minted

LEMMA NextKeepsControl == ControlInv /\ [Next]_vars => ControlInv'
<1> SUFFICES ASSUME ControlInv, [Next]_vars PROVE ControlInv'
  OBVIOUS
<1>1. TypeOK /\ TypeOK'
  BY NextKeepsTypes DEF ControlInv
<1>2. CASE Push \/ CalmDown \/ UNCHANGED vars
  BY <1>1, <1>2, EnvironmentTouchesNothing
  DEF ControlInv, Control, Captured, Succeeded, locals, history
<1>3. ASSUME NEW d \in Calls, Begin(d) \/ Step(d) \/ Access(d) \/ Crash(d)
      PROVE  ControlInv'
  <2>1. Control(d)' /\ Captured(d)'
    BY <1>1, <1>3, PublishKeepsControl, RollbackKeepsControl, OutsideKeepsControl
    DEF ControlInv, Step
  <2>2. ASSUME NEW c \in Calls, c # d PROVE Control(c)' /\ Captured(c)'
    BY <1>1, <1>3, <2>2, OthersUntouched DEF ControlInv, Control, Captured, Succeeded
  <2> QED BY <1>1, <2>1, <2>2 DEF ControlInv
<1> QED BY <1>2, <1>3 DEF Next

\* The invariant behind every theorem below.
LEMMA ControlInvariant == Spec => []ControlInv
<1>1. Init => ControlInv
  BY InitControl
<1>2. ControlInv /\ [Next]_vars => ControlInv'
  BY NextKeepsControl
<1> QED BY <1>1, <1>2, PTL DEF Spec

-----------------------------------------------------------------------------
(***************************************************************************)
(* What a completion hands out.                                            *)
(***************************************************************************)

\* Whatever fails, however the head moves and however many calls overlap, an
\* accessor of a completion hands out only text that the completion's own final
\* validation captured, for the reviewed head, after the commit point.
THEOREM DeliveryIsVerified == Spec => []DeliveredWasVerified
<1>1. ControlInv => DeliveredWasVerified
  BY DEF ControlInv, Captured, DeliveredWasVerified
<1> QED BY <1>1, ControlInvariant, PTL

-----------------------------------------------------------------------------
(***************************************************************************)
(* One call at a time.                                                     *)
(***************************************************************************)

\* Only a running call takes steps of publish() or restore(), and a call that
\* is not running does not get to run by anything but its beginning.
LEMMA OnlyTheRunningStep ==
  ASSUME TypeOK, NEW c \in Calls
  PROVE  /\ Step(c) => pc[c] \in Running
         /\ Access(c) \/ Crash(c) => pc'[c] \notin Running
<1>1. Publish(c) => pc[c] \in Running
  BY DEF Publish, FetchInitialHead, CreateStage, Render, RecheckHead, MoveAside, Promote,
         ValidatePublished, FinalHeadCheck, CleanUpBackup, RemoveStage,
         Running, Building, Verifying
<1>2. Rollback(c) => pc[c] \in Running
  BY DEF Rollback, QuarantineOutput, InvalidateOutput, DeleteOutput, RestoreBackup,
         ConfirmRestored, InspectOutput, StripOutput, RemoveQuarantine, RollbackRaises,
         EmergencyInvalidate, Running, RollingBack
<1>3. Access(c) \/ Crash(c) => pc'[c] \notin Running
  BY DEF TypeOK, Access, FetchForAccess, ReadForAccess, Crash, Goto,
         Running, Building, Verifying, RollingBack
<1> QED BY <1>1, <1>2, <1>3 DEF Step

\* The accessors and a crash change neither a directory nor what has standing.
LEMMA AccessTouchesNoFile ==
  ASSUME NEW c \in Calls, Access(c) \/ Crash(c)
  PROVE  UNCHANGED <<files, held, restored, bundle, history>>
BY DEF Access, FetchForAccess, ReadForAccess, Crash, locals

\* When one call takes a step, no other call is running.
LEMMA OthersAreNotRunning ==
  ASSUME TypeOK, AtMostOneRuns, Exclusive, NEW d \in Calls, Begin(d) \/ Step(d),
         NEW c \in Calls, c # d
  PROVE  pc[c] \notin Running /\ pc'[c] \notin Running
<1>1. pc[c] \notin Running
  BY OnlyTheRunningStep DEF AtMostOneRuns, Begin
<1> QED BY <1>1, OthersUntouched

\* A call that begins while none is running is the only one that runs.
LEMMA StillAtMostOne ==
  ASSUME TypeOK, AtMostOneRuns, Exclusive, [Next]_vars
  PROVE  AtMostOneRuns'
<1>1. CASE Push \/ CalmDown \/ UNCHANGED vars
  BY <1>1, EnvironmentTouchesNothing DEF AtMostOneRuns
<1>2. ASSUME NEW d \in Calls, Begin(d) \/ Step(d) PROVE AtMostOneRuns'
  BY <1>2, OthersAreNotRunning DEF AtMostOneRuns
<1>3. ASSUME NEW d \in Calls, Access(d) \/ Crash(d) PROVE AtMostOneRuns'
  BY <1>3, OthersUntouched, OnlyTheRunningStep DEF AtMostOneRuns
<1> QED BY <1>1, <1>2, <1>3 DEF Next

\* The running call finds in the directories what it put there.
LEMMA StepKeepsOwn ==
  ASSUME TypeOK, NEW c \in Calls, Control(c), Own(c), Begin(c) \/ Step(c)
  PROVE  Own(c)'
<1> USE DEF TypeOK, Own, Goto, Report, files, locals, history
<1>1. CASE Begin(c)
  BY <1>1 DEF Begin, Control, Building
<1>2. CASE FetchInitialHead(c)
  BY <1>2 DEF FetchInitialHead, Refuse
<1>3. CASE CreateStage(c)
  BY <1>3 DEF CreateStage, Refuse
<1>4. CASE Render(c)
  BY <1>4 DEF Render, Abandon
<1>5. CASE RecheckHead(c)
  BY <1>5 DEF RecheckHead, Abandon
<1>6. CASE MoveAside(c)
  BY <1>6 DEF MoveAside, Abandon, Occupied
<1>7. CASE Promote(c)
  BY <1>7 DEF Promote, RollBack
<1>8. CASE ValidatePublished(c)
  BY <1>8 DEF ValidatePublished, RollBack, Sealed
<1>9. CASE FinalHeadCheck(c)
  BY <1>9 DEF FinalHeadCheck, RollBack
<1>10. CASE CleanUpBackup(c)
  BY <1>10 DEF CleanUpBackup, Abandon
<1>11. CASE RemoveStage(c)
  BY <1>11 DEF RemoveStage
<1>12. CASE Rollback(c)
  BY <1>12 DEF Rollback, QuarantineOutput, InvalidateOutput, DeleteOutput, RestoreBackup,
       ConfirmRestored, InspectOutput, AfterInspection, StripOutput, RemoveQuarantine,
       RollbackRaises, EmergencyInvalidate
<1> QED BY <1>1, <1>2, <1>3, <1>4, <1>5, <1>6, <1>7, <1>8, <1>9, <1>10, <1>11, <1>12
        DEF Step, Publish

LEMMA InitExclusive == Init => ExclusiveInv
BY InitControl DEF Init, ExclusiveInv, AtMostOneRuns, Own, Running, Building, Verifying,
                   RollingBack

\* ExclusiveInv is inductive when calls do not overlap.
LEMMA NextKeepsExclusive ==
  ASSUME Exclusive, ExclusiveInv, [Next]_vars
  PROVE  ExclusiveInv'
<1>1. ControlInv /\ ControlInv' /\ TypeOK /\ AtMostOneRuns
  BY NextKeepsControl DEF ExclusiveInv, ControlInv
<1>2. AtMostOneRuns'
  BY <1>1, StillAtMostOne
<1>3. ASSUME NEW c \in Calls PROVE Own(c)'
  <2>1. CASE Push \/ CalmDown \/ UNCHANGED vars
    BY <2>1, EnvironmentTouchesNothing DEF ExclusiveInv, Own, files, locals, history
  <2>2. CASE Begin(c) \/ Step(c)
    BY <1>1, <2>2, StepKeepsOwn DEF ExclusiveInv, ControlInv
  <2>3. ASSUME NEW d \in Calls, d # c, Begin(d) \/ Step(d) PROVE Own(c)'
    <3>1. pc'[c] \notin Running
      BY <1>1, <2>3, OthersAreNotRunning
    <3> QED BY <1>1, <2>3, <3>1, OthersUntouched
            DEF ExclusiveInv, Own, Running, Building, Verifying
  <2>4. ASSUME NEW d \in Calls, Access(d) \/ Crash(d) PROVE Own(c)'
    <3>1. UNCHANGED <<output, stage, bundle, committed>>
      BY <2>4, AccessTouchesNoFile DEF files, history
    <3>2. pc'[c] = pc[c] \/ pc'[c] \notin Running
      BY <1>1, <2>4, OthersUntouched, OnlyTheRunningStep
    <3> QED BY <3>1, <3>2 DEF ExclusiveInv, Own, Running, Building, Verifying
  <2> QED BY <2>1, <2>2, <2>3, <2>4 DEF Next
<1> QED BY <1>1, <1>2, <1>3 DEF ExclusiveInv

LEMMA ExclusiveInvariant ==
  ASSUME Exclusive
  PROVE  Spec => []ExclusiveInv
<1>1. Init => ExclusiveInv
  BY InitExclusive
<1>2. ExclusiveInv /\ [Next]_vars => ExclusiveInv'
  BY NextKeepsExclusive
<1> QED BY <1>1, <1>2, PTL DEF Spec

\* When calls on the same output do not overlap, a completion is always for the
\* very bundle its call rendered, and that call passed the commit point.
THEOREM CompletionsAreOwn == Exclusive => (Spec => []CompletionIsOwn)
<1> SUFFICES ASSUME Exclusive PROVE Spec => []CompletionIsOwn
  OBVIOUS
<1>1. ExclusiveInv => CompletionIsOwn
  BY DEF ExclusiveInv, ControlInv, Control, Own, CompletionIsOwn
<1> QED BY <1>1, ExclusiveInvariant, PTL

-----------------------------------------------------------------------------
(***************************************************************************)
(* The bundle with standing is never lost.                                 *)
(***************************************************************************)

\* Steps that change no backup keep the standing bundle on the shelf.
LEMMA ShelfKept ==
  ASSUME UNCHANGED <<backup, standing>>
  PROVE  /\ Shelved' <=> Shelved
         /\ Shelved => StandingPreserved'
         /\ StandingPreserved /\ output' = output => StandingPreserved'
BY DEF Shelved, StandingPreserved

\* A call that gives up leaves everything in place.
LEMMA GivingUpKeepsStanding ==
  ASSUME TypeOK, StandingPreserved, NEW c \in Calls, NEW code,
         Refuse(c, code) \/ Abandon(c, code)
  PROVE  StandingPreserved' /\ Kept(c)'
<1>1. pc'[c] \in {"incomplete", "finally"} /\ UNCHANGED <<backup, standing, output>>
  BY DEF TypeOK, Refuse, Abandon, Goto, files, history
<1> QED BY <1>1, ShelfKept DEF Kept, Building, Verifying

\* A call enters restore() only while the standing bundle is on the shelf.
LEMMA RollBackKeepsStanding ==
  ASSUME TypeOK, Shelved, NEW c \in Calls, NEW code, RollBack(c, code)
  PROVE  StandingPreserved' /\ Kept(c)'
<1>1. pc'[c] = "quarantine" /\ UNCHANGED <<backup, standing>>
  BY DEF TypeOK, RollBack, Goto, files, history
<1> QED BY <1>1, ShelfKept DEF Kept, Building, Verifying

\* The steps of publish() and of the final validation.
LEMMA PublishKeepsStanding ==
  ASSUME TypeOK, StandingPreserved, NEW c \in Calls, Control(c), Own(c), Kept(c),
         "stat" \notin Faults, Publish(c)
  PROVE  StandingPreserved' /\ Kept(c)'
<1> USE GivingUpKeepsStanding, RollBackKeepsStanding, ShelfKept
    DEF TypeOK, Kept, Goto, Building, Verifying, files, locals, history
<1>1. CASE FetchInitialHead(c)
  BY <1>1 DEF FetchInitialHead
<1>2. CASE CreateStage(c)
  BY <1>2 DEF CreateStage, CanFail
<1>3. CASE Render(c)
  BY <1>3 DEF Render
<1>4. CASE RecheckHead(c)
  BY <1>4 DEF RecheckHead
<1>5. CASE MoveAside(c)
  <2>1. CASE Occupied /\ backup' = [backup EXCEPT ![c] = output]
    <3>1. pc[c] = "moveAside" /\ backup[c] = Absent /\ standing' = standing
      BY <1>5 DEF MoveAside, Abandon
    <3>2. \A d \in Calls : backup[d] = Sealed(standing) => backup'[d] = Sealed(standing)
      BY <2>1, <3>1 DEF Absent, Sealed
    <3>3. output = Sealed(standing) => backup'[c] = Sealed(standing)
      BY <2>1
    <3>4. Shelved'
      BY <3>1, <3>2, <3>3 DEF Shelved, StandingPreserved
    <3>5. pc'[c] \in {"promote", "finally"}
      BY <1>5 DEF MoveAside, Abandon
    <3> QED BY <3>4, <3>5 DEF StandingPreserved, Shelved
  <2>2. CASE ~Occupied /\ Goto(c, "promote") /\ UNCHANGED <<files, history>>
    <3>1. Shelved
      BY <2>2 DEF StandingPreserved, Shelved, Occupied, Absent, Sealed
    <3> QED BY <2>2, <3>1
  <2>3. CASE \E code \in {"005", "999"} : Abandon(c, code)
    BY <2>3
  <2> QED BY <1>5, <2>1, <2>2, <2>3 DEF MoveAside
<1>6. CASE Promote(c)
  BY <1>6 DEF Promote
<1>7. CASE ValidatePublished(c)
  BY <1>7 DEF ValidatePublished
<1>8. CASE FinalHeadCheck(c)
  <2>1. CASE standing' = bundle[c] /\ Goto(c, "cleanup") /\ UNCHANGED files
    BY <1>8, <2>1 DEF FinalHeadCheck, Own, StandingPreserved
  <2>2. CASE RollBack(c, "008")
    BY <1>8, <2>2 DEF FinalHeadCheck
  <2> QED BY <1>8, <2>1, <2>2 DEF FinalHeadCheck
<1>9. CASE CleanUpBackup(c)
  <2>1. output' = Sealed(standing') /\ pc'[c] = "finally"
    BY <1>9 DEF CleanUpBackup, Own, Abandon
  <2> QED BY <2>1 DEF StandingPreserved
<1>10. CASE RemoveStage(c)
  BY <1>10 DEF RemoveStage
<1> QED BY <1>1, <1>2, <1>3, <1>4, <1>5, <1>6, <1>7, <1>8, <1>9, <1>10 DEF Publish

\* The steps of restore(): the only one that moves a backup puts it back.
LEMMA RollbackKeepsStanding ==
  ASSUME TypeOK, StandingPreserved, NEW c \in Calls, Kept(c),
         "stat" \notin Faults, Rollback(c)
  PROVE  StandingPreserved' /\ Kept(c)'
<1> USE ShelfKept DEF TypeOK, Kept, Goto, Building, Verifying, files, locals, history
<1>1. CASE QuarantineOutput(c)
  BY <1>1 DEF QuarantineOutput
<1>2. CASE InvalidateOutput(c)
  BY <1>2 DEF InvalidateOutput
<1>3. CASE DeleteOutput(c)
  BY <1>3 DEF DeleteOutput
<1>4. CASE RestoreBackup(c)
  <2>1. CASE UNCHANGED <<output, backup>> /\ Goto(c, "inspect")
    BY <1>4, <2>1 DEF RestoreBackup
  <2>2. CASE /\ backup[c] # Absent /\ output' = backup[c]
             /\ backup' = [backup EXCEPT ![c] = Absent] /\ Goto(c, "confirm")
    <3>1. Shelved /\ standing' = standing
      BY <1>4 DEF RestoreBackup
    <3>2. ASSUME NEW d \in Calls, backup[d] = Sealed(standing)
          PROVE  output' = Sealed(standing) \/ backup'[d] = Sealed(standing)
      BY <2>2, <3>2
    <3>3. StandingPreserved'
      BY <3>1, <3>2 DEF StandingPreserved, Shelved
    <3> QED BY <2>2, <3>3
  <2> QED BY <1>4, <2>1, <2>2 DEF RestoreBackup
<1>5. CASE ConfirmRestored(c)
  <2>1. restored'[c] /\ pc'[c] = "inspect" /\ UNCHANGED <<output, backup, standing>>
    BY <1>5 DEF ConfirmRestored, CanFail
  <2> QED BY <2>1
<1>6. CASE InspectOutput(c)
  BY <1>6 DEF InspectOutput, AfterInspection, MustStrip
<1>7. CASE StripOutput(c)
  BY <1>7 DEF StripOutput, AfterInspection
<1>8. CASE RemoveQuarantine(c)
  BY <1>8 DEF RemoveQuarantine
<1>9. CASE RollbackRaises(c)
  BY <1>9 DEF RollbackRaises, CanFail
<1>10. CASE EmergencyInvalidate(c)
  BY <1>10 DEF EmergencyInvalidate
<1> QED BY <1>1, <1>2, <1>3, <1>4, <1>5, <1>6, <1>7, <1>8, <1>9, <1>10 DEF Rollback

LEMMA InitPreservation == Init => PreservationInv
BY InitExclusive
DEF Init, PreservationInv, StandingPreserved, Kept, Shelved, Authoritative, Sealed,
    Absent, PlainFile, Torn, Building, Verifying

\* PreservationInv is inductive when calls do not overlap and nothing raises in
\* the middle of restore().
LEMMA NextKeepsPreservation ==
  ASSUME Exclusive, "stat" \notin Faults, PreservationInv, [Next]_vars
  PROVE  PreservationInv'
<1>1. ExclusiveInv /\ ExclusiveInv' /\ TypeOK /\ AtMostOneRuns /\ StandingPreserved
  BY NextKeepsExclusive DEF PreservationInv, ExclusiveInv, ControlInv
<1>2. CASE Push \/ CalmDown \/ UNCHANGED vars
  BY <1>1, <1>2, EnvironmentTouchesNothing
  DEF PreservationInv, StandingPreserved, Kept, Shelved, files, locals, history
<1>3. ASSUME NEW d \in Calls, Begin(d) \/ Step(d) PROVE PreservationInv'
  <2>1. Step(d) => StandingPreserved' /\ Kept(d)'
    BY <1>1, PublishKeepsStanding, RollbackKeepsStanding
    DEF PreservationInv, ExclusiveInv, ControlInv, Step
  <2>2. Begin(d) => StandingPreserved' /\ Kept(d)'
    BY <1>1, ShelfKept DEF Begin, PreservationInv, Kept, TypeOK, Goto, Report,
       Building, Verifying, files, locals, history
  <2>3. ASSUME NEW c \in Calls, c # d PROVE Kept(c)'
    <3>1. pc'[c] \notin Running
      BY <1>1, <1>3, <2>3, OthersAreNotRunning
    <3> QED BY <1>1, <1>3, <2>3, <3>1, OthersUntouched
            DEF PreservationInv, Kept, Running, Building, Verifying, RollingBack
  <2> QED BY <1>1, <1>3, <2>1, <2>2, <2>3 DEF PreservationInv
<1>4. ASSUME NEW d \in Calls, Access(d) \/ Crash(d) PROVE PreservationInv'
  <2>1. UNCHANGED <<output, backup, standing, restored>>
    BY <1>4, AccessTouchesNoFile DEF files, history
  <2>2. ASSUME NEW c \in Calls PROVE Kept(c)'
    <3>1. pc'[c] = pc[c] \/ pc'[c] \in Minted \cup {"crashed"}
      BY <1>1, <1>4, OthersUntouched
      DEF Access, FetchForAccess, ReadForAccess, Crash, Goto, TypeOK, Minted
    <3> QED BY <2>1, <3>1, ShelfKept
            DEF PreservationInv, Kept, Minted, Building, Verifying
  <2> QED BY <1>1, <2>1, <2>2, ShelfKept DEF PreservationInv
<1> QED BY <1>2, <1>3, <1>4 DEF Next

\* "Preserves a previously valid bundle": as long as calls on the same output do
\* not overlap and no exception escapes from the inside of restore(), the bundle
\* committed last is at the official path or intact in a backup, whatever I/O,
\* network and process failures come between.
THEOREM StandingIsPreserved ==
  Exclusive /\ "stat" \notin Faults => (Spec => []StandingPreserved)
<1> SUFFICES ASSUME Exclusive, "stat" \notin Faults PROVE Spec => []StandingPreserved
  OBVIOUS
<1>1. Init => PreservationInv
  BY InitPreservation
<1>2. PreservationInv /\ [Next]_vars => PreservationInv'
  BY NextKeepsPreservation
<1>3. PreservationInv => StandingPreserved
  BY DEF PreservationInv
<1> QED BY <1>1, <1>2, <1>3, PTL DEF Spec

-----------------------------------------------------------------------------
(***************************************************************************)
(* Only sound packages get near the official path.                         *)
(***************************************************************************)

\* An entry that may be there: not of a call whose package is unsound.
Fit(e) == e.of \in Calls => Sound(Package[e.of])

\* Every entry is fit, and a call that got past the first checks is sound.
SoundInv ==
  /\ Fit(output)
  /\ \A c \in Calls :
       /\ Fit(stage[c]) /\ Fit(backup[c])
       /\ pc[c] = "fetch" => Package[c].verified
       /\ pc[c] \in (Building \ {"fetch"}) \cup Verifying \/ c \in committed
            => Sound(Package[c])

\* What is left of a fit entry is fit.
LEMMA LeftoversAreFit ==
  ASSUME NEW e \in Entry, Fit(e), NEW left \in RemoveTree(e) \cup InvalidateManifest(e)
  PROVE  Fit(left)
BY PublicationAssumption
DEF Fit, RemoveTree, InvalidateManifest, Absent, Torn, Unmarked

LEMMA PublishKeepsSound ==
  ASSUME TypeOK, SoundInv, NEW c \in Calls, Publish(c)
  PROVE  SoundInv'
<1> USE DEF TypeOK, SoundInv, Goto, Refuse, Abandon, RollBack, Building, Verifying,
            files, locals, history
<1>1. CASE FetchInitialHead(c)
  <2>1. Refusals(Package[c]) = {} => Sound(Package[c])
    BY <1>1, PublicationAssumption DEF FetchInitialHead, Refusals, Sound, Facts
  <2> QED BY <1>1, <2>1 DEF FetchInitialHead
<1>2. CASE CreateStage(c)
  <2>1. pc[c] = "stage" /\ Fit(Torn(c))
    BY <1>2 DEF CreateStage, Fit, Torn
  <2> QED BY <1>2, <2>1 DEF CreateStage
<1>3. CASE Render(c)
  <2>1. pc[c] = "render" /\ Fit(Sealed(c))
    BY <1>3 DEF Render, Fit, Sealed
  <2> QED BY <1>3, <2>1 DEF Render
<1>4. CASE RecheckHead(c)
  BY <1>4 DEF RecheckHead
<1>5. CASE MoveAside(c)
  <2>1. Fit(Absent)
    BY PublicationAssumption DEF Fit, Absent
  <2> QED BY <1>5, <2>1 DEF MoveAside
<1>6. CASE Promote(c)
  <2>1. Fit(Absent)
    BY PublicationAssumption DEF Fit, Absent
  <2> QED BY <1>6, <2>1 DEF Promote
<1>7. CASE ValidatePublished(c)
  BY <1>7 DEF ValidatePublished
<1>8. CASE FinalHeadCheck(c)
  BY <1>8 DEF FinalHeadCheck
<1>9. CASE CleanUpBackup(c)
  BY <1>9, LeftoversAreFit DEF CleanUpBackup
<1>10. CASE RemoveStage(c)
  BY <1>10, LeftoversAreFit DEF RemoveStage
<1> QED BY <1>1, <1>2, <1>3, <1>4, <1>5, <1>6, <1>7, <1>8, <1>9, <1>10 DEF Publish

LEMMA RollbackKeepsSound ==
  ASSUME TypeOK, SoundInv, NEW c \in Calls, Rollback(c)
  PROVE  SoundInv'
<1> USE DEF TypeOK, SoundInv, Goto, Building, Verifying, files, locals, history
<1>0. Fit(Absent)
  BY PublicationAssumption DEF Fit, Absent
<1>1. CASE QuarantineOutput(c)
  BY <1>0, <1>1 DEF QuarantineOutput
<1>2. CASE InvalidateOutput(c)
  BY <1>2, LeftoversAreFit DEF InvalidateOutput
<1>3. CASE DeleteOutput(c)
  BY <1>3, LeftoversAreFit DEF DeleteOutput
<1>4. CASE RestoreBackup(c)
  BY <1>0, <1>4 DEF RestoreBackup
<1>5. CASE ConfirmRestored(c)
  BY <1>5 DEF ConfirmRestored
<1>6. CASE InspectOutput(c)
  BY <1>6 DEF InspectOutput, AfterInspection
<1>7. CASE StripOutput(c)
  BY <1>7, LeftoversAreFit DEF StripOutput, AfterInspection
<1>8. CASE RemoveQuarantine(c)
  BY <1>8 DEF RemoveQuarantine
<1>9. CASE RollbackRaises(c)
  BY <1>9 DEF RollbackRaises
<1>10. CASE EmergencyInvalidate(c)
  BY <1>10, LeftoversAreFit DEF EmergencyInvalidate
<1> QED BY <1>1, <1>2, <1>3, <1>4, <1>5, <1>6, <1>7, <1>8, <1>9, <1>10 DEF Rollback

\* Whatever fails and however calls overlap, nothing of a package that is
\* unverified, of another protocol, invalid or no longer current reaches the
\* official path, a backup of it, or the commit point.
THEOREM ExposureIsSound == Spec => []OnlySoundPackagesExposed
<1>1. Init => TypeOK /\ SoundInv
  BY InitIsTyped, PublicationAssumption
  DEF Init, SoundInv, Fit, Absent, PlainFile, Torn, Sealed, Building, Verifying
<1>2. TypeOK /\ SoundInv /\ [Next]_vars => (TypeOK /\ SoundInv)'
  <2> SUFFICES ASSUME TypeOK, SoundInv, [Next]_vars PROVE SoundInv'
    BY NextKeepsTypes
  <2>1. CASE Push \/ CalmDown \/ UNCHANGED vars
    BY <2>1, EnvironmentTouchesNothing DEF SoundInv, Fit, files, history
  <2>2. ASSUME NEW c \in Calls, Begin(c) PROVE SoundInv'
    BY <2>2 DEF Begin, SoundInv, Fit, TypeOK, Goto, Building, Verifying, files, locals
  <2>3. ASSUME NEW c \in Calls, Step(c) PROVE SoundInv'
    BY <2>3, PublishKeepsSound, RollbackKeepsSound DEF Step
  <2>4. ASSUME NEW c \in Calls, Access(c) \/ Crash(c) PROVE SoundInv'
    BY <2>4 DEF Access, FetchForAccess, ReadForAccess, Crash, SoundInv, Fit, TypeOK, Goto,
                Building, Verifying, files, locals, history
  <2> QED BY <2>1, <2>2, <2>3, <2>4 DEF Next
<1>3. TypeOK /\ SoundInv => OnlySoundPackagesExposed
  BY DEF TypeOK, SoundInv, Fit, OnlySoundPackagesExposed
<1> QED BY <1>1, <1>2, <1>3, PTL DEF Spec

-----------------------------------------------------------------------------
(***************************************************************************)
(* What becomes of a backup.                                               *)
(***************************************************************************)

\* No call has a backup before it moves the previous output aside.
BackupUnused(c) == pc[c] \in {"idle"} \cup (Building \ {"promote"}) => backup[c] = Absent

BackupInv == ControlInv /\ \A c \in Calls : BackupUnused(c)

\* Only three steps touch a backup: taking it, restoring it, cleaning it up.
LEMMA BackupsStay ==
  ASSUME TypeOK, NEW d \in Calls, Begin(d) \/ Step(d) \/ Access(d) \/ Crash(d)
  PROVE  \/ UNCHANGED backup
         \/ pc[d] = "moveAside" /\ pc'[d] = "promote"
         \/ pc[d] = "restore" /\ pc'[d] = "confirm" /\ output' = backup[d]
         \/ pc[d] = "cleanup" /\ pc'[d] = "finally"
<1> USE DEF TypeOK, Goto, Report, Refuse, Abandon, RollBack, files, locals
<1>1. CASE Begin(d) \/ Access(d) \/ Crash(d)
  BY <1>1 DEF Begin, Access, FetchForAccess, ReadForAccess, Crash
<1>2. CASE MoveAside(d)
  BY <1>2 DEF MoveAside
<1>3. CASE RestoreBackup(d)
  BY <1>3 DEF RestoreBackup
<1>4. CASE CleanUpBackup(d)
  BY <1>4 DEF CleanUpBackup
<1>5. ASSUME Publish(d), ~MoveAside(d), ~CleanUpBackup(d) PROVE UNCHANGED backup
  BY <1>5 DEF Publish, FetchInitialHead, CreateStage, Render, RecheckHead, Promote,
     ValidatePublished, FinalHeadCheck, RemoveStage
<1>6. ASSUME Rollback(d), ~RestoreBackup(d) PROVE UNCHANGED backup
  BY <1>6 DEF Rollback, QuarantineOutput, InvalidateOutput, DeleteOutput, ConfirmRestored,
     InspectOutput, StripOutput, RemoveQuarantine, RollbackRaises, EmergencyInvalidate
<1> QED BY <1>1, <1>2, <1>3, <1>4, <1>5, <1>6 DEF Step

\* Calls do not get back to a place before their own move aside.
LEMMA NeverBackToTheStart ==
  ASSUME TypeOK, NEW d \in Calls, Begin(d) \/ Step(d) \/ Access(d) \/ Crash(d),
         pc'[d] \in {"idle"} \cup (Building \ {"promote"})
  PROVE  pc[d] \in {"idle"} \cup (Building \ {"promote", "moveAside"})
<1> USE DEF TypeOK, Goto, Refuse, Abandon, RollBack, Building
<1>1. CASE Begin(d) \/ Access(d) \/ Crash(d)
  BY <1>1 DEF Begin, Access, FetchForAccess, ReadForAccess, Crash
<1>2. CASE Publish(d)
  BY <1>2 DEF Publish, FetchInitialHead, CreateStage, Render, RecheckHead, MoveAside,
     Promote, ValidatePublished, FinalHeadCheck, CleanUpBackup, RemoveStage
<1>3. CASE Rollback(d)
  BY <1>3 DEF Rollback, QuarantineOutput, InvalidateOutput, DeleteOutput, RestoreBackup,
     ConfirmRestored, InspectOutput, AfterInspection, StripOutput, RemoveQuarantine,
     RollbackRaises, EmergencyInvalidate
<1> QED BY <1>1, <1>2, <1>3 DEF Step

\* BackupInv holds initially and every step keeps it.
LEMMA InitBackup == Init => BackupInv
BY InitControl DEF Init, BackupInv, BackupUnused

LEMMA NextKeepsBackup == BackupInv /\ [Next]_vars => BackupInv'
<1> SUFFICES ASSUME BackupInv, [Next]_vars PROVE BackupInv'
  OBVIOUS
<1>1. TypeOK /\ ControlInv'
  BY NextKeepsControl DEF BackupInv, ControlInv
<1>2. CASE Push \/ CalmDown \/ UNCHANGED vars
  BY <1>1, <1>2, EnvironmentTouchesNothing DEF BackupInv, BackupUnused, files
<1>3. ASSUME NEW d \in Calls, Begin(d) \/ Step(d) \/ Access(d) \/ Crash(d),
             NEW c \in Calls
      PROVE  BackupUnused(c)'
  <2>1. CASE c # d
    BY <1>1, <1>3, <2>1, OthersUntouched DEF BackupInv, BackupUnused
  <2>2. CASE c = d /\ pc'[d] \in {"idle"} \cup (Building \ {"promote"})
    <3>1. pc[d] \in {"idle"} \cup (Building \ {"promote", "moveAside"})
      BY <1>1, <1>3, <2>2, NeverBackToTheStart
    <3>2. UNCHANGED backup
      BY <1>1, <1>3, <3>1, BackupsStay DEF Building
    <3> QED BY <2>2, <3>1, <3>2 DEF BackupInv, BackupUnused
  <2> QED BY <2>1, <2>2 DEF BackupUnused
<1> QED BY <1>1, <1>2, <1>3 DEF Next, BackupInv

\* However calls overlap and whatever fails, a bundle in a backup leaves it only
\* for the official path, or because the call that holds it has committed.
THEOREM BackupsOutlive == Spec => BackupOutlivesCommit
<1>1. Init => BackupInv
  BY InitBackup
<1>2. BackupInv /\ [Next]_vars => BackupInv'
  BY NextKeepsBackup
<1>3. ASSUME BackupInv, [Next]_vars, NEW c \in Calls,
             Authoritative(backup[c]), backup'[c] # backup[c]
      PROVE  c \in committed \/ output' = backup[c]
  <2>1. TypeOK /\ Control(c) /\ BackupUnused(c)
    BY <1>3 DEF BackupInv, ControlInv
  <2>2. PICK d \in Calls : Begin(d) \/ Step(d) \/ Access(d) \/ Crash(d)
    BY <1>3, EnvironmentTouchesNothing DEF Next, files
  <2>3. c = d
    BY <1>3, <2>1, <2>2, OthersUntouched
  <2>4. \/ pc[c] = "moveAside"
        \/ output' = backup[c]
        \/ pc[c] = "cleanup"
    BY <1>3, <2>1, <2>2, <2>3, BackupsStay
  <2>5. pc[c] # "moveAside"
    BY <1>3, <2>1 DEF BackupUnused, Building, Authoritative, Absent
  <2> QED BY <2>1, <2>4, <2>5 DEF Control
<1>4. BackupInv /\ [Next]_vars =>
        [\A c \in Calls : Authoritative(backup[c]) /\ backup'[c] # backup[c]
           => c \in committed \/ output' = backup[c]]_vars
  BY <1>3
<1> QED BY <1>1, <1>2, <1>4, PTL DEF Spec, BackupOutlivesCommit

-----------------------------------------------------------------------------
(***************************************************************************)
(* A failed publication that stays official is reported.                   *)
(***************************************************************************)

\* A bundle written complete is one of its author alone.
LEMMA SealedIsOwn ==
  /\ \A o, p : Sealed(o) = Sealed(p) => o = p
  /\ \A o, p : Sealed(o) # Torn(p) /\ Sealed(o) # Unmarked(p)
  /\ \A o : Sealed(o) # Absent /\ Sealed(o) # PlainFile /\ Authoritative(Sealed(o))
  /\ \A e \in Entry : Authoritative(e) => e = Sealed(e.of)
  /\ ~Authoritative(Absent)
BY DEF Sealed, Torn, Unmarked, Absent, PlainFile, Authoritative, Entry

\* Deleting or invalidating an entry makes no bundle of it.
LEMMA LeftoversAreNoNewBundles ==
  ASSUME NEW e, NEW o, NEW left \in RemoveTree(e) \cup InvalidateManifest(e),
         left = Sealed(o)
  PROVE  e = Sealed(o)
BY SealedIsOwn DEF RemoveTree, InvalidateManifest

\* Apart from its own promotion, a step of a call brings a bundle to the official
\* path only from its backup, and to its backup only from the official path.
LEMMA WhereBundlesComeFrom ==
  ASSUME TypeOK, NEW d \in Calls, Begin(d) \/ Step(d) \/ Access(d) \/ Crash(d), Own(d),
         NEW o \in Owners, o # d \/ pc[d] # "promote"
  PROVE  /\ output' = Sealed(o) => output = Sealed(o) \/ backup[d] = Sealed(o)
         /\ \A e \in Calls :
              backup'[e] = Sealed(o) => backup[e] = Sealed(o) \/ output = Sealed(o)
<1> USE SealedIsOwn, LeftoversAreNoNewBundles
    DEF TypeOK, Refuse, Abandon, RollBack, files
<1>1. CASE Begin(d) \/ Access(d) \/ Crash(d)
  BY <1>1 DEF Begin, Access, FetchForAccess, ReadForAccess, Crash
<1>2. CASE Publish(d)
  <2>1. CASE MoveAside(d) BY <2>1 DEF MoveAside
  <2>2. CASE Promote(d) BY <2>2 DEF Promote, Own
  <2>3. CASE CleanUpBackup(d) BY <2>3 DEF CleanUpBackup
  <2>4. CASE ~MoveAside(d) /\ ~Promote(d) /\ ~CleanUpBackup(d)
    <3>1. UNCHANGED <<output, backup>>
      BY <1>2, <2>4 DEF Publish, FetchInitialHead, CreateStage, Render, RecheckHead,
         ValidatePublished, FinalHeadCheck, RemoveStage
    <3> QED BY <3>1
  <2> QED BY <2>1, <2>2, <2>3, <2>4
<1>3. CASE Rollback(d)
  <2>1. CASE QuarantineOutput(d) BY <2>1 DEF QuarantineOutput
  <2>2. CASE InvalidateOutput(d) BY <2>2 DEF InvalidateOutput
  <2>3. CASE DeleteOutput(d) BY <2>3 DEF DeleteOutput
  <2>4. CASE RestoreBackup(d) BY <2>4 DEF RestoreBackup
  <2>5. CASE StripOutput(d) BY <2>5 DEF StripOutput
  <2>6. CASE EmergencyInvalidate(d) BY <2>6 DEF EmergencyInvalidate
  <2>7. CASE ConfirmRestored(d) \/ InspectOutput(d) \/ RemoveQuarantine(d) \/ RollbackRaises(d)
    BY <2>7 DEF ConfirmRestored, InspectOutput, RemoveQuarantine, RollbackRaises
  <2> QED BY <1>3, <2>1, <2>2, <2>3, <2>4, <2>5, <2>6, <2>7 DEF Rollback
<1> QED BY <1>1, <1>2, <1>3 DEF Step

\* c's bundle can be at the official path, now or after a restoration.
Loose(c) == output = Sealed(c) \/ \E d \in Calls : backup[d] = Sealed(c)

Reported(c) == codes[c] \cap {"ROLLBACK-006", "ROLLBACK-998", "999"} # {}

\* Where a call is once it has tried to take its publication back.
Afterwards == (RollingBack \ {"quarantine", "invalidate"}) \cup {"finally", "incomplete"}

\* A call that publishes has not exposed its bundle before, nobody shelves it while
\* the call runs, and it is still loose after a rollback only if that was reported.
Stranding(c) ==
  /\ pc[c] \in {"idle"} \cup Building => ~Loose(c)
  /\ pc[c] \in Verifying \cup RollingBack \cup {"emergency", "finally"} /\ c \notin committed
       => \A d \in Calls : backup[d] # Sealed(c)
  /\ pc[c] \in Afterwards /\ c \notin committed /\ Loose(c) => Reported(c)

StrandingInv == ExclusiveInv /\ \A c \in Calls : Stranding(c)

\* A bundle that is not loose does not get loose, but by its own promotion.
LEMMA StaysIn ==
  ASSUME TypeOK, NEW d \in Calls, Begin(d) \/ Step(d) \/ Access(d) \/ Crash(d), Own(d),
         NEW c \in Calls, c # d \/ pc[d] # "promote", ~Loose(c)
  PROVE  ~Loose(c)'
BY WhereBundlesComeFrom DEF Loose, Owners

\* The steps of publish() and of the final validation.
LEMMA PublishKeepsStranding ==
  ASSUME TypeOK, NEW c \in Calls, Control(c), Own(c), Stranding(c), Publish(c)
  PROVE  Stranding(c)'
<1> USE DEF TypeOK, Goto, Refuse, Abandon, RollBack, Building, Verifying, RollingBack,
        Afterwards, files, history
<1>1. CASE pc[c] \in Building \ {"promote"}
  <2>1. ~Loose(c)'
    BY <1>1, StaysIn DEF Stranding, Step
  <2> QED BY <2>1 DEF Stranding, Loose
<1>2. CASE Promote(c)
  <2>1. ~Loose(c) /\ UNCHANGED backup
    BY <1>2 DEF Promote, Stranding
  <2>2. pc'[c] \in {"validate", "quarantine"}
    BY <1>2 DEF Promote
  <2> QED BY <2>1, <2>2 DEF Stranding, Loose
<1>3. CASE ValidatePublished(c) \/ FinalHeadCheck(c)
  <2>1. pc[c] \in Verifying /\ UNCHANGED backup
    BY <1>3 DEF ValidatePublished, FinalHeadCheck
  <2>2. \/ pc'[c] \in {"final", "quarantine"} /\ UNCHANGED committed
        \/ pc'[c] = "cleanup"
    BY <1>3 DEF ValidatePublished, FinalHeadCheck
  <2> QED BY <2>1, <2>2 DEF Stranding
<1>4. CASE CleanUpBackup(c)
  BY <1>4 DEF CleanUpBackup, Control, Stranding
<1>5. CASE RemoveStage(c)
  <2>1. pc[c] = "finally" /\ pc'[c] \in {"escaped", "complete", "incomplete"}
    BY <1>5 DEF RemoveStage
  <2>2. UNCHANGED <<output, backup, codes, committed>>
    BY <1>5 DEF RemoveStage
  <2> QED BY <2>1, <2>2 DEF Stranding, Loose, Reported
<1>6. pc[c] = "promote" => Promote(c)
  BY DEF Publish, FetchInitialHead, CreateStage, Render, RecheckHead, MoveAside,
     ValidatePublished, FinalHeadCheck, CleanUpBackup, RemoveStage
<1>7. \/ pc[c] \in Building
      \/ ValidatePublished(c) \/ FinalHeadCheck(c) \/ CleanUpBackup(c) \/ RemoveStage(c)
  BY DEF Publish, FetchInitialHead, CreateStage, Render, RecheckHead, MoveAside, Promote
<1> QED BY <1>1, <1>2, <1>3, <1>4, <1>5, <1>6, <1>7

\* The steps of restore() and of its bound: what stays authoritative is reported.
LEMMA RollbackKeepsStranding ==
  ASSUME TypeOK, NEW c \in Calls, Control(c), Own(c), Stranding(c), Rollback(c)
  PROVE  Stranding(c)'
<1>1. /\ pc[c] \in RollingBack \cup {"emergency"} /\ c \notin committed
      /\ \A d \in Calls : backup[d] # Sealed(c)
  BY DEF Rollback, QuarantineOutput, InvalidateOutput, DeleteOutput, RestoreBackup,
     ConfirmRestored, InspectOutput, StripOutput, RemoveQuarantine, RollbackRaises,
     EmergencyInvalidate, RollingBack, Control, Stranding
<1>2. /\ \A d \in Calls : backup'[d] # Sealed(c)
      /\ output' = Sealed(c) => output = Sealed(c)
  <2>1. pc[c] # "promote" /\ c \in Owners
    BY <1>1 DEF RollingBack, Owners
  <2>2. CASE UNCHANGED backup
    BY <1>1, <2>1, <2>2, WhereBundlesComeFrom DEF Step
  <2>3. CASE backup' # backup
    <3>1. RestoreBackup(c)
      BY <2>3 DEF Rollback, QuarantineOutput, InvalidateOutput, DeleteOutput,
         ConfirmRestored, InspectOutput, StripOutput, RemoveQuarantine, RollbackRaises,
         EmergencyInvalidate, files
    <3>2. backup' = [backup EXCEPT ![c] = Absent] /\ output' = backup[c]
      BY <2>3, <3>1 DEF RestoreBackup, files
    <3> QED BY <1>1, <3>2, SealedIsOwn DEF TypeOK
  <2> QED BY <2>2, <2>3
<1>3. pc'[c] \in Afterwards /\ output' = Sealed(c) => Reported(c)'
  <2> SUFFICES ASSUME pc'[c] \in Afterwards, output' = Sealed(c) PROVE Reported(c)'
    OBVIOUS
  <2>0. output = Sealed(c) /\ Authoritative(output') /\ output' # Absent
    BY <1>2, SealedIsOwn
  <2> USE DEF TypeOK, Goto, Report, Reported, Afterwards, RollingBack, StillAuthoritative
  <2>1. CASE QuarantineOutput(c)
    BY <2>0, <2>1 DEF QuarantineOutput, files
  <2>2. CASE InvalidateOutput(c)
    BY <2>0, <2>2 DEF InvalidateOutput
  <2>3. CASE StripOutput(c)
    BY <2>0, <2>3 DEF StripOutput
  <2>4. CASE EmergencyInvalidate(c)
    BY <2>0, <2>4 DEF EmergencyInvalidate
  <2>5. CASE RollbackRaises(c)
    BY <2>5 DEF RollbackRaises
  <2>6. CASE DeleteOutput(c) \/ RestoreBackup(c) \/ ConfirmRestored(c)
             \/ InspectOutput(c) \/ RemoveQuarantine(c)
    <3>1. pc[c] \in {"delete", "restore", "confirm", "inspect", "dequarantine"}
      BY <2>6 DEF DeleteOutput, RestoreBackup, ConfirmRestored, InspectOutput,
         RemoveQuarantine
    <3>2. Reported(c)
      BY <1>1, <2>0, <3>1 DEF Stranding, Loose
    <3>3. codes[c] \subseteq codes'[c]
      <4>1. CASE DeleteOutput(c) BY <4>1 DEF DeleteOutput
      <4>2. CASE RestoreBackup(c) BY <4>2 DEF RestoreBackup
      <4>3. CASE ConfirmRestored(c) BY <4>3 DEF ConfirmRestored
      <4>4. CASE InspectOutput(c) BY <4>4 DEF InspectOutput
      <4>5. CASE RemoveQuarantine(c) BY <4>5 DEF RemoveQuarantine
      <4> QED BY <2>6, <4>1, <4>2, <4>3, <4>4, <4>5
    <3> QED BY <3>2, <3>3
  <2> QED BY <2>1, <2>2, <2>3, <2>4, <2>5, <2>6 DEF Rollback
<1>4. pc'[c] \in RollingBack \cup {"emergency", "finally"}
  BY DEF TypeOK, Goto, RollingBack, Rollback, QuarantineOutput, InvalidateOutput,
     DeleteOutput, RestoreBackup, ConfirmRestored, InspectOutput, AfterInspection,
     StripOutput, RemoveQuarantine, RollbackRaises, EmergencyInvalidate
<1> QED BY <1>2, <1>3, <1>4 DEF Stranding, Loose, Building, RollingBack

\* StrandingInv holds initially and every step keeps it.
LEMMA InitStranding == Init => StrandingInv
BY InitExclusive, SealedIsOwn, PublicationAssumption
DEF Init, StrandingInv, Stranding, Loose, Afterwards, Building, Verifying, RollingBack

LEMMA NextKeepsStranding ==
  ASSUME Exclusive, StrandingInv, [Next]_vars
  PROVE  StrandingInv'
<1>1. ExclusiveInv /\ ExclusiveInv' /\ TypeOK /\ AtMostOneRuns
  BY NextKeepsExclusive DEF StrandingInv, ExclusiveInv, ControlInv
<1>2. CASE Push \/ CalmDown \/ UNCHANGED vars
  BY <1>1, <1>2, EnvironmentTouchesNothing
  DEF StrandingInv, Stranding, Loose, Reported, files, history
<1>3. ASSUME NEW d \in Calls, Begin(d) \/ Step(d) \/ Access(d) \/ Crash(d)
      PROVE  StrandingInv'
  <2>1. Step(d) => Stranding(d)'
    BY <1>1, PublishKeepsStranding, RollbackKeepsStranding
    DEF StrandingInv, ExclusiveInv, ControlInv, Step
  <2>2. Begin(d) => Stranding(d)'
    <3> SUFFICES ASSUME Begin(d) PROVE Stranding(d)'
      OBVIOUS
    <3>1. ~Loose(d)'
      BY StaysIn, <1>1 DEF Begin, StrandingInv, Stranding, ExclusiveInv
    <3> QED BY <3>1 DEF Stranding, Loose
  <2>3. Access(d) \/ Crash(d) => Stranding(d)'
    BY <1>1 DEF Access, FetchForAccess, ReadForAccess, Crash, Goto, TypeOK, Stranding,
       Building, Verifying, RollingBack, Afterwards
  <2>4. ASSUME NEW c \in Calls, c # d PROVE Stranding(c)'
    <3>1. /\ pc'[c] = pc[c] /\ codes'[c] = codes[c]
          /\ c \in committed' <=> c \in committed
      BY <1>1, <1>3, <2>4, OthersUntouched
    <3>2. ~Loose(c) => ~Loose(c)'
      BY <1>1, <1>3, <2>4, StaysIn DEF ExclusiveInv
    <3>3. CASE Begin(d) \/ Step(d)
      <4>1. pc'[c] \notin Running
        BY <1>1, <2>4, <3>3, OthersAreNotRunning
      <4> QED BY <3>1, <3>2, <4>1
              DEF StrandingInv, Stranding, Reported, Running, Afterwards
    <3>4. CASE Access(d) \/ Crash(d)
      <4>1. UNCHANGED <<output, backup>>
        BY <3>4, AccessTouchesNoFile DEF files
      <4> QED BY <3>1, <4>1 DEF StrandingInv, Stranding, Loose, Reported
    <3> QED BY <1>3, <3>3, <3>4
  <2> QED BY <1>1, <1>3, <2>1, <2>2, <2>3, <2>4 DEF StrandingInv
<1> QED BY <1>2, <1>3 DEF Next

\* When calls on the same output do not overlap, an incomplete result whose own
\* publication is still authoritative at the official path says so, whatever
\* fails and wherever an exception comes from.
THEOREM StrandingIsReported == Exclusive => (Spec => []StrandedIsReported)
<1> SUFFICES ASSUME Exclusive PROVE Spec => []StrandedIsReported
  OBVIOUS
<1>1. Init => StrandingInv
  BY InitStranding
<1>2. StrandingInv /\ [Next]_vars => StrandingInv'
  BY NextKeepsStranding
<1>3. StrandingInv => StrandedIsReported
  BY DEF StrandingInv, Stranding, StrandedIsReported, Loose, Reported, Afterwards
<1> QED BY <1>1, <1>2, <1>3, PTL DEF Spec

-----------------------------------------------------------------------------
(***************************************************************************)
(* A clean failure leaves the official path as the call found it.          *)
(***************************************************************************)

InTrouble(c) == codes[c] \cap RollbackTrouble # {}

\* What c found at the official path waits in its backup; nothing, if it found nothing.
Aside(c) ==
  /\ held[c] => backup[c] = found[c] /\ found[c] # Absent
  /\ ~held[c] => found[c] = Absent

\* Until it moves it aside c sees what it found, and after its rollback again,
\* unless it has reported trouble.
Faithful(c) ==
  /\ pc[c] \in {"idle"} \cup (Building \ {"promote"}) => ~held[c] /\ ~restored[c]
  /\ pc[c] \in Building \ {"promote"} => output = found[c]
  /\ pc[c] \in {"promote", "quarantine", "invalidate", "delete", "reinvalidate",
                 "restore"} \cup Verifying => Aside(c) /\ ~restored[c]
  /\ pc[c] = "restore" => output = Absent \/ InTrouble(c)
  /\ pc[c] = "confirm" => output = found[c] /\ output # Absent /\ backup[c] = Absent
  /\ pc[c] = "inspect" =>
       InTrouble(c) \/ (output = found[c] /\ (restored[c] \/ output = Absent))
  /\ pc[c] \in {"reinvalidate", "strip", "emergency"} => InTrouble(c)
  /\ pc[c] = "dequarantine" => InTrouble(c) \/ output = found[c]
  /\ pc[c] = "finally" => InTrouble(c) \/ output = found[c] \/ Succeeded(c)

FaithfulInv == ExclusiveInv /\ \A c \in Calls : Faithful(c)

\* Only its beginning sets what a call found, and only its own steps the rest.
LEMMA FoundStays ==
  ASSUME TypeOK, NEW d \in Calls, Begin(d) \/ Step(d) \/ Access(d) \/ Crash(d)
  PROVE  /\ ~Begin(d) => found' = found
         /\ \A c \in Calls \ {d} : found'[c] = found[c]
<1>1. CASE Begin(d)
  BY <1>1 DEF Begin, TypeOK
<1>2. CASE Step(d) \/ Access(d) \/ Crash(d)
  BY <1>2 DEF Step, Publish, Rollback, Access, Crash, FetchInitialHead, CreateStage,
     Render, RecheckHead, MoveAside, Promote, ValidatePublished, FinalHeadCheck,
     CleanUpBackup, RemoveStage, QuarantineOutput, InvalidateOutput, DeleteOutput,
     RestoreBackup, ConfirmRestored, InspectOutput, StripOutput, RemoveQuarantine,
     RollbackRaises, EmergencyInvalidate, FetchForAccess, ReadForAccess, Refuse, Abandon,
     RollBack, history
<1> QED BY <1>1, <1>2

\* The steps up to the commit point.
LEMMA PublishKeepsFaithful ==
  ASSUME TypeOK, NEW c \in Calls, Control(c), Own(c), Faithful(c), Publish(c)
  PROVE  Faithful(c)'
<1>0. found' = found
  BY FoundStays DEF Step, Publish, Begin, FetchInitialHead, CreateStage, Render,
     RecheckHead, MoveAside, Promote, ValidatePublished, FinalHeadCheck, CleanUpBackup,
     RemoveStage
<1> USE <1>0 DEF TypeOK, Faithful, Aside, Goto, Refuse, Abandon, RollBack, Building,
        Verifying, files, locals
<1>1. CASE FetchInitialHead(c)
  BY <1>1 DEF FetchInitialHead
<1>2. CASE CreateStage(c)
  BY <1>2 DEF CreateStage
<1>3. CASE Render(c)
  BY <1>3 DEF Render
<1>4. CASE RecheckHead(c)
  BY <1>4 DEF RecheckHead
<1>5. CASE MoveAside(c)
  <2>1. CASE Occupied /\ Goto(c, "promote") /\ backup' = [backup EXCEPT ![c] = output]
             /\ held' = [held EXCEPT ![c] = TRUE] /\ UNCHANGED restored
    <3>1. pc'[c] = "promote" /\ backup'[c] = found[c] /\ found[c] # Absent
      BY <1>5, <2>1 DEF MoveAside, Abandon, Occupied
    <3>2. held'[c] /\ ~restored'[c]
      BY <1>5, <2>1 DEF MoveAside
    <3> QED BY <3>1, <3>2
  <2>2. CASE ~Occupied /\ Goto(c, "promote") /\ UNCHANGED <<files, locals>>
    BY <1>5, <2>2 DEF MoveAside, Occupied
  <2>3. CASE \E code \in {"005", "999"} : Abandon(c, code)
    BY <1>5, <2>3 DEF MoveAside
  <2> QED BY <1>5, <2>1, <2>2, <2>3 DEF MoveAside
<1>6. CASE Promote(c)
  BY <1>6 DEF Promote
<1>7. CASE ValidatePublished(c)
  BY <1>7 DEF ValidatePublished
<1>8. CASE FinalHeadCheck(c)
  BY <1>8 DEF FinalHeadCheck
<1>9. CASE CleanUpBackup(c)
  <2>1. pc'[c] = "finally" /\ (codes'[c] \subseteq {"009"} \/ "999" \in codes'[c])
    BY <1>9 DEF CleanUpBackup, Control, Report
  <2> QED BY <2>1 DEF Succeeded, InTrouble, RollbackTrouble
<1>10. CASE RemoveStage(c)
  BY <1>10 DEF RemoveStage
<1> QED BY <1>1, <1>2, <1>3, <1>4, <1>5, <1>6, <1>7, <1>8, <1>9, <1>10 DEF Publish

\* Diagnostics pile up, unless an exception replaces them by one that is trouble.
LEMMA TroubleStays ==
  ASSUME TypeOK, NEW c \in Calls, Rollback(c), InTrouble(c)
  PROVE  InTrouble(c)'
<1> USE DEF TypeOK, Report, InTrouble, RollbackTrouble
<1>1. CASE QuarantineOutput(c) BY <1>1 DEF QuarantineOutput
<1>2. CASE InvalidateOutput(c) BY <1>2 DEF InvalidateOutput
<1>3. CASE DeleteOutput(c) BY <1>3 DEF DeleteOutput
<1>4. CASE RestoreBackup(c) BY <1>4 DEF RestoreBackup
<1>5. CASE ConfirmRestored(c) BY <1>5 DEF ConfirmRestored
<1>6. CASE InspectOutput(c) BY <1>6 DEF InspectOutput
<1>7. CASE StripOutput(c) BY <1>7 DEF StripOutput
<1>8. CASE RemoveQuarantine(c) BY <1>8 DEF RemoveQuarantine
<1>9. CASE RollbackRaises(c) BY <1>9 DEF RollbackRaises
<1>10. CASE EmergencyInvalidate(c) BY <1>10 DEF EmergencyInvalidate
<1> QED BY <1>1, <1>2, <1>3, <1>4, <1>5, <1>6, <1>7, <1>8, <1>9, <1>10 DEF Rollback

\* The steps of restore() and of its bound.
LEMMA RollbackKeepsFaithful ==
  ASSUME TypeOK, NEW c \in Calls, Faithful(c), Rollback(c)
  PROVE  Faithful(c)'
<1>0. found' = found
  BY DEF Rollback, QuarantineOutput, InvalidateOutput, DeleteOutput, RestoreBackup,
     ConfirmRestored, InspectOutput, StripOutput, RemoveQuarantine, RollbackRaises,
     EmergencyInvalidate, history
<1> USE <1>0, TroubleStays
    DEF TypeOK, Faithful, Aside, Goto, Building, Verifying, files, locals
<1>1. CASE QuarantineOutput(c)
  BY <1>1 DEF QuarantineOutput
<1>2. CASE InvalidateOutput(c)
  <2>1. CASE pc[c] = "invalidate" /\ Goto(c, "delete")
    BY <1>2, <2>1 DEF InvalidateOutput
  <2>2. CASE pc[c] = "reinvalidate" /\ Goto(c, "restore")
    BY <1>2, <2>2 DEF InvalidateOutput
  <2> QED BY <1>2, <2>1, <2>2 DEF InvalidateOutput
<1>3. CASE DeleteOutput(c)
  <2>1. output' = Absent \/ Report(c, {"ROLLBACK-003"})
    BY <1>3 DEF DeleteOutput
  <2>2. Report(c, {"ROLLBACK-003"}) => InTrouble(c)'
    BY DEF Report, InTrouble, RollbackTrouble
  <2> QED BY <1>3, <2>1, <2>2 DEF DeleteOutput
<1>4. CASE RestoreBackup(c)
  <2>1. ASSUME NEW code \in {"ROLLBACK-007", "ROLLBACK-008", "ROLLBACK-009"},
               Report(c, {code}), Goto(c, "inspect")
        PROVE  Faithful(c)'
    <3>1. InTrouble(c)'
      BY <2>1 DEF Report, InTrouble, RollbackTrouble
    <3> QED BY <2>1, <3>1
  <2>2. CASE ~held[c] /\ Goto(c, "inspect") /\ UNCHANGED <<files, codes>>
    BY <1>4, <2>2 DEF RestoreBackup, InTrouble
  <2>3. CASE /\ held[c] /\ output' = backup[c] /\ Goto(c, "confirm")
             /\ backup' = [backup EXCEPT ![c] = Absent]
    BY <1>4, <2>3 DEF RestoreBackup
  <2> QED BY <1>4, <2>1, <2>2, <2>3 DEF RestoreBackup
<1>5. CASE ConfirmRestored(c)
  <2>1. pc'[c] = "inspect" /\ output' = found'[c]
    BY <1>5 DEF ConfirmRestored
  <2>2. restored'[c] \/ InTrouble(c)'
    BY <1>5 DEF ConfirmRestored, Report, InTrouble, RollbackTrouble
  <2> QED BY <2>1, <2>2
<1>6. CASE InspectOutput(c)
  <2>1. MustStrip(c) => InTrouble(c)
    BY <1>6, SealedIsOwn DEF InspectOutput, MustStrip
  <2>2. UNCHANGED <<output, codes>> /\ pc'[c] \in {"strip", "dequarantine", "finally"}
    BY <1>6 DEF InspectOutput, AfterInspection
  <2>3. pc'[c] = "strip" => MustStrip(c)
    BY <1>6 DEF InspectOutput, AfterInspection
  <2> QED BY <1>6, <2>1, <2>2, <2>3 DEF InspectOutput, InTrouble
<1>7. CASE StripOutput(c)
  BY <1>7 DEF StripOutput, AfterInspection
<1>8. CASE RemoveQuarantine(c)
  BY <1>8 DEF RemoveQuarantine
<1>9. CASE RollbackRaises(c)
  <2>1. pc'[c] \in {"emergency", "finally"} /\ InTrouble(c)'
    BY <1>9 DEF RollbackRaises, InTrouble, RollbackTrouble
  <2> QED BY <2>1
<1>10. CASE EmergencyInvalidate(c)
  BY <1>10 DEF EmergencyInvalidate
<1> QED BY <1>1, <1>2, <1>3, <1>4, <1>5, <1>6, <1>7, <1>8, <1>9, <1>10 DEF Rollback

\* FaithfulInv holds initially and every step keeps it.
LEMMA InitFaithful == Init => FaithfulInv
BY InitExclusive
DEF Init, FaithfulInv, Faithful, Building, Verifying

LEMMA NextKeepsFaithful ==
  ASSUME Exclusive, FaithfulInv, [Next]_vars
  PROVE  FaithfulInv'
<1>1. ExclusiveInv /\ ExclusiveInv' /\ TypeOK /\ AtMostOneRuns
  BY NextKeepsExclusive DEF FaithfulInv, ExclusiveInv, ControlInv
<1>2. CASE Push \/ CalmDown \/ UNCHANGED vars
  BY <1>1, <1>2, EnvironmentTouchesNothing
  DEF FaithfulInv, Faithful, Aside, InTrouble, Succeeded, files, locals, history
<1>3. ASSUME NEW d \in Calls, Begin(d) \/ Step(d)
      PROVE  FaithfulInv'
  <2>1. Step(d) => Faithful(d)'
    BY <1>1, PublishKeepsFaithful, RollbackKeepsFaithful
    DEF FaithfulInv, ExclusiveInv, ControlInv, Step
  <2>2. Begin(d) => Faithful(d)'
    BY <1>1 DEF Begin, FaithfulInv, Faithful, TypeOK, Goto, Report, Building, Verifying,
       files, locals
  <2>3. ASSUME NEW c \in Calls, c # d PROVE Faithful(c)'
    <3>1. pc'[c] \notin Running
      BY <1>1, <1>3, <2>3, OthersAreNotRunning
    <3> QED BY <1>1, <1>3, <2>3, <3>1, OthersUntouched
            DEF FaithfulInv, Faithful, Running, Building, Verifying, RollingBack
  <2> QED BY <1>1, <1>3, <2>1, <2>2, <2>3 DEF FaithfulInv
<1>4. ASSUME NEW d \in Calls, Access(d) \/ Crash(d), NEW c \in Calls
      PROVE  Faithful(c)'
  <2>1. UNCHANGED <<files, held, restored, history>>
    BY <1>4, AccessTouchesNoFile
  <2>2. pc'[c] = pc[c] \/ pc'[c] \in Minted \cup {"crashed"}
    BY <1>1, <1>4, OthersUntouched
    DEF Access, FetchForAccess, ReadForAccess, Crash, Goto, TypeOK, Minted
  <2>3. UNCHANGED codes
    BY <1>4 DEF Access, FetchForAccess, ReadForAccess, Crash
  <2> QED BY <2>1, <2>2, <2>3
          DEF FaithfulInv, Faithful, Aside, InTrouble, Succeeded, Minted, Building,
              Verifying, files, history
<1> QED BY <1>1, <1>2, <1>3, <1>4 DEF Next, FaithfulInv

\* "No failure is treated as success", and none is hushed up: when calls do not
\* overlap, one that fails without a rollback diagnostic, even by an exception that
\* no handler catches, leaves at the official path exactly what it found there.
THEOREM FailuresRestore == Exclusive => (Spec => CleanFailureRestores)
<1> SUFFICES ASSUME Exclusive PROVE Spec => CleanFailureRestores
  OBVIOUS
<1>1. Init => FaithfulInv
  BY InitFaithful
<1>2. FaithfulInv /\ [Next]_vars => FaithfulInv'
  BY NextKeepsFaithful
<1>3. ASSUME FaithfulInv, [Next]_vars, NEW c \in Calls, Fails(c),
             codes'[c] \cap RollbackTrouble = {}
      PROVE  output' = found'[c]
  <2>0. pc[c] \notin {"incomplete", "escaped"} /\ pc'[c] \in {"incomplete", "escaped"}
    BY <1>3 DEF Fails
  <2>1. TypeOK /\ Faithful(c) /\ Control(c)
    BY <1>3 DEF FaithfulInv, ExclusiveInv, ControlInv
  <2>2. PICK d \in Calls : Begin(d) \/ Step(d) \/ Access(d) \/ Crash(d)
    BY <1>3, <2>0, EnvironmentTouchesNothing DEF Next
  <2>3. c = d
    BY <2>0, <2>1, <2>2, OthersUntouched
  <2>4. CASE Begin(c)
    BY <2>1, <2>4 DEF Begin, TypeOK, files
  <2>5. CASE FetchInitialHead(c) \/ CreateStage(c)
    <3>1. pc[c] \in {"fetch", "stage"} /\ UNCHANGED <<output, found>>
      BY <2>0, <2>1, <2>5
      DEF FetchInitialHead, CreateStage, Refuse, Goto, TypeOK, files, history
    <3> QED BY <2>1, <3>1 DEF Faithful, Building
  <2>6. CASE RemoveStage(c)
    <3>1. pc[c] = "finally" /\ UNCHANGED <<output, found, codes>>
      BY <2>6 DEF RemoveStage, files, history
    <3>2. ~Succeeded(c)
      BY <1>3, <2>1, <2>6 DEF Fails, Control, RemoveStage, Goto, TypeOK
    <3> QED BY <1>3, <2>1, <3>1, <3>2 DEF Faithful, InTrouble
  <2>7. Begin(c) \/ FetchInitialHead(c) \/ CreateStage(c) \/ RemoveStage(c)
    BY <2>0, <2>1, <2>2, <2>3
    DEF TypeOK, Goto, Step, Publish, Rollback, Access, Crash, Render, RecheckHead, MoveAside,
        Promote, ValidatePublished, FinalHeadCheck, CleanUpBackup, QuarantineOutput,
        InvalidateOutput, DeleteOutput, RestoreBackup, ConfirmRestored, InspectOutput,
        AfterInspection, StripOutput, RemoveQuarantine, RollbackRaises,
        EmergencyInvalidate, FetchForAccess, ReadForAccess, Abandon, RollBack
  <2> QED BY <2>4, <2>5, <2>6, <2>7
<1>4. FaithfulInv /\ [Next]_vars =>
        [\A c \in Calls :
           Fails(c) /\ codes'[c] \cap RollbackTrouble = {} => output' = found'[c]]_vars
  BY <1>3
<1> QED BY <1>1, <1>2, <1>4, PTL DEF Spec, CleanFailureRestores

-----------------------------------------------------------------------------
(***************************************************************************)
(* Publication implements OfficialOutput.                                  *)
(***************************************************************************)

\* The bundle at the official path, the bundles in backups, and the candidates that
\* may still be published: the values of the refinement mapping.
OnPath == IF Authoritative(output) THEN output.of ELSE Nothing
Shelf == {o \in Owners : \E c \in Calls : backup[c] = Sealed(o)}
Fresh == {c \in Calls : pc[c] \in Building \cup {"idle"}}

\* A complete bundle is in one place only.
Once ==
  /\ \A c, d \in Calls : Authoritative(backup[c]) /\ backup[c] = backup[d] => c = d
  /\ \A c \in Calls : Authoritative(output) => backup[c] # output

\* Only a committed bundle, or the one found at the start, has standing.
StandingIsEarned == standing \in committed \cup {Earlier, Nothing}

\* The only bundle a rollback can find at the official path, before it has put the
\* previous one back, is the one its own call published.
Undoes(c) ==
  \/ pc[c] \in {"quarantine", "invalidate", "delete", "reinvalidate", "restore"}
  \/ pc[c] \in {"inspect", "strip"} /\ ~restored[c]

OnlyOwn(c) == Undoes(c) /\ Authoritative(output) => output = Sealed(c)

MappingInv ==
  /\ PreservationInv /\ StrandingInv
  /\ Once /\ StandingIsEarned
  /\ \A c \in Calls : OnlyOwn(c)

\* What the mapping says of an entry.
LEMMA OnPathIs ==
  ASSUME TypeOK
  PROVE  /\ \A o \in Owners : OnPath = o <=> output = Sealed(o)
         /\ OnPath = Nothing <=> ~Authoritative(output)
         /\ OnPath \in Owners \cup {Nothing}
         /\ output = Absent => OnPath = Nothing
         /\ Nothing \notin Owners
BY SealedIsOwn, PublicationAssumption DEF TypeOK, OnPath, Entry, Owners, Sealed,
   Authoritative, Absent

\* The mapping of a step that changes neither path nor backup.
LEMMA SameFiles ==
  ASSUME UNCHANGED <<output, backup>>
  PROVE  UNCHANGED <<OnPath, Shelf>>
BY DEF OnPath, Shelf

\* A call can only lose its freshness.
LEMMA FreshShrinks ==
  ASSUME TypeOK, NEW d \in Calls, Begin(d) \/ Step(d) \/ Access(d) \/ Crash(d)
  PROVE  /\ d \in Fresh /\ pc'[d] \in Building \cup {"idle"} => Fresh' = Fresh
         /\ d \notin Fresh => Fresh' = Fresh
         /\ d \in Fresh /\ pc'[d] \notin Building \cup {"idle"} => Fresh' = Fresh \ {d}
<1>1. \A c \in Calls : c # d => pc'[c] = pc[c]
  BY OthersUntouched
<1>2. pc'[d] \in Building \cup {"idle"} => d \in Fresh
  <2>1. CASE pc'[d] = "promote"
    BY <2>1 DEF TypeOK, Goto, Refuse, Abandon, RollBack, Begin, Access, FetchForAccess,
       ReadForAccess, Crash, Step, Publish, FetchInitialHead, CreateStage, Render,
       RecheckHead, MoveAside, Promote, ValidatePublished, FinalHeadCheck, CleanUpBackup,
       RemoveStage, Rollback, QuarantineOutput, InvalidateOutput, DeleteOutput,
       RestoreBackup, ConfirmRestored, InspectOutput, AfterInspection, StripOutput,
       RemoveQuarantine, RollbackRaises, EmergencyInvalidate, Fresh, Building
  <2> QED BY <2>1, NeverBackToTheStart DEF Fresh, Building
<1> QED BY <1>1, <1>2 DEF Fresh

\* Everything a step of a call can do to the official path and the backups.
LEMMA Effects ==
  ASSUME TypeOK, NEW d \in Calls, Own(d), Begin(d) \/ Step(d) \/ Access(d) \/ Crash(d)
  PROVE  \/ UNCHANGED <<output, backup>>
         \/ /\ pc[d] = "moveAside" /\ pc'[d] = "promote"
            /\ output' = Absent /\ backup' = [backup EXCEPT ![d] = output]
         \/ /\ pc[d] = "promote" /\ pc'[d] = "validate"
            /\ output = Absent /\ output' = Sealed(d) /\ UNCHANGED backup
         \/ /\ pc[d] = "restore" /\ pc'[d] = "confirm"
            /\ output = Absent /\ output' = backup[d]
            /\ backup' = [backup EXCEPT ![d] = Absent]
         \/ /\ pc[d] = "cleanup" /\ pc'[d] = "finally" /\ UNCHANGED output
            /\ backup' = [backup EXCEPT ![d] = backup'[d]] /\ ~Authoritative(backup'[d])
         \/ /\ pc[d] \in {"quarantine", "invalidate", "delete", "reinvalidate", "strip",
                           "emergency"}
            /\ pc'[d] \in RollingBack \cup {"finally"}
            /\ UNCHANGED backup /\ ~Authoritative(output')
<1> USE DEF TypeOK, Goto, Refuse, Abandon, RollBack, files
<1>1. CASE Begin(d) \/ Access(d) \/ Crash(d)
  BY <1>1 DEF Begin, Access, FetchForAccess, ReadForAccess, Crash
<1>2. CASE MoveAside(d)
  BY <1>2 DEF MoveAside
<1>3. CASE Promote(d)
  BY <1>3 DEF Promote, Own
<1>4. CASE CleanUpBackup(d)
  <2>1. ASSUME NEW left \in RemoveTree(backup[d]), left # backup[d]
        PROVE  ~Authoritative(left)
    BY <2>1 DEF RemoveTree, Authoritative, Absent, Torn
  <2>2. backup' # backup =>
          \E left \in RemoveTree(backup[d]) : backup' = [backup EXCEPT ![d] = left]
    BY <1>4 DEF CleanUpBackup
  <2>3. backup' # backup => pc[d] = "cleanup" /\ pc'[d] = "finally" /\ UNCHANGED output
    BY <1>4 DEF CleanUpBackup
  <2>4. UNCHANGED output
    BY <1>4 DEF CleanUpBackup
  <2> QED BY <2>1, <2>2, <2>3, <2>4
<1>5. ASSUME Publish(d), ~MoveAside(d), ~Promote(d), ~CleanUpBackup(d)
      PROVE  UNCHANGED <<output, backup>>
  BY <1>5 DEF Publish, FetchInitialHead, CreateStage, Render, RecheckHead,
     ValidatePublished, FinalHeadCheck, RemoveStage
<1>6. CASE Rollback(d)
  <2> USE DEF RollingBack
  <2>0. \A left \in RemoveTree(output) \cup InvalidateManifest(output) :
          left = output \/ ~Authoritative(left)
    BY DEF RemoveTree, InvalidateManifest, Authoritative, Absent, Torn, Unmarked
  <2>1. CASE QuarantineOutput(d)
    BY <2>1, SealedIsOwn DEF QuarantineOutput
  <2>2. CASE InvalidateOutput(d)
    BY <2>0, <2>2 DEF InvalidateOutput
  <2>3. CASE DeleteOutput(d)
    BY <2>0, <2>3 DEF DeleteOutput
  <2>4. CASE RestoreBackup(d)
    BY <2>4 DEF RestoreBackup
  <2>5. CASE StripOutput(d)
    BY <2>0, <2>5 DEF StripOutput, AfterInspection
  <2>6. CASE EmergencyInvalidate(d)
    BY <2>0, <2>6 DEF EmergencyInvalidate
  <2>7. CASE ConfirmRestored(d) \/ InspectOutput(d) \/ RemoveQuarantine(d) \/ RollbackRaises(d)
    BY <2>7 DEF ConfirmRestored, InspectOutput, RemoveQuarantine, RollbackRaises
  <2> QED BY <1>6, <2>1, <2>2, <2>3, <2>4, <2>5, <2>6, <2>7 DEF Rollback
<1> QED BY <1>1, <1>2, <1>3, <1>4, <1>5, <1>6 DEF Step

\* Standing changes at the commit point only, which touches no directory.
LEMMA StandingMoves ==
  ASSUME TypeOK, NEW d \in Calls, Begin(d) \/ Step(d) \/ Access(d) \/ Crash(d)
  PROVE  \/ UNCHANGED <<standing, committed>>
         \/ /\ pc[d] = "final" /\ pc'[d] = "cleanup"
            /\ standing' = bundle[d] /\ committed' = committed \cup {d}
            /\ UNCHANGED <<output, backup>>
<1>1. CASE FinalHeadCheck(d)
  BY <1>1 DEF FinalHeadCheck, RollBack, TypeOK, Goto, files, history
<1>2. ASSUME ~FinalHeadCheck(d) PROVE UNCHANGED <<standing, committed>>
  BY <1>2 DEF Begin, Step, Publish, Rollback, Access, Crash, FetchInitialHead, CreateStage,
     Render, RecheckHead, MoveAside, Promote, ValidatePublished, CleanUpBackup,
     RemoveStage, QuarantineOutput, InvalidateOutput, DeleteOutput, RestoreBackup,
     ConfirmRestored, InspectOutput, StripOutput, RemoveQuarantine, RollbackRaises,
     EmergencyInvalidate, FetchForAccess, ReadForAccess, Refuse, Abandon, RollBack, history
<1> QED BY <1>1, <1>2

\* A step moves a bundle and never copies it.
LEMMA StepKeepsOnce ==
  ASSUME TypeOK, Once, NEW d \in Calls, Own(d), Stranding(d), BackupUnused(d),
         Begin(d) \/ Step(d) \/ Access(d) \/ Crash(d)
  PROVE  Once'
<1>1. CASE UNCHANGED <<output, backup>>
  BY <1>1 DEF Once
<1>2. CASE output' = Absent /\ backup' = [backup EXCEPT ![d] = output]
  BY <1>2, SealedIsOwn DEF Once, TypeOK
<1>3. CASE pc[d] = "promote" /\ output' = Sealed(d) /\ UNCHANGED backup
  BY <1>3 DEF Once, Stranding, Loose, Building
<1>4. CASE output' = backup[d] /\ backup' = [backup EXCEPT ![d] = Absent]
  BY <1>4, SealedIsOwn DEF Once, TypeOK
<1>5. CASE /\ UNCHANGED output /\ backup' = [backup EXCEPT ![d] = backup'[d]]
           /\ ~Authoritative(backup'[d])
  <2>1. \A c \in Calls : c # d => backup'[c] = backup[c]
    BY <1>5 DEF TypeOK
  <2> QED BY <1>5, <2>1 DEF Once
<1>6. CASE UNCHANGED backup /\ ~Authoritative(output')
  BY <1>6 DEF Once
<1> QED BY <1>1, <1>2, <1>3, <1>4, <1>5, <1>6, Effects

\* A rollback undoes nothing but the publication of its own call.
LEMMA StepKeepsOnlyOwn ==
  ASSUME TypeOK, NEW d \in Calls, Own(d), Kept(d), OnlyOwn(d), "stat" \notin Faults,
         Begin(d) \/ Step(d)
  PROVE  OnlyOwn(d)'
<1> USE SealedIsOwn DEF TypeOK, OnlyOwn, Undoes, Goto, Refuse, Abandon, RollBack, Own, files,
        locals
<1>1. CASE Begin(d)
  BY <1>1 DEF Begin
<1>2. CASE Publish(d)
  <2>1. CASE Promote(d) BY <2>1 DEF Promote
  <2>2. CASE ValidatePublished(d) BY <2>2 DEF ValidatePublished
  <2>3. CASE FinalHeadCheck(d) BY <2>3 DEF FinalHeadCheck
  <2>4. CASE FetchInitialHead(d) \/ CreateStage(d) \/ Render(d) \/ RecheckHead(d)
             \/ MoveAside(d) \/ CleanUpBackup(d) \/ RemoveStage(d)
    <3> HIDE SealedIsOwn DEF Own, OnlyOwn
    <3>1. pc'[d] \notin RollingBack
      <4> USE DEF RollingBack
      <4>1. CASE FetchInitialHead(d) BY <4>1 DEF FetchInitialHead
      <4>2. CASE CreateStage(d) BY <4>2 DEF CreateStage
      <4>3. CASE Render(d) BY <4>3 DEF Render
      <4>4. CASE RecheckHead(d) BY <4>4 DEF RecheckHead
      <4>5. CASE MoveAside(d) BY <4>5 DEF MoveAside
      <4>6. CASE CleanUpBackup(d) BY <4>6 DEF CleanUpBackup
      <4>7. CASE RemoveStage(d) BY <4>7 DEF RemoveStage
      <4> QED BY <2>4, <4>1, <4>2, <4>3, <4>4, <4>5, <4>6, <4>7
    <3> QED BY <3>1 DEF OnlyOwn, RollingBack
  <2> QED BY <1>2, <2>1, <2>2, <2>3, <2>4 DEF Publish
<1>3. CASE Rollback(d)
  <2>0. \A left \in RemoveTree(output) \cup InvalidateManifest(output) :
          Authoritative(left) => left = output
    BY DEF RemoveTree, InvalidateManifest, Authoritative, Absent, Torn, Unmarked
  <2>1. CASE QuarantineOutput(d) BY <2>1 DEF QuarantineOutput
  <2>2. CASE InvalidateOutput(d) BY <2>0, <2>2 DEF InvalidateOutput
  <2>3. CASE DeleteOutput(d) BY <2>0, <2>3 DEF DeleteOutput
  <2>4. CASE RestoreBackup(d) BY <2>4 DEF RestoreBackup
  <2>5. CASE ConfirmRestored(d)
    BY <2>5 DEF ConfirmRestored, Kept, CanFail
  <2>6. CASE InspectOutput(d) BY <2>6 DEF InspectOutput, AfterInspection, MustStrip
  <2>7. CASE StripOutput(d) BY <2>7 DEF StripOutput, AfterInspection
  <2>8. CASE RemoveQuarantine(d) BY <2>8 DEF RemoveQuarantine
  <2>9. CASE RollbackRaises(d) BY <2>9 DEF RollbackRaises, CanFail
  <2>10. CASE EmergencyInvalidate(d) BY <2>10 DEF EmergencyInvalidate
  <2> QED BY <1>3, <2>1, <2>2, <2>3, <2>4, <2>5, <2>6, <2>7, <2>8, <2>9, <2>10 DEF Rollback
<1> QED BY <1>1, <1>2, <1>3 DEF Step

\* MappingInv holds initially and every step keeps it.
LEMMA InitMapping == Init => MappingInv
BY InitPreservation, InitStranding, SealedIsOwn
DEF Init, MappingInv, Once, StandingIsEarned, OnlyOwn, Undoes

LEMMA NextKeepsMapping ==
  ASSUME Exclusive, "stat" \notin Faults, MappingInv, [Next]_vars
  PROVE  MappingInv'
<1>1. /\ TypeOK /\ AtMostOneRuns /\ PreservationInv' /\ StrandingInv'
      /\ \A c \in Calls : Own(c) /\ Kept(c) /\ Stranding(c)
  BY NextKeepsPreservation, NextKeepsStranding
  DEF MappingInv, PreservationInv, StrandingInv, ExclusiveInv, ControlInv
<1>2. CASE Push \/ CalmDown \/ UNCHANGED vars
  BY <1>1, <1>2, EnvironmentTouchesNothing
  DEF MappingInv, Once, StandingIsEarned, OnlyOwn, Undoes, files, locals, history
<1>3. ASSUME NEW d \in Calls, Begin(d) \/ Step(d) \/ Access(d) \/ Crash(d)
      PROVE  MappingInv'
  <2>1. Once'
    BY <1>1, <1>3, StepKeepsOnce DEF MappingInv, Kept, BackupUnused
  <2>2. StandingIsEarned'
    BY <1>1, <1>3, StandingMoves DEF MappingInv, StandingIsEarned, Own
  <2>3. ASSUME NEW c \in Calls PROVE OnlyOwn(c)'
    <3>1. CASE c = d /\ (Begin(d) \/ Step(d))
      BY <1>1, <3>1, StepKeepsOnlyOwn DEF MappingInv
    <3>2. CASE Access(d) \/ Crash(d)
      <4>1. UNCHANGED <<output, restored>>
        BY <3>2, AccessTouchesNoFile DEF files
      <4>2. pc'[c] = pc[c] \/ pc'[c] \notin Running
        BY <1>1, <3>2, OthersUntouched, OnlyTheRunningStep
      <4> QED BY <4>1, <4>2 DEF MappingInv, OnlyOwn, Undoes, Running, RollingBack
    <3>3. CASE c # d /\ (Begin(d) \/ Step(d))
      <4>1. pc'[c] \notin Running
        BY <1>1, <3>3, OthersAreNotRunning
      <4> QED BY <4>1 DEF OnlyOwn, Undoes, Running, RollingBack
    <3> QED BY <1>3, <3>1, <3>2, <3>3
  <2> QED BY <1>1, <2>1, <2>2, <2>3 DEF MappingInv
<1> QED BY <1>2, <1>3 DEF Next

\* Every step of a call is a step of OfficialOutput or changes nothing there.
LEMMA StepImplements ==
  ASSUME MappingInv, NEW d \in Calls, Begin(d) \/ Step(d) \/ Access(d) \/ Crash(d)
  PROVE  Official!Next \/ UNCHANGED <<OnPath, standing, Shelf, Fresh>>
<1>1. /\ TypeOK /\ Control(d) /\ Own(d) /\ Kept(d) /\ Stranding(d) /\ OnlyOwn(d)
      /\ Once /\ StandingIsEarned
  BY DEF MappingInv, PreservationInv, StrandingInv, ExclusiveInv, ControlInv
<1>2. d \in Owners /\ d # Earlier /\ d # Nothing /\ Nothing \notin Owners
  BY PublicationAssumption DEF Owners
<1>3. d \notin Fresh => Fresh' = Fresh
  BY <1>1, FreshShrinks
<1>4. /\ \A o \in Owners : OnPath = o <=> output = Sealed(o)
      /\ OnPath = Nothing <=> ~Authoritative(output)
      /\ OnPath \in Owners \cup {Nothing}
  BY <1>1, OnPathIs
<1>5. CASE UNCHANGED <<output, backup, standing>>
  <2>1. UNCHANGED <<OnPath, Shelf, standing>>
    BY <1>5, SameFiles
  <2>2. CASE Fresh' = Fresh
    BY <2>1, <2>2
  <2>3. CASE d \in Fresh /\ Fresh' = Fresh \ {d}
    <3>1. Official!Drop(d)
      BY <2>1, <2>3 DEF Official!Drop, OnPath, Shelf, Fresh
    <3> QED BY <1>2, <3>1 DEF Official!Next
  <2> QED BY <1>1, <2>2, <2>3, FreshShrinks
<1>6. CASE /\ pc[d] = "final" /\ standing' = bundle[d] /\ UNCHANGED <<output, backup>>
  <2>1. UNCHANGED <<OnPath, Shelf>> /\ OnPath = d /\ standing' = d
    BY <1>1, <1>2, <1>4, <1>6, SameFiles DEF Own
  <2>2. Fresh' = Fresh
    BY <1>3, <1>6 DEF Fresh, Building
  <2>3. Official!Commit
    BY <1>2, <2>1, <2>2 DEF Official!Commit, OnPath, Shelf, Fresh
  <2> QED BY <2>3 DEF Official!Next
<1>7. CASE /\ pc[d] = "moveAside" /\ pc'[d] = "promote" /\ UNCHANGED standing
           /\ output' = Absent /\ backup' = [backup EXCEPT ![d] = output]
  <2>1. Fresh' = Fresh
    BY <1>1, <1>3, <1>7, FreshShrinks DEF Building
  <2>2. OnPath' = Nothing
    BY <1>7, SealedIsOwn DEF OnPath
  <2>3. backup[d] = Absent
    BY <1>1, <1>7 DEF Kept, Building
  <2>4. \A c \in Calls : backup'[c] = IF c = d THEN output ELSE backup[c]
    BY <1>1, <1>7 DEF TypeOK
  <2>5. CASE Authoritative(output)
    <3>1. OnPath # Nothing /\ OnPath \in Owners /\ output = Sealed(OnPath)
      BY <1>4, <2>5
    <3>2. Shelf' = Shelf \cup {OnPath}
      BY <2>3, <2>4, <3>1, SealedIsOwn DEF Shelf
    <3>3. Official!Shelve
      BY <1>7, <2>1, <2>2, <3>1, <3>2 DEF Official!Shelve, OnPath, Shelf, Fresh
    <3> QED BY <3>3 DEF Official!Next
  <2>6. CASE ~Authoritative(output)
    <3>1. OnPath = Nothing /\ \A o : output # Sealed(o)
      BY <1>4, <2>6, SealedIsOwn
    <3>2. Shelf' = Shelf
      BY <2>3, <2>4, <3>1, SealedIsOwn DEF Shelf
    <3> QED BY <1>7, <2>1, <2>2, <3>1, <3>2
  <2> QED BY <2>5, <2>6
<1>8. CASE /\ pc[d] = "promote" /\ pc'[d] = "validate" /\ UNCHANGED <<backup, standing>>
           /\ output = Absent /\ output' = Sealed(d)
  <2>1. d \in Fresh /\ Fresh' = Fresh \ {d}
    BY <1>1, <1>8, FreshShrinks DEF Fresh, Building
  <2>2. OnPath = Nothing
    BY <1>8, SealedIsOwn DEF OnPath
  <2>3. OnPath' = d
    BY <1>8 DEF OnPath, Authoritative, Sealed
  <2>4. Shelf' = Shelf
    BY <1>8 DEF Shelf
  <2>5. Official!Expose(d)
    BY <1>8, <2>1, <2>2, <2>3, <2>4 DEF Official!Expose, OnPath, Shelf, Fresh
  <2> QED BY <1>2, <2>5 DEF Official!Next
<1>9. CASE /\ pc[d] = "restore" /\ UNCHANGED standing
           /\ output = Absent /\ output' = backup[d]
           /\ backup' = [backup EXCEPT ![d] = Absent]
  <2>1. Fresh' = Fresh
    BY <1>3, <1>9 DEF Fresh, Building
  <2>2. OnPath = Nothing
    BY <1>9, SealedIsOwn DEF OnPath
  <2>3. \A c \in Calls : backup'[c] = IF c = d THEN Absent ELSE backup[c]
    BY <1>1, <1>9 DEF TypeOK
  <2>4. CASE Authoritative(backup[d])
    <3>1. PICK o \in Owners : backup[d] = Sealed(o)
      BY <1>1, <2>4, SealedIsOwn DEF TypeOK, Entry
    <3>2. OnPath' = o
      BY <1>9, <3>1 DEF OnPath, Authoritative, Sealed
    <3>3. \A c \in Calls : backup[c] = Sealed(o) => c = d
      BY <1>1, <2>4, <3>1 DEF Once
    <3>4. o \in Shelf /\ Shelf' = Shelf \ {o}
      BY <2>3, <3>1, <3>3, SealedIsOwn DEF Shelf
    <3>5. Official!Reinstate(o)
      BY <1>9, <2>1, <2>2, <3>2, <3>4 DEF Official!Reinstate, OnPath, Shelf, Fresh
    <3> QED BY <3>1, <3>5 DEF Official!Next
  <2>5. CASE ~Authoritative(backup[d])
    <3>1. OnPath' = Nothing /\ \A o : backup[d] # Sealed(o)
      BY <1>9, <2>5, SealedIsOwn DEF OnPath
    <3>2. Shelf' = Shelf
      BY <2>3, <3>1, SealedIsOwn DEF Shelf
    <3> QED BY <1>9, <2>1, <2>2, <3>1, <3>2
  <2> QED BY <2>4, <2>5
<1>10. CASE /\ pc[d] = "cleanup" /\ UNCHANGED <<output, standing>>
            /\ backup' = [backup EXCEPT ![d] = backup'[d]] /\ ~Authoritative(backup'[d])
  <2>1. Fresh' = Fresh /\ OnPath' = OnPath
    BY <1>3, <1>10 DEF Fresh, Building, OnPath
  <2>2. /\ \A c \in Calls : c # d => backup'[c] = backup[c]
        /\ \A o : backup'[d] # Sealed(o)
    BY <1>1, <1>10, SealedIsOwn DEF TypeOK
  <2>3. CASE Authoritative(backup[d])
    <3>1. PICK o \in Owners : backup[d] = Sealed(o)
      BY <1>1, <2>3, SealedIsOwn DEF TypeOK, Entry
    <3>2. standing = d /\ output = Sealed(d)
      BY <1>1, <1>10 DEF Kept, Own
    <3>3. o # standing
      BY <1>1, <3>1, <3>2, SealedIsOwn DEF Once
    <3>4. \A c \in Calls : backup[c] = Sealed(o) => c = d
      BY <1>1, <2>3, <3>1 DEF Once
    <3>5. o \in Shelf /\ Shelf' = Shelf \ {o}
      BY <2>2, <3>1, <3>4, SealedIsOwn DEF Shelf
    <3>6. Official!Forget(o)
      BY <1>10, <2>1, <3>3, <3>5 DEF Official!Forget, OnPath, Shelf, Fresh
    <3> QED BY <3>1, <3>6 DEF Official!Next
  <2>4. CASE ~Authoritative(backup[d])
    <3>1. \A o : backup[d] # Sealed(o)
      BY <2>4, SealedIsOwn
    <3>2. Shelf' = Shelf
      BY <2>2, <3>1 DEF Shelf
    <3> QED BY <1>10, <2>1, <3>2
  <2> QED BY <2>3, <2>4
<1>11. CASE /\ pc[d] \in {"quarantine", "invalidate", "delete", "reinvalidate", "strip",
                           "emergency"}
            /\ UNCHANGED <<backup, standing>> /\ ~Authoritative(output')
  <2>1. Fresh' = Fresh /\ Shelf' = Shelf
    BY <1>3, <1>11 DEF Fresh, Building, Shelf
  <2>2. OnPath' = Nothing
    BY <1>11 DEF OnPath
  <2>3. CASE Authoritative(output)
    <3>1. Undoes(d)
      BY <1>1, <1>11 DEF Kept, Undoes
    <3>2. OnPath = d
      BY <1>1, <1>2, <1>4, <2>3, <3>1 DEF OnlyOwn
    <3>3. standing # d
      BY <1>1, <1>2, <1>11 DEF Control, RollingBack, StandingIsEarned
    <3>4. Official!Withdraw
      BY <1>2, <1>11, <2>1, <2>2, <3>2, <3>3 DEF Official!Withdraw, OnPath, Shelf, Fresh
    <3> QED BY <3>4 DEF Official!Next
  <2>4. CASE ~Authoritative(output)
    BY <1>4, <1>11, <2>1, <2>2, <2>4
  <2> QED BY <2>3, <2>4
<1>12. \/ UNCHANGED standing
       \/ pc[d] = "final" /\ standing' = bundle[d] /\ UNCHANGED <<output, backup>>
  BY <1>1, StandingMoves
<1> QED BY <1>1, <1>5, <1>6, <1>7, <1>8, <1>9, <1>10, <1>11, <1>12, Effects

\* The publisher implements OfficialOutput when calls on the same output do not
\* overlap and no exception escapes from the inside of restore(): it exposes a
\* candidate once, gives standing only to what is exposed, and never deletes or
\* withdraws the bundle with standing.
THEOREM PublicationImplements ==
  Exclusive /\ "stat" \notin Faults => (Spec => RefinesOfficialOutput)
<1> SUFFICES ASSUME Exclusive, "stat" \notin Faults PROVE Spec => RefinesOfficialOutput
  OBVIOUS
<1>1. Init => MappingInv
  BY InitMapping
<1>2. MappingInv /\ [Next]_vars => MappingInv'
  BY NextKeepsMapping
<1>3. Init => Official!Init
  <2> SUFFICES ASSUME Init PROVE Official!Init
    OBVIOUS
  <2>1. TypeOK /\ OnPath \in Owners \cup {Nothing}
    BY InitIsTyped, OnPathIs
  <2>2. OnPath \in {Earlier, Nothing} /\ standing = OnPath
    BY DEF Init, OnPath, Authoritative, Absent, PlainFile, Torn, Sealed
  <2>3. Shelf = {}
    BY SealedIsOwn DEF Init, Shelf
  <2>4. Fresh \in SUBSET (Owners \ {OnPath})
    BY <2>2, PublicationAssumption DEF Fresh, Owners
  <2> QED BY <2>1, <2>2, <2>3, <2>4 DEF Official!Init, OnPath, Shelf, Fresh
<1>4. MappingInv /\ [Next]_vars => [Official!Next]_Official!vars
  <2> SUFFICES ASSUME MappingInv, [Next]_vars
               PROVE  Official!Next \/ UNCHANGED <<OnPath, standing, Shelf, Fresh>>
    BY DEF Official!vars, OnPath, Shelf, Fresh
  <2>1. CASE Push \/ CalmDown \/ UNCHANGED vars
    BY <2>1, EnvironmentTouchesNothing DEF OnPath, Shelf, Fresh, files, history
  <2>2. CASE \E d \in Calls : Begin(d) \/ Step(d) \/ Access(d) \/ Crash(d)
    BY <2>2, StepImplements
  <2> QED BY <2>1, <2>2 DEF Next
<1> QED BY <1>1, <1>2, <1>3, <1>4, PTL DEF Spec, RefinesOfficialOutput, Official!Spec

-----------------------------------------------------------------------------
(***************************************************************************)
(* Every call comes to an end.                                             *)
(***************************************************************************)

\* How many steps a call can still take from each place: the longest way there is
\* through publish(), its rollback, the emergency and the finally clause.
Distance(p) ==
  CASE p = "idle" -> 20
    [] p = "fetch" -> 19 [] p = "stage" -> 18 [] p = "render" -> 17
    [] p = "recheck" -> 16 [] p = "moveAside" -> 15 [] p = "promote" -> 14
    [] p = "validate" -> 13 [] p = "final" -> 12
    [] p = "quarantine" -> 11 [] p = "invalidate" -> 10 [] p = "delete" -> 9
    [] p = "reinvalidate" -> 8 [] p = "restore" -> 7 [] p = "confirm" -> 6
    [] p = "inspect" -> 5 [] p = "strip" -> 4 [] p = "dequarantine" -> 3
    [] p = "emergency" -> 2 [] p = "cleanup" -> 2 [] p = "finally" -> 1
    [] OTHER -> 0

StepsLeft(c) == Distance(pc[c])

\* The distances, one by one.
LEMMA Distances ==
  /\ Distance("idle") = 20 /\ Distance("fetch") = 19 /\ Distance("stage") = 18
  /\ Distance("render") = 17 /\ Distance("recheck") = 16 /\ Distance("moveAside") = 15
  /\ Distance("promote") = 14 /\ Distance("validate") = 13 /\ Distance("final") = 12
  /\ Distance("quarantine") = 11 /\ Distance("invalidate") = 10
  /\ Distance("delete") = 9 /\ Distance("reinvalidate") = 8 /\ Distance("restore") = 7
  /\ Distance("confirm") = 6 /\ Distance("inspect") = 5 /\ Distance("strip") = 4
  /\ Distance("dequarantine") = 3 /\ Distance("emergency") = 2
  /\ Distance("cleanup") = 2 /\ Distance("finally") = 1
  /\ Distance("incomplete") = 0 /\ Distance("complete") = 0 /\ Distance("accessing") = 0
  /\ Distance("escaped") = 0 /\ Distance("crashed") = 0
BY DEF Distance

\* Every place has one.
LEMMA DistanceIsBounded ==
  ASSUME NEW p \in Stages
  PROVE  Distance(p) \in 0..20
BY Distances DEF Stages, Running, Building, Verifying, RollingBack, Minted

\* Where each step leads: the control flow of complete_review and restore().
ControlFlow(from, to) ==
  \/ from = "fetch" /\ to \in {"incomplete", "stage"}
  \/ from = "stage" /\ to \in {"escaped", "incomplete", "render"}
  \/ from = "render" /\ to \in {"finally", "recheck"}
  \/ from = "recheck" /\ to \in {"finally", "moveAside"}
  \/ from = "moveAside" /\ to \in {"finally", "promote"}
  \/ from = "promote" /\ to \in {"quarantine", "validate"}
  \/ from = "validate" /\ to \in {"quarantine", "final"}
  \/ from = "final" /\ to \in {"quarantine", "cleanup"}
  \/ from = "cleanup" /\ to = "finally"
  \/ from = "finally" /\ to \in {"escaped", "complete", "incomplete"}
  \/ from = "quarantine" /\ to \in {"restore", "invalidate"}
  \/ from = "invalidate" /\ to = "delete"
  \/ from = "reinvalidate" /\ to = "restore"
  \/ from = "delete" /\ to \in {"restore", "reinvalidate"}
  \/ from = "restore" /\ to \in {"inspect", "confirm"}
  \/ from = "confirm" /\ to = "inspect"
  \/ from = "inspect" /\ to \in {"strip", "dequarantine", "finally"}
  \/ from = "strip" /\ to \in {"dequarantine", "finally"}
  \/ from = "dequarantine" /\ to = "finally"
  \/ from = "emergency" /\ to = "finally"
  \/ from \in RollingBack \ {"confirm"} /\ to \in {"emergency", "finally"}

\* Steps follow the control flow.
LEMMA StepsFollow ==
  ASSUME TypeOK, NEW c \in Calls, Step(c)
  PROVE  ControlFlow(pc[c], pc'[c])
<1> USE DEF TypeOK, Goto, Refuse, Abandon, RollBack
<1>1. CASE FetchInitialHead(c)
  <2>1. pc[c] = "fetch" /\ pc'[c] \in {"incomplete", "stage"}
    BY <1>1 DEF FetchInitialHead
  <2> QED BY <2>1 DEF ControlFlow
<1>2. CASE CreateStage(c)
  <2>1. pc[c] = "stage" /\ pc'[c] \in {"escaped", "incomplete", "render"}
    BY <1>2 DEF CreateStage
  <2> QED BY <2>1 DEF ControlFlow
<1>3. CASE Render(c)
  <2>1. pc[c] = "render" /\ pc'[c] \in {"finally", "recheck"}
    BY <1>3 DEF Render
  <2> QED BY <2>1 DEF ControlFlow
<1>4. CASE RecheckHead(c)
  <2>1. pc[c] = "recheck" /\ pc'[c] \in {"finally", "moveAside"}
    BY <1>4 DEF RecheckHead
  <2> QED BY <2>1 DEF ControlFlow
<1>5. CASE MoveAside(c)
  <2>1. pc[c] = "moveAside" /\ pc'[c] \in {"finally", "promote"}
    BY <1>5 DEF MoveAside
  <2> QED BY <2>1 DEF ControlFlow
<1>6. CASE Promote(c)
  <2>1. pc[c] = "promote" /\ pc'[c] \in {"quarantine", "validate"}
    BY <1>6 DEF Promote
  <2> QED BY <2>1 DEF ControlFlow
<1>7. CASE ValidatePublished(c)
  <2>1. pc[c] = "validate" /\ pc'[c] \in {"quarantine", "final"}
    BY <1>7 DEF ValidatePublished
  <2> QED BY <2>1 DEF ControlFlow
<1>8. CASE FinalHeadCheck(c)
  <2>1. pc[c] = "final" /\ pc'[c] \in {"quarantine", "cleanup"}
    BY <1>8 DEF FinalHeadCheck
  <2> QED BY <2>1 DEF ControlFlow
<1>9. CASE CleanUpBackup(c)
  <2>1. pc[c] = "cleanup" /\ pc'[c] = "finally"
    BY <1>9 DEF CleanUpBackup
  <2> QED BY <2>1 DEF ControlFlow
<1>10. CASE RemoveStage(c)
  <2>1. pc[c] = "finally" /\ pc'[c] \in {"escaped", "complete", "incomplete"}
    BY <1>10 DEF RemoveStage
  <2> QED BY <2>1 DEF ControlFlow
<1>11. CASE QuarantineOutput(c)
  <2>1. pc[c] = "quarantine" /\ pc'[c] \in {"restore", "invalidate"}
    BY <1>11 DEF QuarantineOutput
  <2> QED BY <2>1 DEF ControlFlow
<1>12. CASE DeleteOutput(c)
  <2>1. pc[c] = "delete" /\ pc'[c] \in {"restore", "reinvalidate"}
    BY <1>12 DEF DeleteOutput
  <2> QED BY <2>1 DEF ControlFlow
<1>13. CASE RestoreBackup(c)
  <2>1. pc[c] = "restore" /\ pc'[c] \in {"inspect", "confirm"}
    BY <1>13 DEF RestoreBackup
  <2> QED BY <2>1 DEF ControlFlow
<1>14. CASE ConfirmRestored(c)
  <2>1. pc[c] = "confirm" /\ pc'[c] = "inspect"
    BY <1>14 DEF ConfirmRestored
  <2> QED BY <2>1 DEF ControlFlow
<1>15. CASE InspectOutput(c)
  <2>1. pc[c] = "inspect" /\ pc'[c] \in {"strip", "dequarantine", "finally"}
    BY <1>15 DEF InspectOutput, AfterInspection
  <2> QED BY <2>1 DEF ControlFlow
<1>16. CASE StripOutput(c)
  <2>1. pc[c] = "strip" /\ pc'[c] \in {"dequarantine", "finally"}
    BY <1>16 DEF StripOutput, AfterInspection
  <2> QED BY <2>1 DEF ControlFlow
<1>17. CASE RemoveQuarantine(c)
  <2>1. pc[c] = "dequarantine" /\ pc'[c] = "finally"
    BY <1>17 DEF RemoveQuarantine
  <2> QED BY <2>1 DEF ControlFlow
<1>18. CASE EmergencyInvalidate(c)
  <2>1. pc[c] = "emergency" /\ pc'[c] = "finally"
    BY <1>18 DEF EmergencyInvalidate
  <2> QED BY <2>1 DEF ControlFlow
<1>19. CASE InvalidateOutput(c)
  <2>1. \/ pc[c] = "invalidate" /\ pc'[c] = "delete"
        \/ pc[c] = "reinvalidate" /\ pc'[c] = "restore"
    BY <1>19 DEF InvalidateOutput
  <2> QED BY <2>1 DEF ControlFlow
<1>20. CASE RollbackRaises(c)
  <2>1. pc[c] \in RollingBack \ {"confirm"} /\ pc'[c] \in {"emergency", "finally"}
    BY <1>20 DEF RollbackRaises
  <2> QED BY <2>1 DEF ControlFlow
<1> QED
  BY <1>1, <1>2, <1>3, <1>4, <1>5, <1>6, <1>7, <1>8, <1>9, <1>10,
     <1>11, <1>12, <1>13, <1>14, <1>15, <1>16, <1>17, <1>18, <1>19, <1>20
  DEF Step, Publish, Rollback

\* A step of a call takes it nearer to its end; there is no way back in restore().
LEMMA StepsAdvance ==
  ASSUME TypeOK, NEW c \in Calls, Step(c)
  PROVE  StepsLeft(c)' < StepsLeft(c)
BY StepsFollow, Distances DEF ControlFlow, StepsLeft, RollingBack

\* The call gets nearer with every step of its own, and nobody sets it back.
CallsAdvance ==
  [][\A c \in Calls : /\ StepsLeft(c)' <= StepsLeft(c)
                      /\ Step(c) => StepsLeft(c)' < StepsLeft(c)]_vars

\* Whatever fails, however calls overlap and however often restore() or its bound
\* raises, complete_review ends after at most nineteen steps: rollback never starts
\* over, and no step of another call, of the environment or of an accessor sends a
\* call back.  With weak fairness of Step(c), checked by TLC, it terminates.
THEOREM CallsAreBounded ==
  Spec => [](\A c \in Calls : StepsLeft(c) \in 0..20) /\ CallsAdvance
<1>1. TypeOK => \A c \in Calls : StepsLeft(c) \in 0..20
  BY DistanceIsBounded DEF TypeOK, StepsLeft
<1>2. TypeOK /\ [Next]_vars =>
        [\A c \in Calls : /\ StepsLeft(c)' <= StepsLeft(c)
                          /\ Step(c) => StepsLeft(c)' < StepsLeft(c)]_vars
  <2> SUFFICES ASSUME TypeOK, [Next]_vars, NEW c \in Calls
               PROVE  /\ StepsLeft(c)' <= StepsLeft(c)
                      /\ Step(c) => StepsLeft(c)' < StepsLeft(c)
    OBVIOUS
  <2>1. StepsLeft(c) \in 0..20 /\ StepsLeft(c)' \in 0..20
    <3>1. pc[c] \in Stages /\ pc'[c] \in Stages
      BY NextKeepsTypes DEF TypeOK
    <3> QED BY <3>1, DistanceIsBounded DEF StepsLeft
  <2>2. CASE Step(c)
    BY <2>1, <2>2, StepsAdvance
  <2>3. CASE pc'[c] = pc[c]
    BY <2>1, <2>3, StepsAdvance DEF StepsLeft
  <2>4. CASE Begin(c) \/ Access(c) \/ Crash(c)
    <3>1. /\ Begin(c) => pc[c] = "idle" /\ pc'[c] \in {"fetch", "incomplete"}
          /\ Access(c) \/ Crash(c) => pc'[c] \in {"complete", "accessing", "crashed"}
      BY DEF TypeOK, Goto, Begin, Access, FetchForAccess, ReadForAccess, Crash
    <3>2. StepsLeft(c)' <= StepsLeft(c)
      BY <2>1, <2>4, <3>1, Distances DEF StepsLeft
    <3> QED BY <3>2, StepsAdvance
  <2>5. pc'[c] = pc[c] \/ Begin(c) \/ Step(c) \/ Access(c) \/ Crash(c)
    BY OthersUntouched, EnvironmentTouchesNothing DEF Next
  <2> QED BY <2>2, <2>3, <2>4, <2>5
<1> QED BY <1>1, <1>2, TypeCorrect, PTL DEF Spec, CallsAdvance

-----------------------------------------------------------------------------
(***************************************************************************)
(* After the commit point, whatever is raised.                             *)
(***************************************************************************)

\* A committed call is on its way to its completion and has recorded nothing but
\* cleanup trouble, or an exception deprived it of its completion.
Settled(c) ==
  c \in committed =>
    /\ pc[c] \in Minted \cup {"cleanup", "finally", "crashed"} \/ Deprived(c)
    /\ pc[c] = "finally" => Succeeded(c) \/ ("stat" \in Faults /\ codes[c] = {"999"})

CommitIsSettled == \A c \in Calls : Settled(c)

\* Nothing a call does after its commit point touches the official path or what
\* another call has set aside.
CommitTouchesNothing ==
  [][\A c \in committed : Step(c) =>
       /\ UNCHANGED <<output, standing, bundle>>
       /\ \A d \in Calls \ {c} : backup'[d] = backup[d]]_vars

\* The only steps a call takes after its commit point are the two cleanups.
LEMMA CommittedOnlyCleansUp ==
  ASSUME TypeOK, NEW c \in committed, Control(c), Settled(c), Step(c)
  PROVE  CleanUpBackup(c) \/ RemoveStage(c)
BY StepsFollow DEF Settled, Deprived, Control, ControlFlow, Minted, Building, Verifying, RollingBack,
   Step, Publish, Rollback, FetchInitialHead, CreateStage, Render, RecheckHead, MoveAside,
   Promote, ValidatePublished, FinalHeadCheck, QuarantineOutput, InvalidateOutput,
   DeleteOutput, RestoreBackup, ConfirmRestored, InspectOutput, StripOutput,
   RemoveQuarantine, RollbackRaises, EmergencyInvalidate

LEMMA StepKeepsSettled ==
  ASSUME TypeOK, NEW c \in Calls, Control(c), Settled(c),
         Begin(c) \/ Step(c) \/ Access(c) \/ Crash(c)
  PROVE  Settled(c)'
<1> USE DEF TypeOK, Settled, Deprived, Goto, Report, Minted
<1>1. CASE c \notin committed
  <2>1. \/ c \notin committed'
        \/ pc'[c] = "cleanup"
    BY <1>1, StandingMoves
  <2> QED BY <2>1
<1>2. CASE c \in committed /\ Step(c)
  <2>1. CASE CleanUpBackup(c)
    <3>1. codes[c] = {} /\ pc'[c] = "finally"
      BY <1>2, <2>1 DEF Control, CleanUpBackup, Abandon
    <3>2. codes'[c] \in {{"009"}, {}} \/ (CanFail("stat") /\ codes'[c] = {"999"})
      BY <2>1, <3>1 DEF CleanUpBackup, Abandon
    <3> QED BY <3>1, <3>2 DEF Succeeded, CanFail
  <2>2. CASE RemoveStage(c)
    <3>1. /\ UNCHANGED codes /\ pc'[c] \in {"escaped", "complete", "incomplete"}
          /\ pc'[c] = "escaped" => "stat" \in Faults
      BY <2>2 DEF RemoveStage, CanFail
    <3>2. pc'[c] = "incomplete" => ~Succeeded(c) /\ pc[c] = "finally"
      BY <2>2 DEF RemoveStage
    <3> QED BY <1>2, <3>1, <3>2
  <2> QED BY <1>2, <2>1, <2>2, CommittedOnlyCleansUp
<1>3. CASE c \in committed /\ Begin(c)
  BY <1>3 DEF Begin
<1>4. CASE c \in committed /\ (Access(c) \/ Crash(c))
  BY <1>4 DEF Access, FetchForAccess, ReadForAccess, Crash
<1> QED BY <1>1, <1>2, <1>3, <1>4

SettledInv == ControlInv /\ CommitIsSettled

LEMMA InitSettled == Init => SettledInv
BY InitControl DEF Init, SettledInv, CommitIsSettled, Settled

LEMMA NextKeepsSettled == SettledInv /\ [Next]_vars => SettledInv'
<1> SUFFICES ASSUME SettledInv, [Next]_vars PROVE SettledInv'
  OBVIOUS
<1>1. TypeOK /\ ControlInv'
  BY NextKeepsControl DEF SettledInv, ControlInv
<1>2. CASE Push \/ CalmDown \/ UNCHANGED vars
  BY <1>1, <1>2, EnvironmentTouchesNothing
  DEF SettledInv, CommitIsSettled, Settled, Deprived, Succeeded, history
<1>3. ASSUME NEW d \in Calls, Begin(d) \/ Step(d) \/ Access(d) \/ Crash(d), NEW c \in Calls
      PROVE  Settled(c)'
  <2>1. CASE c = d
    BY <1>1, <1>3, <2>1, StepKeepsSettled DEF SettledInv, ControlInv, CommitIsSettled
  <2>2. CASE c # d
    BY <1>1, <1>3, <2>2, OthersUntouched
    DEF SettledInv, CommitIsSettled, Settled, Deprived, Succeeded
  <2> QED BY <2>1, <2>2
<1> QED BY <1>1, <1>2, <1>3 DEF Next, SettledInv, CommitIsSettled

\* Without any assumption on failures and for overlapping calls too: what passed
\* the commit point stays passed.  restore() is never entered for it, and the
\* cleanups that follow touch neither the official path nor another call's backup.
THEOREM CommitsAreFinal == Spec => []CommitIsSettled /\ CommitTouchesNothing
<1>1. Init => SettledInv
  BY InitSettled
<1>2. SettledInv /\ [Next]_vars => SettledInv'
  BY NextKeepsSettled
<1>3. SettledInv => CommitIsSettled
  BY DEF SettledInv
<1>4. ASSUME SettledInv, NEW c \in committed, Step(c)
      PROVE  /\ UNCHANGED <<output, standing, bundle>>
             /\ \A d \in Calls \ {c} : backup'[d] = backup[d]
  <2>1. TypeOK /\ c \in Calls /\ Control(c) /\ Settled(c)
    BY <1>4 DEF SettledInv, ControlInv, CommitIsSettled, TypeOK
  <2>2. CleanUpBackup(c) \/ RemoveStage(c)
    BY <1>4, <2>1, CommittedOnlyCleansUp
  <2>3. UNCHANGED <<output, standing, bundle>>
    BY <2>2 DEF CleanUpBackup, RemoveStage, Abandon, files, locals, history
  <2> QED BY <1>4, <2>1, <2>3, OthersUntouched
<1>5. SettledInv /\ [Next]_vars =>
        [\A c \in committed : Step(c) =>
           /\ UNCHANGED <<output, standing, bundle>>
           /\ \A d \in Calls \ {c} : backup'[d] = backup[d]]_vars
  BY <1>4
<1> QED BY <1>1, <1>2, <1>3, <1>5, PTL DEF Spec, CommitTouchesNothing

\* "Failure to clean an obsolete backup after the commit point is cleanup
\* degradation, not publication failure": for overlapping calls too, and whatever
\* fails, a committed call returns its completion unless its process dies or a look
\* at a path raises, and even then it is not rolled back (CommittedIsCompleted).
THEOREM CommitsComplete == Spec => []CommittedIsCompleted
<1>1. SettledInv => CommittedIsCompleted
  BY DEF SettledInv, ControlInv, TypeOK, CommitIsSettled, Settled, CommittedIsCompleted
<1> QED BY <1>1, InitSettled, NextKeepsSettled, PTL DEF Spec

-----------------------------------------------------------------------------
(***************************************************************************)
(* An exception inside restore() costs a manifest at most.                 *)
(***************************************************************************)

\* The bundle with standing, with or without its manifest.
Whole(e) == e \in {Sealed(standing), Unmarked(standing)}

ShelfWhole == standing # Nothing => \E c \in Calls : Whole(backup[c])

\* The artifacts of the bundle committed last are all there, at the official path or
\* in a backup.
StandingSurvives ==
  standing # Nothing => Whole(output) \/ \E c \in Calls : Whole(backup[c])

\* The codes of an unconfirmed restoration and of an exception inside restore().
LossCodes == {"ROLLBACK-009", "ROLLBACK-999", "999"}

\* The step that takes its authority from the bundle with standing belongs to a call
\* that has not committed and has recorded what went wrong, and such a record lasts.
LossIsReported ==
  [][/\ StandingPreserved /\ ~StandingPreserved' =>
          \E c \in Calls \ committed' :
            Step(c) /\ pc'[c] \in {"dequarantine", "finally"} /\ codes'[c] \cap LossCodes # {}
     /\ \A c \in Calls : InTrouble(c) => InTrouble(c)']_vars

\* Where a call relies on the backup.
Relying == {"promote", "quarantine", "invalidate", "delete", "reinvalidate", "restore"}
             \cup Verifying

\* What a call knows of the bundle with standing while its own takes the path.
Sparing(c) ==
  /\ BackupUnused(c)
  /\ pc[c] \in Relying => ShelfWhole /\ (StandingPreserved => Shelved)
  /\ pc[c] \in {"inspect", "strip"} /\ ~restored[c] /\ StandingPreserved =>
       Shelved \/ "ROLLBACK-009" \in codes[c]
  /\ pc[c] = "strip" => ~restored[c]
  /\ pc[c] = "cleanup" => standing = c
  /\ pc[c] = "emergency" => "ROLLBACK-999" \in codes[c]

SurvivalInv ==
  /\ ExclusiveInv /\ StandingIsEarned /\ StandingSurvives
  /\ \A c \in Calls : Sparing(c)

\* Steps that change no backup leave the shelf as it is.
LEMMA SameShelf ==
  ASSUME UNCHANGED <<backup, standing>>
  PROVE  /\ ShelfWhole' <=> ShelfWhole
         /\ Shelved' <=> Shelved
         /\ ShelfWhole => StandingSurvives'
         /\ StandingSurvives /\ output' = output => StandingSurvives'
BY DEF ShelfWhole, Shelved, StandingSurvives, Whole

\* Bundles without standing do not come by it, so what is lost stays lost until the
\* next commit.
LEMMA LossIsForGood ==
  ASSUME TypeOK, StandingIsEarned, NEW d \in Calls, Control(d), Own(d),
         Begin(d) \/ Step(d) \/ Access(d) \/ Crash(d),
         standing' = standing, StandingPreserved'
  PROVE  StandingPreserved
<1>1. CASE standing = Nothing
  BY <1>1 DEF StandingPreserved
<1>2. CASE standing # Nothing
  <2>1. standing \in Owners
    BY <1>2 DEF TypeOK
  <2>2. pc[d] = "promote" => d # standing
    BY <2>1, PublicationAssumption DEF Control, Building, StandingIsEarned, Owners
  <2>3. \/ output' = Sealed(standing)
        \/ \E c \in Calls : backup'[c] = Sealed(standing)
    BY <1>2 DEF StandingPreserved
  <2> QED BY <2>1, <2>2, <2>3, WhereBundlesComeFrom DEF StandingPreserved
<1> QED BY <1>1, <1>2

\* A step from one place that relies on the backup to another.
LEMMA StillRelying ==
  ASSUME TypeOK, StandingIsEarned, NEW c \in Calls, Control(c), Own(c), Sparing(c),
         Step(c), UNCHANGED <<backup, standing>>, pc[c] \in Relying, pc'[c] \in Relying
  PROVE  Sparing(c)' /\ StandingSurvives'
<1>1. ShelfWhole' /\ StandingSurvives' /\ (StandingPreserved' => Shelved')
  BY SameShelf, LossIsForGood DEF Sparing
<1> QED BY <1>1 DEF Sparing, BackupUnused, Relying, Building, Verifying

\* A step to a place where nothing is asked of the shelf.
LEMMA NoLongerRelying ==
  ASSUME NEW c \in Calls, pc'[c] \in {"incomplete", "finally", "escaped", "complete",
                                      "accessing", "crashed", "dequarantine", "confirm"}
  PROVE  Sparing(c)'
BY DEF Sparing, BackupUnused, Relying, Building, Verifying

\* The steps of publish() and of the final validation.
LEMMA PublishSpares ==
  ASSUME TypeOK, StandingIsEarned, StandingSurvives, NEW c \in Calls,
         Control(c), Own(c), Sparing(c), Publish(c)
  PROVE  StandingSurvives' /\ Sparing(c)'
<1>0. Step(c)
  BY DEF Step
<1> USE <1>0, StillRelying, NoLongerRelying, SameShelf
    DEF TypeOK, Goto, files, locals, history
<1>1. CASE pc[c] \in Building \ {"moveAside", "promote"}
  <2>1. UNCHANGED <<output, backup, standing>>
    BY <1>1 DEF Publish, Building, FetchInitialHead, CreateStage, Render, RecheckHead,
       MoveAside, Promote, ValidatePublished, FinalHeadCheck, CleanUpBackup, RemoveStage,
       Refuse, Abandon
  <2>2. pc'[c] \in {"incomplete", "stage", "escaped", "render", "finally", "recheck",
                    "moveAside"}
    BY <1>1, StepsFollow DEF ControlFlow, Building, RollingBack
  <2>3. backup'[c] = Absent
    BY <1>1, <2>1 DEF Sparing, BackupUnused, Building
  <2> QED BY <2>1, <2>2, <2>3 DEF Sparing, BackupUnused, Relying, Verifying
<1>2. CASE MoveAside(c)
  <2>0. pc[c] = "moveAside" /\ backup[c] = Absent /\ standing' = standing
    BY <1>2 DEF MoveAside, Abandon, Sparing, BackupUnused, Building
  <2>1. CASE /\ Goto(c, "promote") /\ output' = Absent
             /\ backup' = [backup EXCEPT ![c] = output]
    <3>1. \A d \in Calls : Whole(backup[d]) => backup'[d] = backup[d]
      BY <2>0, <2>1 DEF Whole, Absent, Sealed, Unmarked
    <3>2. ShelfWhole'
      BY <2>0, <2>1, <3>1 DEF StandingSurvives, ShelfWhole, Whole
    <3>3. StandingPreserved' => Shelved'
      BY <2>1, SealedIsOwn DEF StandingPreserved, Shelved
    <3>4. pc'[c] = "promote"
      BY <2>1
    <3> QED BY <3>2, <3>3, <3>4
            DEF Sparing, BackupUnused, Relying, StandingSurvives, ShelfWhole
  <2>2. CASE ~Occupied /\ Goto(c, "promote") /\ UNCHANGED <<files, history>>
    <3>1. ShelfWhole /\ (StandingPreserved => Shelved)
      BY <2>2, SealedIsOwn DEF StandingSurvives, StandingPreserved, ShelfWhole, Shelved,
         Whole, Occupied, Absent, Sealed, Unmarked
    <3>2. StandingPreserved' => Shelved'
      BY <2>2, <3>1 DEF StandingPreserved, Shelved
    <3>3. pc'[c] = "promote"
      BY <2>2
    <3> QED BY <2>2, <3>1, <3>2, <3>3 DEF Sparing, BackupUnused, Relying
  <2>3. CASE \E code \in {"005", "999"} : Abandon(c, code)
    BY <2>3 DEF Abandon
  <2> QED BY <1>2, <2>1, <2>2, <2>3 DEF MoveAside
<1>3. CASE Promote(c) \/ ValidatePublished(c)
  <2>1. UNCHANGED <<backup, standing>> /\ pc[c] \in Relying /\ pc'[c] \in Relying
    BY <1>3 DEF Promote, ValidatePublished, RollBack, Relying, Verifying
  <2> QED BY <2>1
<1>4. CASE FinalHeadCheck(c)
  <2>1. CASE standing' = bundle[c] /\ Goto(c, "cleanup") /\ UNCHANGED files
    BY <1>4, <2>1
    DEF FinalHeadCheck, Own, StandingSurvives, Whole, Sparing, BackupUnused, Relying,
        Building, Verifying
  <2>2. CASE RollBack(c, "008")
    BY <1>4, <2>2 DEF FinalHeadCheck, RollBack, Relying, Verifying
  <2> QED BY <1>4, <2>1, <2>2 DEF FinalHeadCheck
<1>5. CASE CleanUpBackup(c)
  <2>1. output' = Sealed(standing') /\ pc'[c] = "finally"
    BY <1>5 DEF CleanUpBackup, Own, Abandon, Sparing
  <2> QED BY <2>1 DEF StandingSurvives, Whole
<1>6. CASE RemoveStage(c)
  BY <1>6 DEF RemoveStage
<1>7. \/ pc[c] \in Building \ {"moveAside", "promote"}
      \/ MoveAside(c) \/ Promote(c) \/ ValidatePublished(c) \/ FinalHeadCheck(c)
      \/ CleanUpBackup(c) \/ RemoveStage(c)
  BY DEF Publish, FetchInitialHead, CreateStage, Render, RecheckHead, Building
<1> QED BY <1>1, <1>2, <1>3, <1>4, <1>5, <1>6, <1>7

\* Taking its manifest from a bundle takes nothing else.
LEMMA InvalidationSpares ==
  ASSUME TypeOK, StandingSurvives, UNCHANGED <<backup, standing>>,
         output' = output \/ output' \in InvalidateManifest(output)
  PROVE  StandingSurvives'
<1>1. Whole(output) => Whole(output)'
  BY DEF Whole, InvalidateManifest, Sealed, Unmarked
<1> QED BY <1>1 DEF StandingSurvives, Whole

\* The steps of restore() and of its bound.
LEMMA RollbackSpares ==
  ASSUME TypeOK, StandingIsEarned, StandingSurvives, NEW c \in Calls,
         Control(c), Own(c), Sparing(c), Rollback(c)
  PROVE  StandingSurvives' /\ Sparing(c)'
<1>0. Step(c)
  BY DEF Step
<1> USE <1>0, StillRelying, NoLongerRelying, SameShelf, InvalidationSpares
    DEF TypeOK, Goto, files, locals, history
<1>1. CASE QuarantineOutput(c) \/ InvalidateOutput(c) \/ DeleteOutput(c)
  <2>1. UNCHANGED <<backup, standing>>
    BY <1>1 DEF QuarantineOutput, InvalidateOutput, DeleteOutput
  <2>2. pc[c] \in Relying /\ pc'[c] \in Relying
    BY <1>1 DEF QuarantineOutput, InvalidateOutput, DeleteOutput, Relying
  <2> QED BY <2>1, <2>2
<1>2. CASE RestoreBackup(c)
  <2>0. pc[c] = "restore" /\ standing' = standing
    BY <1>2 DEF RestoreBackup
  <2>1. CASE UNCHANGED files /\ Goto(c, "inspect")
    <3>1. StandingPreserved' => Shelved'
      BY <2>0, <2>1 DEF Sparing, Relying, StandingPreserved, Shelved
    <3>2. pc'[c] = "inspect"
      BY <2>1
    <3> QED BY <2>0, <2>1, <3>1, <3>2
            DEF Sparing, BackupUnused, Relying, Building, Verifying
  <2>2. CASE /\ Goto(c, "confirm") /\ output' = backup[c]
             /\ backup' = [backup EXCEPT ![c] = Absent]
    <3>1. \A d \in Calls : output' = backup[d] \/ backup'[d] = backup[d]
      BY <2>2
    <3>2. ShelfWhole
      BY <2>0 DEF Sparing, Relying
    <3>3. StandingSurvives'
      BY <2>0, <3>1, <3>2 DEF StandingSurvives, ShelfWhole, Whole
    <3> QED BY <2>2, <3>3
  <2> QED BY <1>2, <2>1, <2>2 DEF RestoreBackup
<1>3. CASE ConfirmRestored(c)
  <2>1. /\ pc'[c] = "inspect" /\ UNCHANGED <<output, backup, standing>>
        /\ restored'[c] \/ "ROLLBACK-009" \in codes'[c]
    BY <1>3 DEF ConfirmRestored, Report
  <2> QED BY <2>1 DEF Sparing, BackupUnused, Relying, Building, Verifying
<1>4. CASE InspectOutput(c)
  <2>1. /\ pc[c] = "inspect" /\ UNCHANGED <<output, backup, standing, codes, restored>>
        /\ \/ pc'[c] = "strip" /\ ~restored[c]
           \/ pc'[c] \in {"dequarantine", "finally"}
    BY <1>4 DEF InspectOutput, AfterInspection, MustStrip
  <2>2. CASE pc'[c] = "strip" /\ ~restored[c]
    <3>1. StandingPreserved' => StandingPreserved
      BY <2>1 DEF StandingPreserved
    <3> QED BY <2>1, <2>2, <3>1
            DEF Sparing, BackupUnused, Relying, Building, Verifying
  <2> QED BY <2>1, <2>2
<1>5. CASE StripOutput(c)
  BY <1>5 DEF StripOutput, AfterInspection
<1>6. CASE RemoveQuarantine(c)
  BY <1>6 DEF RemoveQuarantine
<1>7. CASE RollbackRaises(c)
  <2>1. /\ pc'[c] = "finally" \/ (pc'[c] = "emergency" /\ "ROLLBACK-999" \in codes'[c])
        /\ UNCHANGED <<output, backup, standing>>
    BY <1>7 DEF RollbackRaises
  <2> QED BY <2>1 DEF Sparing, BackupUnused, Relying, Building, Verifying
<1>8. CASE EmergencyInvalidate(c)
  BY <1>8 DEF EmergencyInvalidate
<1> QED BY <1>1, <1>2, <1>3, <1>4, <1>5, <1>6, <1>7, <1>8 DEF Rollback

LEMMA InitSurvival == Init => SurvivalInv
BY InitExclusive, SealedIsOwn, EntriesAreEntries
DEF Init, SurvivalInv, StandingIsEarned, StandingSurvives, Whole, Sparing, BackupUnused,
    Relying, Authoritative, Sealed, Absent, PlainFile, Torn, Building, Verifying

\* SurvivalInv is inductive when calls do not overlap.
LEMMA NextKeepsSurvival ==
  ASSUME Exclusive, SurvivalInv, [Next]_vars
  PROVE  SurvivalInv'
<1>1. ExclusiveInv /\ ExclusiveInv' /\ TypeOK /\ AtMostOneRuns
  BY NextKeepsExclusive DEF SurvivalInv, ExclusiveInv, ControlInv
<1>2. CASE Push \/ CalmDown \/ UNCHANGED vars
  BY <1>1, <1>2, EnvironmentTouchesNothing
  DEF SurvivalInv, StandingIsEarned, StandingSurvives, Whole, Sparing, BackupUnused,
      StandingPreserved, Shelved, ShelfWhole, files, locals, history
<1>3. ASSUME NEW d \in Calls, Begin(d) \/ Step(d) \/ Access(d) \/ Crash(d)
      PROVE  SurvivalInv'
  <2>1. StandingIsEarned'
    BY <1>1, <1>3, StandingMoves DEF SurvivalInv, StandingIsEarned, ExclusiveInv, Own
  <2>2. CASE Begin(d) \/ Step(d)
    <3>1. Step(d) => StandingSurvives' /\ Sparing(d)'
      BY <1>1, PublishSpares, RollbackSpares
      DEF SurvivalInv, ExclusiveInv, ControlInv, Step
    <3>2. Begin(d) => StandingSurvives' /\ Sparing(d)'
      BY <1>1, SameShelf DEF Begin, SurvivalInv, Sparing, BackupUnused, Relying, TypeOK,
         Goto, Report, Building, Verifying, files, locals, history
    <3>3. ASSUME NEW c \in Calls, c # d PROVE Sparing(c)'
      <4>1. pc'[c] \notin Running
        BY <1>1, <2>2, <3>3, OthersAreNotRunning
      <4> QED BY <1>1, <1>3, <3>3, <4>1, OthersUntouched
              DEF SurvivalInv, Sparing, BackupUnused, Relying, Running, Building,
                  Verifying, RollingBack
    <3> QED BY <1>1, <2>1, <2>2, <3>1, <3>2, <3>3 DEF SurvivalInv
  <2>3. CASE Access(d) \/ Crash(d)
    <3>1. UNCHANGED <<output, backup, standing, restored>>
      BY <2>3, AccessTouchesNoFile DEF files, history
    <3>2. UNCHANGED codes
      BY <2>3 DEF Access, FetchForAccess, ReadForAccess, Crash
    <3>3. ASSUME NEW c \in Calls PROVE Sparing(c)'
      <4>1. pc'[c] = pc[c] \/ pc'[c] \in Minted \cup {"crashed"}
        BY <1>1, <2>3, OthersUntouched
        DEF Access, FetchForAccess, ReadForAccess, Crash, Goto, TypeOK, Minted
      <4> QED BY <3>1, <3>2, <4>1
              DEF SurvivalInv, Sparing, BackupUnused, Relying, StandingPreserved, Shelved,
                  ShelfWhole, Whole, Minted, Building, Verifying
    <3> QED BY <1>1, <2>1, <3>1, <3>3, SameShelf DEF SurvivalInv
  <2> QED BY <1>3, <2>2, <2>3
<1> QED BY <1>2, <1>3 DEF Next

\* Diagnostics pile up in publish() too, and nobody clears another call's.
LEMMA TroubleLasts ==
  ASSUME TypeOK, [Next]_vars, NEW c \in Calls, InTrouble(c)
  PROVE  InTrouble(c)'
<1>1. CASE Rollback(c)
  BY <1>1, TroubleStays
<1>2. CASE codes[c] \subseteq codes'[c]
  BY <1>2 DEF InTrouble
<1>3. CASE Begin(c) \/ Publish(c) \/ Access(c) \/ Crash(c)
  <2>1. UNCHANGED codes \/ \E new : Report(c, new)
    BY <1>3, Zenon DEF Begin, Publish, Access, Crash, FetchInitialHead, CreateStage, Render,
       RecheckHead, MoveAside, Promote, ValidatePublished, FinalHeadCheck, CleanUpBackup,
       RemoveStage, FetchForAccess, ReadForAccess, Refuse, Abandon, RollBack
  <2>2. codes[c] \subseteq codes'[c]
    BY <2>1 DEF Report, TypeOK
  <2> QED BY <1>2, <2>2
<1>4. \/ codes[c] \subseteq codes'[c]
      \/ Begin(c) \/ Publish(c) \/ Rollback(c) \/ Access(c) \/ Crash(c)
  BY OthersUntouched, EnvironmentTouchesNothing DEF Next, Step
<1> QED BY <1>1, <1>2, <1>3, <1>4

LEMMA SurvivalInvariant ==
  ASSUME Exclusive
  PROVE  Spec => []SurvivalInv
<1>1. Init => SurvivalInv
  BY InitSurvival
<1>2. SurvivalInv /\ [Next]_vars => SurvivalInv'
  BY NextKeepsSurvival
<1> QED BY <1>1, <1>2, PTL DEF Spec

\* When calls do not overlap no failure whatever loses the bundle committed last:
\* where StandingPreserved does not hold, after an exception inside restore(), its
\* manifest is all that has gone.
THEOREM BundleSurvives == Exclusive => (Spec => []StandingSurvives)
<1> SUFFICES ASSUME Exclusive PROVE Spec => []StandingSurvives
  OBVIOUS
<1>1. SurvivalInv => StandingSurvives
  BY DEF SurvivalInv
<1> QED BY <1>1, SurvivalInvariant, PTL

\* When calls do not overlap the bundle committed last does not lose its authority
\* in silence: the uncommitted call whose rollback takes it has recorded an
\* unconfirmed restoration or an exception inside restore(), and no later step of
\* anyone takes such a record back.
THEOREM LossesAreReported == Exclusive => (Spec => LossIsReported)
<1> SUFFICES ASSUME Exclusive PROVE Spec => LossIsReported
  OBVIOUS
<1>1. ASSUME SurvivalInv, [Next]_vars, StandingPreserved, ~StandingPreserved'
      PROVE  \E c \in Calls \ committed' :
               /\ Step(c) /\ pc'[c] \in {"dequarantine", "finally"}
               /\ codes'[c] \cap LossCodes # {}
  <2>1. PICK d \in Calls : Begin(d) \/ Step(d) \/ Access(d) \/ Crash(d)
    BY <1>1, EnvironmentTouchesNothing DEF Next, StandingPreserved, files, history
  <2>2. TypeOK /\ Control(d) /\ Own(d) /\ Sparing(d)
    BY <1>1 DEF SurvivalInv, ExclusiveInv, ControlInv
  <2>3. UNCHANGED <<standing, committed>>
    BY <1>1, <2>1, <2>2, StandingMoves DEF Own, StandingPreserved
  <2>4. ~(Shelved /\ UNCHANGED backup)
    BY <1>1, <2>3 DEF Shelved, StandingPreserved
  <2>5. /\ pc[d] \in {"strip", "emergency"} /\ UNCHANGED backup
        /\ pc'[d] \in RollingBack \cup {"finally"}
    <3>1. CASE UNCHANGED <<output, backup>>
      BY <1>1, <2>3, <3>1 DEF StandingPreserved
    <3>2. CASE /\ pc[d] = "moveAside" /\ pc'[d] = "promote"
               /\ output' = Absent /\ backup' = [backup EXCEPT ![d] = output]
      <4>1. backup[d] = Absent
        BY <2>2, <3>2 DEF Sparing, BackupUnused, Building
      <4> QED BY <1>1, <2>2, <2>3, <3>2, <4>1, SealedIsOwn DEF StandingPreserved, TypeOK
    <3>3. CASE pc[d] \in Relying /\ UNCHANGED backup
      BY <1>1, <2>2, <2>4, <3>3 DEF Sparing
    <3>4. CASE output' = backup[d] /\ output = Absent
               /\ backup' = [backup EXCEPT ![d] = Absent]
      <4>1. PICK c \in Calls : standing # Nothing => backup[c] = Sealed(standing)
        BY <1>1, <3>4, SealedIsOwn DEF StandingPreserved
      <4> QED BY <1>1, <2>2, <2>3, <3>4, <4>1 DEF StandingPreserved, TypeOK
    <3>5. CASE pc[d] = "cleanup" /\ UNCHANGED output
      BY <1>1, <2>2, <2>3, <3>5 DEF Sparing, Own, StandingPreserved
    <3> QED BY <1>1, <2>1, <2>2, <3>1, <3>2, <3>3, <3>4, <3>5, Effects DEF Relying
  <2>6. Step(d) /\ d \notin committed'
    BY <2>1, <2>2, <2>3, <2>5
    DEF Control, RollingBack, Begin, Access, FetchForAccess, ReadForAccess, Crash, TypeOK,
        Goto
  <2>7. CASE StripOutput(d)
    <3>1. "ROLLBACK-009" \in codes[d]
      BY <1>1, <2>2, <2>4, <2>5, <2>7 DEF Sparing, StripOutput
    <3>2. codes[d] \subseteq codes'[d] /\ pc'[d] \in {"dequarantine", "finally"}
      BY <2>2, <2>7 DEF StripOutput, AfterInspection, Report, TypeOK, Goto
    <3> QED BY <2>6, <3>1, <3>2 DEF LossCodes
  <2>8. CASE EmergencyInvalidate(d)
    <3>1. "ROLLBACK-999" \in codes[d] /\ pc'[d] = "finally"
      BY <2>2, <2>8 DEF Sparing, EmergencyInvalidate, Goto, TypeOK
    <3>2. codes[d] \subseteq codes'[d] \/ "999" \in codes'[d]
      BY <2>2, <2>8 DEF EmergencyInvalidate, Report, TypeOK
    <3> QED BY <2>6, <3>1, <3>2 DEF LossCodes
  <2>9. CASE RollbackRaises(d)
    BY <1>1, <2>3, <2>9 DEF RollbackRaises, StandingPreserved, files
  <2>10. StripOutput(d) \/ EmergencyInvalidate(d) \/ RollbackRaises(d)
    BY <2>5, <2>6 DEF Step, Publish, Rollback, FetchInitialHead, CreateStage, Render,
       RecheckHead, MoveAside, Promote, ValidatePublished, FinalHeadCheck, CleanUpBackup,
       RemoveStage, QuarantineOutput, InvalidateOutput, DeleteOutput, RestoreBackup,
       ConfirmRestored, InspectOutput, RemoveQuarantine
  <2> QED BY <2>7, <2>8, <2>9, <2>10
<1>2. SurvivalInv /\ [Next]_vars =>
        [/\ StandingPreserved /\ ~StandingPreserved' =>
              \E c \in Calls \ committed' :
                Step(c) /\ pc'[c] \in {"dequarantine", "finally"} /\ codes'[c] \cap LossCodes # {}
         /\ \A c \in Calls : InTrouble(c) => InTrouble(c)']_vars
  <2>1. SurvivalInv => TypeOK
    BY DEF SurvivalInv, ExclusiveInv, ControlInv
  <2> QED BY <1>1, <2>1, TroubleLasts
<1> QED BY <1>2, SurvivalInvariant, PTL DEF Spec, LossIsReported

-----------------------------------------------------------------------------
(***************************************************************************)
(* Once failures have stopped.                                             *)
(***************************************************************************)

\* A call for a current package, under way while nothing fails.
OnTrack(c) ==
  /\ faults = {} /\ Acceptable(Package[c])
  /\ \/ /\ pc[c] \in Building \cup Verifying
        /\ pc[c] \in {"fetch", "stage"} => output.form # "file"
     \/ pc[c] \in {"cleanup", "finally"} /\ output = Sealed(c) /\ Succeeded(c)

\* It completes with its bundle at the official path, or is still under way.
NothingDerails ==
  [][\A c \in Calls :
       OnTrack(c) => OnTrack(c)' \/ (pc'[c] = "complete" /\ output' = Sealed(c))]_vars

\* Its own steps lead to the commit point and from there to the completion.
LEMMA StepStaysOnTrack ==
  ASSUME TypeOK, NEW c \in Calls, Control(c), Own(c), OnTrack(c), Step(c)
  PROVE  OnTrack(c)' \/ (pc'[c] = "complete" /\ output' = Sealed(c))
<1>1. /\ ~CanFail("net") /\ ~CanFail("io") /\ ~CanFail("stat")
      /\ Acceptable(Package[c]) /\ faults = {}
  BY DEF OnTrack, CanFail
<1>2. UNCHANGED <<live, faults>>
  BY DEF Step, Publish, Rollback, FetchInitialHead, CreateStage, Render, RecheckHead,
     MoveAside, Promote, ValidatePublished, FinalHeadCheck, CleanUpBackup, RemoveStage,
     QuarantineOutput, InvalidateOutput, DeleteOutput, RestoreBackup, ConfirmRestored,
     InspectOutput, StripOutput, RemoveQuarantine, RollbackRaises, EmergencyInvalidate,
     Refuse, Abandon, RollBack
<1>3. faults' = {} /\ Acceptable(Package[c])'
  BY <1>1, <1>2 DEF Acceptable
<1> USE <1>1, <1>3 DEF TypeOK, OnTrack, Goto, Building, Verifying, files
<1>4. CASE FetchInitialHead(c)
  <2>1. Refusals(Package[c]) = {}
    BY PublicationAssumption DEF Refusals, Acceptable, Sound, Facts
  <2> QED BY <1>4, <2>1 DEF FetchInitialHead
<1>5. CASE CreateStage(c)
  BY <1>5 DEF CreateStage
<1>6. CASE Render(c)
  BY <1>6 DEF Render
<1>7. CASE RecheckHead(c)
  BY <1>7 DEF RecheckHead, HeadMatches, Acceptable
<1>8. CASE MoveAside(c)
  BY <1>8 DEF MoveAside
<1>9. CASE Promote(c)
  BY <1>9 DEF Promote, Own
<1>10. CASE ValidatePublished(c)
  <2>1. Validates(output, Package[c].head)
    BY <1>10, PublicationAssumption
    DEF ValidatePublished, Own, Validates, Authoritative, Sealed, HeadOf
  <2> QED BY <1>10, <2>1 DEF ValidatePublished
<1>11. CASE FinalHeadCheck(c)
  <2>1. HeadMatches(c) /\ output = Sealed(c) /\ codes[c] = {}
    BY <1>11 DEF FinalHeadCheck, HeadMatches, Acceptable, Own, Control
  <2> QED BY <1>11, <2>1 DEF FinalHeadCheck, Succeeded, locals
<1>12. CASE CleanUpBackup(c)
  <2>1. output' = output /\ output = Sealed(c) /\ codes[c] = {} /\ pc'[c] = "finally"
    BY <1>12 DEF CleanUpBackup, Own, Control
  <2>2. codes'[c] \subseteq {"009"}
    BY <1>12, <2>1 DEF CleanUpBackup, Report
  <2> QED BY <2>1, <2>2 DEF Succeeded
<1>13. CASE RemoveStage(c)
  BY <1>13 DEF RemoveStage
<1>14. ~Rollback(c)
  BY DEF Rollback, QuarantineOutput, InvalidateOutput, DeleteOutput, RestoreBackup,
     ConfirmRestored, InspectOutput, StripOutput, RemoveQuarantine, RollbackRaises,
     EmergencyInvalidate, RollingBack
<1> QED BY <1>4, <1>5, <1>6, <1>7, <1>8, <1>9, <1>10, <1>11, <1>12, <1>13, <1>14
        DEF Step, Publish

\* "Debris does no lasting harm": when calls do not overlap and failures have
\* stopped, a call for a current package never leaves its way to a completion with
\* its bundle at the official path, whatever crashed or failed calls left behind.
\* With CallsAreBounded this is all of Recovers but the fairness of its steps.
THEOREM CalmCallsStayOnTrack == Exclusive => (Spec => NothingDerails)
<1> SUFFICES ASSUME Exclusive PROVE Spec => NothingDerails
  OBVIOUS
<1>1. ASSUME ExclusiveInv, [Next]_vars, NEW c \in Calls, OnTrack(c)
      PROVE  OnTrack(c)' \/ (pc'[c] = "complete" /\ output' = Sealed(c))
  <2>1. /\ TypeOK /\ AtMostOneRuns /\ Control(c) /\ Own(c)
        /\ pc[c] \in Running /\ faults = {}
    BY <1>1 DEF ExclusiveInv, ControlInv, OnTrack, Running
  <2>2. CASE UNCHANGED vars
    BY <1>1, <2>2 DEF vars, files, locals, history, OnTrack, Acceptable, Succeeded
  <2>3. ~Push /\ ~CalmDown /\ ~Crash(c)
    BY <2>1 DEF Push, CalmDown, Crash, CanFail
  <2>4. CASE Step(c)
    BY <1>1, <2>1, <2>4, StepStaysOnTrack
  <2>5. ~Begin(c) /\ ~Access(c)
    BY <2>1 DEF Begin, Access, FetchForAccess, ReadForAccess, Running, Building, Verifying,
       RollingBack
  <2>6. ASSUME NEW d \in Calls, d # c PROVE ~Begin(d) /\ ~Step(d)
    BY <2>1, <2>6, OthersAreNotRunning
  <2>7. ASSUME NEW d \in Calls, d # c, Access(d) \/ Crash(d) PROVE OnTrack(c)'
    <3>1. pc'[c] = pc[c] /\ codes'[c] = codes[c]
      BY <2>1, <2>7, OthersUntouched
    <3>2. UNCHANGED <<live, faults, output>>
      BY <2>7 DEF Access, FetchForAccess, ReadForAccess, Crash, files
    <3> QED BY <1>1, <3>1, <3>2 DEF OnTrack, Acceptable, Succeeded
  <2> QED BY <1>1, <2>2, <2>3, <2>4, <2>5, <2>6, <2>7 DEF Next
<1>2. ExclusiveInv /\ [Next]_vars =>
        [\A c \in Calls :
           OnTrack(c) => OnTrack(c)' \/ (pc'[c] = "complete" /\ output' = Sealed(c))]_vars
  BY <1>1
<1> QED BY <1>2, ExclusiveInvariant, PTL DEF Spec, NothingDerails
=============================================================================
