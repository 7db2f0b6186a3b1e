SPECIFICATION Spec
CONSTANTS
  t1 = t1
  t2 = t2
  p1 = p1
  p2 = p2
  p3 = p3
  None = None
  Tasks = {t1, t2}
  Packages = {p1, p2, p3}
  Owner <- MCOwner
  Foundation = t1
  Adoption = {t2}
  Plans <- SomePlans
  Submissions <- SomeSubmissions
  Claims <- SomeClaims
  Decisions = {"authorized", "superseded"}
  MaxMerges = 2
  MaxEdits = 2
  MaxImpacts = 2
INVARIANTS
  TypeOK
  CompletionIsGrounded
  WorkIsUnlocked
  NothingWaitsForItself
  FoundationFirst
  EvidenceIsItsOwn
  ProtectedIsUntouched
  AnotherMayFollow
CHECK_DEADLOCK FALSE
