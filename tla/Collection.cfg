SPECIFICATION FairSpec
CONSTANTS
  n1 = n1
  n2 = n2
  None = None
  Elsewhere = Elsewhere
  Known = 5
  Names = {n1, n2}
  Required = {n2}
  PerPage = 2
  MaxPages = 2
  FirstLists <- SmallLists
  Misdirect = TRUE
  MaxChanges = 2
INVARIANTS
  TypeOK
  NothingMissed
  RefusedForAReason
  EvidenceCoheres
  RequiredAnswered
PROPERTIES
  Terminates
CHECK_DEADLOCK FALSE
