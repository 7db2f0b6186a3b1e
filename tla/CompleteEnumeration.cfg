SPECIFICATION Spec
CONSTANTS
  n1 = n1
  n2 = n2
  None = None
  Elsewhere = Elsewhere
  Known = 5
  Names = {n1, n2}
  Required = {n2}
  PerPage = 2
  MaxPages = 2
  FirstLists <- SmallLists
  Misdirect = FALSE
  MaxChanges = 2
INVARIANTS
  EverythingEnumerated
CHECK_DEADLOCK FALSE
