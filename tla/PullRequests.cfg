SPECIFICATION Spec
CONSTANTS
  p1 = p1
  p2 = p2
  h1 = h1
  h2 = h2
  None = None
  PullRequests = {p1, p2}
  Heads = {h1, h2}
  Ids = {i1, i2, i3, i4}
  Reviews <- AllReviews
  Governance <- AllGovernance
  Events <- AllEvents
  MaxEvents = 4
SYMMETRY Identifiers
INVARIANTS
  TypeOK
  AcceptanceIsEarned
  EarnedIsAccepted
CHECK_DEADLOCK FALSE
