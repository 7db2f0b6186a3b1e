SPECIFICATION FairSpec
CONSTANTS
  c1 = c1
  c2 = c2
  c3 = c3
  c4 = c4
  c5 = c5
  c6 = c6
  h1 = h1
  h2 = h2
  b1 = b1
  b2 = b2
  Earlier = Earlier
  Nothing = Nothing
  Calls = {c1, c2}
  Heads = {h1}
  Bases = {b1}
  EarlierHead = h1
  Package <- SoundPackages
  Faults = {"net", "io", "stat", "crash"}
  Exclusive = TRUE
  MaxBegun = 2
INVARIANTS
  StrandedIsReported
  CommittedIsCompleted
PROPERTIES
  CleanFailureRestores
  Recovers
CHECK_DEADLOCK FALSE
