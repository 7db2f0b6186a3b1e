SPECIFICATION Spec
CONSTANTS
  c1 = c1
  c2 = c2
  c3 = c3
  c4 = c4
  c5 = c5
  c6 = c6
  h1 = h1
  h2 = h2
  b1 = b1
  b2 = b2
  Earlier = Earlier
  Nothing = Nothing
  Calls = {c1, c2, c3, c4, c5, c6}
  Heads = {h1, h2}
  Bases = {b1, b2}
  EarlierHead = h1
  Package <- MixedPackages
  Faults = {"net", "io", "crash", "push"}
  Exclusive = TRUE
  MaxBegun = 2
INVARIANTS
  TypeOK
  StandingPreserved
  CompletionIsOwn
PROPERTIES
  RefinesOfficialOutput
CHECK_DEADLOCK FALSE
