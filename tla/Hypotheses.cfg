SPECIFICATION Spec
CONSTANTS
  s1 = s1
  s2 = s2
  f1 = f1
  f2 = f2
  x1 = x1
  x2 = x2
  e1 = e1
  e2 = e2
  e3 = e3
  e4 = e4
  None = None
  Subjects = {s1, s2}
  Files = {f1, f2}
  Sources = {x1, x2}
  Evidence <- AllEvidence
  Requests <- AllRequests
  Submissions <- AllSubmissions
INVARIANTS
  ImportantHypothesisIsNotGreen
CHECK_DEADLOCK FALSE
