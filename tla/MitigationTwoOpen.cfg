SPECIFICATION Spec
CONSTANTS
  s1 = s1
  m1 = m1
  m2 = m2
  p1 = p1
  p2 = p2
  None = None
  Sessions = {s1}
  Mitigations = {m1, m2}
  Submitted = {"stop_charge"}
  Requests = {p1, p2}
  Overlap = TRUE
SYMMETRY Symmetry
INVARIANT AtMostOneActive
CHECK_DEADLOCK FALSE
