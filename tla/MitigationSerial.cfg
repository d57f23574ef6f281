SPECIFICATION Spec
CONSTANTS
  s1 = s1
  m1 = m1
  m2 = m2
  m3 = m3
  p1 = p1
  p2 = p2
  None = None
  Sessions = {s1}
  Mitigations = {m1, m2, m3}
  Submitted = {"stop_charge"}
  Requests = {p1, p2}
  Overlap = FALSE
SYMMETRY Symmetry
INVARIANT IndexExact
PROPERTY ClosedStaysClosed
PROPERTY SlotSpec
CHECK_DEADLOCK FALSE
