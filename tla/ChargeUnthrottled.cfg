SPECIFICATION ChargeSpec
CONSTANTS
  s1 = s1
  b1 = b1
  p1 = p1
  m1 = m1
  r1 = r1
  None = None
  Sessions = {s1}
  Batches = {b1}
  Attempts = {p1}
  Mitigations = {m1}
  Requests = {r1}
  Submitted = {"thermal_throttle"}
  Overlap = FALSE
  FaultSets = {{}}
SYMMETRY Symmetry
PROPERTY ThrottledNeverCharges
CHECK_DEADLOCK FALSE
