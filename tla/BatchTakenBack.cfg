SPECIFICATION Spec
CONSTANTS
  s1 = s1
  b1 = b1
  p1 = p1
  None = None
  Sessions = {s1}
  Batches = {b1}
  Attempts = {p1}
  Mitigations = {}
  Overlap = TRUE
  FaultSets = {{}}
PROPERTY CompletedStays
CHECK_DEADLOCK FALSE
