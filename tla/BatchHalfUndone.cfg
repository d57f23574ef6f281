SPECIFICATION Spec
CONSTANTS
  s1 = s1
  s2 = s2
  b1 = b1
  p1 = p1
  None = None
  Sessions = {s1, s2}
  Batches = {b1}
  Attempts = {p1}
  Mitigations = {}
  Overlap = FALSE
  FaultSets = {{"stop"}}
SYMMETRY Symmetry
INVARIANT RolledBackReleases
CHECK_DEADLOCK FALSE
