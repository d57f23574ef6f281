SPECIFICATION Spec
CONSTANTS
  s1 = s1
  s2 = s2
  m1 = m1
  m2 = m2
  p1 = p1
  p2 = p2
  None = None
  Sessions = {s1, s2}
  Mitigations = {m1, m2}
  Submitted = {"thermal_throttle", "other"}
  Requests = {p1, p2}
  Overlap = TRUE
SYMMETRY Symmetry
INVARIANT IndexSound
INVARIANT ApprovedBeforeActing
INVARIANT CompletedWasApplied
INVARIANT ToldIsTrue
PROPERTY LostToAnOpenOne
CHECK_DEADLOCK FALSE
