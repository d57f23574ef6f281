SPECIFICATION ChargeSpec
CONSTANTS
  s1 = s1
  s2 = s2
  b1 = b1
  p1 = p1
  m1 = m1
  r1 = r1
  None = None
  Sessions = {s1, s2}
  Batches = {b1}
  Attempts = {p1}
  Mitigations = {m1}
  Requests = {r1}
  Submitted = {"thermal_throttle", "stop_charge"}
  Overlap = FALSE
  FaultSets = {{"refuse"}, {"stop"}, {"stop", "refuse", "drop"}}
SYMMETRY Symmetry
INVARIANT EffectMatchesName
INVARIANT CompletedCharges
INVARIANT UndoneDoesNotCharge
PROPERTY NotReapplied
CHECK_DEADLOCK FALSE
