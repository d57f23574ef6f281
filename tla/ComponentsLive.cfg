SPECIFICATION ChosenSpec
CONSTANTS
  t1 = t1
  t2 = t2
  s1 = s1
  s2 = s2
  b1 = b1
  b2 = b2
  p1 = p1
  p2 = p2
  c1 = c1
  c2 = c2
  None = None
  Sessions = {s1, s2}
  Batches = {b1, b2}
  Attempts = {p1, p2}
  Mitigations = {}
  Overlap = FALSE
  FaultSets = {{"refuse"}}
  Subscribers = {s1}
  Connections = {c1, c2}
  Publishers = {p1}
  MaxEvents = 2
  Headers = {}
  Buffer = 1
  Limit = 2
  MaxConn = 2
  Tasks = {t1, t2}
  MaxRetry = 2
  Calls = {1, 2}
  MaxRequests = 3
  FailureThreshold = 5
  Percent = 60
  MaxCounted = 10
INVARIANT NoRunAfterClose
INVARIANT RecordedFailedAlone
PROPERTY AllOrNothing
PROPERTY AttemptsEnd
PROPERTY ReachesAll
PROPERTY StoppedEnds
PROPERTY ShutdownEnds
PROPERTY Recovers
CHECK_DEADLOCK FALSE
