SPECIFICATION ChosenSpec
CONSTANTS
  v1 = v1
  a1 = a1
  e1 = e1
  tv1 = tv1
  ta1 = ta1
  te1 = te1
  i1 = i1
  r1 = r1
  r2 = r2
  s1 = s1
  c1 = c1
  c2 = c2
  p1 = p1
  None = None
  Users = {v1, a1, e1}
  RoleOf <- MCRoleOf
  Tokens = {tv1, ta1, te1}
  OwnerOf <- MCOwnerOf
  ShortLived = {tv1}
  Vendors = {v1, a1}
  Issues = {i1}
  Requests = {r1, r2}
  MaxVersion = 4
  Subscribers = {s1}
  Connections = {c1, c2}
  Publishers = {p1}
  MaxEvents = 3
  Headers = {1, 2, 3}
  Buffer = 1
  Limit = 3
  MaxConn = 2
SYMMETRY Symmetry
INVARIANT FourEyes
INVARIANT ClosedOnce
INVARIANT BusHoldsTheOpen
INVARIANT SlotsExact
INVARIANT NoGap
PROPERTY AcceptedIsActive
PROPERTY LegalSteps
PROPERTY AssigneeMitigates
CHECK_DEADLOCK FALSE
