SPECIFICATION ChosenSpec
CONSTANTS
  s1 = s1
  h1 = h1
  m1 = m1
  t1 = t1
  w1 = w1
  w2 = w2
  f1 = f1
  f2 = f2
  n1 = n1
  n2 = n2
  c1 = c1
  c2 = c2
  a1 = a1
  a2 = a2
  r1 = r1
  r2 = r2
  p1 = p1
  p2 = p2
  i1 = i1
  i2 = i2
  i3 = i3
  None = None
  Records = {s1, h1, m1, t1}
  KindOf <- MCKindOf
  Writers = {w1, w2}
  MaxSaves <- MCMaxSaves
  Overlap = FALSE
  Forms = {f1, f2}
  FormNos = {n1, n2}
  SessionNos = {c1, c2}
  Signers = {a1, a2}
  Requests = {r1, r2}
  Ports = {p1, p2}
  MaxWatts <- MCMaxWatts
  TotalCap = 4
  Ids = {i1, i2, i3}
  Amounts = {0, 1, 2}
  InUse = {0, 1}
  Protocols = {1, 2}
  MaxPower = 2
  MaxCaps = 2
  Battery <- MCBattery
  Adapter <- MCAdapter
  MaxTemp = 5
  MaxTime = 4
SYMMETRY SafetySymmetry
INVARIANT CertifiedIsCurrent
INVARIANT FileIsHistory
INVARIANT RegisteredWhole
INVARIANT StateMatchesSigners
INVARIANT BudgetKept
INVARIANT NegotiatesBest
INVARIANT TimeAndHeatOnlyTighten
PROPERTY RebuildRestores
PROPERTY RebuildHarmless
PROPERTY SignatureStays
PROPERTY ContractKept
CHECK_DEADLOCK FALSE
