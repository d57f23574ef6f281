SPECIFICATION Spec
CONSTANTS
  s1 = s1
  h1 = h1
  m1 = m1
  t1 = t1
  w1 = w1
  w2 = w2
  None = None
  Records = {s1, h1, m1, t1}
  KindOf <- MCKindOf
  Writers = {w1, w2}
  MaxSaves <- MCMaxSaves
  Overlap = FALSE
SYMMETRY Symmetry
INVARIANT IntactIsCertified
CHECK_DEADLOCK FALSE
