SPECIFICATION Spec
CONSTANTS
  k1 = k1
  k2 = k2
  k3 = k3
  v1 = v1
  v2 = v2
  None = None
  Keys = {k1, k2, k3}
  Values = {v1, v2}
PROPERTY FailedPutIsInvisible
