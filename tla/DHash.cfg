SPECIFICATION Spec

CONSTANTS
  k1 = k1
  k2 = k2
  k3 = k3
  k4 = k4
  v = v
  w = w
  None = None
  Keys = {k1, k2, k3, k4}
  ZeroKey = zero
  Values = {v, w}
  Hash <- Hash3
  Sizes <- GrowingSizes
  MaxProbe = 12
  ProbeBound = 4

INVARIANT TypeOK
INVARIANT Reachable
INVARIANT NoDuplicates
INVARIANT UsedIsLive
PROPERTY ImplementsMap
PROPERTY PutSucceeds
