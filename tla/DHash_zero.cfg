SPECIFICATION Spec

CONSTANTS
  k1 = k1
  k2 = k2
  k3 = k3
  k4 = k4
  None = None
  Keys = {k1, k2, k3, k4}
  ZeroKey = k1
  Values = {v}
  Hash <- Hash3
  Sizes <- FixedSize
  MaxProbe = 12
  ProbeBound = 5

PROPERTY PutSucceeds
