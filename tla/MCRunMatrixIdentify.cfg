SPECIFICATION Spec
CONSTANTS
  NP = 3
  a = a
  b = b
  d = d
  x = x
  k = k
  q = q
  p1 = p1
  p2 = p2
  Configs = {a, b, d, x, k, q}
  PinSets = {p1, p2}
  Matrices <- MCServed
  MaxFaults = 2
INVARIANT NoStartedServerLeft
