SPECIFICATION Spec
CONSTANTS
  Dialects = {"sqlite", "postgres"}
  Conns <- TwoConns
  Names <- OneName
  Keys <- TwoKeys
  MaxId = 2
  c1 = c1
  c2 = c2
  n1 = n1
  k1 = k1
  k2 = k2
INVARIANT NoOrphans
