SPECIFICATION ApiSpec
CONSTANTS
  Dialects = {"sqlite", "postgres"}
  Conns <- OneConn
  Names <- OneName
  Keys <- OneKey
  MaxId = 2
  Reqs <- TwoReqs
  MaxTwice = 2
  c1 = c1
  n1 = n1
  k1 = k1
  r1 = r1
  r2 = r2
SYMMETRY Symmetry
INVARIANTS
  AppsAccounted
  EnvsAccounted
