SPECIFICATION Spec
CONSTANTS
  Reqs <- ThreeReqs
  Keys <- OneKey
  Files <- OneFile
  MaxId = 2
  r1 = r1
  r2 = r2
  r3 = r3
  k1 = k1
CHECK_DEADLOCK FALSE
INVARIANT DeletesOnlyItsId
