SPECIFICATION Spec
CONSTANTS
  Reqs <- ThreeReqs
  Keys <- OneKey
  Files <- OneFile
  MaxId = 2
  r1 = r1
  r2 = r2
  r3 = r3
  k1 = k1
SYMMETRY Symmetry
CHECK_DEADLOCK FALSE
INVARIANTS
  DeletedStaysGone
  StreamedIsStored
  SetsAreTrue
  AuditedOrWarned
