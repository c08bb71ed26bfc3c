SPECIFICATION Spec
CONSTANTS
  Dialect = "sqlite"
  Procs <- TwoProcs
  Keys <- TwoKeys
  Values <- TwoValues
  Ids <- EightIds
  MaxAttempts = 2
  MaxRequests = 3
  NoProc = NoProc
  NoValue = NoValue
  p1 = p1
  p2 = p2
  p3 = p3
  k1 = k1
  k2 = k2
  v1 = v1
  v2 = v2
CHECK_DEADLOCK FALSE
INVARIANTS
  IInv
  Queued
  HistoryComplete
  NoLostUpdate
  FailsLate
PROPERTIES
  Returns
  Refines
