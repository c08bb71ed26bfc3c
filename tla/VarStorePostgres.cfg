SPECIFICATION Spec
CONSTANTS
  Dialect = "postgres"
  Procs <- TwoProcs
  Keys <- OneKey
  Values <- OneValue
  Ids <- EightIds
  MaxAttempts = 2
  MaxRequests = 3
  NoProc = NoProc
  NoValue = NoValue
  p1 = p1
  p2 = p2
  p3 = p3
  k1 = k1
  k2 = k2
  v1 = v1
  v2 = v2
CHECK_DEADLOCK FALSE
INVARIANTS
  WritesCurrent
  NoLostUpdate
  AckedDurable
  RetriesUncommitted
PROPERTIES
  Returns
