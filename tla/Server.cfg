SPECIFICATION ServerSpec
CONSTANTS
  Replicas <- OneReplica
  MaxKey = 3
  EnvIds = {1, 2}
  VarIds = {1}
  Apps = {1, 2}
  Requests <- TwoRequests
  MaxFaults = 2
  a = a
  q1 = q1
  q2 = q2
INVARIANTS
  PrintedIsValid
  ShownOrPending
  NothingLost
  AppsKept
  Graceful
PROPERTIES
  Stops
  ServesAgain
CHECK_DEADLOCK FALSE
