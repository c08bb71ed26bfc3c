SPECIFICATION CliSpec
CONSTANTS
  Dialects = {"sqlite", "postgres"}
  Conns <- OneConn
  Names <- TwoNames
  Keys <- TwoKeys
  MaxId = 2
  Commands <- FiveCommands
  NoName = NoName
  WideApp = 3
  WideEnv = 2
  c1 = c1
  n1 = n1
  n2 = n2
  k1 = k1
  k2 = k2
INVARIANTS
  Chained
  HistoryOwn
  RightTarget
  ExitIsTrue
PROPERTIES
  StartEmpty
  NoCollateral
