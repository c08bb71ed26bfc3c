SPECIFICATION TransferSpec
CONSTANTS
  Servers <- TwoServers
  Bases <- TwoServers
  Local = near
  NotGiven = none
  Logins <- TwoLogins
  KeyOrder <- ThreeKeys
  Values <- SomeValues
  Texts <- SomeTexts
  Secrets <- TwoSecrets
  Bare = bare
  PageSize = 2
  Initially <- SomeContents
  MaxEvents = 2
  bare = bare
  near = near
  far = far
  k1 = k1
  k2 = k2
  none = none
  l1 = l1
  l2 = l2
INVARIANTS
  WalkComplete
  NoCiphertext
  RoundTrip
  RotationWindow
  KeyKept
SYMMETRY Symmetry
CHECK_DEADLOCK FALSE
