SPECIFICATION Spec
CONSTANTS
  Slots <- TwoSlots
  TTL = 2
  MaxDelay = 1
  MaxKey = 2
  MaxTime = 4
  s1 = s1
  s2 = s2
SYMMETRY Symmetry
INVARIANTS
  OldKeyExpires
  NewKeyArrives
