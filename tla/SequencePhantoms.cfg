SPECIFICATION Spec
CONSTANTS
  Replicas <- TwoReplicas
  Creates <- TwoCreates
  MaxId = 4
  a = a
  b = b
  c1 = c1
  c2 = c2
SYMMETRY Symmetry
INVARIANT Phantoms
