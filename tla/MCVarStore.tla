----------------------------- MODULE MCVarStore -----------------------------
(* VarStore on small sets.  Values, keys and callers are interchangeable.   *)
EXTENDS VarStoreInv, TLC

CONSTANTS p1, p2, p3, k1, k2, v1, v2

TwoProcs   == {p1, p2}
ThreeProcs == {p1, p2, p3}
OneKey     == {k1}
TwoKeys    == {k1, k2}
TwoValues  == {v1, v2}
OneValue   == {v1}
EightIds   == 1 .. 8

Symmetry2 == Permutations(TwoProcs) \cup Permutations(TwoKeys) \cup Permutations(TwoValues)
Symmetry3 == Permutations(ThreeProcs) \cup Permutations(TwoValues)
=============================================================================
