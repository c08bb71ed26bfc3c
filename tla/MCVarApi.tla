------------------------------ MODULE MCVarApi ------------------------------
(* VarApi on small sets. *)
EXTENDS VarApi, TLC

CONSTANTS r1, r2, r3, k1

TwoReqs   == {r1, r2}
ThreeReqs == {r1, r2, r3}
OneKey    == {k1}
OneFile   == {<<k1, k1>>}   \* a key twice: the last line wins

Symmetry == Permutations(ThreeReqs)
=============================================================================
