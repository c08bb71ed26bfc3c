---------------------------- MODULE MCAuthCache ----------------------------
(* AuthCache with small bounds. *)
EXTENDS AuthCache, TLC

CONSTANTS s1, s2

TwoSlots == {s1, s2}
Symmetry == Permutations(TwoSlots)
=============================================================================
