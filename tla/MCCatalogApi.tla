---------------------------- MODULE MCCatalogApi ----------------------------
(* CatalogApi on small sets. *)
EXTENDS CatalogApi, TLC

CONSTANTS c1, n1, k1, r1, r2

OneConn == {c1}
OneName == {n1}
OneKey  == {k1}
TwoReqs == {r1, r2}

Symmetry == Permutations(TwoReqs)
=============================================================================
