----------------------------- MODULE MCCatalog -----------------------------
(* Catalog on small sets. *)
EXTENDS Catalog

CONSTANTS c1, c2, n1, k1, k2

TwoConns == {c1, c2}
OneName  == {n1}
TwoKeys  == {k1, k2}
=============================================================================
