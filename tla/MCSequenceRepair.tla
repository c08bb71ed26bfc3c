-------------------------- MODULE MCSequenceRepair --------------------------
(* SequenceRepair for one or two replicas. *)
EXTENDS SequenceRepair, TLC

CONSTANTS a, b, c1, c2

OneReplica  == {a}
TwoReplicas == {a, b}
TwoCreates  == {c1, c2}

Symmetry == Permutations(TwoReplicas) \cup Permutations(TwoCreates)
=============================================================================
