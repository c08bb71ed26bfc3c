------------------------------ MODULE MCServer ------------------------------
(* Server on an old database with two requests. *)
EXTENDS Server

CONSTANTS a, q1, q2

OneReplica  == {a}
TwoRequests == {q1, q2}
=============================================================================
