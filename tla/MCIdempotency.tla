---------------------------- MODULE MCIdempotency ----------------------------
EXTENDS Idempotency, TLC

(* Requests differ in nothing but their name.                                 *)
Symmetry == Permutations(Request)
=============================================================================
