----------------------------- MODULE MCSessions -----------------------------
(* Small instances of Sessions.                                               *)
EXTENDS Sessions, TLC

RequestSymmetry == Permutations(Refresher) \cup Permutations(Validator)
=============================================================================
