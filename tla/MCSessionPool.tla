--------------------------- MODULE MCSessionPool ---------------------------
(* Model-checking values for SessionPool: calls are interchangeable. *)
EXTENDS SessionPool, TLC

Symmetry == Permutations(Calls)
=============================================================================
