----------------------------- MODULE MCRegistry -----------------------------
(* Model checking of Registry. *)
EXTENDS Registry, TLC

Symmetry == Permutations(Thread) \cup Permutations(Token)
=============================================================================
