------------------------------ MODULE MCBuffer ------------------------------
(* Model checking of Buffer: the receivers are interchangeable. *)
EXTENDS Buffer, TLC

ReceiverSymmetry == Permutations(Receiver)
=============================================================================
