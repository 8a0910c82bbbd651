------------------------- MODULE MCTransferSession -------------------------
(* Model checking of TransferSession: receivers and threads are interchangeable. *)
EXTENDS TransferSession, TLC

Symmetry == Permutations(Receiver) \cup Permutations(Thread)
=============================================================================
