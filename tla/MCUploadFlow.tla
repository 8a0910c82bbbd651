---------------------------- MODULE MCUploadFlow ----------------------------
(* Model checking of UploadFlow: receivers that do not leave are interchangeable. *)
EXTENDS UploadFlow, TLC

Symmetry == Permutations(Receiver \ Leavers)
=============================================================================
