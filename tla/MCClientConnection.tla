------------------------- MODULE MCClientConnection -------------------------
(* An instance of ClientConnection for TLC. *)
EXTENDS ClientConnection
=============================================================================
