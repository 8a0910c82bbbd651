--------------------------- MODULE MCWebReceiver ---------------------------
(* Model checking of WebReceiver. *)
EXTENDS WebReceiver
=============================================================================
