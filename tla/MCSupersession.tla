--------------------------- MODULE MCSupersession ---------------------------
(* Supersession on small instances. *)
EXTENDS Supersession
=============================================================================
