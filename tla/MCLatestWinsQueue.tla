-------------------------- MODULE MCLatestWinsQueue --------------------------
(* LatestWinsQueue on small instances, as the frontier uses it. *)
EXTENDS LatestWinsQueue
=============================================================================
