-------------------------- MODULE MCNodeDataBuilds --------------------------
(* NodeDataBuilds on a small instance. One client suffices: requests only take
   turns at _slot_lock. *)
EXTENDS NodeDataBuilds
=============================================================================
