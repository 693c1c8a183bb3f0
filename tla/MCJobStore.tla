---------------------------- MODULE MCJobStore ----------------------------
(* JobStore on small instances. No symmetry: liveness is checked too. *)
EXTENDS JobStore
=============================================================================
