--------------------------- MODULE MCSharedFlights ---------------------------
(* SharedFlights on small instances: keys are independent, so there is one. *)
EXTENDS SharedFlights
=============================================================================
