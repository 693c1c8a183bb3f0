----------------------------- MODULE MCFileLock -----------------------------
(* FileLock on small instances: two processes, the first with two threads. *)
EXTENDS FileLock, TLC

CONSTANTS a1, a2, b1, p, q

MCProcessOf(t) == IF t \in {a1, a2} THEN p ELSE q
=============================================================================
