---------------------------- MODULE JobLifecycle ----------------------------
(***************************************************************************)
(* The status protocol every background job follows: JobStore.             *)
(* transition_terminal as routes/_job_lifecycle.JobLifecycle calls it.     *)
(***************************************************************************)
EXTENDS Integers

TerminalReasons ==
  {"completed", "superseded", "timed_out", "cancelled", "memory_limited",
   "contract_error", "error"}

\* Only the order of the ranks matters; "completed" has no rank.
Precedence ==
  [r \in TerminalReasons \ {"completed"} |->
     CASE r = "error" -> 10          [] r = "contract_error" -> 20
       [] r = "memory_limited" -> 30 [] r = "cancelled" -> 40
       [] r = "timed_out" -> 50      [] r = "superseded" -> 60]

\* Fault: a terminal status is never replaced.
MutMayTransitionFirstOnly(status, to, expected) == status = expected

\* The cases in which transition_terminal writes.
MayTransition(status, to, expected) ==
  \/ status = expected
  \/ /\ status \in TerminalReasons \ {"completed"}
     /\ to # "completed"
     /\ Precedence[to] > Precedence[status]

\* The status after a transition that expects a running job.
Transitioned(status, to) ==
  IF MayTransition(status, to, "running") THEN to ELSE status
=============================================================================
