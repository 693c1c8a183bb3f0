---------------------------- MODULE MemoryInFlight ----------------------------
(***************************************************************************)
(* _execution_admission: the memory that admitted work has in flight, and  *)
(* what admission promises about it.  How requests are admitted is in      *)
(* ExecutionAdmission.                                                     *)
(***************************************************************************)
EXTENDS Integers, Functions, FiniteSetsExt

CONSTANTS
  MaxRequests,  \* bound: the admissions asked for in a behaviour
  Kind,         \* of requests, see ExecutionAdmission
  Sizes,        \* bytes a request may need, or a growth profile may allow
  Limits        \* usable memory, as samples of it may find

ASSUME AdmissionAssumption ==
  /\ MaxRequests \in Nat \ {0}
  /\ "short" \in Kind /\ Kind \subseteq {"short", "plain", "patient", "growth"}
  /\ Sizes \subseteq Nat \ {0} /\ Sizes # {}
  /\ Limits \subseteq Nat \ {0} /\ Limits # {} /\ IsFiniteSet(Limits)

Request == 1..MaxRequests
None == 0

VARIABLES
  kind,      \* of each request
  need,      \* reservation_bytes; of a growth grant, the profile's limit
  budget,    \* the budget's own sample of usable memory, None if it has none
  limit,     \* limit_bytes of a wait under way, None outside one
  late,      \* the requests whose deadline has passed
  at,        \* where each request is
  reserved   \* _IN_FLIGHT_RESERVATIONS, None where a request has none

Total == SumFunction(reserved)

\* What _in_flight_limit_bytes may return for r.
LimitsFor(r) == IF budget[r] = None THEN Limits ELSE {budget[r]}

-----------------------------------------------------------------------------
(* What admission promises. *)

\* However samples vary between the separate sections of an admission, what
\* is in flight never exceeds what some sample found usable
\* (_reserve_in_flight_budget, _growth_grant_terms).
InFlightWithinMemory == Total <= Max(Limits)

\* Memory is in flight exactly for the requests that have, or are building,
\* a context nobody released (_reservation_release, weakref.finalize).
ReservationIsOwned ==
  \A r \in Request : reserved[r] # None <=> at[r] \in {"build", "running", "dropped"}

\* Before its deadline a patient admission is refused only over memory that
\* no wait could free: a sample it would not fit alone, or another operation
\* that is not short-lived (create_admitted_execution_context).
ShortHoldersNeverRefuse ==
  \A r \in Request :
    at[r] = "refused" /\ kind[r] = "patient" /\ r \notin late =>
      \/ \E l \in LimitsFor(r) : need[r] > l
      \/ \E q \in Request \ {r} : at[q] # "new" /\ kind[q] # "short"
=============================================================================
