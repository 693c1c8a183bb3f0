-------------------------- MODULE ExecutionAdmission --------------------------
(***************************************************************************)
(* _execution_admission: admitting heavy work against the memory the       *)
(* process may have in flight.  Reservations are made and released under   *)
(* _IN_FLIGHT_LOCK; waiting for short-lived holders, reserving, and        *)
(* deciding whether a refusal is worth another wait are separate critical  *)
(* sections.  A reservation is released by its context's lease, or by the  *)
(* finalizer of a context nobody released.                                 *)
(*                                                                         *)
(* Requests differ in what they wait for: "patient" admissions and         *)
(* "growth" grants name the "short" ones in wait_out_holders; "short" and  *)
(* "plain" ones wait for nobody.                                           *)
(***************************************************************************)
EXTENDS MemoryInFlight

vars == <<kind, need, budget, limit, late, at, reserved>>
request == <<kind, need, budget>>

Place ==
  {"new", "wait", "asleep", "admit", "check", "build", "running", "dropped", "done",
   "refused", "failed", "cancelled"}

\* The types of the requests and of _IN_FLIGHT_RESERVATIONS.
TypeOK ==
  /\ kind \in [Request -> Kind]
  /\ need \in [Request -> Sizes \cup {None}]
  /\ budget \in [Request -> Limits \cup {None}]
  /\ limit \in [Request -> Limits \cup {None}]
  /\ late \in SUBSET Request
  /\ at \in [Request -> Place]
  /\ reserved \in [Request -> Nat]

Init ==
  /\ kind = [r \in Request |-> "short"]
  /\ need = [r \in Request |-> None]
  /\ budget = [r \in Request |-> None]
  /\ limit = [r \in Request |-> None]
  /\ late = {}
  /\ at = [r \in Request |-> "new"]
  /\ reserved = [r \in Request |-> None]

Holders == {r \in Request : reserved[r] # None}
OnlyShortHold == \A h \in Holders : kind[h] = "short"
Waits(r) == kind[r] \in {"patient", "growth"}

Goto(r, place) == at' = [at EXCEPT ![r] = place]
StartWait(r, l) == Goto(r, "wait") /\ limit' = [limit EXCEPT ![r] = l]

--------------------------------------------------------------------------------
(* Arriving and waiting. *)

\* A request arrives; requests are numbered in the order they come.  Only a
\* patient one is limited more than once, so only its budget's sample is kept:
\* the others meet whichever limit their one reservation finds.
Arrive(r) ==
  /\ at[r] = "new" /\ \A q \in Request : q < r => at[q] # "new"
  /\ \E k \in Kind, n \in Sizes, b \in Limits \cup {None} :
       /\ k # "patient" => b = None
       /\ kind' = [kind EXCEPT ![r] = k]
       /\ need' = [need EXCEPT ![r] = n]
       /\ budget' = [budget EXCEPT ![r] = b]
       /\ IF k \in {"patient", "growth"}
          THEN \E l \in (IF b = None THEN Limits ELSE {b}) : StartWait(r, l)
          ELSE Goto(r, "admit") /\ UNCHANGED limit
  /\ UNCHANGED <<late, reserved>>

\* What ends r's wait, evaluated under the lock.
WaitIsOver(r) ==
  \/ r \in late
  \/ kind[r] = "growth" /\ \A h \in Holders : kind[h] # "short"
  \/ /\ kind[r] = "patient"
     /\ Holders = {} \/ Total + need[r] <= limit[r] \/ ~OnlyShortHold

StopWaiting(r) ==
  /\ at[r] = "wait" /\ WaitIsOver(r)
  /\ Goto(r, "admit")
  /\ limit' = [limit EXCEPT ![r] = None]
  /\ UNCHANGED <<request, late, reserved>>

\* _IN_FLIGHT_RELEASED.wait.
Sleep(r) ==
  /\ at[r] = "wait" /\ ~WaitIsOver(r)
  /\ Goto(r, "asleep")
  /\ UNCHANGED <<request, limit, late, reserved>>

\* The slice ends or a release notifies: the wait is judged again.
Wake(r) ==
  /\ at[r] = "asleep"
  /\ Goto(r, "wait")
  /\ UNCHANGED <<request, limit, late, reserved>>

\* The wait wakes to a cancelled token.
CancelWait(r) ==
  /\ at[r] = "asleep"
  /\ Goto(r, "cancelled")
  /\ limit' = [limit EXCEPT ![r] = None]
  /\ UNCHANGED <<request, late, reserved>>

\* Time passes r's deadline.
Deadline(r) ==
  /\ Waits(r) /\ r \notin late /\ at[r] \in {"wait", "asleep", "admit", "check"}
  /\ late' = late \cup {r}
  /\ UNCHANGED <<request, limit, at, reserved>>

--------------------------------------------------------------------------------
(* Reserving. *)

\* The process's own size refuses r: no sampler, its RSS limit, or an
\* estimate beyond the allowance.
RefuseOutright(r) ==
  /\ at[r] = "admit"
  /\ Goto(r, "failed")
  /\ UNCHANGED <<request, limit, late, reserved>>

\* Fault: A wait that is over reserves without looking again.
MutReserveUnchecked(r) ==
  /\ at[r] = "admit" /\ kind[r] # "growth"
  /\ \E l \in LimitsFor(r) :
       IF kind[r] = "patient" \/ Total + need[r] <= l
       THEN /\ reserved' = [reserved EXCEPT ![r] = need[r]]
            /\ Goto(r, "build")
       ELSE Goto(r, "refused") /\ UNCHANGED reserved
  /\ UNCHANGED <<request, limit, late>>

\* _reserve_in_flight_budget; a refused patient request goes on to ask
\* whether the refusal can clear.
Reserve(r) ==
  /\ at[r] = "admit" /\ kind[r] # "growth"
  /\ \E l \in LimitsFor(r) :
       IF Total + need[r] <= l
       THEN /\ reserved' = [reserved EXCEPT ![r] = need[r]]
            /\ Goto(r, "build")
       ELSE /\ Goto(r, IF kind[r] = "patient" THEN "check" ELSE "refused")
            /\ UNCHANGED reserved
  /\ UNCHANGED <<request, limit, late>>

\* Fault: Holders that released since the refusal are taken for a refusal that stands.
MutTransientIfHeld(r, l) == Holders # {} /\ OnlyShortHold

\* _refusal_is_transient, of a sample l.
Transient(r, l) == IF Holders = {} THEN need[r] <= l ELSE OnlyShortHold

Check(r) ==
  /\ at[r] = "check"
  /\ \E l \in LimitsFor(r), next \in LimitsFor(r) :
       IF r \notin late /\ Transient(r, l)
       THEN StartWait(r, next)
       ELSE Goto(r, "refused") /\ UNCHANGED limit
  /\ UNCHANGED <<request, late, reserved>>

\* admit_growth_grant's reservation: any positive grant, the least of the
\* profile's limit, what the others leave, and the process's headroom.
GrowthGrant(r) ==
  /\ at[r] = "admit" /\ kind[r] = "growth"
  /\ \E usable \in Limits :
       IF usable > Total
       THEN \E grant \in 1..(usable - Total) :
              /\ grant <= need[r]
              /\ reserved' = [reserved EXCEPT ![r] = grant]
              /\ Goto(r, "build")
       ELSE Goto(r, "refused") /\ UNCHANGED reserved
  /\ UNCHANGED <<request, limit, late>>

--------------------------------------------------------------------------------
(* The context, and what becomes of its reservation. *)

\* The reservation's release; a second call finds it gone.
ReleaseReservation(r) == reserved' = [reserved EXCEPT ![r] = None]

Build(r) ==
  /\ at[r] = "build"
  /\ Goto(r, "running")
  /\ UNCHANGED <<request, limit, late, reserved>>

\* Fault: A context that cannot be built keeps its reservation.
MutBuildFailsKeeps(r) ==
  /\ at[r] = "build"
  /\ Goto(r, "failed")
  /\ UNCHANGED <<request, limit, late, reserved>>

BuildFails(r) ==
  /\ at[r] = "build"
  /\ Goto(r, "failed")
  /\ ReleaseReservation(r)
  /\ UNCHANGED <<request, limit, late>>

\* The work ends and its lease is released.
Release(r) ==
  /\ at[r] = "running"
  /\ Goto(r, "done")
  /\ ReleaseReservation(r)
  /\ UNCHANGED <<request, limit, late>>

\* The last reference to a context goes without a release ...
Drop(r) ==
  /\ at[r] = "running"
  /\ Goto(r, "dropped")
  /\ UNCHANGED <<request, limit, late, reserved>>

\* Fault: The finalizer of a dropped context does not release.
MutFinalizeForgets(r) ==
  /\ at[r] = "dropped"
  /\ Goto(r, "done")
  /\ UNCHANGED <<request, limit, late, reserved>>

\* ... and its finalizer runs.
Finalize(r) ==
  /\ at[r] = "dropped"
  /\ Goto(r, "done")
  /\ ReleaseReservation(r)
  /\ UNCHANGED <<request, limit, late>>

Step(r) ==
  \/ StopWaiting(r) \/ Sleep(r) \/ Wake(r)
  \/ Reserve(r) \/ Check(r) \/ GrowthGrant(r)
  \/ Build(r) \/ Release(r) \/ Finalize(r)

\* Every request asked for has settled.
Terminating ==
  /\ \A r \in Request : at[r] \in {"done", "refused", "failed", "cancelled"}
  /\ UNCHANGED vars

Next ==
  \/ \E r \in Request :
       \/ Arrive(r)
       \/ StopWaiting(r) \/ Sleep(r) \/ Wake(r) \/ CancelWait(r) \/ Deadline(r)
       \/ RefuseOutright(r) \/ Reserve(r) \/ Check(r) \/ GrowthGrant(r)
       \/ Build(r) \/ BuildFails(r) \/ Release(r) \/ Drop(r) \/ Finalize(r)
  \/ Terminating

Spec == Init /\ [][Next]_vars

\* Threads run, sleeping waits wake each slice, admitted work ends, and an
\* unreferenced context is finalized.  Nothing is owed by a deadline.
FairSpec == Spec /\ \A r \in Request : WF_vars(Step(r))

--------------------------------------------------------------------------------
(* Properties. *)

\* No admission with a settled limit, and no growth grant, waits for ever,
\* even if its deadline never comes (_IN_FLIGHT_RELEASED.notify_all,
\* _IN_FLIGHT_WAIT_SLICE_SECONDS).
WaitsSettle ==
  \A r \in Request :
    (at[r] = "wait" /\ (budget[r] # None \/ kind[r] = "growth"))
      ~> (at[r] \in {"done", "refused", "failed", "cancelled"})

================================================================================
