---------------------------- MODULE SharedFlights ----------------------------
(***************************************************************************)
(* routes/_shared_flights.SharedFlights: one run per key, shared by every  *)
(* concurrent request for that key.                                        *)
(***************************************************************************)
EXTENDS Flights

VARIABLE flights   \* _flights: the flight of each key that requests join

vars == <<key, outcome, token, thread, subs, caller, flights>>

TypeOK == FlightsTypeOK /\ flights \in [Key -> Flight \cup {NoFlight}]

Init == FlightsInit /\ flights = [k \in Key |-> NoFlight]

Subscribe(c, k) ==
  /\ caller[c].pc = "idle"
  /\ \/ /\ flights[k] # NoFlight
        /\ Subscribed(c, flights[k], k, "wait", NoFlight)
        /\ UNCHANGED flights
     \/ /\ flights[k] = NoFlight
        /\ \E f \in Flight : /\ IsFresh(f)
                             /\ Subscribed(c, f, k, "start", NoFlight)
                             /\ flights' = [flights EXCEPT ![k] = f]

\* Fault: whatever flight the key has now is released.
MutReleasedAnyFlight(f) == [flights EXCEPT ![key[f]] = NoFlight]

\* _release_locked: only if the key still has this flight.
Released(f) == [flights EXCEPT ![key[f]] = IF @ = f THEN NoFlight ELSE @]

Finished(f) ==
  /\ thread[f] = "ended"
  /\ thread' = [thread EXCEPT ![f] = "done"]
  /\ flights' = Released(f)
  /\ UNCHANGED <<key, outcome, token, subs, caller>>

\* Fault: the caller that leaves is still counted.
MutAbandonedCountsLeaver(c, f) == subs[f] = {} /\ outcome[f] = "none"

\* c is the last subscriber to leave a flight without an outcome.
Abandoned(c, f) == subs[f] \ {c} = {} /\ outcome[f] = "none"

Detach(c) ==
  LET f == caller[c].flight IN
  /\ Detached(c, IF Abandoned(c, f) THEN "cancel" ELSE "idle")
  /\ flights' = IF Abandoned(c, f) THEN Released(f) ELSE flights

CallerStep(c) ==
  \/ StartFlight(c) /\ UNCHANGED flights
  \/ WaitReturns(c) /\ UNCHANGED flights
  \/ CancelToken(c) /\ UNCHANGED flights

Next ==
  \/ \E c \in Caller : Detach(c) \/ CallerStep(c) \/ \E k \in Key : Subscribe(c, k)
  \/ \E f \in Flight : Finished(f) \/ (RunReturns(f) /\ UNCHANGED flights)

Spec == Init /\ [][Next]_vars

\* Threads run; a run whose token is cancelled returns, any other may go on.
FairSpec ==
  /\ Spec
  /\ \A c \in Caller : WF_vars(CallerStep(c))
  /\ \A f \in Flight : /\ WF_vars(Finished(f))
                       /\ WF_vars(token[f] /\ RunReturns(f) /\ UNCHANGED flights)

-----------------------------------------------------------------------------
(* Properties *)

\* A run that everyone left ends, though runs need not end by themselves; so
\* neither its thread nor what it computes on is leaked.
AbandonedRunsEnd ==
  \A f \in Flight : thread[f] = "run" /\ Waiters(f) = {} ~> thread[f] = "done"
=============================================================================
