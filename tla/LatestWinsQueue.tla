--------------------------- MODULE LatestWinsQueue ---------------------------
(***************************************************************************)
(* routes/_shared_flights.LatestWinsQueue: at most one run per group and   *)
(* one waiting slot, taken by the latest request for another key.  Groups  *)
(* are independent, so one lane is modelled; a lane that is not in _lanes  *)
(* is one with neither a running nor a waiting flight.                     *)
(***************************************************************************)
EXTENDS Flights

CONSTANT CancelAbandoned   \* cancel_abandoned

ASSUME CancelAbandonedAssumption == CancelAbandoned \in BOOLEAN

VARIABLES
  running,     \* lane.running
  waiting,     \* lane.waiting
  cancelling   \* the flights marked cancelling

lane == <<running, waiting, cancelling>>
vars == <<key, outcome, token, thread, subs, caller, running, waiting, cancelling>>

TypeOK ==
  /\ FlightsTypeOK
  /\ running \in Flight \cup {NoFlight}
  /\ waiting \in Flight \cup {NoFlight}
  /\ cancelling \in SUBSET Flight

Init == FlightsInit /\ running = NoFlight /\ waiting = NoFlight /\ cancelling = {}

\* Fault: a flight that is being cancelled is joined.
MutJoinsCancelling(f, k) == f # NoFlight /\ key[f] = k

\* A flight of the lane a request for k joins.
Joins(f, k) == f # NoFlight /\ key[f] = k /\ f \notin cancelling

Subscribe(c, k) ==
  /\ caller[c].pc = "idle"
  /\ UNCHANGED cancelling
  /\ \/ /\ Joins(running, k)
        /\ Subscribed(c, running, k, "wait", NoFlight)
        /\ UNCHANGED <<running, waiting>>
     \/ /\ ~Joins(running, k) /\ Joins(waiting, k)
        /\ Subscribed(c, waiting, k, "wait", NoFlight)
        /\ UNCHANGED <<running, waiting>>
     \/ /\ ~Joins(running, k) /\ ~Joins(waiting, k)
        /\ \E f \in Flight :
             /\ IsFresh(f)
             /\ IF running = NoFlight
                THEN /\ Subscribed(c, f, k, "start", NoFlight)
                     /\ running' = f /\ UNCHANGED waiting
                ELSE /\ Subscribed(c, f, k, IF waiting = NoFlight THEN "wait" ELSE "notify",
                                   waiting)
                     /\ waiting' = f /\ UNCHANGED running

\* The waiter this request replaced fails, outside the lock.
NotifyReplaced(c) ==
  /\ caller[c].pc = "notify"
  /\ outcome' = [outcome EXCEPT ![caller[c].other] = "replaced"]
  /\ caller' = [caller EXCEPT ![c].pc = "wait", ![c].other = NoFlight]
  /\ UNCHANGED <<key, token, thread, subs, lane>>

\* _finished: the waiter becomes the running flight...
Finished(f) ==
  /\ thread[f] = "ended"
  /\ running' = waiting /\ waiting' = NoFlight
  /\ thread' = [thread EXCEPT ![f] = IF waiting = NoFlight THEN "done" ELSE "next"]
  /\ UNCHANGED <<key, outcome, token, subs, caller, cancelling>>

\* Fault: the promoted flight is left to the next request.
MutStartNextNever(f) ==
  /\ thread[f] = "next"
  /\ thread' = [thread EXCEPT ![f] = "done"]
  /\ UNCHANGED <<key, outcome, token, subs, caller, lane>>

\* ... and is started, outside the lock.
StartNext(f) ==
  /\ thread[f] = "next"
  /\ thread' = [thread EXCEPT ![f] = "done", ![running] = "run"]
  /\ UNCHANGED <<key, outcome, token, subs, caller, lane>>

LastOf(c, f) == subs[f] \ {c} = {}

\* Fault: the abandoned run gives up its lane at once.
MutAbandonRunningFreesLane(f) ==
  /\ cancelling' = cancelling \cup {f}
  /\ running' = NoFlight
  /\ UNCHANGED waiting

\* The lane stays occupied until the run returns.
AbandonRunning(f) ==
  /\ cancelling' = cancelling \cup {f}
  /\ UNCHANGED <<running, waiting>>

\* A waiter everyone left loses the slot.
DropWaiting == waiting' = NoFlight /\ UNCHANGED <<running, cancelling>>

\* What _detach cancels once it has released the lock.
OutsideLock(drop) == IF drop THEN "drop" ELSE "cancel"

Detach(c) ==
  LET f == caller[c].flight
      drop == LastOf(c, f) /\ waiting = f
      abandon == LastOf(c, f) /\ CancelAbandoned /\ running = f /\ outcome[f] = "none"
  IN /\ caller[c].pc = "wait"
     /\ \/ drop /\ Detached(c, OutsideLock(TRUE)) /\ DropWaiting
        \/ ~drop /\ abandon /\ Detached(c, OutsideLock(FALSE)) /\ AbandonRunning(f)
        \/ ~drop /\ ~abandon /\ Detached(c, "idle") /\ UNCHANGED lane

\* flight.outcome.cancel() of a dropped waiter, outside the lock.
CancelOutcome(c) ==
  /\ caller[c].pc = "drop"
  /\ outcome' = [outcome EXCEPT ![caller[c].flight] = "dropped"]
  /\ caller' = [caller EXCEPT ![c] = Idle]
  /\ UNCHANGED <<key, token, thread, subs, lane>>

CallerStep(c) ==
  \/ NotifyReplaced(c)
  \/ CancelOutcome(c)
  \/ (StartFlight(c) \/ WaitReturns(c) \/ CancelToken(c)) /\ UNCHANGED lane

Next ==
  \/ \E c \in Caller : Detach(c) \/ CallerStep(c) \/ \E k \in Key : Subscribe(c, k)
  \/ \E f \in Flight : \/ Finished(f) \/ StartNext(f)
                       \/ RunReturns(f) /\ UNCHANGED lane

Spec == Init /\ [][Next]_vars

\* Threads run, and a run whose token is cancelled returns; any other may go on.
FairSpec ==
  /\ Spec
  /\ \A c \in Caller : WF_vars(CallerStep(c))
  /\ \A f \in Flight : /\ WF_vars(Finished(f) \/ StartNext(f))
                       /\ WF_vars(token[f] /\ RunReturns(f) /\ UNCHANGED lane)

-----------------------------------------------------------------------------
(* Properties *)

\* "At most one run per group": from start to return of the callable, also while
\* an abandoned run winds down.
OneRun ==
  \A f, g \in Flight : thread[f] = "run" /\ thread[g] = "run" => f = g

\* Nobody waits for a flight that is given up: a caller that leaves never cancels the
\* run another one waits for, nobody comes to wait for a run that is being cancelled,
\* and "a subscriber still waiting never sees" a dropped waiter's outcome.
GivenUpHasNoWaiter ==
  \A f \in Flight :
    \/ token[f] \/ outcome[f] = "dropped"
    \/ \E c \in Caller : caller[c].pc \in {"cancel", "drop"} /\ caller[c].flight = f
    => Waiters(f) = {}

\* Every caller that waits is answered, its flight run or replaced, provided
\* runs return.
WaitersAreAnswered ==
  (\A f \in Flight : WF_vars(RunReturns(f) /\ UNCHANGED lane))
    => \A c \in Caller : caller[c].pc # "idle" ~> caller[c].pc = "idle"

=============================================================================
