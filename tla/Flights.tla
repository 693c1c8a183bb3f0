------------------------------- MODULE Flights -------------------------------
(***************************************************************************)
(* routes/_shared_flights: a flight is one run on its own thread, whose    *)
(* outcome its subscribers share.  This module is what SharedFlights and   *)
(* LatestWinsQueue have in common: _Flight and FlightSubscription.  Each   *)
(* caller holds at most one subscription at a time.                        *)
(***************************************************************************)
EXTENDS Integers

CONSTANTS
  Caller, Key, NoKey,
  MaxFlights   \* bound: the flights created in a behaviour

ASSUME FlightsAssumption == MaxFlights \in Nat \ {0} /\ NoKey \notin Key

Flight == 1..MaxFlights
NoFlight == 0

VARIABLES
  key,      \* the key of each flight, NoKey before it is created
  outcome,  \* its future: "none", "value" (a result or the run's exception),
            \* "replaced" or "dropped" (cancelled)
  token,    \* its cancellation token was cancelled
  thread,   \* "none" before start, "run", "ended" once the outcome is set,
            \* "next" while _finished starts the next flight, "done"
  subs,     \* its subscribers
  caller    \* what each caller is doing, and with which flights

flightVars == <<key, outcome, token, thread, subs, caller>>

Idle == [pc |-> "idle"]

\* other is the waiter a caller replaced and has yet to tell.
Busy ==
  [pc : {"notify", "start", "wait", "cancel", "drop"},
   flight : Flight, other : Flight \cup {NoFlight}]

FlightsTypeOK ==
  /\ key \in [Flight -> Key \cup {NoKey}]
  /\ outcome \in [Flight -> {"none", "value", "replaced", "dropped"}]
  /\ token \in [Flight -> BOOLEAN]
  /\ thread \in [Flight -> {"none", "run", "ended", "next", "done"}]
  /\ subs \in [Flight -> SUBSET Caller]
  /\ caller \in [Caller -> Busy \cup {Idle}]

FlightsInit ==
  /\ key = [f \in Flight |-> NoKey]
  /\ outcome = [f \in Flight |-> "none"]
  /\ token = [f \in Flight |-> FALSE]
  /\ thread = [f \in Flight |-> "none"]
  /\ subs = [f \in Flight |-> {}]
  /\ caller = [c \in Caller |-> Idle]

\* Flights are numbered in the order they are created; f is the next one.
IsFresh(f) == key[f] = NoKey /\ \A g \in 1..(f - 1) : key[g] # NoKey

\* Caller c gets a subscription of flight f, which is for key k.
Subscribed(c, f, k, next, replaced) ==
  /\ key' = [key EXCEPT ![f] = k]
  /\ subs' = [subs EXCEPT ![f] = @ \cup {c}]
  /\ caller' = [caller EXCEPT ![c] = [pc |-> next, flight |-> f, other |-> replaced]]
  /\ UNCHANGED <<outcome, token, thread>>

\* start, by the caller whose subscribe created the flight.
StartFlight(c) ==
  /\ caller[c].pc = "start"
  /\ thread' = [thread EXCEPT ![caller[c].flight] = "run"]
  /\ caller' = [caller EXCEPT ![c].pc = "wait"]
  /\ UNCHANGED <<key, outcome, token, subs>>

\* target: the run returns or raises, and the outcome is set before on_done.
RunReturns(f) ==
  /\ thread[f] = "run"
  /\ outcome' = [outcome EXCEPT ![f] = "value"]
  /\ thread' = [thread EXCEPT ![f] = "ended"]
  /\ UNCHANGED <<key, token, subs, caller>>

\* wait returns what the outcome holds; the subscription is not detached.
WaitReturns(c) ==
  /\ caller[c].pc = "wait"
  /\ outcome[caller[c].flight] # "none"
  /\ caller' = [caller EXCEPT ![c] = Idle]
  /\ UNCHANGED <<key, outcome, token, thread, subs>>

\* The caller's own token fired: detach, the owner's _detach deciding what is
\* left to do once its lock is released.
Detached(c, next) ==
  /\ caller[c].pc = "wait"
  /\ subs' = [subs EXCEPT ![caller[c].flight] = @ \ {c}]
  /\ caller' = [caller EXCEPT ![c] = IF next = "idle" THEN Idle ELSE [@ EXCEPT !.pc = next]]
  /\ UNCHANGED <<key, outcome, token, thread>>

\* flight.token.cancel(), outside the lock.
CancelToken(c) ==
  /\ caller[c].pc = "cancel"
  /\ token' = [token EXCEPT ![caller[c].flight] = TRUE]
  /\ caller' = [caller EXCEPT ![c] = Idle]
  /\ UNCHANGED <<key, outcome, thread, subs>>

\* Callers that hold an undetached subscription of f and have not been answered.
Waiters(f) == {c \in Caller : caller[c].pc \in {"notify", "start", "wait"} /\ caller[c].flight = f}

\* What SharedFlights promises, "One run per key, shared by every concurrent request
\* for that key": two callers never wait for different flights of the same key that
\* have not ended.
WaitersShareOneRun ==
  \A f, g \in Flight :
    f # g /\ key[f] = key[g] /\ outcome[f] = "none" /\ outcome[g] = "none"
      => Waiters(f) = {} \/ Waiters(g) = {}
=============================================================================
