---------------------------- MODULE FlightsProofs ----------------------------
(***************************************************************************)
(* Theorems about the two owners of flights, for any number of callers,    *)
(* keys and flights.  A group of LatestWinsQueue runs one flight at a time *)
(* and never gives up a flight somebody waits for, whether or not an       *)
(* abandoned run is cancelled; the callers of a key of SharedFlights wait  *)
(* for one run.                                                            *)
(***************************************************************************)
EXTENDS LatestWinsQueue, TLAPS

-----------------------------------------------------------------------------
(* LatestWinsQueue                                                         *)

\* The lane's flights have been created, and a flight only waits behind another.
Lanes ==
  /\ \A f \in Flight : f \in {running, waiting} \cup cancelling => key[f] # NoKey
  /\ waiting # NoFlight => running \notin {NoFlight, waiting} /\ thread[waiting] = "none"
  /\ \A f \in Flight : key[f] = NoKey => thread[f] = "none"

\* A thread that runs, or has ended and not been followed, has the lane.
RunHasLane == \A f \in Flight : thread[f] \in {"run", "ended"} => running = f

\* Who is about to start a flight: its caller, or the thread of the flight before it.
Starts(c) == caller[c].pc = "start"
Promotes(f) == thread[f] = "next"

\* A flight is started once: by the caller that created it, or by the thread that
\* promoted it.
OneStarter ==
  /\ \A c \in Caller : Starts(c) => running = caller[c].flight
  /\ \A c, d \in Caller : Starts(c) /\ Starts(d) => c = d
  /\ \A f, g \in Flight : Promotes(f) /\ Promotes(g) => f = g
  /\ \A c \in Caller, f \in Flight : ~(Starts(c) /\ Promotes(f))
  /\ (\E c \in Caller : Starts(c)) \/ (\E f \in Flight : Promotes(f)) =>
       running # NoFlight /\ thread[running] = "none"

\* Whoever waits is a subscriber.
WaitersSubscribe == \A f \in Flight : Waiters(f) \subseteq subs[f]

\* A run is only cancelled when its flight was marked for it.
CancelledIsMarked ==
  /\ \A f \in Flight : token[f] => f \in cancelling
  /\ \A c \in Caller : caller[c].pc = "cancel" => caller[c].flight \in cancelling
  /\ \A f \in cancelling : Waiters(f) = {}

\* A dropped waiter has left the lane for good.
DroppedIsGone ==
  \A f \in Flight :
    \/ outcome[f] = "dropped"
    \/ \E c \in Caller : caller[c].pc = "drop" /\ caller[c].flight = f
    => key[f] # NoKey /\ f \notin {running, waiting} /\ Waiters(f) = {}

\* The inductive invariant.
IInv ==
  /\ TypeOK
  /\ Lanes
  /\ RunHasLane
  /\ OneStarter
  /\ WaitersSubscribe
  /\ CancelledIsMarked
  /\ DroppedIsGone

-----------------------------------------------------------------------------
(* The steps.                                                              *)

\* The three ways to subscribe.
Join(c, f, k) ==
  /\ caller[c].pc = "idle"
  /\ f \in {running, waiting} /\ key[f] = k /\ f \notin cancelling
  /\ Subscribed(c, f, k, "wait", NoFlight)
  /\ UNCHANGED lane

\* subscribe when the lane is free, and when the key's flight takes or makes the waiting place.
Open(c, f, k) ==
  /\ caller[c].pc = "idle"
  /\ running = NoFlight /\ key[f] = NoKey
  /\ Subscribed(c, f, k, "start", NoFlight)
  /\ running' = f /\ UNCHANGED <<waiting, cancelling>>

Queue(c, f, k) ==
  /\ caller[c].pc = "idle"
  /\ running # NoFlight /\ key[f] = NoKey
  /\ \E pc \in {"wait", "notify"} : Subscribed(c, f, k, pc, waiting)
  /\ waiting' = f /\ UNCHANGED <<running, cancelling>>

\* The three ways to detach.
DetachDrops(c) ==
  /\ caller[c].pc = "wait"
  /\ LastOf(c, caller[c].flight) /\ waiting = caller[c].flight
  /\ Detached(c, "drop")
  /\ DropWaiting

DetachAbandons(c) ==
  /\ caller[c].pc = "wait"
  /\ LastOf(c, caller[c].flight) /\ running = caller[c].flight
  /\ Detached(c, "cancel")
  /\ AbandonRunning(caller[c].flight)

DetachLeaves(c) ==
  /\ caller[c].pc = "wait"
  /\ Detached(c, "idle")
  /\ UNCHANGED lane

\* No flight has the number of none.
LEMMA Numbers == NoFlight \notin Flight
BY DEF NoFlight, Flight

\* subscribe joins a flight, opens a lane, or queues.
LEMMA SubscribeIs ==
  ASSUME TypeOK, NEW c \in Caller, NEW k \in Key, Subscribe(c, k)
  PROVE  \E f \in Flight : Join(c, f, k) \/ Open(c, f, k) \/ Queue(c, f, k)
<1>1. CASE Joins(running, k)
  <2>1. running \in Flight
    BY <1>1 DEF Joins, TypeOK
  <2> QED
    BY <1>1, <2>1 DEF Subscribe, Join, Joins, lane
<1>2. CASE ~Joins(running, k) /\ Joins(waiting, k)
  <2>1. waiting \in Flight
    BY <1>2 DEF Joins, TypeOK
  <2> QED
    BY <1>2, <2>1 DEF Subscribe, Join, Joins, lane
<1>3. CASE ~Joins(running, k) /\ ~Joins(waiting, k)
  BY <1>3 DEF Subscribe, Open, Queue, IsFresh
<1> QED
  BY <1>1, <1>2, <1>3

\* detach drops, abandons, or just leaves.
LEMMA DetachIs ==
  ASSUME NEW c \in Caller, Detach(c)
  PROVE  DetachDrops(c) \/ DetachAbandons(c) \/ DetachLeaves(c)
BY DEF Detach, DetachDrops, DetachAbandons, DetachLeaves, OutsideLock

\* The steps of the queue, one disjunct for each case the proofs tell apart.
LEMMA NextIs ==
  ASSUME TypeOK, Next
  PROVE  \/ \E c \in Caller, f \in Flight, k \in Key :
              Join(c, f, k) \/ Open(c, f, k) \/ Queue(c, f, k)
         \/ \E c \in Caller :
              \/ NotifyReplaced(c) \/ CancelOutcome(c)
              \/ StartFlight(c) /\ UNCHANGED lane
              \/ WaitReturns(c) /\ UNCHANGED lane
              \/ CancelToken(c) /\ UNCHANGED lane
              \/ DetachDrops(c) \/ DetachAbandons(c) \/ DetachLeaves(c)
         \/ \E f \in Flight :
              \/ Finished(f) \/ StartNext(f)
              \/ RunReturns(f) /\ UNCHANGED lane
<1>1. ASSUME NEW c \in Caller, NEW k \in Key, Subscribe(c, k)
      PROVE  \E f \in Flight : Join(c, f, k) \/ Open(c, f, k) \/ Queue(c, f, k)
  BY <1>1, SubscribeIs
<1> QED
  BY <1>1, DetachIs DEF Next, CallerStep

-----------------------------------------------------------------------------
(* Each step keeps each part of the invariant.                             *)

\* The types.
LEMMA TypeStep ==
    ASSUME TypeOK, Next
    PROVE  TypeOK'
<1>1. ASSUME NEW c \in Caller, NEW f \in Flight, NEW k \in Key, Join(c, f, k)
      PROVE  TypeOK'
  BY <1>1, Numbers DEF Join, Subscribed, lane, TypeOK, FlightsTypeOK, Busy, Idle
<1>2. ASSUME NEW c \in Caller, NEW f \in Flight, NEW k \in Key, Open(c, f, k)
      PROVE  TypeOK'
  BY <1>2, Numbers DEF Open, Subscribed, lane, TypeOK, FlightsTypeOK, Busy, Idle
<1>3. ASSUME NEW c \in Caller, NEW f \in Flight, NEW k \in Key, Queue(c, f, k)
      PROVE  TypeOK'
  BY <1>3, Numbers DEF Queue, Subscribed, lane, TypeOK, FlightsTypeOK, Busy,
     Idle
<1>4. ASSUME NEW c \in Caller, NotifyReplaced(c)
      PROVE  TypeOK'
  <2>1. caller[c] \in Busy
    BY <1>4 DEF NotifyReplaced, TypeOK, FlightsTypeOK, Idle
  <2>2. [caller[c] EXCEPT !.pc = "wait", !.other = NoFlight] \in Busy
    BY <2>1 DEF Busy
  <2>3. caller' \in [Caller -> Busy \cup {Idle}]
    BY <1>4, <2>2 DEF NotifyReplaced, TypeOK, FlightsTypeOK
  <2> QED
    BY <1>4, <2>3 DEF NotifyReplaced, lane, TypeOK, FlightsTypeOK
<1>5. ASSUME NEW c \in Caller, CancelOutcome(c)
      PROVE  TypeOK'
  BY <1>5, Numbers DEF CancelOutcome, lane, Idle, TypeOK, FlightsTypeOK, Busy
<1>6. ASSUME NEW c \in Caller, StartFlight(c) /\ UNCHANGED lane
      PROVE  TypeOK'
  BY <1>6, Numbers DEF StartFlight, lane, TypeOK, FlightsTypeOK, Busy, Idle
<1>7. ASSUME NEW c \in Caller, WaitReturns(c) /\ UNCHANGED lane
      PROVE  TypeOK'
  BY <1>7, Numbers DEF WaitReturns, lane, Idle, TypeOK, FlightsTypeOK, Busy
<1>8. ASSUME NEW c \in Caller, CancelToken(c) /\ UNCHANGED lane
      PROVE  TypeOK'
  BY <1>8, Numbers DEF CancelToken, lane, Idle, TypeOK, FlightsTypeOK, Busy
<1>9. ASSUME NEW c \in Caller, DetachDrops(c)
      PROVE  TypeOK'
  BY <1>9, Numbers DEF DetachDrops, DropWaiting, Detached, LastOf, OutsideLock,
     lane, TypeOK, FlightsTypeOK, Busy, Idle
<1>10. ASSUME NEW c \in Caller, DetachAbandons(c)
      PROVE  TypeOK'
  BY <1>10, Numbers DEF DetachAbandons, AbandonRunning, Detached, LastOf,
     OutsideLock, lane, TypeOK, FlightsTypeOK, Busy, Idle
<1>11. ASSUME NEW c \in Caller, DetachLeaves(c)
      PROVE  TypeOK'
  BY <1>11, Numbers DEF DetachLeaves, Idle, Detached, LastOf, OutsideLock, lane,
     TypeOK, FlightsTypeOK, Busy
<1>12. ASSUME NEW f \in Flight, Finished(f)
      PROVE  TypeOK'
  BY <1>12, Numbers DEF Finished, TypeOK, FlightsTypeOK, Busy, Idle
<1>13. ASSUME NEW f \in Flight, StartNext(f)
      PROVE  TypeOK'
  BY <1>13, Numbers DEF StartNext, lane, TypeOK, FlightsTypeOK, Busy, Idle
<1>14. ASSUME NEW f \in Flight, RunReturns(f) /\ UNCHANGED lane
      PROVE  TypeOK'
  BY <1>14, Numbers DEF RunReturns, lane, TypeOK, FlightsTypeOK, Busy, Idle
<1> QED
  BY <1>1, <1>2, <1>3, <1>4, <1>5, <1>6, <1>7, <1>8, <1>9, <1>10, <1>11, <1>12,
     <1>13, <1>14, NextIs

\* What waits has not been started.
LEMMA LanesStep ==
    ASSUME TypeOK, Lanes, RunHasLane, OneStarter, Next
    PROVE  Lanes'
<1>1. ASSUME NEW c \in Caller, NEW f \in Flight, NEW k \in Key, Join(c, f, k)
      PROVE  Lanes'
  BY <1>1, Numbers, FlightsAssumption DEF Join, Subscribed, lane, TypeOK,
     FlightsTypeOK, Lanes, RunHasLane, OneStarter, Starts, Promotes
<1>2. ASSUME NEW c \in Caller, NEW f \in Flight, NEW k \in Key, Open(c, f, k)
      PROVE  Lanes'
  BY <1>2, Numbers, FlightsAssumption DEF Open, Subscribed, lane, TypeOK,
     FlightsTypeOK, Lanes, RunHasLane, OneStarter, Starts, Promotes
<1>3. ASSUME NEW c \in Caller, NEW f \in Flight, NEW k \in Key, Queue(c, f, k)
      PROVE  Lanes'
  BY <1>3, Numbers, FlightsAssumption DEF Queue, Subscribed, lane, TypeOK,
     FlightsTypeOK, Lanes, RunHasLane, OneStarter, Starts, Promotes
<1>4. ASSUME NEW c \in Caller, NotifyReplaced(c)
      PROVE  Lanes'
  BY <1>4, Numbers, FlightsAssumption DEF NotifyReplaced, lane, TypeOK,
     FlightsTypeOK, Lanes, RunHasLane, OneStarter, Starts, Promotes
<1>5. ASSUME NEW c \in Caller, CancelOutcome(c)
      PROVE  Lanes'
  BY <1>5, Numbers, FlightsAssumption DEF CancelOutcome, lane, Idle, TypeOK,
     FlightsTypeOK, Lanes, RunHasLane, OneStarter, Starts, Promotes
<1>6. ASSUME NEW c \in Caller, StartFlight(c) /\ UNCHANGED lane
      PROVE  Lanes'
  BY <1>6, Numbers, FlightsAssumption DEF StartFlight, lane, TypeOK,
     FlightsTypeOK, Lanes, RunHasLane, OneStarter, Starts, Promotes
<1>7. ASSUME NEW c \in Caller, WaitReturns(c) /\ UNCHANGED lane
      PROVE  Lanes'
  BY <1>7, Numbers, FlightsAssumption DEF WaitReturns, lane, Idle, TypeOK,
     FlightsTypeOK, Lanes, RunHasLane, OneStarter, Starts, Promotes
<1>8. ASSUME NEW c \in Caller, CancelToken(c) /\ UNCHANGED lane
      PROVE  Lanes'
  BY <1>8, Numbers, FlightsAssumption DEF CancelToken, lane, Idle, TypeOK,
     FlightsTypeOK, Lanes, RunHasLane, OneStarter, Starts, Promotes
<1>9. ASSUME NEW c \in Caller, DetachDrops(c)
      PROVE  Lanes'
  BY <1>9, Numbers, FlightsAssumption DEF DetachDrops, DropWaiting, Detached,
     LastOf, OutsideLock, lane, TypeOK, FlightsTypeOK, Lanes, RunHasLane,
     OneStarter, Starts, Promotes
<1>10. ASSUME NEW c \in Caller, DetachAbandons(c)
      PROVE  Lanes'
  BY <1>10, Numbers, FlightsAssumption DEF DetachAbandons, AbandonRunning,
     Detached, LastOf, OutsideLock, lane, TypeOK, FlightsTypeOK, Lanes,
     RunHasLane, OneStarter, Starts, Promotes
<1>11. ASSUME NEW c \in Caller, DetachLeaves(c)
      PROVE  Lanes'
  BY <1>11, Numbers, FlightsAssumption DEF DetachLeaves, Idle, Detached, LastOf,
     OutsideLock, lane, TypeOK, FlightsTypeOK, Lanes, RunHasLane, OneStarter,
     Starts, Promotes
<1>12. ASSUME NEW f \in Flight, Finished(f)
      PROVE  Lanes'
  BY <1>12, Numbers, FlightsAssumption DEF Finished, TypeOK, FlightsTypeOK,
     Lanes, RunHasLane, OneStarter, Starts, Promotes
<1>13. ASSUME NEW f \in Flight, StartNext(f)
      PROVE  Lanes'
  BY <1>13, Numbers, FlightsAssumption DEF StartNext, lane, TypeOK,
     FlightsTypeOK, Lanes, RunHasLane, OneStarter, Starts, Promotes
<1>14. ASSUME NEW f \in Flight, RunReturns(f) /\ UNCHANGED lane
      PROVE  Lanes'
  BY <1>14, Numbers, FlightsAssumption DEF RunReturns, lane, TypeOK,
     FlightsTypeOK, Lanes, RunHasLane, OneStarter, Starts, Promotes
<1> QED
  BY <1>1, <1>2, <1>3, <1>4, <1>5, <1>6, <1>7, <1>8, <1>9, <1>10, <1>11, <1>12,
     <1>13, <1>14, NextIs

\* A thread keeps the lane until it is followed.
LEMMA RunStep ==
    ASSUME TypeOK, Lanes, RunHasLane, OneStarter, Next
    PROVE  RunHasLane'
<1>1. ASSUME NEW c \in Caller, NEW f \in Flight, NEW k \in Key, Join(c, f, k)
      PROVE  RunHasLane'
  BY <1>1, Numbers DEF Join, Subscribed, lane, TypeOK, FlightsTypeOK,
     RunHasLane, OneStarter, Starts, Promotes, Lanes
<1>2. ASSUME NEW c \in Caller, NEW f \in Flight, NEW k \in Key, Open(c, f, k)
      PROVE  RunHasLane'
  BY <1>2, Numbers DEF Open, Subscribed, lane, TypeOK, FlightsTypeOK,
     RunHasLane, OneStarter, Starts, Promotes, Lanes
<1>3. ASSUME NEW c \in Caller, NEW f \in Flight, NEW k \in Key, Queue(c, f, k)
      PROVE  RunHasLane'
  BY <1>3, Numbers DEF Queue, Subscribed, lane, TypeOK, FlightsTypeOK,
     RunHasLane, OneStarter, Starts, Promotes, Lanes
<1>4. ASSUME NEW c \in Caller, NotifyReplaced(c)
      PROVE  RunHasLane'
  BY <1>4, Numbers DEF NotifyReplaced, lane, TypeOK, FlightsTypeOK, RunHasLane,
     OneStarter, Starts, Promotes, Lanes
<1>5. ASSUME NEW c \in Caller, CancelOutcome(c)
      PROVE  RunHasLane'
  BY <1>5, Numbers DEF CancelOutcome, lane, Idle, TypeOK, FlightsTypeOK,
     RunHasLane, OneStarter, Starts, Promotes, Lanes
<1>6. ASSUME NEW c \in Caller, StartFlight(c) /\ UNCHANGED lane
      PROVE  RunHasLane'
  BY <1>6, Numbers DEF StartFlight, lane, TypeOK, FlightsTypeOK, RunHasLane,
     OneStarter, Starts, Promotes, Lanes
<1>7. ASSUME NEW c \in Caller, WaitReturns(c) /\ UNCHANGED lane
      PROVE  RunHasLane'
  BY <1>7, Numbers DEF WaitReturns, lane, Idle, TypeOK, FlightsTypeOK,
     RunHasLane, OneStarter, Starts, Promotes, Lanes
<1>8. ASSUME NEW c \in Caller, CancelToken(c) /\ UNCHANGED lane
      PROVE  RunHasLane'
  BY <1>8, Numbers DEF CancelToken, lane, Idle, TypeOK, FlightsTypeOK,
     RunHasLane, OneStarter, Starts, Promotes, Lanes
<1>9. ASSUME NEW c \in Caller, DetachDrops(c)
      PROVE  RunHasLane'
  BY <1>9, Numbers DEF DetachDrops, DropWaiting, Detached, LastOf, OutsideLock,
     lane, TypeOK, FlightsTypeOK, RunHasLane, OneStarter, Starts, Promotes,
     Lanes
<1>10. ASSUME NEW c \in Caller, DetachAbandons(c)
      PROVE  RunHasLane'
  BY <1>10, Numbers DEF DetachAbandons, AbandonRunning, Detached, LastOf,
     OutsideLock, lane, TypeOK, FlightsTypeOK, RunHasLane, OneStarter, Starts,
     Promotes, Lanes
<1>11. ASSUME NEW c \in Caller, DetachLeaves(c)
      PROVE  RunHasLane'
  BY <1>11, Numbers DEF DetachLeaves, Idle, Detached, LastOf, OutsideLock, lane,
     TypeOK, FlightsTypeOK, RunHasLane, OneStarter, Starts, Promotes, Lanes
<1>12. ASSUME NEW f \in Flight, Finished(f)
      PROVE  RunHasLane'
  BY <1>12, Numbers DEF Finished, TypeOK, FlightsTypeOK, RunHasLane, OneStarter,
     Starts, Promotes, Lanes
<1>13. ASSUME NEW f \in Flight, StartNext(f)
      PROVE  RunHasLane'
  BY <1>13, Numbers DEF StartNext, lane, TypeOK, FlightsTypeOK, RunHasLane,
     OneStarter, Starts, Promotes, Lanes
<1>14. ASSUME NEW f \in Flight, RunReturns(f) /\ UNCHANGED lane
      PROVE  RunHasLane'
  BY <1>14, Numbers DEF RunReturns, lane, TypeOK, FlightsTypeOK, RunHasLane,
     OneStarter, Starts, Promotes, Lanes
<1> QED
  BY <1>1, <1>2, <1>3, <1>4, <1>5, <1>6, <1>7, <1>8, <1>9, <1>10, <1>11, <1>12,
     <1>13, <1>14, NextIs

\* The lane changes hands with the duty to start its flight.
LEMMA StarterStep ==
    ASSUME TypeOK, Lanes, RunHasLane, OneStarter, Next
    PROVE  OneStarter'
<1>1. ASSUME NEW c \in Caller, NEW f \in Flight, NEW k \in Key, Join(c, f, k)
      PROVE  OneStarter'
  BY <1>1, Numbers DEF Join, Subscribed, lane, TypeOK, FlightsTypeOK, Starts,
     Promotes, Lanes, RunHasLane, OneStarter
<1>2. ASSUME NEW c \in Caller, NEW f \in Flight, NEW k \in Key, Open(c, f, k)
      PROVE  OneStarter'
  BY <1>2, Numbers DEF Open, Subscribed, lane, TypeOK, FlightsTypeOK, Starts,
     Promotes, Lanes, RunHasLane, OneStarter
<1>3. ASSUME NEW c \in Caller, NEW f \in Flight, NEW k \in Key, Queue(c, f, k)
      PROVE  OneStarter'
  BY <1>3, Numbers DEF Queue, Subscribed, lane, TypeOK, FlightsTypeOK, Starts,
     Promotes, Lanes, RunHasLane, OneStarter
<1>4. ASSUME NEW c \in Caller, NotifyReplaced(c)
      PROVE  OneStarter'
  BY <1>4, Numbers DEF NotifyReplaced, lane, TypeOK, FlightsTypeOK, Starts,
     Promotes, Lanes, RunHasLane, OneStarter
<1>5. ASSUME NEW c \in Caller, CancelOutcome(c)
      PROVE  OneStarter'
  BY <1>5, Numbers DEF CancelOutcome, lane, Idle, TypeOK, FlightsTypeOK, Starts,
     Promotes, Lanes, RunHasLane, OneStarter
<1>6. ASSUME NEW c \in Caller, StartFlight(c) /\ UNCHANGED lane
      PROVE  OneStarter'
  BY <1>6, Numbers DEF StartFlight, lane, TypeOK, FlightsTypeOK, Starts,
     Promotes, Lanes, RunHasLane, OneStarter
<1>7. ASSUME NEW c \in Caller, WaitReturns(c) /\ UNCHANGED lane
      PROVE  OneStarter'
  BY <1>7, Numbers DEF WaitReturns, lane, Idle, TypeOK, FlightsTypeOK, Starts,
     Promotes, Lanes, RunHasLane, OneStarter
<1>8. ASSUME NEW c \in Caller, CancelToken(c) /\ UNCHANGED lane
      PROVE  OneStarter'
  BY <1>8, Numbers DEF CancelToken, lane, Idle, TypeOK, FlightsTypeOK, Starts,
     Promotes, Lanes, RunHasLane, OneStarter
<1>9. ASSUME NEW c \in Caller, DetachDrops(c)
      PROVE  OneStarter'
  BY <1>9, Numbers DEF DetachDrops, DropWaiting, Detached, LastOf, OutsideLock,
     lane, TypeOK, FlightsTypeOK, Starts, Promotes, Lanes, RunHasLane,
     OneStarter
<1>10. ASSUME NEW c \in Caller, DetachAbandons(c)
      PROVE  OneStarter'
  BY <1>10, Numbers DEF DetachAbandons, AbandonRunning, Detached, LastOf,
     OutsideLock, lane, TypeOK, FlightsTypeOK, Starts, Promotes, Lanes,
     RunHasLane, OneStarter
<1>11. ASSUME NEW c \in Caller, DetachLeaves(c)
      PROVE  OneStarter'
  BY <1>11, Numbers DEF DetachLeaves, Idle, Detached, LastOf, OutsideLock, lane,
     TypeOK, FlightsTypeOK, Starts, Promotes, Lanes, RunHasLane, OneStarter
<1>12. ASSUME NEW f \in Flight, Finished(f)
      PROVE  OneStarter'
  BY <1>12, Numbers DEF Finished, TypeOK, FlightsTypeOK, Starts, Promotes,
     Lanes, RunHasLane, OneStarter
<1>13. ASSUME NEW f \in Flight, StartNext(f)
      PROVE  OneStarter'
  BY <1>13, Numbers DEF StartNext, lane, TypeOK, FlightsTypeOK, Starts,
     Promotes, Lanes, RunHasLane, OneStarter
<1>14. ASSUME NEW f \in Flight, RunReturns(f) /\ UNCHANGED lane
      PROVE  OneStarter'
  BY <1>14, Numbers DEF RunReturns, lane, TypeOK, FlightsTypeOK, Starts,
     Promotes, Lanes, RunHasLane, OneStarter
<1> QED
  BY <1>1, <1>2, <1>3, <1>4, <1>5, <1>6, <1>7, <1>8, <1>9, <1>10, <1>11, <1>12,
     <1>13, <1>14, NextIs

\* A subscriber is only removed by its own detach.
LEMMA SubscribeStep ==
    ASSUME TypeOK, WaitersSubscribe, Next
    PROVE  WaitersSubscribe'
<1>1. ASSUME NEW c \in Caller, NEW f \in Flight, NEW k \in Key, Join(c, f, k)
      PROVE  WaitersSubscribe'
  BY <1>1, Numbers DEF Join, Subscribed, lane, TypeOK, FlightsTypeOK,
     WaitersSubscribe, Waiters
<1>2. ASSUME NEW c \in Caller, NEW f \in Flight, NEW k \in Key, Open(c, f, k)
      PROVE  WaitersSubscribe'
  BY <1>2, Numbers DEF Open, Subscribed, lane, TypeOK, FlightsTypeOK,
     WaitersSubscribe, Waiters
<1>3. ASSUME NEW c \in Caller, NEW f \in Flight, NEW k \in Key, Queue(c, f, k)
      PROVE  WaitersSubscribe'
  BY <1>3, Numbers DEF Queue, Subscribed, lane, TypeOK, FlightsTypeOK,
     WaitersSubscribe, Waiters
<1>4. ASSUME NEW c \in Caller, NotifyReplaced(c)
      PROVE  WaitersSubscribe'
  BY <1>4, Numbers DEF NotifyReplaced, lane, TypeOK, FlightsTypeOK,
     WaitersSubscribe, Waiters
<1>5. ASSUME NEW c \in Caller, CancelOutcome(c)
      PROVE  WaitersSubscribe'
  BY <1>5, Numbers DEF CancelOutcome, lane, Idle, TypeOK, FlightsTypeOK,
     WaitersSubscribe, Waiters
<1>6. ASSUME NEW c \in Caller, StartFlight(c) /\ UNCHANGED lane
      PROVE  WaitersSubscribe'
  BY <1>6, Numbers DEF StartFlight, lane, TypeOK, FlightsTypeOK,
     WaitersSubscribe, Waiters
<1>7. ASSUME NEW c \in Caller, WaitReturns(c) /\ UNCHANGED lane
      PROVE  WaitersSubscribe'
  BY <1>7, Numbers DEF WaitReturns, lane, Idle, TypeOK, FlightsTypeOK,
     WaitersSubscribe, Waiters
<1>8. ASSUME NEW c \in Caller, CancelToken(c) /\ UNCHANGED lane
      PROVE  WaitersSubscribe'
  BY <1>8, Numbers DEF CancelToken, lane, Idle, TypeOK, FlightsTypeOK,
     WaitersSubscribe, Waiters
<1>9. ASSUME NEW c \in Caller, DetachDrops(c)
      PROVE  WaitersSubscribe'
  BY <1>9, Numbers DEF DetachDrops, DropWaiting, Detached, LastOf, OutsideLock,
     lane, TypeOK, FlightsTypeOK, WaitersSubscribe, Waiters
<1>10. ASSUME NEW c \in Caller, DetachAbandons(c)
      PROVE  WaitersSubscribe'
  BY <1>10, Numbers DEF DetachAbandons, AbandonRunning, Detached, LastOf,
     OutsideLock, lane, TypeOK, FlightsTypeOK, WaitersSubscribe, Waiters
<1>11. ASSUME NEW c \in Caller, DetachLeaves(c)
      PROVE  WaitersSubscribe'
  BY <1>11, Numbers DEF DetachLeaves, Idle, Detached, LastOf, OutsideLock, lane,
     TypeOK, FlightsTypeOK, WaitersSubscribe, Waiters
<1>12. ASSUME NEW f \in Flight, Finished(f)
      PROVE  WaitersSubscribe'
  BY <1>12, Numbers DEF Finished, TypeOK, FlightsTypeOK, WaitersSubscribe,
     Waiters
<1>13. ASSUME NEW f \in Flight, StartNext(f)
      PROVE  WaitersSubscribe'
  BY <1>13, Numbers DEF StartNext, lane, TypeOK, FlightsTypeOK,
     WaitersSubscribe, Waiters
<1>14. ASSUME NEW f \in Flight, RunReturns(f) /\ UNCHANGED lane
      PROVE  WaitersSubscribe'
  BY <1>14, Numbers DEF RunReturns, lane, TypeOK, FlightsTypeOK,
     WaitersSubscribe, Waiters
<1> QED
  BY <1>1, <1>2, <1>3, <1>4, <1>5, <1>6, <1>7, <1>8, <1>9, <1>10, <1>11, <1>12,
     <1>13, <1>14, NextIs

\* A run is marked once its last subscriber left, and not joined since.
LEMMA CancelledStep ==
    ASSUME TypeOK, Lanes, WaitersSubscribe, CancelledIsMarked, Next
    PROVE  CancelledIsMarked'
<1>1. ASSUME NEW c \in Caller, NEW f \in Flight, NEW k \in Key, Join(c, f, k)
      PROVE  CancelledIsMarked'
  BY <1>1, Numbers DEF Join, Subscribed, lane, TypeOK, FlightsTypeOK,
     CancelledIsMarked, Lanes, WaitersSubscribe, Waiters
<1>2. ASSUME NEW c \in Caller, NEW f \in Flight, NEW k \in Key, Open(c, f, k)
      PROVE  CancelledIsMarked'
  BY <1>2, Numbers DEF Open, Subscribed, lane, TypeOK, FlightsTypeOK,
     CancelledIsMarked, Lanes, WaitersSubscribe, Waiters
<1>3. ASSUME NEW c \in Caller, NEW f \in Flight, NEW k \in Key, Queue(c, f, k)
      PROVE  CancelledIsMarked'
  BY <1>3, Numbers DEF Queue, Subscribed, lane, TypeOK, FlightsTypeOK,
     CancelledIsMarked, Lanes, WaitersSubscribe, Waiters
<1>4. ASSUME NEW c \in Caller, NotifyReplaced(c)
      PROVE  CancelledIsMarked'
  BY <1>4, Numbers DEF NotifyReplaced, lane, TypeOK, FlightsTypeOK,
     CancelledIsMarked, Lanes, WaitersSubscribe, Waiters
<1>5. ASSUME NEW c \in Caller, CancelOutcome(c)
      PROVE  CancelledIsMarked'
  BY <1>5, Numbers DEF CancelOutcome, lane, Idle, TypeOK, FlightsTypeOK,
     CancelledIsMarked, Lanes, WaitersSubscribe, Waiters
<1>6. ASSUME NEW c \in Caller, StartFlight(c) /\ UNCHANGED lane
      PROVE  CancelledIsMarked'
  BY <1>6, Numbers DEF StartFlight, lane, TypeOK, FlightsTypeOK,
     CancelledIsMarked, Lanes, WaitersSubscribe, Waiters
<1>7. ASSUME NEW c \in Caller, WaitReturns(c) /\ UNCHANGED lane
      PROVE  CancelledIsMarked'
  BY <1>7, Numbers DEF WaitReturns, lane, Idle, TypeOK, FlightsTypeOK,
     CancelledIsMarked, Lanes, WaitersSubscribe, Waiters
<1>8. ASSUME NEW c \in Caller, CancelToken(c) /\ UNCHANGED lane
      PROVE  CancelledIsMarked'
  BY <1>8, Numbers DEF CancelToken, lane, Idle, TypeOK, FlightsTypeOK,
     CancelledIsMarked, Lanes, WaitersSubscribe, Waiters
<1>9. ASSUME NEW c \in Caller, DetachDrops(c)
      PROVE  CancelledIsMarked'
  BY <1>9, Numbers DEF DetachDrops, DropWaiting, Detached, LastOf, OutsideLock,
     lane, TypeOK, FlightsTypeOK, CancelledIsMarked, Lanes, WaitersSubscribe,
     Waiters
<1>10. ASSUME NEW c \in Caller, DetachAbandons(c)
      PROVE  CancelledIsMarked'
  <2>1. PICK f : f = caller[c].flight
    OBVIOUS
  <2>2. /\ caller[c].pc = "wait" /\ subs[f] \ {c} = {} /\ running = f
        /\ cancelling' = cancelling \cup {f} /\ token' = token
        /\ caller' = [caller EXCEPT ![c] = [caller[c] EXCEPT !.pc = "cancel"]]
    BY <1>10, <2>1 DEF DetachAbandons, LastOf, Detached, AbandonRunning
  <2>3. f \in Flight
    BY <2>1, <2>2 DEF TypeOK, FlightsTypeOK, Busy, Idle
  <2>4. /\ caller'[c].pc = "cancel" /\ caller'[c].flight = f
        /\ \A d \in Caller \ {c} : caller'[d] = caller[d]
    BY <2>1, <2>2 DEF TypeOK, FlightsTypeOK, Busy, Idle
  <2>5. \A g \in Flight : Waiters(g)' \subseteq Waiters(g) \ {c}
    BY <2>4 DEF Waiters
  <2>6. Waiters(f)' = {}
    BY <2>2, <2>3, <2>5 DEF WaitersSubscribe
  <2>7. \A g \in cancelling' : Waiters(g)' = {}
    BY <2>2, <2>5, <2>6 DEF CancelledIsMarked, TypeOK
  <2> QED
    BY <2>2, <2>4, <2>7 DEF CancelledIsMarked
<1>11. ASSUME NEW c \in Caller, DetachLeaves(c)
      PROVE  CancelledIsMarked'
  BY <1>11, Numbers DEF DetachLeaves, Idle, Detached, LastOf, OutsideLock, lane,
     TypeOK, FlightsTypeOK, CancelledIsMarked, Lanes, WaitersSubscribe, Waiters
<1>12. ASSUME NEW f \in Flight, Finished(f)
      PROVE  CancelledIsMarked'
  BY <1>12, Numbers DEF Finished, TypeOK, FlightsTypeOK, CancelledIsMarked,
     Lanes, WaitersSubscribe, Waiters
<1>13. ASSUME NEW f \in Flight, StartNext(f)
      PROVE  CancelledIsMarked'
  BY <1>13, Numbers DEF StartNext, lane, TypeOK, FlightsTypeOK,
     CancelledIsMarked, Lanes, WaitersSubscribe, Waiters
<1>14. ASSUME NEW f \in Flight, RunReturns(f) /\ UNCHANGED lane
      PROVE  CancelledIsMarked'
  BY <1>14, Numbers DEF RunReturns, lane, TypeOK, FlightsTypeOK,
     CancelledIsMarked, Lanes, WaitersSubscribe, Waiters
<1> QED
  BY <1>1, <1>2, <1>3, <1>4, <1>5, <1>6, <1>7, <1>8, <1>9, <1>10, <1>11, <1>12,
     <1>13, <1>14, NextIs

\* A dropped waiter is not joined, promoted or replaced.
LEMMA DroppedStep ==
    ASSUME TypeOK, Lanes, WaitersSubscribe, DroppedIsGone, Next
    PROVE  DroppedIsGone'
<1>1. ASSUME NEW c \in Caller, NEW f \in Flight, NEW k \in Key, Join(c, f, k)
      PROVE  DroppedIsGone'
  BY <1>1, Numbers DEF Join, Subscribed, lane, TypeOK, FlightsTypeOK,
     DroppedIsGone, Lanes, WaitersSubscribe, Waiters
<1>2. ASSUME NEW c \in Caller, NEW f \in Flight, NEW k \in Key, Open(c, f, k)
      PROVE  DroppedIsGone'
  BY <1>2, Numbers DEF Open, Subscribed, lane, TypeOK, FlightsTypeOK,
     DroppedIsGone, Lanes, WaitersSubscribe, Waiters
<1>3. ASSUME NEW c \in Caller, NEW f \in Flight, NEW k \in Key, Queue(c, f, k)
      PROVE  DroppedIsGone'
  BY <1>3, Numbers DEF Queue, Subscribed, lane, TypeOK, FlightsTypeOK,
     DroppedIsGone, Lanes, WaitersSubscribe, Waiters
<1>4. ASSUME NEW c \in Caller, NotifyReplaced(c)
      PROVE  DroppedIsGone'
  BY <1>4, Numbers DEF NotifyReplaced, lane, TypeOK, FlightsTypeOK,
     DroppedIsGone, Lanes, WaitersSubscribe, Waiters
<1>5. ASSUME NEW c \in Caller, CancelOutcome(c)
      PROVE  DroppedIsGone'
  BY <1>5, Numbers DEF CancelOutcome, lane, Idle, TypeOK, FlightsTypeOK,
     DroppedIsGone, Lanes, WaitersSubscribe, Waiters
<1>6. ASSUME NEW c \in Caller, StartFlight(c) /\ UNCHANGED lane
      PROVE  DroppedIsGone'
  BY <1>6, Numbers DEF StartFlight, lane, TypeOK, FlightsTypeOK, DroppedIsGone,
     Lanes, WaitersSubscribe, Waiters
<1>7. ASSUME NEW c \in Caller, WaitReturns(c) /\ UNCHANGED lane
      PROVE  DroppedIsGone'
  BY <1>7, Numbers DEF WaitReturns, lane, Idle, TypeOK, FlightsTypeOK,
     DroppedIsGone, Lanes, WaitersSubscribe, Waiters
<1>8. ASSUME NEW c \in Caller, CancelToken(c) /\ UNCHANGED lane
      PROVE  DroppedIsGone'
  BY <1>8, Numbers DEF CancelToken, lane, Idle, TypeOK, FlightsTypeOK,
     DroppedIsGone, Lanes, WaitersSubscribe, Waiters
<1>9. ASSUME NEW c \in Caller, DetachDrops(c)
      PROVE  DroppedIsGone'
  BY <1>9, Numbers DEF DetachDrops, DropWaiting, Detached, LastOf, OutsideLock,
     lane, TypeOK, FlightsTypeOK, DroppedIsGone, Lanes, WaitersSubscribe,
     Waiters
<1>10. ASSUME NEW c \in Caller, DetachAbandons(c)
      PROVE  DroppedIsGone'
  BY <1>10, Numbers DEF DetachAbandons, AbandonRunning, Detached, LastOf,
     OutsideLock, lane, TypeOK, FlightsTypeOK, DroppedIsGone, Lanes,
     WaitersSubscribe, Waiters
<1>11. ASSUME NEW c \in Caller, DetachLeaves(c)
      PROVE  DroppedIsGone'
  BY <1>11, Numbers DEF DetachLeaves, Idle, Detached, LastOf, OutsideLock, lane,
     TypeOK, FlightsTypeOK, DroppedIsGone, Lanes, WaitersSubscribe, Waiters
<1>12. ASSUME NEW f \in Flight, Finished(f)
      PROVE  DroppedIsGone'
  BY <1>12, Numbers DEF Finished, TypeOK, FlightsTypeOK, DroppedIsGone, Lanes,
     WaitersSubscribe, Waiters
<1>13. ASSUME NEW f \in Flight, StartNext(f)
      PROVE  DroppedIsGone'
  BY <1>13, Numbers DEF StartNext, lane, TypeOK, FlightsTypeOK, DroppedIsGone,
     Lanes, WaitersSubscribe, Waiters
<1>14. ASSUME NEW f \in Flight, RunReturns(f) /\ UNCHANGED lane
      PROVE  DroppedIsGone'
  BY <1>14, Numbers DEF RunReturns, lane, TypeOK, FlightsTypeOK, DroppedIsGone,
     Lanes, WaitersSubscribe, Waiters
<1> QED
  BY <1>1, <1>2, <1>3, <1>4, <1>5, <1>6, <1>7, <1>8, <1>9, <1>10, <1>11, <1>12,
     <1>13, <1>14, NextIs

-----------------------------------------------------------------------------
(* The invariant, and what it shows.                                       *)

\* The first states satisfy the inductive invariant.
LEMMA InitIInv == Init => IInv
BY Numbers
DEF Init, FlightsInit, IInv, TypeOK, FlightsTypeOK, Lanes, RunHasLane, OneStarter, Starts,
    Promotes, WaitersSubscribe, Waiters, CancelledIsMarked, DroppedIsGone, Idle

\* Every step preserves the inductive invariant.
LEMMA NextIInv == IInv /\ [Next]_vars => IInv'
<1>1. ASSUME IInv, Next
      PROVE  IInv'
  BY <1>1, TypeStep, LanesStep, RunStep, StarterStep, SubscribeStep, CancelledStep,
     DroppedStep DEF IInv
<1>2. ASSUME IInv, UNCHANGED vars
      PROVE  IInv'
  BY <1>2 DEF vars, IInv, TypeOK, FlightsTypeOK, Lanes, RunHasLane, OneStarter, Starts,
     Promotes, WaitersSubscribe, Waiters, CancelledIsMarked, DroppedIsGone
<1> QED
  BY <1>1, <1>2

\* The lane, its flights and their callers stay consistent: what the theorems below
\* are read off.
THEOREM SpecIInv == Spec => []IInv
BY InitIInv, NextIInv, PTL DEF Spec

\* At most one callable of a group is in progress, from its start to its return, an
\* abandoned run that winds down included (LatestWinsQueue._finished, _detach).
THEOREM SpecOneRun == Spec => []OneRun
<1>1. IInv => OneRun
  BY DEF IInv, RunHasLane, OneRun
<1> QED
  BY <1>1, SpecIInv, PTL

\* A caller that leaves never cancels what another one waits for, and nobody comes to
\* wait for what is being cancelled (LatestWinsQueue.subscribe, _detach).
THEOREM SpecGivenUpHasNoWaiter == Spec => []GivenUpHasNoWaiter
<1>1. IInv => GivenUpHasNoWaiter
  BY DEF IInv, CancelledIsMarked, DroppedIsGone, GivenUpHasNoWaiter
<1> QED
  BY <1>1, SpecIInv, PTL

-----------------------------------------------------------------------------
(* SharedFlights                                                           *)

VARIABLE flights   \* _flights of SharedFlights

Shared == INSTANCE SharedFlights

\* A key's flight has that key.
NamedHasKey == \A k \in Key : flights[k] # NoFlight => key[flights[k]] = k

\* A flight nobody created has no caller.
UnmadeIsBare == \A f \in Flight : key[f] = NoKey => Waiters(f) = {}

\* A thread that is past its run has set the outcome.
EndedHasOutcome == \A f \in Flight : thread[f] = "ended" => outcome[f] # "none"

\* What somebody waits for is the flight of its key until it has an outcome.
WaitedIsNamed ==
  \A f \in Flight : Waiters(f) # {} /\ outcome[f] = "none" => flights[key[f]] = f

\* The inductive invariant of SharedFlights.
SharedInv ==
  /\ Shared!TypeOK
  /\ NamedHasKey
  /\ UnmadeIsBare
  /\ WaitersSubscribe
  /\ EndedHasOutcome
  /\ WaitedIsNamed

\* The first states satisfy the invariant of SharedFlights.
LEMMA InitSharedInv == Shared!Init => SharedInv
BY Numbers
DEF Shared!Init, Shared!FlightsInit, SharedInv, Shared!TypeOK, Shared!FlightsTypeOK,
    Shared!Idle, Shared!NoFlight, Shared!Flight, Flight, NoFlight, NamedHasKey, UnmadeIsBare,
    WaitersSubscribe, EndedHasOutcome, WaitedIsNamed, Waiters

\* subscribe: the key's flight is joined, or a new one becomes it.
LEMMA SharedSubscribe ==
  ASSUME SharedInv, NEW c \in Caller, NEW k \in Key, Shared!Subscribe(c, k)
  PROVE  SharedInv'
<1> USE DEF SharedInv
<1>1. PICK f \in Flight, pc \in {"wait", "start"} :
        /\ Shared!Subscribed(c, f, k, pc, NoFlight)
        /\ \/ flights[k] = f /\ flights' = flights
           \/ /\ flights[k] = NoFlight /\ key[f] = NoKey
              /\ flights' = [flights EXCEPT ![k] = f]
  <2>1. CASE flights[k] # NoFlight
    BY <2>1 DEF Shared!Subscribe, Shared!NoFlight, NoFlight, Shared!Flight, Flight,
       Shared!TypeOK
  <2>2. CASE flights[k] = NoFlight
    BY <2>2 DEF Shared!Subscribe, Shared!NoFlight, NoFlight, Shared!Flight, Flight,
       Shared!IsFresh
  <2> QED
    BY <2>1, <2>2
<1>2. /\ caller[c].pc = "idle"
      /\ key' = [key EXCEPT ![f] = k]
      /\ subs' = [subs EXCEPT ![f] = @ \cup {c}]
      /\ caller' = [caller EXCEPT ![c] = [pc |-> pc, flight |-> f, other |-> NoFlight]]
      /\ UNCHANGED <<outcome, token, thread>>
  BY <1>1 DEF Shared!Subscribed, Shared!Subscribe
<1>3. /\ key \in [Flight -> Key \cup {NoKey}] /\ subs \in [Flight -> SUBSET Caller]
      /\ caller \in [Caller -> Shared!Busy \cup {Shared!Idle}]
      /\ flights \in [Key -> Flight \cup {NoFlight}]
  BY DEF Shared!TypeOK, Shared!FlightsTypeOK, Shared!Flight, Flight, Shared!NoFlight, NoFlight
<1>4. key[f] \in {k, NoKey} /\ k # NoKey
  BY <1>1, <1>3, Numbers, FlightsAssumption DEF NamedHasKey
<1>5. Waiters(f)' = Waiters(f) \cup {c}
      /\ \A g \in Flight : g # f => Waiters(g)' = Waiters(g)
  BY <1>2, <1>3 DEF Waiters
<1>6. Shared!TypeOK'
  <2>1. [pc |-> pc, flight |-> f, other |-> NoFlight] \in Shared!Busy
    BY DEF Shared!Busy, Shared!Flight, Flight, Shared!NoFlight, NoFlight
  <2>2. caller' \in [Caller -> Shared!Busy \cup {Shared!Idle}]
    BY <1>2, <1>3, <2>1
  <2>3. flights' \in [Key -> Flight \cup {NoFlight}]
    BY <1>1, <1>3
  <2> QED
    BY <1>2, <1>3, <2>2, <2>3
    DEF Shared!TypeOK, Shared!FlightsTypeOK, Shared!Flight, Flight, Shared!NoFlight, NoFlight
<1>7. NamedHasKey'
  <2> SUFFICES ASSUME NEW i \in Key, flights'[i] # NoFlight PROVE key'[flights'[i]] = i
    BY DEF NamedHasKey
  <2>1. CASE i = k
    BY <1>1, <1>2, <1>3, <2>1
  <2>2. CASE i # k
    <3>1. flights'[i] = flights[i] /\ key[flights[i]] = i /\ flights[i] \in Flight
      BY <1>1, <1>3, <2>2 DEF NamedHasKey
    <3>2. flights[i] # f
      BY <1>4, <2>2, <3>1, FlightsAssumption
    <3> QED
      BY <1>2, <1>3, <3>1, <3>2
  <2> QED
    BY <2>1, <2>2
<1>8. UnmadeIsBare'
  BY <1>2, <1>3, <1>4, <1>5 DEF UnmadeIsBare
<1>9. WaitersSubscribe'
  BY <1>2, <1>3, <1>5 DEF WaitersSubscribe
<1>10. EndedHasOutcome'
  BY <1>2 DEF EndedHasOutcome
<1>11. WaitedIsNamed'
  <2> SUFFICES ASSUME NEW g \in Flight, Waiters(g)' # {}, outcome'[g] = "none"
               PROVE  flights'[key'[g]] = g
    BY DEF WaitedIsNamed
  <2>1. CASE g = f
    BY <1>1, <1>2, <1>3, <2>1
  <2>2. CASE g # f
    <3>1. key'[g] = key[g] /\ flights[key[g]] = g
      BY <1>2, <1>3, <1>5, <2>2 DEF WaitedIsNamed
    <3>2. key[g] \in Key
      BY <1>3, <1>5, <2>2 DEF UnmadeIsBare
    <3>3. key[g] # k
      BY <1>1, <2>2, <3>1, Numbers
    <3> QED
      BY <1>1, <1>3, <3>1, <3>2, <3>3
  <2> QED
    BY <2>1, <2>2
<1> QED
  BY <1>6, <1>7, <1>8, <1>9, <1>10, <1>11

\* detach: a key only loses the flight that its last caller leaves.
LEMMA SharedDetach ==
  ASSUME SharedInv, NEW c \in Caller, Shared!Detach(c)
  PROVE  SharedInv'
<1> USE DEF SharedInv
<1> DEFINE f == caller[c].flight
<1>1. PICK next \in {"cancel", "idle"} :
        /\ Shared!Detached(c, next)
        /\ \/ flights' = flights
           \/ /\ subs[f] \ {c} = {}
              /\ flights' = [flights EXCEPT ![key[f]] = IF @ = f THEN NoFlight ELSE @]
  BY DEF Shared!Detach, Shared!Abandoned, Shared!Released, Shared!NoFlight, NoFlight
<1>2. /\ caller[c].pc = "wait"
      /\ subs' = [subs EXCEPT ![f] = @ \ {c}]
      /\ caller' = [caller EXCEPT ![c] = IF next = "idle" THEN Shared!Idle
                                         ELSE [@ EXCEPT !.pc = next]]
      /\ UNCHANGED <<key, outcome, token, thread>>
  BY <1>1 DEF Shared!Detached
<1>3. /\ key \in [Flight -> Key \cup {NoKey}] /\ subs \in [Flight -> SUBSET Caller]
      /\ caller \in [Caller -> Shared!Busy \cup {Shared!Idle}]
      /\ flights \in [Key -> Flight \cup {NoFlight}]
  BY DEF Shared!TypeOK, Shared!FlightsTypeOK, Shared!Flight, Flight, Shared!NoFlight, NoFlight
<1>4. caller[c] \in Shared!Busy /\ f \in Flight /\ c \in Waiters(f)
  BY <1>2, <1>3 DEF Shared!Busy, Shared!Idle, Shared!Flight, Flight, Waiters
<1>5. caller'[c].pc \in {"cancel", "idle"} /\ caller'[c] \in Shared!Busy \cup {Shared!Idle}
  BY <1>1, <1>2, <1>3, <1>4 DEF Shared!Busy, Shared!Idle
<1>6. \A g \in Flight : Waiters(g)' = Waiters(g) \ {c}
  BY <1>2, <1>3, <1>5 DEF Waiters
<1>7. Shared!TypeOK'
  <2>1. caller' \in [Caller -> Shared!Busy \cup {Shared!Idle}]
    BY <1>2, <1>3, <1>5
  <2>2. flights' \in [Key -> Flight \cup {NoFlight}]
    BY <1>1, <1>3
  <2>3. subs' \in [Flight -> SUBSET Caller]
    BY <1>2, <1>3
  <2> QED
    BY <1>2, <1>3, <2>1, <2>2, <2>3
    DEF Shared!TypeOK, Shared!FlightsTypeOK, Shared!Flight, Flight, Shared!NoFlight, NoFlight
<1>8. NamedHasKey'
  BY <1>1, <1>2, <1>3 DEF NamedHasKey
<1>9. UnmadeIsBare'
  BY <1>2, <1>6 DEF UnmadeIsBare
<1>10. WaitersSubscribe'
  BY <1>2, <1>3, <1>6 DEF WaitersSubscribe
<1>11. EndedHasOutcome'
  BY <1>2 DEF EndedHasOutcome
<1>12. WaitedIsNamed'
  <2> SUFFICES ASSUME NEW g \in Flight, Waiters(g)' # {}, outcome'[g] = "none"
               PROVE  flights'[key[g]] = g
    BY <1>2 DEF WaitedIsNamed
  <2>1. flights[key[g]] = g /\ key[g] \in Key
    BY <1>2, <1>3, <1>6 DEF WaitedIsNamed, UnmadeIsBare
  <2>2. CASE g = f
    BY <1>1, <1>6, <2>1, <2>2 DEF WaitersSubscribe
  <2>3. CASE g # f
    BY <1>1, <1>3, <2>1, <2>3
  <2> QED
    BY <2>2, <2>3
<1> QED
  BY <1>7, <1>8, <1>9, <1>10, <1>11, <1>12

\* The steps of a caller outside the lock take nothing from a flight.
LEMMA SharedCallerStep ==
  ASSUME SharedInv, NEW c \in Caller, Shared!CallerStep(c)
  PROVE  SharedInv'
<1> USE DEF SharedInv
<1>1. /\ key \in [Flight -> Key \cup {NoKey}]
      /\ caller \in [Caller -> Shared!Busy \cup {Shared!Idle}]
      /\ thread \in [Flight -> {"none", "run", "ended", "next", "done"}]
      /\ token \in [Flight -> BOOLEAN]
  BY DEF Shared!TypeOK, Shared!FlightsTypeOK, Shared!Flight, Flight
<1>2. UNCHANGED <<key, outcome, subs, flights>>
  BY DEF Shared!CallerStep, Shared!StartFlight, Shared!WaitReturns, Shared!CancelToken
<1>3. caller[c] \in Shared!Busy /\ caller[c].flight \in Flight
  BY <1>1 DEF Shared!CallerStep, Shared!StartFlight, Shared!WaitReturns, Shared!CancelToken,
     Shared!Busy, Shared!Idle, Shared!Flight, Flight
<1>4. \/ caller' = [caller EXCEPT ![c].pc = "wait"] /\ caller[c].pc = "start"
      \/ caller' = [caller EXCEPT ![c] = Shared!Idle]
  BY DEF Shared!CallerStep, Shared!StartFlight, Shared!WaitReturns, Shared!CancelToken
<1>5. \A g \in Flight : Waiters(g)' \subseteq Waiters(g)
  <2>1. CASE caller' = [caller EXCEPT ![c].pc = "wait"] /\ caller[c].pc = "start"
    BY <1>1, <1>3, <2>1 DEF Waiters, Shared!Busy
  <2>2. CASE caller' = [caller EXCEPT ![c] = Shared!Idle]
    BY <1>1, <2>2 DEF Waiters, Shared!Idle
  <2> QED
    BY <1>4, <2>1, <2>2
<1>6. caller' \in [Caller -> Shared!Busy \cup {Shared!Idle}]
  <2>1. [caller[c] EXCEPT !.pc = "wait"] \in Shared!Busy
    BY <1>3 DEF Shared!Busy
  <2> QED
    BY <1>1, <1>4, <2>1
<1>7. thread' = thread \/ thread' = [thread EXCEPT ![caller[c].flight] = "run"]
  BY DEF Shared!CallerStep, Shared!StartFlight, Shared!WaitReturns, Shared!CancelToken
<1>8. token' = token \/ token' = [token EXCEPT ![caller[c].flight] = TRUE]
  BY DEF Shared!CallerStep, Shared!StartFlight, Shared!WaitReturns, Shared!CancelToken
<1>9. Shared!TypeOK'
  BY <1>1, <1>2, <1>6, <1>7, <1>8
  DEF Shared!TypeOK, Shared!FlightsTypeOK, Shared!Flight
<1>10. EndedHasOutcome'
  BY <1>1, <1>2, <1>7 DEF EndedHasOutcome
<1>11. NamedHasKey' /\ UnmadeIsBare' /\ WaitersSubscribe' /\ WaitedIsNamed'
  BY <1>2, <1>5 DEF NamedHasKey, UnmadeIsBare, WaitersSubscribe, WaitedIsNamed
<1> QED
  BY <1>9, <1>10, <1>11

\* A run that returns has set its outcome by the time its key is released.
LEMMA SharedThreadStep ==
  ASSUME SharedInv, NEW f \in Flight,
         Shared!Finished(f) \/ (Shared!RunReturns(f) /\ UNCHANGED flights)
  PROVE  SharedInv'
<1> USE DEF SharedInv
<1>1. /\ key \in [Flight -> Key \cup {NoKey}]
      /\ thread \in [Flight -> {"none", "run", "ended", "next", "done"}]
      /\ outcome \in [Flight -> {"none", "value", "replaced", "dropped"}]
      /\ flights \in [Key -> Flight \cup {NoFlight}]
  BY DEF Shared!TypeOK, Shared!FlightsTypeOK, Shared!Flight, Flight, Shared!NoFlight, NoFlight
<1>2. UNCHANGED <<key, token, subs, caller>>
  BY DEF Shared!Finished, Shared!RunReturns
<1>3. \A g \in Flight : Waiters(g)' = Waiters(g)
  BY <1>2 DEF Waiters
<1>4. CASE Shared!Finished(f)
  <2>1. /\ thread[f] = "ended" /\ thread' = [thread EXCEPT ![f] = "done"]
        /\ outcome' = outcome
        /\ flights' = [flights EXCEPT ![key[f]] = IF @ = f THEN NoFlight ELSE @]
    BY <1>4 DEF Shared!Finished, Shared!Released, Shared!NoFlight, NoFlight
  <2>2. Shared!TypeOK'
    BY <1>1, <1>2, <2>1
    DEF Shared!TypeOK, Shared!FlightsTypeOK, Shared!Flight, Flight, Shared!NoFlight, NoFlight
  <2>3. EndedHasOutcome' /\ outcome[f] # "none"
    BY <1>1, <2>1 DEF EndedHasOutcome
  <2>4. NamedHasKey'
    BY <1>1, <1>2, <2>1 DEF NamedHasKey
  <2>5. WaitedIsNamed'
    BY <1>1, <1>2, <1>3, <2>1, <2>3 DEF WaitedIsNamed
  <2> QED
    BY <1>2, <1>3, <2>2, <2>3, <2>4, <2>5 DEF UnmadeIsBare, WaitersSubscribe
<1>5. CASE Shared!RunReturns(f) /\ UNCHANGED flights
  <2>1. /\ outcome' = [outcome EXCEPT ![f] = "value"]
        /\ thread' = [thread EXCEPT ![f] = "ended"]
    BY <1>5 DEF Shared!RunReturns
  <2>2. Shared!TypeOK'
    BY <1>1, <1>2, <1>5, <2>1
    DEF Shared!TypeOK, Shared!FlightsTypeOK, Shared!Flight, Flight
  <2>3. EndedHasOutcome'
    BY <1>1, <2>1 DEF EndedHasOutcome
  <2>4. WaitedIsNamed'
    BY <1>1, <1>2, <1>3, <1>5, <2>1 DEF WaitedIsNamed
  <2> QED
    BY <1>2, <1>3, <1>5, <2>2, <2>3, <2>4 DEF UnmadeIsBare, WaitersSubscribe, NamedHasKey
<1> QED
  BY <1>4, <1>5

\* Every step of SharedFlights preserves its invariant.
LEMMA NextSharedInv == SharedInv /\ [Shared!Next]_(Shared!vars) => SharedInv'
<1>1. ASSUME SharedInv, Shared!Next PROVE SharedInv'
  BY <1>1, SharedSubscribe, SharedDetach, SharedCallerStep, SharedThreadStep
  DEF Shared!Next, Shared!Flight, Flight
<1>2. ASSUME SharedInv, UNCHANGED Shared!vars PROVE SharedInv'
  BY <1>2 DEF Shared!vars, SharedInv, Shared!TypeOK, Shared!FlightsTypeOK, NamedHasKey,
     UnmadeIsBare, WaitersSubscribe, EndedHasOutcome, WaitedIsNamed, Waiters
<1> QED
  BY <1>1, <1>2

\* The table of flights, their keys and their callers stay consistent: what the theorem
\* below is read off.
THEOREM SpecSharedInv == Shared!Spec => []SharedInv
BY InitSharedInv, NextSharedInv, PTL DEF Shared!Spec

\* The concurrent callers of a key wait for one run until it has an outcome, whoever
\* leaves or arrives meanwhile and however late an abandoned run ends
\* (SharedFlights.subscribe, _detach, _finished).
THEOREM SpecWaitersShareOneRun == Shared!Spec => []WaitersShareOneRun
<1>1. SharedInv => WaitersShareOneRun
  BY DEF SharedInv, WaitedIsNamed, Waiters, WaitersShareOneRun
<1> QED
  BY <1>1, SpecSharedInv, PTL
=============================================================================
