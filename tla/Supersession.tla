---------------------------- MODULE Supersession ----------------------------
(***************************************************************************)
(* routes/_supersession.SupersessionCoordinator.run_latest over work that  *)
(* may outlive its response (routes/_timeouts.                             *)
(* run_blocking_with_response_timeout): preview, trace and check requests. *)
(* The coordinator runs on one event loop, so a block without an await in  *)
(* it is one step; the blocks under a condition or _states_lock have none  *)
(* but condition.wait().  All keys share one limiter.                      *)
(***************************************************************************)
EXTENDS Integers, FiniteSets

CONSTANTS
  MaxRequests,   \* bound: the requests made in a behaviour
  MaxKeys,       \* bound: the keys they have
  Limits         \* the sizes a limiter may have; no limiter is a size that suffices

ASSUME SupersessionAssumption ==
  /\ MaxRequests \in Nat \ {0}
  /\ MaxKeys \in Nat \ {0}
  /\ Limits \subseteq Nat \ {0} /\ Limits # {}

\* Requests and keys are numbered in the order in which they come.
Request == 1..MaxRequests
NoRequest == 0
Key == 1..MaxKeys
NoKey == 0

\* A state object is named after the request that created it.
State == Request
NoState == NoRequest

VARIABLES
  limit,      \* the size of the limiter
  key,        \* the key of each request, NoKey before it is made
  states,     \* _states: the state object of each key
  latest,     \* latest_generation
  active,     \* active
  canceller,  \* active_cancel, named after the request it stops
  references, \* references
  pc, state, generation,   \* each request's place and locals
  deferred,   \* the requests whose response left work running behind
  asked,      \* the requests whose work was asked to stop
  outcome,    \* what a request is about to be answered; "own": its work's result or error
  permits,    \* what the limiter has to give
  entries, entry   \* history: the order in which a key's requests took a generation

objects == <<states, latest, active, canceller, references>>
locals == <<limit, key, state, generation>>
history == <<entries, entry>>
vars == <<limit, key, states, latest, active, canceller, references, pc, state, generation, deferred, asked, outcome, permits, entries, entry>>

Place ==
  {"new", "enter", "wait", "waiting", "limiter", "activate", "work", "settle",
   "leave", "done"}

TypeOK ==
  /\ limit \in Limits
  /\ key \in [Request -> Key \cup {NoKey}]
  /\ states \in [Key -> State \cup {NoState}]
  /\ latest \in [State -> 0..MaxRequests]
  /\ active \in [State -> BOOLEAN]
  /\ canceller \in [State -> Request \cup {NoRequest}]
  /\ references \in [State -> 0..MaxRequests]
  /\ pc \in [Request -> Place]
  /\ state \in [Request -> State \cup {NoState}]
  /\ generation \in [Request -> 0..MaxRequests]
  /\ deferred \in [Request -> {"no", "running", "clearing", "dropping"}]
  /\ asked \in SUBSET Request
  /\ outcome \in [Request -> {"none", "own", "timeout", "superseded", "gone"}]
  /\ permits \in 0..limit
  /\ entries \in [Key -> 0..MaxRequests]
  /\ entry \in [Request -> 0..MaxRequests]

Init ==
  /\ limit \in Limits
  /\ key = [r \in Request |-> NoKey]
  /\ states = [k \in Key |-> NoState]
  /\ latest = [s \in State |-> 0]
  /\ active = [s \in State |-> FALSE]
  /\ canceller = [s \in State |-> NoRequest]
  /\ references = [s \in State |-> 0]
  /\ pc = [r \in Request |-> "new"]
  /\ state = [r \in Request |-> NoState]
  /\ generation = [r \in Request |-> 0]
  /\ deferred = [r \in Request |-> "no"]
  /\ asked = {}
  /\ outcome = [r \in Request |-> "none"]
  /\ permits = limit
  /\ entries = [k \in Key |-> 0]
  /\ entry = [r \in Request |-> 0]

-----------------------------------------------------------------------------
Stale(r) == generation[r] # latest[state[r]]

Goto(r, place) == pc' = [pc EXCEPT ![r] = place]

\* Request r goes on at place while condition.notify_all wakes the waits of s.
GotoNotifying(r, place, s) ==
  pc' = [q \in Request |->
           CASE q = r -> place
             [] q # r /\ state[q] = s /\ pc[q] = "waiting" -> "wait"
             [] OTHER -> pc[q]]

\* The request ends with o and has only its reference to give back.
Answer(r, o) ==
  /\ outcome' = [outcome EXCEPT ![r] = o]
  /\ Goto(r, "leave")

\* Fault: the state is dropped while work it guards goes on.
MutDroppedIfActive(k, s, refs) ==
  IF refs = 0 /\ states[k] = s THEN [states EXCEPT ![k] = NoState] ELSE states

\* _states once a reference was given back or the background work has ended.
Dropped(k, s, refs) ==
  IF refs = 0 /\ ~active[s] /\ states[k] = s THEN [states EXCEPT ![k] = NoState]
  ELSE states

\* _retain_state
Retain(r, k) ==
  LET s == IF states[k] = NoState THEN r ELSE states[k] IN
  /\ pc[r] = "new" /\ \A q \in 1..(r - 1) : pc[q] # "new"
  /\ \A j \in 1..(k - 1) : \E q \in Request : key[q] = j
  /\ key' = [key EXCEPT ![r] = k]
  /\ state' = [state EXCEPT ![r] = s]
  /\ states' = [states EXCEPT ![k] = s]
  /\ references' = [references EXCEPT ![s] = @ + 1]
  /\ Goto(r, "enter")
  /\ UNCHANGED <<limit, latest, active, canceller, generation, deferred, asked,
                 outcome, permits, history>>

\* active_cancel() of the active work.
Asked(s) ==
  IF active[s] /\ canceller[s] # NoRequest THEN asked \cup {canceller[s]} ELSE asked

\* The request takes the next generation and asks the active work to stop.
Enter(r) ==
  LET s == state[r] IN
  /\ pc[r] = "enter"
  /\ latest' = [latest EXCEPT ![s] = @ + 1]
  /\ generation' = [generation EXCEPT ![r] = latest[s] + 1]
  /\ asked' = Asked(s)
  /\ GotoNotifying(r, "wait", s)
  /\ entries' = [entries EXCEPT ![key[r]] = @ + 1]
  /\ entry' = [entry EXCEPT ![r] = entries[key[r]] + 1]
  /\ UNCHANGED <<limit, key, states, active, canceller, references, state, deferred, outcome,
                 permits>>

\* The first wait, and what follows it.
Wait(r) ==
  /\ pc[r] = "wait"
  /\ \/ Stale(r) /\ Answer(r, "superseded")
     \/ ~Stale(r) /\ active[state[r]] /\ Goto(r, "waiting") /\ UNCHANGED outcome
     \/ ~Stale(r) /\ ~active[state[r]] /\ Goto(r, "limiter") /\ UNCHANGED outcome
  /\ UNCHANGED <<objects, locals, deferred, asked, permits, history>>

\* _acquire_limiter_unless_superseded: a grant that is only seen together with
\* the supersession is given back.
Acquire(r) ==
  /\ pc[r] = "limiter" /\ permits > 0
  /\ permits' = permits - 1
  /\ Goto(r, "activate")
  /\ UNCHANGED <<objects, locals, deferred, asked, outcome, history>>

\* Fault: nothing watches for a newer request while the permit is awaited.
MutSupersededAtLimiterUnseen(r) == FALSE

SupersededAtLimiter(r) ==
  /\ pc[r] = "limiter" /\ Stale(r)
  /\ Answer(r, "superseded")
  /\ UNCHANGED <<objects, locals, deferred, asked, permits, history>>

\* The second wait, with the permit; then the work starts.  A request that is not
\* stale is the newest and saw the key idle in its first wait; only a newer one could
\* have made it active since, so the code's wait() is never reached here.
Activate(r) ==
  /\ pc[r] = "activate"
  /\ \/ /\ Stale(r) /\ Answer(r, "superseded")
        /\ permits' = permits + 1
        /\ UNCHANGED <<active, canceller>>
     \/ /\ ~Stale(r) /\ ~active[state[r]] /\ Goto(r, "work")
        /\ active' = [active EXCEPT ![state[r]] = TRUE]
        /\ canceller' = [canceller EXCEPT ![state[r]] = r]
        /\ UNCHANGED <<permits, outcome>>
  /\ UNCHANGED <<states, latest, references, locals, deferred, asked, history>>

\* The work returns or raises, and nothing of it is left running.
WorkEnds(r, o) ==
  LET s == state[r] IN
  /\ pc[r] = "work"
  /\ active' = [active EXCEPT ![s] = FALSE]
  /\ canceller' = [canceller EXCEPT ![s] = NoRequest]
  /\ outcome' = [outcome EXCEPT ![r] = o]
  /\ GotoNotifying(r, "settle", s)
  /\ UNCHANGED <<states, latest, references, locals, deferred, asked, permits, history>>

\* BlockingWorkTimeoutError: the response ends, the work goes on behind it.
WorkTimesOut(r) ==
  /\ pc[r] = "work"
  /\ deferred' = [deferred EXCEPT ![r] = "running"]
  /\ outcome' = [outcome EXCEPT ![r] = "timeout"]
  /\ Goto(r, "settle")
  /\ UNCHANGED <<objects, locals, asked, permits, history>>

\* Fault: the permit comes back with the response.
MutSettledPermits(r) == permits + 1

\* Fault: only a request that returns gives its permit back.
MutSettledPermitsReturned(r) == IF outcome[r] = "own" THEN permits + 1 ELSE permits

\* The permit stays with work that goes on.
SettledPermits(r) == IF outcome[r] = "timeout" THEN permits ELSE permits + 1

\* Fault: what has been computed is returned.
MutSettledOutcome(r) == outcome[r]

\* A timeout and a cancellation are raised as they are; the rest only if the
\* request is still the latest.
SettledOutcome(r) ==
  IF outcome[r] = "own" /\ Stale(r) THEN "superseded" ELSE outcome[r]

Settle(r) ==
  /\ pc[r] = "settle"
  /\ permits' = SettledPermits(r)
  /\ Answer(r, SettledOutcome(r))
  /\ UNCHANGED <<objects, locals, deferred, asked, history>>

\* _release_state
Leave(r) ==
  LET s == state[r] IN
  /\ pc[r] = "leave"
  /\ references' = [references EXCEPT ![s] = @ - 1]
  /\ states' = Dropped(key[r], s, references[s] - 1)
  /\ outcome' = [outcome EXCEPT ![r] = "none"]
  /\ Goto(r, "done")
  /\ UNCHANGED <<latest, active, canceller, locals, deferred, asked, permits, history>>

\* The client disconnects while the request waits; a permit granted in the same step
\* goes back.
ClientGone(r) ==
  /\ pc[r] \in {"waiting", "limiter"}
  /\ Answer(r, "gone")
  /\ UNCHANGED <<objects, locals, deferred, asked, permits, history>>

-----------------------------------------------------------------------------
(* The work a timed-out response left behind *)

\* The future completes: the permit is released, the clearing task created.
BackgroundEnds(r) ==
  /\ deferred[r] = "running" /\ pc[r] \in {"leave", "done"}
  /\ deferred' = [deferred EXCEPT ![r] = "clearing"]
  /\ permits' = permits + 1
  /\ UNCHANGED <<objects, locals, pc, asked, outcome, history>>

\* _clear_active_after_background
ClearActive(r) ==
  LET s == state[r] IN
  /\ deferred[r] = "clearing"
  /\ active' = [active EXCEPT ![s] = FALSE]
  /\ canceller' = [canceller EXCEPT ![s] = IF @ = r THEN NoRequest ELSE @]
  /\ deferred' = [deferred EXCEPT ![r] = "dropping"]
  /\ GotoNotifying(r, pc[r], s)
  /\ UNCHANGED <<states, latest, references, locals, asked, outcome, permits, history>>

DropState(r) ==
  /\ deferred[r] = "dropping"
  /\ states' = Dropped(key[r], state[r], references[state[r]])
  /\ deferred' = [deferred EXCEPT ![r] = "no"]
  /\ UNCHANGED <<latest, active, canceller, references, locals, pc, asked, outcome,
                 permits, history>>

LoopStep(r) ==
  \/ Enter(r) \/ Wait(r) \/ Acquire(r) \/ SupersededAtLimiter(r) \/ Activate(r)
  \/ Settle(r) \/ Leave(r) \/ ClearActive(r) \/ DropState(r)

Ends(r) == WorkTimesOut(r) \/ \E o \in {"own", "gone"} : WorkEnds(r, o)

Next ==
  \E r \in Request :
    \/ \E k \in Key : Retain(r, k)
    \/ LoopStep(r) \/ Ends(r) \/ ClientGone(r) \/ BackgroundEnds(r)

Spec == Init /\ [][Next]_vars

\* The event loop runs what is ready; work goes on as long as it likes.
FairSpec == Spec /\ \A r \in Request : WF_vars(LoopStep(r))

-----------------------------------------------------------------------------
(* Properties *)

Working(r) == pc[r] = "work" \/ deferred[r] = "running"

\* "Keep at most one running [...] request per key", the work a timed-out response
\* left behind included, also when the key's state was dropped and created anew.
OneWorkPerKey ==
  \A r, q \in Request : r # q /\ key[r] = key[q] => ~(Working(r) /\ Working(q))

\* A permit is held by a request from the grant to its end, or by the work its
\* response left behind, and given back exactly once.
PermitsConserved ==
  permits = limit - Cardinality({r \in Request :
    \/ pc[r] \in {"activate", "work"}
    \/ pc[r] = "settle" /\ outcome[r] # "timeout"
    \/ deferred[r] = "running"})

\* The newest request of a key is served and no other: a request is answered with its
\* work's result or error only if no newer one has taken its place by then, and is
\* refused as superseded only if one has.
NewestIsServed ==
  [][\A r \in Request :
       LET newer == \E q \in Request : key[q] = key[r] /\ entry[q] > entry[r] IN
       /\ pc[r] = "settle" /\ pc'[r] = "leave" /\ outcome'[r] = "own" => ~newer
       /\ outcome'[r] = "superseded" /\ outcome[r] # "superseded" => newer]_vars

\* A request that is superseded while it waits is answered at once, however long
\* the active work and the holders of the limiter take.
SupersededIsAnswered ==
  \A r \in Request :
    pc[r] \in {"wait", "waiting", "limiter"} /\ Stale(r) ~> pc[r] = "done"

\* Every request is answered, and the newest is not starved, provided work ends
\* or its response times out and it ends later.
RequestsEnd ==
  (\A r \in Request : WF_vars(Ends(r)) /\ WF_vars(BackgroundEnds(r)))
    => \A r \in Request : pc[r] = "enter" ~> pc[r] = "done"

=============================================================================
