-------------------------- MODULE SupersessionProofs --------------------------
(***************************************************************************)
(* At most one work per key, permits that are neither lost nor given back  *)
(* twice, and no answer to anyone but the newest request, however many     *)
(* requests, keys and permits there are.                                   *)
(***************************************************************************)
EXTENDS Supersession, FiniteSetTheorems, TLAPS

\* The requests that hold a reference of a state.
Live(r) == pc[r] \notin {"new", "done"}
References(s) == {r \in Request : Live(r) /\ state[r] = s}

\* The requests whose work has its key: until it returns, or the task after the work
\* a response left behind has cleared active.
HasKey(r) == pc[r] = "work" \/ deferred[r] \in {"running", "clearing"}

\* The requests that hold a permit.
HasPermit(r) ==
  \/ pc[r] \in {"activate", "work"}
  \/ pc[r] = "settle" /\ outcome[r] # "timeout"
  \/ deferred[r] = "running"

Permits == {r \in Request : HasPermit(r)}

\* The requests that took a generation and have not left.
Entered(r) == pc[r] \notin {"new", "enter", "done"}

\* The part of the types the arguments need.
Types ==
  /\ limit \in Nat
  /\ key \in [Request -> Key \cup {NoKey}]
  /\ states \in [Key -> State \cup {NoState}]
  /\ latest \in [State -> Nat]
  /\ active \in [State -> BOOLEAN]
  /\ references \in [State -> Nat]
  /\ pc \in [Request -> Place]
  /\ state \in [Request -> State \cup {NoState}]
  /\ generation \in [Request -> Nat]
  /\ deferred \in [Request -> {"no", "running", "clearing", "dropping"}]
  /\ outcome \in [Request -> {"none", "own", "timeout", "superseded", "gone"}]
  /\ permits \in Int
  /\ entries \in [Key -> Nat]
  /\ entry \in [Request -> Nat]

\* A request has its key and state from the start, and a state has one key.
Named ==
  /\ \A r \in Request : pc[r] # "new" =>
        /\ key[r] \in Key
        /\ state[r] \in State
        /\ pc[state[r]] # "new" /\ key[state[r]] = key[r]
  /\ \A r \in Request : pc[r] = "new" => state[r] = NoState /\ key[r] = NoKey
  /\ \A k \in Key : states[k] # NoState => pc[states[k]] # "new" /\ key[states[k]] = k

\* Work goes on behind a response only if the response timed out.
DeferredTimedOut ==
  \A r \in Request :
    /\ deferred[r] # "no" => pc[r] \in {"settle", "leave", "done"}
    /\ pc[r] = "settle" => deferred[r] = (IF outcome[r] = "timeout" THEN "running" ELSE "no")

\* references counts who may still use the state.
Counted == \A s \in State : references[s] = Cardinality(References(s))

\* A state stays registered under its key while it is referenced or guards work.
Registered ==
  \A r \in Request : Live(r) \/ HasKey(r) => states[key[r]] = state[r]

\* active is set while there is work, for one request.
Guarded ==
  \A r \in Request : HasKey(r) =>
    /\ active[state[r]]
    /\ \A q \in Request : HasKey(q) /\ state[q] = state[r] => q = r

\* A request is as many generations behind its state as it is entries behind its key,
\* and a key's newest entry is somebody's.
Ordered ==
  /\ \A r \in Request : Entered(r) =>
        latest[state[r]] - generation[r] = entries[key[r]] - entry[r]
  /\ \A r \in Request : key[r] # NoKey => entry[r] <= entries[key[r]]
  /\ \A r \in Request : key[r] = NoKey \/ pc[r] = "enter" => entry[r] = 0
  /\ \A k \in Key : entries[k] # 0 => \E q \in Request : key[q] = k /\ entry[q] = entries[k]

\* The requests that took a generation of a state, or an entry of a key.
TookGeneration(s) == {r \in Request : state[r] = s /\ pc[r] \notin {"new", "enter"}}
TookEntry(k) == {r \in Request : key[r] = k /\ pc[r] \notin {"new", "enter"}}

\* The rest of the types: no number outgrows the requests that count in it, and the
\* limiter never has more to give than its size.
Bounded ==
  /\ limit \in Limits
  /\ canceller \in [State -> Request \cup {NoRequest}]
  /\ asked \in SUBSET Request
  /\ permits >= 0
  /\ \A s \in State : latest[s] <= Cardinality(TookGeneration(s))
  /\ \A k \in Key : entries[k] <= Cardinality(TookEntry(k))
  /\ \A r \in Request : generation[r] <= MaxRequests /\ entry[r] <= MaxRequests

\* The inductive invariant.
IInv ==
  /\ Types
  /\ Bounded
  /\ Named
  /\ DeferredTimedOut
  /\ Counted
  /\ Registered
  /\ Guarded
  /\ PermitsConserved
  /\ Ordered

-----------------------------------------------------------------------------
(* Counting requests.                                                      *)

\* None is no request and no key.
LEMMA Numbers == NoRequest \notin Request /\ NoState \notin State /\ NoKey \notin Key
BY DEF NoRequest, NoState, NoKey, Request, State, Key

\* There are finitely many requests.
LEMMA RequestsAreFinite == IsFiniteSet(Request)
BY SupersessionAssumption, FS_Interval DEF Request

\* One more request, or one less, counts one more or one less.
LEMMA AddOne ==
  ASSUME NEW S \in SUBSET Request, NEW r \in Request, r \notin S
  PROVE  Cardinality(S) \in Nat /\ Cardinality(S \cup {r}) = Cardinality(S) + 1
BY RequestsAreFinite, FS_Subset, FS_CardinalityType, FS_AddElement

\* Taking one request away lowers the count by one.
LEMMA RemoveOne ==
  ASSUME NEW S \in SUBSET Request, NEW r \in S
  PROVE  Cardinality(S) \in Nat \ {0} /\ Cardinality(S \ {r}) = Cardinality(S) - 1
<1>1. IsFiniteSet(S) /\ Cardinality(S) \in Nat
  BY RequestsAreFinite, FS_Subset, FS_CardinalityType
<1>2. Cardinality(S) # 0
  BY <1>1, FS_EmptySet
<1> QED
  BY <1>1, <1>2, FS_RemoveElement

\* A set of requests has no more than there are, and no fewer than its subsets.
LEMMA Count ==
  ASSUME NEW T \in SUBSET Request, NEW S \in SUBSET T
  PROVE  /\ Cardinality(S) \in Nat /\ Cardinality(T) \in Nat
         /\ Cardinality(S) <= Cardinality(T) /\ Cardinality(T) <= MaxRequests
<1>1. IsFiniteSet(T) /\ IsFiniteSet(S)
  BY RequestsAreFinite, FS_Subset
<1>2. Cardinality(Request) = MaxRequests
  BY SupersessionAssumption, FS_Interval DEF Request
<1> QED
  BY <1>1, <1>2, RequestsAreFinite, FS_Subset, FS_CardinalityType

\* The equation between the permits and who holds them.
LEMMA Conserved ==
  /\ PermitsConserved <=> permits = limit - Cardinality(Permits)
  /\ PermitsConserved' <=> permits' = limit' - Cardinality(Permits')
BY DEF PermitsConserved, Permits, HasPermit

-----------------------------------------------------------------------------
(* Each step keeps each part of the invariant.                             *)

\* A step that names no new state keeps the table's names.
LEMMA NamesKept ==
  ASSUME Types, Named, key' = key, state' = state,
         \A q \in Request : pc'[q] = "new" <=> pc[q] = "new",
         \A k \in Key : states'[k] \in {states[k], NoState}
  PROVE  Named'
<1>1. State = Request
  BY DEF State
<1>2. \A r \in Request : pc'[r] # "new" =>
         /\ key'[r] \in Key /\ state'[r] \in State
         /\ pc'[state'[r]] # "new" /\ key'[state'[r]] = key'[r]
  BY <1>1 DEF Named
<1>3. ASSUME NEW k \in Key, states'[k] # NoState
      PROVE  pc'[states'[k]] # "new" /\ key'[states'[k]] = k
  <2>1. states'[k] = states[k] /\ states[k] \in State
    BY <1>3 DEF Types
  <2> QED
    BY <1>1, <1>3, <2>1 DEF Named
<1> QED
  BY <1>2, <1>3 DEF Named

\* What nobody's generation changes keeps its bounds.
LEMMA BoundsKept ==
  ASSUME Types, Bounded,
         UNCHANGED <<limit, latest, generation, entries, entry>>,
         canceller' \in [State -> Request \cup {NoRequest}], asked' \in SUBSET Request,
         permits' >= 0,
         \A r \in Request : pc[r] \notin {"new", "enter"} =>
             pc'[r] \notin {"new", "enter"} /\ state'[r] = state[r] /\ key'[r] = key[r]
  PROVE  Bounded'
<1>1. ASSUME NEW s \in State
      PROVE  latest'[s] <= Cardinality(TookGeneration(s)')
  <2>1. TookGeneration(s) \subseteq TookGeneration(s)' /\ TookGeneration(s)' \subseteq Request
    BY DEF TookGeneration
  <2>2. Cardinality(TookGeneration(s)) <= Cardinality(TookGeneration(s)')
        /\ Cardinality(TookGeneration(s)) \in Nat /\ Cardinality(TookGeneration(s)') \in Nat
    BY <2>1, Count
  <2> QED
    BY <2>2 DEF Bounded, Types
<1>2. ASSUME NEW k \in Key
      PROVE  entries'[k] <= Cardinality(TookEntry(k)')
  <2>1. TookEntry(k) \subseteq TookEntry(k)' /\ TookEntry(k)' \subseteq Request
    BY DEF TookEntry
  <2>2. Cardinality(TookEntry(k)) <= Cardinality(TookEntry(k)')
        /\ Cardinality(TookEntry(k)) \in Nat /\ Cardinality(TookEntry(k)') \in Nat
    BY <2>1, Count
  <2> QED
    BY <2>2 DEF Bounded, Types
<1> QED
  BY <1>1, <1>2 DEF Bounded

\* The types.
LEMMA TypeStep ==
    ASSUME Types, Named, Counted, Next
    PROVE  Types'
<1>1. ASSUME NEW r \in Request, NEW k \in Key, Retain(r, k)
      PROVE  Types'
  <2>1. PICK t \in State : t = (IF states[k] = NoState THEN r ELSE states[k])
    BY <1>1 DEF Types, State
  <2>2. references' \in [State -> Nat] /\ state' \in [Request -> State \cup {NoState}]
    BY <1>1, <2>1 DEF Retain, Types
  <2>3. states' \in [Key -> State \cup {NoState}] /\ key' \in [Request -> Key \cup {NoKey}]
    BY <1>1, <2>1 DEF Retain, Types
  <2>4. pc' \in [Request -> Place]
    BY <1>1 DEF Retain, Goto, Types, Place
  <2> QED
    BY <1>1, <2>2, <2>3, <2>4 DEF Retain, history, Types
<1>2. ASSUME NEW r \in Request, Enter(r)
      PROVE  Types'
  BY <1>2, Numbers, SupersessionAssumption DEF Enter, GotoNotifying, Asked,
     Types, Named, Place, Dropped
<1>3. ASSUME NEW r \in Request, Wait(r)
      PROVE  Types'
  BY <1>3, Numbers, SupersessionAssumption DEF Wait, Goto, Answer, objects,
     locals, history, Types, Named, Place, Dropped
<1>4. ASSUME NEW r \in Request, Acquire(r)
      PROVE  Types'
  BY <1>4, Numbers, SupersessionAssumption DEF Acquire, Goto, objects, locals,
     history, Types, Named, Place, Dropped
<1>5. ASSUME NEW r \in Request, SupersededAtLimiter(r)
      PROVE  Types'
  BY <1>5, Numbers, SupersessionAssumption DEF SupersededAtLimiter, Goto,
     Answer, objects, locals, history, Types, Named, Place, Dropped
<1>6. ASSUME NEW r \in Request, Activate(r)
      PROVE  Types'
  <2>1. pc' \in [Request -> Place]
    BY <1>6 DEF Activate, Answer, Goto, Types, Place
  <2>2. /\ outcome' \in [Request -> {"none", "own", "timeout", "superseded", "gone"}]
        /\ permits' \in Int
    BY <1>6 DEF Activate, Answer, Types
  <2>3. active' \in [State -> BOOLEAN]
    BY <1>6 DEF Activate, Types
  <2> QED
    BY <1>6, <2>1, <2>2, <2>3 DEF Activate, locals, history, Types
<1>7. ASSUME NEW r \in Request, NEW o \in {"own", "gone"}, WorkEnds(r, o)
      PROVE  Types'
  BY <1>7, Numbers, SupersessionAssumption DEF WorkEnds, GotoNotifying, locals,
     history, Types, Named, Place, Dropped
<1>8. ASSUME NEW r \in Request, WorkTimesOut(r)
      PROVE  Types'
  BY <1>8, Numbers, SupersessionAssumption DEF WorkTimesOut, Goto, objects,
     locals, history, Types, Named, Place, Dropped
<1>9. ASSUME NEW r \in Request, Settle(r)
      PROVE  Types'
  BY <1>9, Numbers, SupersessionAssumption DEF Settle, SettledPermits,
     SettledOutcome, Goto, Answer, objects, locals, history, Types, Named,
     Place, Dropped
<1>10. ASSUME NEW r \in Request, Leave(r)
      PROVE  Types'
  <2>1. r \in References(state[r]) /\ state[r] \in State
    BY <1>10 DEF Leave, References, Live, Named
  <2>2. references[state[r]] \in Nat \ {0}
    BY <2>1, RemoveOne DEF Counted, References
  <2>3. references' \in [State -> Nat]
    BY <1>10, <2>1, <2>2 DEF Leave, Types
  <2>4. states' \in [Key -> State \cup {NoState}]
    BY <1>10 DEF Leave, Dropped, Types
  <2> QED
    BY <1>10, <2>3, <2>4 DEF Leave, Goto, locals, history, Types, Place
<1>11. ASSUME NEW r \in Request, ClientGone(r)
      PROVE  Types'
  BY <1>11, Numbers, SupersessionAssumption DEF ClientGone, Goto, Answer,
     objects, locals, history, Types, Named, Place, Dropped
<1>12. ASSUME NEW r \in Request, BackgroundEnds(r)
      PROVE  Types'
  BY <1>12, Numbers, SupersessionAssumption DEF BackgroundEnds, objects, locals,
     history, Types, Named, Place, Dropped
<1>13. ASSUME NEW r \in Request, ClearActive(r)
      PROVE  Types'
  BY <1>13, Numbers, SupersessionAssumption DEF ClearActive, GotoNotifying,
     locals, history, Types, Named, Place, Dropped
<1>14. ASSUME NEW r \in Request, DropState(r)
      PROVE  Types'
  BY <1>14, Numbers, SupersessionAssumption DEF DropState, locals, history,
     Types, Named, Place, Dropped
<1> QED
  BY <1>1, <1>2, <1>3, <1>4, <1>5, <1>6, <1>7, <1>8, <1>9, <1>10, <1>11, <1>12,
     <1>13, <1>14 DEF Next, LoopStep, Ends

\* Names are given once.
LEMMA NamedStep ==
    ASSUME Types, DeferredTimedOut, Named, Next
    PROVE  Named'
<1>1. ASSUME NEW r \in Request, NEW k \in Key, Retain(r, k)
      PROVE  Named'
  <2>1. PICK t \in State : t = (IF states[k] = NoState THEN r ELSE states[k])
    BY <1>1 DEF Types, State
  <2>2. /\ pc[r] = "new"
        /\ key' = [key EXCEPT ![r] = k] /\ state' = [state EXCEPT ![r] = t]
        /\ states' = [states EXCEPT ![k] = t]
        /\ pc' = [pc EXCEPT ![r] = "enter"]
    BY <1>1, <2>1 DEF Retain, Goto
  <2>3. pc'[t] # "new" /\ key'[t] = k
    BY <2>1, <2>2, Numbers DEF Types, Named, State
  <2>4. ASSUME NEW q \in Request, pc'[q] # "new"
        PROVE  /\ key'[q] \in Key /\ state'[q] \in State
               /\ pc'[state'[q]] # "new" /\ key'[state'[q]] = key'[q]
    <3>1. CASE q = r
      BY <2>1, <2>2, <2>3, <3>1 DEF Types
    <3>2. CASE q # r
      <4>1. PICK s \in State : s = state[q]
        BY <2>2, <2>4, <3>2 DEF Types, Named
      <4>2. pc[s] # "new" /\ key[s] = key[q] /\ key[q] \in Key /\ s # r
        BY <2>2, <2>4, <3>2, <4>1 DEF Types, Named
      <4> QED
        BY <2>2, <3>2, <4>1, <4>2 DEF Types, State
    <3> QED
      BY <3>1, <3>2
  <2>5. \A q \in Request : pc'[q] = "new" => state'[q] = NoState /\ key'[q] = NoKey
    BY <2>2 DEF Types, Named
  <2>6. ASSUME NEW j \in Key, states'[j] # NoState
        PROVE  pc'[states'[j]] # "new" /\ key'[states'[j]] = j
    <3>1. CASE j = k
      BY <2>2, <2>3, <3>1 DEF Types
    <3>2. CASE j # k
      <4>1. PICK s \in State : s = states[j]
        BY <2>2, <2>6, <3>2 DEF Types
      <4>2. pc[s] # "new" /\ key[s] = j /\ s # r
        BY <2>2, <2>6, <3>2, <4>1 DEF Types, Named
      <4> QED
        BY <2>2, <3>2, <4>1, <4>2 DEF Types, State
    <3> QED
      BY <3>1, <3>2
  <2> QED
    BY <2>4, <2>5, <2>6 DEF Named
<1>2. ASSUME NEW r \in Request, Enter(r)
      PROVE  Named'
  <2>1. \A q \in Request : pc'[q] = "new" <=> pc[q] = "new"
    BY <1>2 DEF Enter, GotoNotifying, Asked, DeferredTimedOut, Types
  <2>2. /\ key' = key /\ state' = state
        /\ \A k \in Key : states'[k] \in {states[k], NoState}
    BY <1>2 DEF Enter, objects, locals, Dropped, Types
  <2> QED
    BY <2>1, <2>2, NamesKept
<1>3. ASSUME NEW r \in Request, Wait(r)
      PROVE  Named'
  <2>1. \A q \in Request : pc'[q] = "new" <=> pc[q] = "new"
    BY <1>3 DEF Wait, Goto, Answer, objects, locals, history, DeferredTimedOut,
       Types
  <2>2. /\ key' = key /\ state' = state
        /\ \A k \in Key : states'[k] \in {states[k], NoState}
    BY <1>3 DEF Wait, objects, locals, Dropped, Types
  <2> QED
    BY <2>1, <2>2, NamesKept
<1>4. ASSUME NEW r \in Request, Acquire(r)
      PROVE  Named'
  <2>1. \A q \in Request : pc'[q] = "new" <=> pc[q] = "new"
    BY <1>4 DEF Acquire, Goto, objects, locals, history, DeferredTimedOut, Types
  <2>2. /\ key' = key /\ state' = state
        /\ \A k \in Key : states'[k] \in {states[k], NoState}
    BY <1>4 DEF Acquire, objects, locals, Dropped, Types
  <2> QED
    BY <2>1, <2>2, NamesKept
<1>5. ASSUME NEW r \in Request, SupersededAtLimiter(r)
      PROVE  Named'
  <2>1. \A q \in Request : pc'[q] = "new" <=> pc[q] = "new"
    BY <1>5 DEF SupersededAtLimiter, Goto, Answer, objects, locals, history,
       DeferredTimedOut, Types
  <2>2. /\ key' = key /\ state' = state
        /\ \A k \in Key : states'[k] \in {states[k], NoState}
    BY <1>5 DEF SupersededAtLimiter, objects, locals, Dropped, Types
  <2> QED
    BY <2>1, <2>2, NamesKept
<1>6. ASSUME NEW r \in Request, Activate(r)
      PROVE  Named'
  <2>1. \A q \in Request : pc'[q] = "new" <=> pc[q] = "new"
    BY <1>6 DEF Activate, Goto, Answer, locals, history, DeferredTimedOut, Types
  <2>2. /\ key' = key /\ state' = state
        /\ \A k \in Key : states'[k] \in {states[k], NoState}
    BY <1>6 DEF Activate, objects, locals, Dropped, Types
  <2> QED
    BY <2>1, <2>2, NamesKept
<1>7. ASSUME NEW r \in Request, NEW o \in {"own", "gone"}, WorkEnds(r, o)
      PROVE  Named'
  <2>1. \A q \in Request : pc'[q] = "new" <=> pc[q] = "new"
    BY <1>7 DEF WorkEnds, GotoNotifying, locals, history, DeferredTimedOut,
       Types
  <2>2. /\ key' = key /\ state' = state
        /\ \A k \in Key : states'[k] \in {states[k], NoState}
    BY <1>7 DEF WorkEnds, objects, locals, Dropped, Types
  <2> QED
    BY <2>1, <2>2, NamesKept
<1>8. ASSUME NEW r \in Request, WorkTimesOut(r)
      PROVE  Named'
  <2>1. \A q \in Request : pc'[q] = "new" <=> pc[q] = "new"
    BY <1>8 DEF WorkTimesOut, Goto, objects, locals, history, DeferredTimedOut,
       Types
  <2>2. /\ key' = key /\ state' = state
        /\ \A k \in Key : states'[k] \in {states[k], NoState}
    BY <1>8 DEF WorkTimesOut, objects, locals, Dropped, Types
  <2> QED
    BY <2>1, <2>2, NamesKept
<1>9. ASSUME NEW r \in Request, Settle(r)
      PROVE  Named'
  <2>1. \A q \in Request : pc'[q] = "new" <=> pc[q] = "new"
    BY <1>9 DEF Settle, SettledPermits, SettledOutcome, Goto, Answer, objects,
       locals, history, DeferredTimedOut, Types
  <2>2. /\ key' = key /\ state' = state
        /\ \A k \in Key : states'[k] \in {states[k], NoState}
    BY <1>9 DEF Settle, objects, locals, Dropped, Types
  <2> QED
    BY <2>1, <2>2, NamesKept
<1>10. ASSUME NEW r \in Request, Leave(r)
      PROVE  Named'
  <2>1. \A q \in Request : pc'[q] = "new" <=> pc[q] = "new"
    BY <1>10 DEF Leave, Goto, locals, history, DeferredTimedOut, Types
  <2>2. /\ key' = key /\ state' = state
        /\ \A k \in Key : states'[k] \in {states[k], NoState}
    BY <1>10 DEF Leave, objects, locals, Dropped, Types
  <2> QED
    BY <2>1, <2>2, NamesKept
<1>11. ASSUME NEW r \in Request, ClientGone(r)
      PROVE  Named'
  <2>1. \A q \in Request : pc'[q] = "new" <=> pc[q] = "new"
    BY <1>11 DEF ClientGone, Goto, Answer, objects, locals, history,
       DeferredTimedOut, Types
  <2>2. /\ key' = key /\ state' = state
        /\ \A k \in Key : states'[k] \in {states[k], NoState}
    BY <1>11 DEF ClientGone, objects, locals, Dropped, Types
  <2> QED
    BY <2>1, <2>2, NamesKept
<1>12. ASSUME NEW r \in Request, BackgroundEnds(r)
      PROVE  Named'
  <2>1. \A q \in Request : pc'[q] = "new" <=> pc[q] = "new"
    BY <1>12 DEF BackgroundEnds, objects, locals, history, DeferredTimedOut,
       Types
  <2>2. /\ key' = key /\ state' = state
        /\ \A k \in Key : states'[k] \in {states[k], NoState}
    BY <1>12 DEF BackgroundEnds, objects, locals, Dropped, Types
  <2> QED
    BY <2>1, <2>2, NamesKept
<1>13. ASSUME NEW r \in Request, ClearActive(r)
      PROVE  Named'
  <2>1. \A q \in Request : pc'[q] = "new" <=> pc[q] = "new"
    BY <1>13 DEF ClearActive, GotoNotifying, locals, history, DeferredTimedOut,
       Types
  <2>2. /\ key' = key /\ state' = state
        /\ \A k \in Key : states'[k] \in {states[k], NoState}
    BY <1>13 DEF ClearActive, objects, locals, Dropped, Types
  <2> QED
    BY <2>1, <2>2, NamesKept
<1>14. ASSUME NEW r \in Request, DropState(r)
      PROVE  Named'
  <2>1. \A q \in Request : pc'[q] = "new" <=> pc[q] = "new"
    BY <1>14 DEF DropState, locals, history, DeferredTimedOut, Types
  <2>2. /\ key' = key /\ state' = state
        /\ \A k \in Key : states'[k] \in {states[k], NoState}
    BY <1>14 DEF DropState, objects, locals, Dropped, Types
  <2> QED
    BY <2>1, <2>2, NamesKept
<1> QED
  BY <1>1, <1>2, <1>3, <1>4, <1>5, <1>6, <1>7, <1>8, <1>9, <1>10, <1>11, <1>12,
     <1>13, <1>14 DEF Next, LoopStep, Ends

\* A timeout leaves one piece of work behind.
LEMMA DeferredStep ==
    ASSUME Types, DeferredTimedOut, Next
    PROVE  DeferredTimedOut'
<1>1. ASSUME NEW r \in Request, NEW k \in Key, Retain(r, k)
      PROVE  DeferredTimedOut'
  BY <1>1, Numbers DEF Retain, Goto, history, DeferredTimedOut, Types
<1>2. ASSUME NEW r \in Request, Enter(r)
      PROVE  DeferredTimedOut'
  BY <1>2, Numbers DEF Enter, GotoNotifying, Asked, DeferredTimedOut, Types
<1>3. ASSUME NEW r \in Request, Wait(r)
      PROVE  DeferredTimedOut'
  BY <1>3, Numbers DEF Wait, Goto, Answer, objects, locals, history,
     DeferredTimedOut, Types
<1>4. ASSUME NEW r \in Request, Acquire(r)
      PROVE  DeferredTimedOut'
  BY <1>4, Numbers DEF Acquire, Goto, objects, locals, history,
     DeferredTimedOut, Types
<1>5. ASSUME NEW r \in Request, SupersededAtLimiter(r)
      PROVE  DeferredTimedOut'
  BY <1>5, Numbers DEF SupersededAtLimiter, Goto, Answer, objects, locals,
     history, DeferredTimedOut, Types
<1>6. ASSUME NEW r \in Request, Activate(r)
      PROVE  DeferredTimedOut'
  BY <1>6, Numbers DEF Activate, Goto, Answer, locals, history,
     DeferredTimedOut, Types
<1>7. ASSUME NEW r \in Request, NEW o \in {"own", "gone"}, WorkEnds(r, o)
      PROVE  DeferredTimedOut'
  BY <1>7, Numbers DEF WorkEnds, GotoNotifying, locals, history,
     DeferredTimedOut, Types
<1>8. ASSUME NEW r \in Request, WorkTimesOut(r)
      PROVE  DeferredTimedOut'
  BY <1>8, Numbers DEF WorkTimesOut, Goto, objects, locals, history,
     DeferredTimedOut, Types
<1>9. ASSUME NEW r \in Request, Settle(r)
      PROVE  DeferredTimedOut'
  BY <1>9, Numbers DEF Settle, SettledPermits, SettledOutcome, Goto, Answer,
     objects, locals, history, DeferredTimedOut, Types
<1>10. ASSUME NEW r \in Request, Leave(r)
      PROVE  DeferredTimedOut'
  BY <1>10, Numbers DEF Leave, Goto, locals, history, DeferredTimedOut, Types
<1>11. ASSUME NEW r \in Request, ClientGone(r)
      PROVE  DeferredTimedOut'
  BY <1>11, Numbers DEF ClientGone, Goto, Answer, objects, locals, history,
     DeferredTimedOut, Types
<1>12. ASSUME NEW r \in Request, BackgroundEnds(r)
      PROVE  DeferredTimedOut'
  BY <1>12, Numbers DEF BackgroundEnds, objects, locals, history,
     DeferredTimedOut, Types
<1>13. ASSUME NEW r \in Request, ClearActive(r)
      PROVE  DeferredTimedOut'
  BY <1>13, Numbers DEF ClearActive, GotoNotifying, locals, history,
     DeferredTimedOut, Types
<1>14. ASSUME NEW r \in Request, DropState(r)
      PROVE  DeferredTimedOut'
  BY <1>14, Numbers DEF DropState, locals, history, DeferredTimedOut, Types
<1> QED
  BY <1>1, <1>2, <1>3, <1>4, <1>5, <1>6, <1>7, <1>8, <1>9, <1>10, <1>11, <1>12,
     <1>13, <1>14 DEF Next, LoopStep, Ends

\* A request counts from when it retains its state until it releases it.
LEMMA CountedStep ==
    ASSUME Types, Named, DeferredTimedOut, Counted, Next
    PROVE  Counted'
<1>1. ASSUME NEW r \in Request, NEW k \in Key, Retain(r, k)
      PROVE  Counted'
  <2>1. PICK t : t = (IF states[k] = NoState THEN r ELSE states[k])
    OBVIOUS
  <2>2. /\ pc[r] = "new" /\ t \in State
        /\ state' = [state EXCEPT ![r] = t]
        /\ references' = [references EXCEPT ![t] = @ + 1]
        /\ pc' = [pc EXCEPT ![r] = "enter"]
    BY <1>1, <2>1 DEF Retain, Goto, Types, State
  <2>3. References(t)' = References(t) \cup {r} /\ r \notin References(t)
    BY <2>2 DEF References, Live, Types
  <2>4. \A s \in State \ {t} : References(s)' = References(s)
    BY <2>2 DEF References, Live, Types
  <2>5. Cardinality(References(t)') = Cardinality(References(t)) + 1
    BY <2>3, AddOne DEF References
  <2> QED
    BY <2>2, <2>4, <2>5 DEF Counted, Types
<1>2. ASSUME NEW r \in Request, Enter(r)
      PROVE  Counted'
  <2>1. references' = references
    BY <1>2 DEF Enter, objects
  <2>2. \A s \in State : References(s)' = References(s)
    BY <1>2 DEF Enter, GotoNotifying, Asked, References, Live, Types
  <2> QED
    BY <2>1, <2>2 DEF Counted
<1>3. ASSUME NEW r \in Request, Wait(r)
      PROVE  Counted'
  <2>1. references' = references
    BY <1>3 DEF Wait, objects
  <2>2. \A s \in State : References(s)' = References(s)
    BY <1>3 DEF Wait, Goto, Answer, objects, locals, history, References, Live,
       Types
  <2> QED
    BY <2>1, <2>2 DEF Counted
<1>4. ASSUME NEW r \in Request, Acquire(r)
      PROVE  Counted'
  <2>1. references' = references
    BY <1>4 DEF Acquire, objects
  <2>2. \A s \in State : References(s)' = References(s)
    BY <1>4 DEF Acquire, Goto, objects, locals, history, References, Live, Types
  <2> QED
    BY <2>1, <2>2 DEF Counted
<1>5. ASSUME NEW r \in Request, SupersededAtLimiter(r)
      PROVE  Counted'
  <2>1. references' = references
    BY <1>5 DEF SupersededAtLimiter, objects
  <2>2. \A s \in State : References(s)' = References(s)
    BY <1>5 DEF SupersededAtLimiter, Goto, Answer, objects, locals, history,
       References, Live, Types
  <2> QED
    BY <2>1, <2>2 DEF Counted
<1>6. ASSUME NEW r \in Request, Activate(r)
      PROVE  Counted'
  <2>1. references' = references
    BY <1>6 DEF Activate, objects
  <2>2. \A s \in State : References(s)' = References(s)
    BY <1>6 DEF Activate, Goto, Answer, locals, history, References, Live, Types
  <2> QED
    BY <2>1, <2>2 DEF Counted
<1>7. ASSUME NEW r \in Request, NEW o \in {"own", "gone"}, WorkEnds(r, o)
      PROVE  Counted'
  <2>1. references' = references
    BY <1>7 DEF WorkEnds, objects
  <2>2. \A s \in State : References(s)' = References(s)
    BY <1>7 DEF WorkEnds, GotoNotifying, locals, history, References, Live,
       Types
  <2> QED
    BY <2>1, <2>2 DEF Counted
<1>8. ASSUME NEW r \in Request, WorkTimesOut(r)
      PROVE  Counted'
  <2>1. references' = references
    BY <1>8 DEF WorkTimesOut, objects
  <2>2. \A s \in State : References(s)' = References(s)
    BY <1>8 DEF WorkTimesOut, Goto, objects, locals, history, References, Live,
       Types
  <2> QED
    BY <2>1, <2>2 DEF Counted
<1>9. ASSUME NEW r \in Request, Settle(r)
      PROVE  Counted'
  <2>1. references' = references
    BY <1>9 DEF Settle, objects
  <2>2. \A s \in State : References(s)' = References(s)
    BY <1>9 DEF Settle, SettledPermits, SettledOutcome, Goto, Answer, objects,
       locals, history, References, Live, Types
  <2> QED
    BY <2>1, <2>2 DEF Counted
<1>10. ASSUME NEW r \in Request, Leave(r)
      PROVE  Counted'
  <2>1. PICK t : t = state[r]
    OBVIOUS
  <2>2. /\ pc[r] = "leave" /\ t \in State
        /\ state' = state
        /\ references' = [references EXCEPT ![t] = @ - 1]
        /\ pc' = [pc EXCEPT ![r] = "done"]
    BY <1>10, <2>1 DEF Leave, Goto, locals, Named
  <2>3. References(t)' = References(t) \ {r} /\ r \in References(t)
    BY <2>1, <2>2 DEF References, Live, Types
  <2>4. \A s \in State \ {t} : References(s)' = References(s)
    BY <2>1, <2>2 DEF References, Live, Types
  <2>5. Cardinality(References(t)') = Cardinality(References(t)) - 1
    BY <2>3, RemoveOne DEF References
  <2> QED
    BY <2>2, <2>4, <2>5 DEF Counted, Types
<1>11. ASSUME NEW r \in Request, ClientGone(r)
      PROVE  Counted'
  <2>1. references' = references
    BY <1>11 DEF ClientGone, objects
  <2>2. \A s \in State : References(s)' = References(s)
    BY <1>11 DEF ClientGone, Goto, Answer, objects, locals, history, References,
       Live, Types
  <2> QED
    BY <2>1, <2>2 DEF Counted
<1>12. ASSUME NEW r \in Request, BackgroundEnds(r)
      PROVE  Counted'
  <2>1. references' = references
    BY <1>12 DEF BackgroundEnds, objects
  <2>2. \A s \in State : References(s)' = References(s)
    BY <1>12 DEF BackgroundEnds, objects, locals, history, References, Live,
       Types
  <2> QED
    BY <2>1, <2>2 DEF Counted
<1>13. ASSUME NEW r \in Request, ClearActive(r)
      PROVE  Counted'
  <2>1. references' = references
    BY <1>13 DEF ClearActive, objects
  <2>2. \A s \in State : References(s)' = References(s)
    BY <1>13 DEF ClearActive, GotoNotifying, locals, history, References, Live,
       Types
  <2> QED
    BY <2>1, <2>2 DEF Counted
<1>14. ASSUME NEW r \in Request, DropState(r)
      PROVE  Counted'
  <2>1. references' = references
    BY <1>14 DEF DropState, objects
  <2>2. \A s \in State : References(s)' = References(s)
    BY <1>14 DEF DropState, locals, history, References, Live, Types
  <2> QED
    BY <2>1, <2>2 DEF Counted
<1> QED
  BY <1>1, <1>2, <1>3, <1>4, <1>5, <1>6, <1>7, <1>8, <1>9, <1>10, <1>11, <1>12,
     <1>13, <1>14 DEF Next, LoopStep, Ends

\* Only a state nobody refers to, and nothing is running under, is dropped.
LEMMA RegisteredStep ==
    ASSUME Types, Named, DeferredTimedOut, Counted, Guarded, Registered, Next
    PROVE  Registered'
<1>1. ASSUME NEW r \in Request, NEW k \in Key, Retain(r, k)
      PROVE  Registered'
  BY <1>1, Numbers DEF Retain, Goto, history, Registered, Named,
     DeferredTimedOut, Live, HasKey, Entered, Types
<1>2. ASSUME NEW r \in Request, Enter(r)
      PROVE  Registered'
  BY <1>2, Numbers DEF Enter, GotoNotifying, Asked, Registered, Named,
     DeferredTimedOut, Live, HasKey, Entered, Types
<1>3. ASSUME NEW r \in Request, Wait(r)
      PROVE  Registered'
  BY <1>3, Numbers DEF Wait, Goto, Answer, objects, locals, history, Registered,
     Named, DeferredTimedOut, Live, HasKey, Entered, Types
<1>4. ASSUME NEW r \in Request, Acquire(r)
      PROVE  Registered'
  BY <1>4, Numbers DEF Acquire, Goto, objects, locals, history, Registered,
     Named, DeferredTimedOut, Live, HasKey, Entered, Types
<1>5. ASSUME NEW r \in Request, SupersededAtLimiter(r)
      PROVE  Registered'
  BY <1>5, Numbers DEF SupersededAtLimiter, Goto, Answer, objects, locals,
     history, Registered, Named, DeferredTimedOut, Live, HasKey, Entered, Types
<1>6. ASSUME NEW r \in Request, Activate(r)
      PROVE  Registered'
  BY <1>6, Numbers DEF Activate, Goto, Answer, locals, history, Registered,
     Named, DeferredTimedOut, Live, HasKey, Entered, Types
<1>7. ASSUME NEW r \in Request, NEW o \in {"own", "gone"}, WorkEnds(r, o)
      PROVE  Registered'
  BY <1>7, Numbers DEF WorkEnds, GotoNotifying, locals, history, Registered,
     Named, DeferredTimedOut, Live, HasKey, Entered, Types
<1>8. ASSUME NEW r \in Request, WorkTimesOut(r)
      PROVE  Registered'
  BY <1>8, Numbers DEF WorkTimesOut, Goto, objects, locals, history, Registered,
     Named, DeferredTimedOut, Live, HasKey, Entered, Types
<1>9. ASSUME NEW r \in Request, Settle(r)
      PROVE  Registered'
  BY <1>9, Numbers DEF Settle, SettledPermits, SettledOutcome, Goto, Answer,
     objects, locals, history, Registered, Named, DeferredTimedOut, Live,
     HasKey, Entered, Types
<1>10. ASSUME NEW r \in Request, Leave(r)
      PROVE  Registered'
  <2>1. PICK s : s = state[r]
    OBVIOUS
  <2>2. /\ pc[r] = "leave" /\ s \in State /\ r \in References(s)
        /\ states' = Dropped(key[r], s, references[s] - 1)
        /\ pc' = [pc EXCEPT ![r] = "done"] /\ UNCHANGED <<key, state, deferred>>
    BY <1>10, <2>1 DEF Leave, Goto, locals, References, Live, Named
  <2>3. ASSUME NEW q \in Request, Live(q)' \/ HasKey(q)'
        PROVE  states'[key[q]] = state[q]
    <3>1. (Live(q) /\ q # r) \/ HasKey(q)
      BY <2>2, <2>3 DEF Live, HasKey, Types
    <3>2. states[key[q]] = state[q]
      BY <3>1 DEF Registered
    <3>3. ASSUME references[s] - 1 = 0, state[q] = s, Live(q), q # r
          PROVE  FALSE
      <4>1. Cardinality(References(s)) = 1
        BY <2>2, <3>3 DEF Counted, Types
      <4>2. Cardinality(References(s) \ {r}) = 0
        BY <2>2, <4>1, RemoveOne DEF References
      <4>3. q \in References(s) \ {r} /\ References(s) \ {r} \in SUBSET Request
        BY <3>3 DEF References
      <4> QED
        BY <4>2, <4>3, RemoveOne
    <3>4. ASSUME ~active[s], state[q] = s, HasKey(q)
          PROVE  FALSE
      BY <3>4 DEF Guarded
    <3> QED
      BY <2>2, <3>1, <3>2, <3>3, <3>4 DEF Dropped, Types
  <2> QED
    BY <2>2, <2>3 DEF Registered
<1>11. ASSUME NEW r \in Request, ClientGone(r)
      PROVE  Registered'
  BY <1>11, Numbers DEF ClientGone, Goto, Answer, objects, locals, history,
     Registered, Named, DeferredTimedOut, Live, HasKey, Entered, Types
<1>12. ASSUME NEW r \in Request, BackgroundEnds(r)
      PROVE  Registered'
  BY <1>12, Numbers DEF BackgroundEnds, objects, locals, history, Registered,
     Named, DeferredTimedOut, Live, HasKey, Entered, Types
<1>13. ASSUME NEW r \in Request, ClearActive(r)
      PROVE  Registered'
  BY <1>13, Numbers DEF ClearActive, GotoNotifying, locals, history, Registered,
     Named, DeferredTimedOut, Live, HasKey, Entered, Types
<1>14. ASSUME NEW r \in Request, DropState(r)
      PROVE  Registered'
  <2>1. PICK s : s = state[r]
    OBVIOUS
  <2>2. /\ states' = Dropped(key[r], s, references[s]) /\ pc[r] # "new" /\ s \in State
        /\ deferred' = [deferred EXCEPT ![r] = "no"] /\ UNCHANGED <<key, state, pc>>
    BY <1>14, <2>1 DEF DropState, locals, DeferredTimedOut, Named
  <2>3. ASSUME NEW q \in Request, Live(q)' \/ HasKey(q)'
        PROVE  states'[key[q]] = state[q]
    <3>1. Live(q) \/ HasKey(q)
      BY <2>2, <2>3 DEF Live, HasKey, Types
    <3>2. states[key[q]] = state[q]
      BY <3>1 DEF Registered
    <3>3. ASSUME references[s] = 0, state[q] = s, Live(q)
          PROVE  FALSE
      BY <2>2, <3>3, RemoveOne DEF Counted, References
    <3>4. ASSUME ~active[s], state[q] = s, HasKey(q)
          PROVE  FALSE
      BY <3>4 DEF Guarded
    <3> QED
      BY <2>2, <3>1, <3>2, <3>3, <3>4 DEF Dropped, Types
  <2> QED
    BY <2>2, <2>3 DEF Registered
<1> QED
  BY <1>1, <1>2, <1>3, <1>4, <1>5, <1>6, <1>7, <1>8, <1>9, <1>10, <1>11, <1>12,
     <1>13, <1>14 DEF Next, LoopStep, Ends

\* active is set and cleared with the work it stands for.
LEMMA GuardedStep ==
    ASSUME Types, Named, DeferredTimedOut, Guarded, Next
    PROVE  Guarded'
<1>1. ASSUME NEW r \in Request, NEW k \in Key, Retain(r, k)
      PROVE  Guarded'
  BY <1>1, Numbers DEF Retain, Goto, history, Guarded, Named, DeferredTimedOut,
     Live, HasKey, Entered, Types
<1>2. ASSUME NEW r \in Request, Enter(r)
      PROVE  Guarded'
  BY <1>2, Numbers DEF Enter, GotoNotifying, Asked, Guarded, Named,
     DeferredTimedOut, Live, HasKey, Entered, Types
<1>3. ASSUME NEW r \in Request, Wait(r)
      PROVE  Guarded'
  BY <1>3, Numbers DEF Wait, Goto, Answer, objects, locals, history, Guarded,
     Named, DeferredTimedOut, Live, HasKey, Entered, Types
<1>4. ASSUME NEW r \in Request, Acquire(r)
      PROVE  Guarded'
  BY <1>4, Numbers DEF Acquire, Goto, objects, locals, history, Guarded, Named,
     DeferredTimedOut, Live, HasKey, Entered, Types
<1>5. ASSUME NEW r \in Request, SupersededAtLimiter(r)
      PROVE  Guarded'
  BY <1>5, Numbers DEF SupersededAtLimiter, Goto, Answer, objects, locals,
     history, Guarded, Named, DeferredTimedOut, Live, HasKey, Entered, Types
<1>6. ASSUME NEW r \in Request, Activate(r)
      PROVE  Guarded'
  BY <1>6, Numbers DEF Activate, Goto, Answer, locals, history, Guarded, Named,
     DeferredTimedOut, Live, HasKey, Entered, Types
<1>7. ASSUME NEW r \in Request, NEW o \in {"own", "gone"}, WorkEnds(r, o)
      PROVE  Guarded'
  BY <1>7, Numbers DEF WorkEnds, GotoNotifying, locals, history, Guarded, Named,
     DeferredTimedOut, Live, HasKey, Entered, Types
<1>8. ASSUME NEW r \in Request, WorkTimesOut(r)
      PROVE  Guarded'
  BY <1>8, Numbers DEF WorkTimesOut, Goto, objects, locals, history, Guarded,
     Named, DeferredTimedOut, Live, HasKey, Entered, Types
<1>9. ASSUME NEW r \in Request, Settle(r)
      PROVE  Guarded'
  BY <1>9, Numbers DEF Settle, SettledPermits, SettledOutcome, Goto, Answer,
     objects, locals, history, Guarded, Named, DeferredTimedOut, Live, HasKey,
     Entered, Types
<1>10. ASSUME NEW r \in Request, Leave(r)
      PROVE  Guarded'
  BY <1>10, Numbers DEF Leave, Goto, locals, history, Guarded, Named,
     DeferredTimedOut, Live, HasKey, Entered, Types
<1>11. ASSUME NEW r \in Request, ClientGone(r)
      PROVE  Guarded'
  BY <1>11, Numbers DEF ClientGone, Goto, Answer, objects, locals, history,
     Guarded, Named, DeferredTimedOut, Live, HasKey, Entered, Types
<1>12. ASSUME NEW r \in Request, BackgroundEnds(r)
      PROVE  Guarded'
  BY <1>12, Numbers DEF BackgroundEnds, objects, locals, history, Guarded,
     Named, DeferredTimedOut, Live, HasKey, Entered, Types
<1>13. ASSUME NEW r \in Request, ClearActive(r)
      PROVE  Guarded'
  BY <1>13, Numbers DEF ClearActive, GotoNotifying, locals, history, Guarded,
     Named, DeferredTimedOut, Live, HasKey, Entered, Types
<1>14. ASSUME NEW r \in Request, DropState(r)
      PROVE  Guarded'
  BY <1>14, Numbers DEF DropState, locals, history, Guarded, Named,
     DeferredTimedOut, Live, HasKey, Entered, Types
<1> QED
  BY <1>1, <1>2, <1>3, <1>4, <1>5, <1>6, <1>7, <1>8, <1>9, <1>10, <1>11, <1>12,
     <1>13, <1>14 DEF Next, LoopStep, Ends

\* Every permit taken is given back once.
LEMMA PermitsStep ==
    ASSUME Types, DeferredTimedOut, PermitsConserved, Next
    PROVE  PermitsConserved'
<1>1. ASSUME NEW r \in Request, NEW k \in Key, Retain(r, k)
      PROVE  PermitsConserved'
  <2>1. permits' = permits /\ limit' = limit
    BY <1>1 DEF Retain, SettledPermits, locals
  <2>2. Permits' = Permits
    BY <1>1 DEF Retain, Goto, history, Permits, HasPermit, DeferredTimedOut,
       Types
  <2> QED
    BY <2>1, <2>2, Conserved
<1>2. ASSUME NEW r \in Request, Enter(r)
      PROVE  PermitsConserved'
  <2>1. permits' = permits /\ limit' = limit
    BY <1>2 DEF Enter, SettledPermits, locals
  <2>2. Permits' = Permits
    BY <1>2 DEF Enter, GotoNotifying, Asked, Permits, HasPermit,
       DeferredTimedOut, Types
  <2> QED
    BY <2>1, <2>2, Conserved
<1>3. ASSUME NEW r \in Request, Wait(r)
      PROVE  PermitsConserved'
  <2>1. permits' = permits /\ limit' = limit
    BY <1>3 DEF Wait, SettledPermits, locals
  <2>2. Permits' = Permits
    BY <1>3 DEF Wait, Goto, Answer, objects, locals, history, Permits,
       HasPermit, DeferredTimedOut, Types
  <2> QED
    BY <2>1, <2>2, Conserved
<1>4. ASSUME NEW r \in Request, Acquire(r)
      PROVE  PermitsConserved'
  <2>1. Permits' = Permits \cup {r} /\ r \notin Permits
    BY <1>4 DEF Acquire, Goto, objects, locals, history, Permits, HasPermit, DeferredTimedOut, Types
  <2>2. Cardinality(Permits') = Cardinality(Permits) + 1 /\ Cardinality(Permits) \in Nat
    BY <2>1, AddOne DEF Permits
  <2> QED
    BY <1>4, <2>2, Conserved DEF Acquire, locals, Types
<1>5. ASSUME NEW r \in Request, SupersededAtLimiter(r)
      PROVE  PermitsConserved'
  <2>1. permits' = permits /\ limit' = limit
    BY <1>5 DEF SupersededAtLimiter, SettledPermits, locals
  <2>2. Permits' = Permits
    BY <1>5 DEF SupersededAtLimiter, Goto, Answer, objects, locals, history,
       Permits, HasPermit, DeferredTimedOut, Types
  <2> QED
    BY <2>1, <2>2, Conserved
<1>6. ASSUME NEW r \in Request, Activate(r)
      PROVE  PermitsConserved'
  <2>1. CASE Stale(r)
    <3>1. Permits' = Permits \ {r} /\ r \in Permits
      BY <1>6, <2>1 DEF Activate, Goto, Answer, locals, history, Permits,
         HasPermit, DeferredTimedOut, Types
    <3>2. Cardinality(Permits') = Cardinality(Permits) - 1 /\ Cardinality(Permits) \in Nat
      BY <3>1, RemoveOne DEF Permits
    <3> QED
      BY <1>6, <2>1, <3>2, Conserved DEF Activate, SettledPermits, locals, Types
  <2>2. CASE ~(Stale(r))
    <3>1. Permits' = Permits
      BY <1>6, <2>2 DEF Activate, Goto, Answer, locals, history, Permits,
         HasPermit, DeferredTimedOut, Types
    <3> QED
      BY <1>6, <2>2, <3>1, Conserved DEF Activate, SettledPermits, locals, Types
  <2> QED
    BY <2>1, <2>2
<1>7. ASSUME NEW r \in Request, NEW o \in {"own", "gone"}, WorkEnds(r, o)
      PROVE  PermitsConserved'
  <2>1. permits' = permits /\ limit' = limit
    BY <1>7 DEF WorkEnds, SettledPermits, locals
  <2>2. Permits' = Permits
    BY <1>7 DEF WorkEnds, GotoNotifying, locals, history, Permits, HasPermit,
       DeferredTimedOut, Types
  <2> QED
    BY <2>1, <2>2, Conserved
<1>8. ASSUME NEW r \in Request, WorkTimesOut(r)
      PROVE  PermitsConserved'
  <2>1. permits' = permits /\ limit' = limit
    BY <1>8 DEF WorkTimesOut, SettledPermits, locals
  <2>2. Permits' = Permits
    BY <1>8 DEF WorkTimesOut, Goto, objects, locals, history, Permits,
       HasPermit, DeferredTimedOut, Types
  <2> QED
    BY <2>1, <2>2, Conserved
<1>9. ASSUME NEW r \in Request, Settle(r)
      PROVE  PermitsConserved'
  <2>1. CASE outcome[r] # "timeout"
    <3>1. Permits' = Permits \ {r} /\ r \in Permits
      BY <1>9, <2>1 DEF Settle, SettledPermits, SettledOutcome, Goto, Answer,
         objects, locals, history, Permits, HasPermit, DeferredTimedOut, Types
    <3>2. Cardinality(Permits') = Cardinality(Permits) - 1 /\ Cardinality(Permits) \in Nat
      BY <3>1, RemoveOne DEF Permits
    <3> QED
      BY <1>9, <2>1, <3>2, Conserved DEF Settle, SettledPermits, locals, Types
  <2>2. CASE ~(outcome[r] # "timeout")
    <3>1. Permits' = Permits
      BY <1>9, <2>2 DEF Settle, SettledPermits, SettledOutcome, Goto, Answer,
         objects, locals, history, Permits, HasPermit, DeferredTimedOut, Types
    <3> QED
      BY <1>9, <2>2, <3>1, Conserved DEF Settle, SettledPermits, locals, Types
  <2> QED
    BY <2>1, <2>2
<1>10. ASSUME NEW r \in Request, Leave(r)
      PROVE  PermitsConserved'
  <2>1. permits' = permits /\ limit' = limit
    BY <1>10 DEF Leave, SettledPermits, locals
  <2>2. Permits' = Permits
    BY <1>10 DEF Leave, Goto, locals, history, Permits, HasPermit,
       DeferredTimedOut, Types
  <2> QED
    BY <2>1, <2>2, Conserved
<1>11. ASSUME NEW r \in Request, ClientGone(r)
      PROVE  PermitsConserved'
  <2>1. permits' = permits /\ limit' = limit
    BY <1>11 DEF ClientGone, SettledPermits, locals
  <2>2. Permits' = Permits
    BY <1>11 DEF ClientGone, Goto, Answer, objects, locals, history, Permits,
       HasPermit, DeferredTimedOut, Types
  <2> QED
    BY <2>1, <2>2, Conserved
<1>12. ASSUME NEW r \in Request, BackgroundEnds(r)
      PROVE  PermitsConserved'
  <2>1. Permits' = Permits \ {r} /\ r \in Permits
    BY <1>12 DEF BackgroundEnds, objects, locals, history, Permits, HasPermit, DeferredTimedOut, Types
  <2>2. Cardinality(Permits') = Cardinality(Permits) - 1 /\ Cardinality(Permits) \in Nat
    BY <2>1, RemoveOne DEF Permits
  <2> QED
    BY <1>12, <2>2, Conserved DEF BackgroundEnds, locals, Types
<1>13. ASSUME NEW r \in Request, ClearActive(r)
      PROVE  PermitsConserved'
  <2>1. permits' = permits /\ limit' = limit
    BY <1>13 DEF ClearActive, SettledPermits, locals
  <2>2. Permits' = Permits
    BY <1>13 DEF ClearActive, GotoNotifying, locals, history, Permits, HasPermit,
       DeferredTimedOut, Types
  <2> QED
    BY <2>1, <2>2, Conserved
<1>14. ASSUME NEW r \in Request, DropState(r)
      PROVE  PermitsConserved'
  <2>1. permits' = permits /\ limit' = limit
    BY <1>14 DEF DropState, SettledPermits, locals
  <2>2. Permits' = Permits
    BY <1>14 DEF DropState, locals, history, Permits, HasPermit,
       DeferredTimedOut, Types
  <2> QED
    BY <2>1, <2>2, Conserved
<1> QED
  BY <1>1, <1>2, <1>3, <1>4, <1>5, <1>6, <1>7, <1>8, <1>9, <1>10, <1>11, <1>12,
     <1>13, <1>14 DEF Next, LoopStep, Ends

\* Generations and entries advance together.
LEMMA OrderedStep ==
    ASSUME Types, Named, Registered, DeferredTimedOut, Ordered, Next
    PROVE  Ordered'
<1>1. ASSUME NEW r \in Request, NEW k \in Key, Retain(r, k)
      PROVE  Ordered'
  BY <1>1, Numbers DEF Retain, Goto, history, Ordered, Named, Registered, Live,
     HasKey, Entered, Types
<1>2. ASSUME NEW r \in Request, Enter(r)
      PROVE  Ordered'
  <2>1. PICK s : s = state[r]
    OBVIOUS
  <2>2. PICK k : k = key[r]
    OBVIOUS
  <2>3. /\ pc[r] = "enter" /\ s \in State /\ k \in Key
        /\ latest' = [latest EXCEPT ![s] = latest[s] + 1]
        /\ generation' = [generation EXCEPT ![r] = latest[s] + 1]
        /\ entries' = [entries EXCEPT ![k] = entries[k] + 1]
        /\ entry' = [entry EXCEPT ![r] = entries[k] + 1]
        /\ key' = key /\ state' = state
    BY <1>2, <2>1, <2>2 DEF Enter, Named
  <2>4. \A q \in Request : (pc'[q] = "enter" => pc[q] = "enter" /\ q # r)
                           /\ (Entered(q)' => Entered(q) \/ q = r)
    BY <1>2 DEF Enter, GotoNotifying, Entered, Types
  <2>5. latest[s] \in Nat /\ entries[k] \in Nat /\ \A q \in Request : entry[q] \in Nat
    BY <2>3 DEF Types
  <2>6. ASSUME NEW q \in Request, Entered(q)'
        PROVE  latest'[state'[q]] - generation'[q] = entries'[key'[q]] - entry'[q]
    <3>1. CASE q = r
      BY <2>1, <2>2, <2>3, <2>5, <3>1 DEF Types
    <3>2. CASE q # r
      <4>1. Entered(q) /\ Live(q) /\ Live(r)
        BY <2>3, <2>4, <2>6, <3>2 DEF Entered, Live
      <4>2. state[q] \in State /\ key[q] \in Key /\ key[state[q]] = key[q]
        BY <4>1 DEF Named, Live
      <4>3. state[q] = s <=> key[q] = k
        <5>1. key[q] = k => state[q] = s
          BY <2>1, <2>2, <4>1 DEF Registered
        <5>2. state[q] = s => key[q] = k
          BY <2>1, <2>2, <2>3, <4>2 DEF Named
        <5> QED
          BY <5>1, <5>2
      <4>4. latest[state[q]] - generation[q] = entries[key[q]] - entry[q]
        BY <4>1 DEF Ordered
      <4>5. /\ latest[state[q]] \in Nat /\ generation[q] \in Nat
            /\ entries[key[q]] \in Nat /\ entry[q] \in Nat
        BY <4>2 DEF Types
      <4>6. generation'[q] = generation[q] /\ entry'[q] = entry[q]
        BY <2>3, <3>2 DEF Types
      <4>7. CASE key[q] = k
        <5>1. latest'[state[q]] = latest[state[q]] + 1 /\ entries'[key[q]] = entries[key[q]] + 1
          BY <2>3, <4>3, <4>7 DEF Types
        <5> QED
          BY <2>3, <4>4, <4>5, <4>6, <5>1
      <4>8. CASE key[q] # k
        <5>1. latest'[state[q]] = latest[state[q]] /\ entries'[key[q]] = entries[key[q]]
          BY <2>3, <4>2, <4>3, <4>8 DEF Types
        <5> QED
          BY <2>3, <4>4, <4>6, <5>1
      <4> QED
        BY <4>7, <4>8
    <3> QED
      BY <3>1, <3>2
  <2>7. \A q \in Request : key'[q] # NoKey => entry'[q] <= entries'[key'[q]]
    BY <2>2, <2>3, <2>5 DEF Types, Ordered
  <2>8. \A q \in Request : key'[q] = NoKey \/ pc'[q] = "enter" => entry'[q] = 0
    BY <2>2, <2>3, <2>4, Numbers DEF Types, Ordered
  <2>9. ASSUME NEW j \in Key, entries'[j] # 0
        PROVE  \E q \in Request : key'[q] = j /\ entry'[q] = entries'[j]
    <3>1. CASE j = k
      BY <2>2, <2>3, <3>1 DEF Types
    <3>2. CASE j # k
      <4>1. PICK q \in Request : key[q] = j /\ entry[q] = entries[j]
        BY <2>3, <2>9, <3>2 DEF Types, Ordered
      <4> QED
        BY <2>2, <2>3, <3>2, <4>1 DEF Types
    <3> QED
      BY <3>1, <3>2
  <2> QED
    BY <2>6, <2>7, <2>8, <2>9 DEF Ordered
<1>3. ASSUME NEW r \in Request, Wait(r)
      PROVE  Ordered'
  BY <1>3, Numbers DEF Wait, Goto, Answer, objects, locals, history, Ordered,
     Named, Registered, Live, HasKey, Entered, Types
<1>4. ASSUME NEW r \in Request, Acquire(r)
      PROVE  Ordered'
  BY <1>4, Numbers DEF Acquire, Goto, objects, locals, history, Ordered, Named,
     Registered, Live, HasKey, Entered, Types
<1>5. ASSUME NEW r \in Request, SupersededAtLimiter(r)
      PROVE  Ordered'
  BY <1>5, Numbers DEF SupersededAtLimiter, Goto, Answer, objects, locals,
     history, Ordered, Named, Registered, Live, HasKey, Entered, Types
<1>6. ASSUME NEW r \in Request, Activate(r)
      PROVE  Ordered'
  BY <1>6, Numbers DEF Activate, Goto, Answer, locals, history, Ordered, Named,
     Registered, Live, HasKey, Entered, Types
<1>7. ASSUME NEW r \in Request, NEW o \in {"own", "gone"}, WorkEnds(r, o)
      PROVE  Ordered'
  BY <1>7, Numbers DEF WorkEnds, GotoNotifying, locals, history, Ordered, Named,
     Registered, Live, HasKey, Entered, Types
<1>8. ASSUME NEW r \in Request, WorkTimesOut(r)
      PROVE  Ordered'
  BY <1>8, Numbers DEF WorkTimesOut, Goto, objects, locals, history, Ordered,
     Named, Registered, Live, HasKey, Entered, Types
<1>9. ASSUME NEW r \in Request, Settle(r)
      PROVE  Ordered'
  BY <1>9, Numbers DEF Settle, SettledPermits, SettledOutcome, Goto, Answer,
     objects, locals, history, Ordered, Named, Registered, Live, HasKey,
     Entered, Types
<1>10. ASSUME NEW r \in Request, Leave(r)
      PROVE  Ordered'
  BY <1>10, Numbers DEF Leave, Goto, locals, history, Ordered, Named,
     Registered, Live, HasKey, Entered, Types
<1>11. ASSUME NEW r \in Request, ClientGone(r)
      PROVE  Ordered'
  BY <1>11, Numbers DEF ClientGone, Goto, Answer, objects, locals, history,
     Ordered, Named, Registered, Live, HasKey, Entered, Types
<1>12. ASSUME NEW r \in Request, BackgroundEnds(r)
      PROVE  Ordered'
  BY <1>12, Numbers DEF BackgroundEnds, objects, locals, history, Ordered,
     Named, Registered, Live, HasKey, Entered, Types
<1>13. ASSUME NEW r \in Request, ClearActive(r)
      PROVE  Ordered'
  BY <1>13, Numbers DEF ClearActive, GotoNotifying, locals, history, Ordered,
     Named, Registered, Live, HasKey, Entered, Types
<1>14. ASSUME NEW r \in Request, DropState(r)
      PROVE  Ordered'
  BY <1>14, Numbers DEF DropState, locals, history, Ordered, Named, Registered,
     Live, HasKey, Entered, Types
<1> QED
  BY <1>1, <1>2, <1>3, <1>4, <1>5, <1>6, <1>7, <1>8, <1>9, <1>10, <1>11, <1>12,
     <1>13, <1>14 DEF Next, LoopStep, Ends

\* A request takes one generation and one entry.
LEMMA BoundedStep ==
    ASSUME Types, Named, DeferredTimedOut, Bounded, Next
    PROVE  Bounded'
<1>1. ASSUME NEW r \in Request, NEW k \in Key, Retain(r, k)
      PROVE  Bounded'
  <2>1. \A q \in Request : pc[q] \notin {"new", "enter"} =>
            pc'[q] \notin {"new", "enter"} /\ state'[q] = state[q] /\ key'[q] = key[q]
    BY <1>1 DEF Retain, Goto, history, DeferredTimedOut, Types
  <2>2. /\ canceller' \in [State -> Request \cup {NoRequest}] /\ asked' \in SUBSET Request
        /\ UNCHANGED <<limit, latest, generation, entries, entry>>
    BY <1>1 DEF Retain, objects, locals, history, Bounded
  <2>3. permits' >= 0
    BY <1>1 DEF Retain, SettledPermits, Bounded, Types
  <2> QED
    BY <2>1, <2>2, <2>3, BoundsKept
<1>2. ASSUME NEW r \in Request, Enter(r)
      PROVE  Bounded'
  <2>1. PICK s : s = state[r]
    OBVIOUS
  <2>2. PICK k : k = key[r]
    OBVIOUS
  <2>3. /\ pc[r] = "enter" /\ s \in State /\ k \in Key
        /\ latest' = [latest EXCEPT ![s] = latest[s] + 1]
        /\ generation' = [generation EXCEPT ![r] = latest[s] + 1]
        /\ entries' = [entries EXCEPT ![k] = entries[k] + 1]
        /\ entry' = [entry EXCEPT ![r] = entries[k] + 1]
        /\ UNCHANGED <<key, state, limit, canceller, permits>>
    BY <1>2, <2>1, <2>2 DEF Enter, Named
  <2>4. \A q \in Request : pc'[q] \notin {"new", "enter"} <=> q = r \/ pc[q] \notin {"new", "enter"}
    BY <1>2 DEF Enter, GotoNotifying, Types
  <2>5. asked' \in SUBSET Request
    BY <1>2, <2>1, <2>3 DEF Enter, Asked, Bounded
  <2>6. /\ TookGeneration(s)' = TookGeneration(s) \cup {r} /\ r \notin TookGeneration(s)
        /\ TookEntry(k)' = TookEntry(k) \cup {r} /\ r \notin TookEntry(k)
    BY <2>1, <2>2, <2>3, <2>4 DEF TookGeneration, TookEntry
  <2>7. /\ \A t \in State \ {s} : TookGeneration(t)' = TookGeneration(t)
        /\ \A j \in Key \ {k} : TookEntry(j)' = TookEntry(j)
    BY <2>1, <2>2, <2>3, <2>4 DEF TookGeneration, TookEntry
  <2>8. /\ Cardinality(TookGeneration(s)') = Cardinality(TookGeneration(s)) + 1
        /\ Cardinality(TookEntry(k)') = Cardinality(TookEntry(k)) + 1
        /\ Cardinality(TookGeneration(s)) \in Nat /\ Cardinality(TookEntry(k)) \in Nat
    BY <2>6, AddOne DEF TookGeneration, TookEntry
  <2>9. /\ Cardinality(TookGeneration(s)') <= MaxRequests
        /\ Cardinality(TookEntry(k)') <= MaxRequests
    BY Count DEF TookGeneration, TookEntry
  <2>10. /\ latest[s] \in Nat /\ latest[s] <= Cardinality(TookGeneration(s))
         /\ entries[k] \in Nat /\ entries[k] <= Cardinality(TookEntry(k))
    BY <2>3 DEF Types, Bounded
  <2>11. \A t \in State : latest'[t] <= Cardinality(TookGeneration(t)')
    <3>1. latest'[s] <= Cardinality(TookGeneration(s)')
      BY <2>3, <2>8, <2>10 DEF Types
    <3>2. \A t \in State \ {s} : latest'[t] = latest[t]
      BY <2>3 DEF Types
    <3> QED
      BY <2>7, <3>1, <3>2 DEF Bounded
  <2>12. \A j \in Key : entries'[j] <= Cardinality(TookEntry(j)')
    <3>1. entries'[k] <= Cardinality(TookEntry(k)')
      BY <2>3, <2>8, <2>10 DEF Types
    <3>2. \A j \in Key \ {k} : entries'[j] = entries[j]
      BY <2>3 DEF Types
    <3> QED
      BY <2>7, <3>1, <3>2 DEF Bounded
  <2>13. latest[s] + 1 <= MaxRequests /\ entries[k] + 1 <= MaxRequests
    BY <2>8, <2>9, <2>10, SupersessionAssumption
  <2>14. \A q \in Request : generation'[q] <= MaxRequests /\ entry'[q] <= MaxRequests
    BY <2>3, <2>13 DEF Types, Bounded
  <2> QED
    BY <2>3, <2>5, <2>11, <2>12, <2>14 DEF Bounded
<1>3. ASSUME NEW r \in Request, Wait(r)
      PROVE  Bounded'
  <2>1. \A q \in Request : pc[q] \notin {"new", "enter"} =>
            pc'[q] \notin {"new", "enter"} /\ state'[q] = state[q] /\ key'[q] = key[q]
    BY <1>3 DEF Wait, Goto, Answer, objects, locals, history, DeferredTimedOut,
       Types
  <2>2. /\ canceller' \in [State -> Request \cup {NoRequest}] /\ asked' \in SUBSET Request
        /\ UNCHANGED <<limit, latest, generation, entries, entry>>
    BY <1>3 DEF Wait, objects, locals, history, Bounded
  <2>3. permits' >= 0
    BY <1>3 DEF Wait, SettledPermits, Bounded, Types
  <2> QED
    BY <2>1, <2>2, <2>3, BoundsKept
<1>4. ASSUME NEW r \in Request, Acquire(r)
      PROVE  Bounded'
  <2>1. \A q \in Request : pc[q] \notin {"new", "enter"} =>
            pc'[q] \notin {"new", "enter"} /\ state'[q] = state[q] /\ key'[q] = key[q]
    BY <1>4 DEF Acquire, Goto, objects, locals, history, DeferredTimedOut, Types
  <2>2. /\ canceller' \in [State -> Request \cup {NoRequest}] /\ asked' \in SUBSET Request
        /\ UNCHANGED <<limit, latest, generation, entries, entry>>
    BY <1>4 DEF Acquire, objects, locals, history, Bounded
  <2>3. permits' >= 0
    BY <1>4 DEF Acquire, SettledPermits, Bounded, Types
  <2> QED
    BY <2>1, <2>2, <2>3, BoundsKept
<1>5. ASSUME NEW r \in Request, SupersededAtLimiter(r)
      PROVE  Bounded'
  <2>1. \A q \in Request : pc[q] \notin {"new", "enter"} =>
            pc'[q] \notin {"new", "enter"} /\ state'[q] = state[q] /\ key'[q] = key[q]
    BY <1>5 DEF SupersededAtLimiter, Goto, Answer, objects, locals, history,
       DeferredTimedOut, Types
  <2>2. /\ canceller' \in [State -> Request \cup {NoRequest}] /\ asked' \in SUBSET Request
        /\ UNCHANGED <<limit, latest, generation, entries, entry>>
    BY <1>5 DEF SupersededAtLimiter, objects, locals, history, Bounded
  <2>3. permits' >= 0
    BY <1>5 DEF SupersededAtLimiter, SettledPermits, Bounded, Types
  <2> QED
    BY <2>1, <2>2, <2>3, BoundsKept
<1>6. ASSUME NEW r \in Request, Activate(r)
      PROVE  Bounded'
  <2>1. \A q \in Request : pc[q] \notin {"new", "enter"} =>
            pc'[q] \notin {"new", "enter"} /\ state'[q] = state[q] /\ key'[q] = key[q]
    BY <1>6 DEF Activate, Goto, Answer, locals, history, DeferredTimedOut, Types
  <2>2. /\ canceller' \in [State -> Request \cup {NoRequest}] /\ asked' \in SUBSET Request
        /\ UNCHANGED <<limit, latest, generation, entries, entry>>
    BY <1>6 DEF Activate, objects, locals, history, Bounded
  <2>3. permits' >= 0
    BY <1>6 DEF Activate, SettledPermits, Bounded, Types
  <2> QED
    BY <2>1, <2>2, <2>3, BoundsKept
<1>7. ASSUME NEW r \in Request, NEW o \in {"own", "gone"}, WorkEnds(r, o)
      PROVE  Bounded'
  <2>1. \A q \in Request : pc[q] \notin {"new", "enter"} =>
            pc'[q] \notin {"new", "enter"} /\ state'[q] = state[q] /\ key'[q] = key[q]
    BY <1>7 DEF WorkEnds, GotoNotifying, locals, history, DeferredTimedOut,
       Types
  <2>2. /\ canceller' \in [State -> Request \cup {NoRequest}] /\ asked' \in SUBSET Request
        /\ UNCHANGED <<limit, latest, generation, entries, entry>>
    BY <1>7 DEF WorkEnds, objects, locals, history, Bounded
  <2>3. permits' >= 0
    BY <1>7 DEF WorkEnds, SettledPermits, Bounded, Types
  <2> QED
    BY <2>1, <2>2, <2>3, BoundsKept
<1>8. ASSUME NEW r \in Request, WorkTimesOut(r)
      PROVE  Bounded'
  <2>1. \A q \in Request : pc[q] \notin {"new", "enter"} =>
            pc'[q] \notin {"new", "enter"} /\ state'[q] = state[q] /\ key'[q] = key[q]
    BY <1>8 DEF WorkTimesOut, Goto, objects, locals, history, DeferredTimedOut,
       Types
  <2>2. /\ canceller' \in [State -> Request \cup {NoRequest}] /\ asked' \in SUBSET Request
        /\ UNCHANGED <<limit, latest, generation, entries, entry>>
    BY <1>8 DEF WorkTimesOut, objects, locals, history, Bounded
  <2>3. permits' >= 0
    BY <1>8 DEF WorkTimesOut, SettledPermits, Bounded, Types
  <2> QED
    BY <2>1, <2>2, <2>3, BoundsKept
<1>9. ASSUME NEW r \in Request, Settle(r)
      PROVE  Bounded'
  <2>1. \A q \in Request : pc[q] \notin {"new", "enter"} =>
            pc'[q] \notin {"new", "enter"} /\ state'[q] = state[q] /\ key'[q] = key[q]
    BY <1>9 DEF Settle, SettledPermits, SettledOutcome, Goto, Answer, objects,
       locals, history, DeferredTimedOut, Types
  <2>2. /\ canceller' \in [State -> Request \cup {NoRequest}] /\ asked' \in SUBSET Request
        /\ UNCHANGED <<limit, latest, generation, entries, entry>>
    BY <1>9 DEF Settle, objects, locals, history, Bounded
  <2>3. permits' >= 0
    BY <1>9 DEF Settle, SettledPermits, Bounded, Types
  <2> QED
    BY <2>1, <2>2, <2>3, BoundsKept
<1>10. ASSUME NEW r \in Request, Leave(r)
      PROVE  Bounded'
  <2>1. \A q \in Request : pc[q] \notin {"new", "enter"} =>
            pc'[q] \notin {"new", "enter"} /\ state'[q] = state[q] /\ key'[q] = key[q]
    BY <1>10 DEF Leave, Goto, locals, history, DeferredTimedOut, Types
  <2>2. /\ canceller' \in [State -> Request \cup {NoRequest}] /\ asked' \in SUBSET Request
        /\ UNCHANGED <<limit, latest, generation, entries, entry>>
    BY <1>10 DEF Leave, objects, locals, history, Bounded
  <2>3. permits' >= 0
    BY <1>10 DEF Leave, SettledPermits, Bounded, Types
  <2> QED
    BY <2>1, <2>2, <2>3, BoundsKept
<1>11. ASSUME NEW r \in Request, ClientGone(r)
      PROVE  Bounded'
  <2>1. \A q \in Request : pc[q] \notin {"new", "enter"} =>
            pc'[q] \notin {"new", "enter"} /\ state'[q] = state[q] /\ key'[q] = key[q]
    BY <1>11 DEF ClientGone, Goto, Answer, objects, locals, history,
       DeferredTimedOut, Types
  <2>2. /\ canceller' \in [State -> Request \cup {NoRequest}] /\ asked' \in SUBSET Request
        /\ UNCHANGED <<limit, latest, generation, entries, entry>>
    BY <1>11 DEF ClientGone, objects, locals, history, Bounded
  <2>3. permits' >= 0
    BY <1>11 DEF ClientGone, SettledPermits, Bounded, Types
  <2> QED
    BY <2>1, <2>2, <2>3, BoundsKept
<1>12. ASSUME NEW r \in Request, BackgroundEnds(r)
      PROVE  Bounded'
  <2>1. \A q \in Request : pc[q] \notin {"new", "enter"} =>
            pc'[q] \notin {"new", "enter"} /\ state'[q] = state[q] /\ key'[q] = key[q]
    BY <1>12 DEF BackgroundEnds, objects, locals, history, DeferredTimedOut,
       Types
  <2>2. /\ canceller' \in [State -> Request \cup {NoRequest}] /\ asked' \in SUBSET Request
        /\ UNCHANGED <<limit, latest, generation, entries, entry>>
    BY <1>12 DEF BackgroundEnds, objects, locals, history, Bounded
  <2>3. permits' >= 0
    BY <1>12 DEF BackgroundEnds, SettledPermits, Bounded, Types
  <2> QED
    BY <2>1, <2>2, <2>3, BoundsKept
<1>13. ASSUME NEW r \in Request, ClearActive(r)
      PROVE  Bounded'
  <2>1. \A q \in Request : pc[q] \notin {"new", "enter"} =>
            pc'[q] \notin {"new", "enter"} /\ state'[q] = state[q] /\ key'[q] = key[q]
    BY <1>13 DEF ClearActive, GotoNotifying, locals, history, DeferredTimedOut,
       Types
  <2>2. /\ canceller' \in [State -> Request \cup {NoRequest}] /\ asked' \in SUBSET Request
        /\ UNCHANGED <<limit, latest, generation, entries, entry>>
    BY <1>13 DEF ClearActive, objects, locals, history, Bounded
  <2>3. permits' >= 0
    BY <1>13 DEF ClearActive, SettledPermits, Bounded, Types
  <2> QED
    BY <2>1, <2>2, <2>3, BoundsKept
<1>14. ASSUME NEW r \in Request, DropState(r)
      PROVE  Bounded'
  <2>1. \A q \in Request : pc[q] \notin {"new", "enter"} =>
            pc'[q] \notin {"new", "enter"} /\ state'[q] = state[q] /\ key'[q] = key[q]
    BY <1>14 DEF DropState, locals, history, DeferredTimedOut, Types
  <2>2. /\ canceller' \in [State -> Request \cup {NoRequest}] /\ asked' \in SUBSET Request
        /\ UNCHANGED <<limit, latest, generation, entries, entry>>
    BY <1>14 DEF DropState, objects, locals, history, Bounded
  <2>3. permits' >= 0
    BY <1>14 DEF DropState, SettledPermits, Bounded, Types
  <2> QED
    BY <2>1, <2>2, <2>3, BoundsKept
<1> QED
  BY <1>1, <1>2, <1>3, <1>4, <1>5, <1>6, <1>7, <1>8, <1>9, <1>10, <1>11, <1>12,
     <1>13, <1>14 DEF Next, LoopStep, Ends

-----------------------------------------------------------------------------
(* The invariant, and what it shows.                                       *)

\* The first states satisfy the inductive invariant.
LEMMA InitIInv == Init => IInv
<1> SUFFICES ASSUME Init
             PROVE  IInv
  OBVIOUS
<1>1. Types
  BY SupersessionAssumption, Numbers DEF Init, Types, Place
<1>2. Named /\ DeferredTimedOut /\ Registered /\ Guarded /\ Ordered
  BY Numbers DEF Init, Named, DeferredTimedOut, Registered, Guarded, Ordered, Live, HasKey,
     Entered
<1>3. Permits = {} /\ \A s \in State : References(s) = {}
  BY DEF Init, Permits, HasPermit, References, Live
<1>4. Cardinality({}) = 0
  BY FS_EmptySet
<1>5. Counted
  BY <1>3, <1>4 DEF Init, Counted
<1>6. PermitsConserved
  BY <1>1, <1>3, <1>4, Conserved DEF Init, Types
<1>7. \A T \in SUBSET Request : Cardinality(T) \in Nat
  BY Count
<1>8. Bounded
  BY <1>7, SupersessionAssumption DEF Init, Bounded, TookGeneration, TookEntry
<1> QED
  BY <1>1, <1>2, <1>5, <1>6, <1>8 DEF IInv

\* Every step preserves the inductive invariant.
LEMMA NextIInv == IInv /\ [Next]_vars => IInv'
<1>1. ASSUME IInv, Next
      PROVE  IInv'
  BY <1>1, TypeStep, NamedStep, DeferredStep, CountedStep, RegisteredStep, GuardedStep,
     PermitsStep, OrderedStep, BoundedStep DEF IInv
<1>2. ASSUME IInv, UNCHANGED vars
      PROVE  IInv'
  BY <1>2 DEF vars, IInv, Types, Bounded, TookGeneration, TookEntry, Named, DeferredTimedOut, Counted, Registered, Guarded,
     PermitsConserved, Ordered, Live, HasKey, Entered, References
<1> QED
  BY <1>1, <1>2

\* Requests, states, permits and generations stay consistent: what the theorems below
\* are read off.
THEOREM SpecIInv == Spec => []IInv
BY InitIInv, NextIInv, PTL DEF Spec

\* Every variable keeps its type: counts stay within the number of requests, and the
\* limiter has between none and all of its permits to give.
THEOREM SpecTypeOK == Spec => []TypeOK
<1>1. ASSUME IInv
      PROVE  TypeOK
  <2>1. ASSUME NEW s \in State
        PROVE  latest[s] \in 0..MaxRequests /\ references[s] \in 0..MaxRequests
    <3>1. TookGeneration(s) \in SUBSET Request /\ References(s) \in SUBSET Request
      BY DEF TookGeneration, References
    <3>2. /\ Cardinality(TookGeneration(s)) \in Nat /\ Cardinality(References(s)) \in Nat
          /\ Cardinality(TookGeneration(s)) <= MaxRequests
          /\ Cardinality(References(s)) <= MaxRequests
      BY <3>1, Count
    <3> QED
      BY <1>1, <3>2, SupersessionAssumption DEF IInv, Types, Bounded, Counted
  <2>2. ASSUME NEW k \in Key
        PROVE  entries[k] \in 0..MaxRequests
    <3>1. TookEntry(k) \in SUBSET Request
      BY DEF TookEntry
    <3>2. Cardinality(TookEntry(k)) \in Nat /\ Cardinality(TookEntry(k)) <= MaxRequests
      BY <3>1, Count
    <3> QED
      BY <1>1, <3>2, SupersessionAssumption DEF IInv, Types, Bounded
  <2>3. permits \in 0..limit
    <3>1. Cardinality(Permits) \in Nat
      BY Count DEF Permits
    <3> QED
      BY <1>1, <3>1, Conserved DEF IInv, Types, Bounded
  <2>4. \A r \in Request : generation[r] \in 0..MaxRequests /\ entry[r] \in 0..MaxRequests
    BY <1>1, SupersessionAssumption DEF IInv, Types, Bounded
  <2>5. /\ latest \in [State -> 0..MaxRequests] /\ references \in [State -> 0..MaxRequests]
        /\ entries \in [Key -> 0..MaxRequests] /\ entry \in [Request -> 0..MaxRequests]
        /\ generation \in [Request -> 0..MaxRequests]
    BY <1>1, <2>1, <2>2, <2>4 DEF IInv, Types
  <2> QED
    BY <1>1, <2>3, <2>5 DEF IInv, Types, Bounded, TypeOK
<1> QED
  BY <1>1, SpecIInv, PTL

\* At most one work runs for a key, what a timed-out response left behind included,
\* also when the key's state was dropped and created anew (run_latest).
THEOREM SpecOneWorkPerKey == Spec => []OneWorkPerKey
<1>1. ASSUME IInv, NEW r \in Request, NEW q \in Request, key[r] = key[q],
             Working(r), Working(q)
      PROVE  r = q
  <2>1. HasKey(r) /\ HasKey(q)
    BY <1>1 DEF Working, HasKey
  <2>2. state[r] = state[q]
    BY <1>1, <2>1 DEF IInv, Registered
  <2> QED
    BY <1>1, <2>1, <2>2 DEF IInv, Guarded
<1>2. IInv => OneWorkPerKey
  BY <1>1 DEF OneWorkPerKey
<1> QED
  BY <1>2, SpecIInv, PTL

\* The limiter gets back each permit once, whichever way a request or its work ends
\* (run_latest, _settle_background).
THEOREM SpecPermitsConserved == Spec => []PermitsConserved
<1>1. IInv => PermitsConserved
  BY DEF IInv
<1> QED
  BY <1>1, SpecIInv, PTL

\* Being behind the state's latest generation is having been overtaken on the key.
LEMMA StaleIsOvertaken ==
  ASSUME IInv, NEW r \in Request, Entered(r)
  PROVE  Stale(r) <=> \E q \in Request : key[q] = key[r] /\ entry[q] > entry[r]
<1>1. PICK k \in Key : k = key[r]
  BY DEF IInv, Named, Entered
<1>2. PICK s \in State : s = state[r]
  BY DEF IInv, Named, Entered
<1>3. latest[s] - generation[r] = entries[k] - entry[r] /\ entry[r] <= entries[k]
  BY <1>1, <1>2, Numbers DEF IInv, Ordered
<1>4. /\ latest[s] \in Nat /\ generation[r] \in Nat /\ entries[k] \in Nat
      /\ \A q \in Request : entry[q] \in Nat
  BY DEF IInv, Types
<1>5. Stale(r) <=> entry[r] < entries[k]
  BY <1>2, <1>3, <1>4 DEF Stale
<1>6. \A q \in Request : key[q] = k => entry[q] <= entries[k]
  BY Numbers DEF IInv, Ordered
<1>7. entries[k] # 0 => \E q \in Request : key[q] = k /\ entry[q] = entries[k]
  BY DEF IInv, Ordered
<1> QED
  BY <1>1, <1>4, <1>5, <1>6, <1>7

\* Only the newest request of a key is given its work's result or error, and only an
\* overtaken one is refused (run_latest's checks of the generation).
THEOREM SpecNewestIsServed == Spec => NewestIsServed
<1>1. ASSUME IInv, Next, NEW r \in Request,
             pc[r] = "settle", pc'[r] = "leave", outcome'[r] = "own"
      PROVE  Entered(r) /\ ~Stale(r)
  <2>1. Entered(r)
    BY <1>1 DEF Entered
  <2>2. Settle(r)
    <3>1. ASSUME NEW q \in Request,
                 \/ \E k \in Key : Retain(q, k)
                 \/ Wait(q) \/ Acquire(q) \/ SupersededAtLimiter(q) \/ Activate(q)
                 \/ Leave(q) \/ WorkTimesOut(q) \/ ClientGone(q)
          PROVE  FALSE
      BY <1>1, <3>1 DEF IInv, Types, Retain, Wait, Acquire, SupersededAtLimiter, Activate,
         Leave, WorkTimesOut, ClientGone, Goto, Answer
    <3>2. ASSUME NEW q \in Request,
                 \/ Enter(q) \/ ClearActive(q)
                 \/ \E o \in {"own", "gone"} : WorkEnds(q, o)
          PROVE  FALSE
      BY <1>1, <3>2 DEF IInv, Types, Enter, ClearActive, WorkEnds, GotoNotifying
    <3>3. ASSUME NEW q \in Request, DropState(q) \/ BackgroundEnds(q)
          PROVE  FALSE
      BY <1>1, <3>3 DEF DropState, BackgroundEnds, locals
    <3>4. ASSUME NEW q \in Request, Settle(q)
          PROVE  q = r
      BY <1>1, <3>4 DEF IInv, Types, Settle, Goto, Answer
    <3> QED
      BY <1>1, <3>1, <3>2, <3>3, <3>4 DEF Next, LoopStep, Ends
  <2>3. outcome'[r] = SettledOutcome(r)
    BY <1>1, <2>2 DEF Settle, Answer, IInv, Types
  <2> QED
    BY <1>1, <2>1, <2>3 DEF SettledOutcome
<1>2. ASSUME IInv, Next, NEW r \in Request,
             outcome'[r] = "superseded", outcome[r] # "superseded"
      PROVE  Entered(r) /\ Stale(r)
  <2>1. ASSUME NEW q \in Request, Wait(q) \/ SupersededAtLimiter(q) \/ Activate(q) \/ Settle(q)
        PROVE  Entered(r) /\ Stale(r)
    <3>1. q = r
      BY <1>2, <2>1 DEF Wait, SupersededAtLimiter, Activate, Settle, Answer, IInv, Types
    <3>2. Entered(r)
      BY <2>1, <3>1 DEF Wait, SupersededAtLimiter, Activate, Settle, Entered
    <3>3. Stale(r)
      BY <1>2, <2>1, <3>1 DEF Wait, SupersededAtLimiter, Activate, Settle, SettledOutcome,
         Answer, IInv, Types
    <3> QED
      BY <3>2, <3>3
  <2>2. ASSUME NEW q \in Request,
               \/ \E k \in Key : Retain(q, k)
               \/ Enter(q) \/ Acquire(q) \/ Leave(q) \/ ClearActive(q) \/ DropState(q)
               \/ Ends(q) \/ ClientGone(q) \/ BackgroundEnds(q)
        PROVE  FALSE
    BY <1>2, <2>2 DEF Retain, Enter, Acquire, Leave, ClearActive, DropState, Ends, WorkEnds,
       WorkTimesOut, ClientGone, BackgroundEnds, Answer, IInv, Types
  <2> QED
    BY <1>2, <2>1, <2>2 DEF Next, LoopStep
<1>3. IInv /\ [Next]_vars =>
        [\A r \in Request :
           LET newer == \E q \in Request : key[q] = key[r] /\ entry[q] > entry[r] IN
           /\ pc[r] = "settle" /\ pc'[r] = "leave" /\ outcome'[r] = "own" => ~newer
           /\ outcome'[r] = "superseded" /\ outcome[r] # "superseded" => newer]_vars
  BY <1>1, <1>2, StaleIsOvertaken
<1> QED
  BY <1>3, SpecIInv, PTL DEF NewestIsServed, Spec
=============================================================================
