--------------------------- MODULE AdmissionProofs ---------------------------
(***************************************************************************)
(* Who holds memory admission, and for how long.  The builds of a slot     *)
(* hold it one at a time and leave what they wrote and recorded in order,  *)
(* for any number of jobs, requests and slots; memory in flight has an     *)
(* owner, and only what no wait could free refuses a patient request, for  *)
(* any number of requests and any samples of memory.                       *)
(***************************************************************************)
EXTENDS NodeDataBuilds, MemoryInFlight, FiniteSetTheorems, WellFoundedInduction, TLAPS

-----------------------------------------------------------------------------
(* NodeDataBuilds: the builds of a slot                                    *)

\* A job exists; its token is released and it will not touch its slot again.
Born(j) == status[j] # "unborn"
Gone(j) == pc[j] \in {"pop", "done"}

\* A job of the same slot that was created before j.
Earlier(k, j) == k < j /\ slotOf[k] = slotOf[j]

\* A request that is creating a job.
Creating(c) == client[c].pc \in {"supersede", "start"}

\* A token is only ever cancelled for one of two reasons.
FewReasons == reason \in [Job -> {NoReason, "superseded", "cancelled"}]

\* A request under way holds _slot_lock.
LockIsHeld == \A c \in Client : client[c].pc # "idle" => slotLock = c

\* Jobs are created in order, and one that is not has done nothing.
InOrder == \E n \in Job \cup {NoJob} : \A j \in Job : Born(j) <=> j <= n

Untouched(j) ==
  ~Born(j) => pc[j] = "none" /\ \A s \in Slot : clearedAt[s] < j

\* A request that creates a job: its thread is not started, and whatever is not gone
\* of its slot is the previous job or older.
NewJob(c) ==
  Creating(c) =>
    LET j == client[c].job
        p == client[c].prev
    IN  /\ j # NoJob /\ Born(j) /\ pc[j] = "none" /\ slotOf[j] = client[c].slot
        /\ p # NoJob => Earlier(p, j)
        /\ \A k \in Job : Earlier(k, j) => Gone(k) \/ k <= p

\* A job without a thread is being created.
HasThread(j) ==
  Born(j) /\ pc[j] = "none" => \E c \in Client : Creating(c) /\ client[c].job = j

\* Nothing older than j is left of its slot.
IsOldest(j) == \A k \in Job : Earlier(k, j) => Gone(k)

\* A job waits for the one before it, and past that nothing older is left.
Turn(j) ==
  /\ pc[j] = "join" => /\ waitFor[j] # NoJob => Earlier(waitFor[j], j)
                       /\ \A k \in Job : Earlier(k, j) => Gone(k) \/ k <= waitFor[j]
  /\ pc[j] \notin {"none", "join"} => IsOldest(j)

\* What a table names for slot s is its newest job, and without an entry all jobs
\* of the slot are gone.
Names(s, j) ==
  /\ j # NoJob => /\ Born(j) /\ slotOf[j] = s
                  /\ \A k \in Job : Born(k) /\ slotOf[k] = s => k <= j
  /\ j = NoJob => \A k \in Job : Born(k) /\ slotOf[k] = s => Gone(k)

Latest(s) == Names(s, latest[s]) /\ (latest[s] # NoJob => latest[s] \in registered)

\* What was there when the slot was cleared is gone.
Cleared(s) == \A j \in Job : Born(j) /\ slotOf[j] = s /\ j <= clearedAt[s] => Gone(j)

\* A clear has found the newest job of the slot, or none is left.
Clearing(c) ==
  /\ client[c].pc \in {"cancel", "await"} =>
       client[c].job # NoJob /\ Names(client[c].slot, client[c].job)
  /\ client[c].pc = "clear" => Names(client[c].slot, NoJob)

\* How the jobs of the slots follow each other.
Order ==
  /\ LockIsHeld /\ InOrder
  /\ \A j \in Job : Untouched(j) /\ HasThread(j) /\ Turn(j)
  /\ \A s \in Slot : Cleared(s)
  /\ \A c \in Client : NewJob(c) /\ Clearing(c)

\* What the registry's and the service's tables name.
Tables == \A s \in Slot : Latest(s) /\ Names(s, bySlot[s])

\* The data of a slot is that of a job which had its turn.
Written ==
  \A s \in Slot : data[s] # NoJob => slotOf[data[s]] = s /\ pc[data[s]] \notin {"none", "join"}

\* Who holds an admission; what a failing thread handles.
InThread ==
  \A j \in Job :
    /\ j \in admitted => pc[j] \in {"prepare", "work", "publish", "fail", "unadmit"}
    /\ pc[j] = "fail" => exc[j] \in Errors

\* A job superseded while it ran is nobody's latest, has not completed, and is
\* recorded as superseded once the request that replaced it has done so.
IsReplaced(j) ==
  /\ Born(j) /\ status[j] # "completed" /\ latest[slotOf[j]] # j
  /\ \/ status[j] = "superseded"
     \/ \E c \in Client : client[c].pc = "supersede" /\ client[c].prev = j

\* The inductive invariant.
IInv ==
  /\ TypeOK /\ FewReasons /\ Order /\ Tables /\ Written /\ InThread
  /\ \A j \in replaced : IsReplaced(j)

-----------------------------------------------------------------------------
(* The status protocol. *)

\* "superseded" ranks above every other reason.
LEMMA Ranks ==
  \A r \in TerminalReasons \ {"completed"} :
    /\ Precedence[r] \in Nat /\ Precedence[r] <= 60
    /\ r # "superseded" => Precedence[r] < 60
    /\ r = "superseded" => Precedence[r] = 60
BY DEF TerminalReasons, Precedence

\* What a transition of a status may come to.
LEMMA TransitionedIs ==
  ASSUME NEW old \in TerminalReasons \cup {"unborn", "running"},
         NEW r \in TerminalReasons
  PROVE LET new == Transitioned(old, r)
        IN  /\ new \in TerminalReasons \cup {"unborn", "running"}
            /\ new = "unborn" <=> old = "unborn"
            /\ old = "superseded" => new = "superseded"
            /\ new = "completed" => old = "completed" \/ r = "completed"
            /\ r = "superseded" /\ old \notin {"completed", "unborn"} => new = "superseded"
<1>1. "superseded" \in TerminalReasons \ {"completed"} /\ "unborn" \notin TerminalReasons
      /\ "running" \notin TerminalReasons
  BY DEF TerminalReasons
<1>2. Transitioned(old, r) \in {old, r}
  BY DEF Transitioned
<1>3. old = "superseded" => Transitioned(old, r) = "superseded"
  <2> SUFFICES ASSUME old = "superseded", r # old, MayTransition(old, r, "running")
               PROVE FALSE
    BY <1>2 DEF Transitioned
  <2> QED
    BY <1>1, Ranks DEF MayTransition
<1>4. ASSUME r = "superseded", old \notin {"completed", "unborn"}
      PROVE Transitioned(old, r) = "superseded"
  <2>1. CASE old = "running" \/ old = "superseded"
    BY <1>4, <2>1, <1>3 DEF Transitioned, MayTransition
  <2>2. CASE old \in TerminalReasons \ {"completed", "superseded"}
    BY <1>1, <1>4, <2>2, Ranks DEF Transitioned, MayTransition
  <2> QED
    BY <1>4, <2>1, <2>2
<1>5. Transitioned(old, r) = "unborn" <=> old = "unborn"
  BY <1>1, <1>2 DEF Transitioned, MayTransition
<1> QED
  BY <1>2, <1>3, <1>4, <1>5

-----------------------------------------------------------------------------
(* The initial states. *)

\* Job ids are positive numbers.
LEMMA JobsAreNumbers == Job \cup {NoJob} \subseteq Nat /\ \A j \in Job : j # NoJob /\ j > NoJob
BY ConstantsAssumption DEF Job, NoJob

\* The first states satisfy the inductive invariant.
LEMMA InitIInv == Init => IInv
<1>. SUFFICES ASSUME Init PROVE IInv
  OBVIOUS
<1>1. TypeOK
  <2>1. (CHOOSE s \in Slot : TRUE) \in Slot
    BY ConstantsAssumption
  <2>2. slotOf \in [Job -> Slot] /\ client \in [Client -> ClientRequest \cup {Idle}]
    BY <2>1 DEF Init
  <2>3. /\ status \in [Job -> TerminalReasons \cup {"unborn", "running"}]
        /\ latest \in [Slot -> Job \cup {NoJob}]
        /\ reason \in [Job -> TerminalReasons \cup {NoReason}]
        /\ byIdentity \in [Identity -> Job \cup {NoJob}]
        /\ bySlot \in [Slot -> Job \cup {NoJob}]
        /\ pc \in [Job -> ThreadPC]
    BY DEF Init, ThreadPC
  <2>4. /\ waitFor \in [Job -> Job \cup {NoJob}]
        /\ exc \in [Job -> Errors \cup {NoReason}]
        /\ data \in [Slot -> Job \cup {NoJob}]
        /\ clearedAt \in [Slot -> Job \cup {NoJob}]
        /\ registered \in SUBSET Job /\ admitted \in SUBSET Job /\ replaced \in SUBSET Job
        /\ slotLock \in Client \cup {NoClient} /\ running \in BOOLEAN
        /\ stop \in {"no", "sampled", "waiting", "ended", "expired"}
    BY DEF Init
  <2>. QED BY <2>2, <2>3, <2>4 DEF TypeOK
<1>2. \A j \in Job : ~Born(j) /\ pc[j] = "none" /\ j \notin admitted
  BY DEF Init, Born
<1>3. \A c \in Client : client[c].pc = "idle"
  BY DEF Init, Idle
<1>4. Order
  <2>1. LockIsHeld /\ \A c \in Client : NewJob(c) /\ Clearing(c)
    BY <1>3 DEF LockIsHeld, NewJob, Clearing, Creating
  <2>2. InOrder
    <3>1. \A j \in Job : Born(j) <=> j <= NoJob
      BY <1>2, JobsAreNumbers DEF NoJob
    <3>. QED BY <3>1 DEF InOrder
  <2>3. \A j \in Job : Untouched(j) /\ HasThread(j) /\ Turn(j)
    BY <1>2, JobsAreNumbers DEF Init, Untouched, HasThread, Turn
  <2>4. \A s \in Slot : Cleared(s)
    BY <1>2 DEF Cleared
  <2>. QED BY <2>1, <2>2, <2>3, <2>4 DEF Order
<1>5. Tables /\ Written
  BY <1>2 DEF Init, Tables, Written, Latest, Names
<1>6. FewReasons /\ InThread /\ replaced = {}
  BY <1>2 DEF Init, FewReasons, InThread
<1>. QED BY <1>1, <1>4, <1>5, <1>6 DEF IInv

-----------------------------------------------------------------------------
(* What the thread of a job does to the order of the jobs. *)

\* A step of j's thread: j moves on, past its wait only when that is over, and
\* back from its last steps never.
ThreadMoves(j, place) ==
  /\ pc[j] # "none" /\ place \in ThreadPC \ {"none", "join"}
  /\ Gone(j) => place = "done"
  /\ pc[j] = "join" /\ waitFor[j] # NoJob => pc[waitFor[j]] = "done"
  /\ pc' = [pc EXCEPT ![j] = place]
  /\ \A k \in Job \ {j} : waitFor'[k] = waitFor[k]
  /\ \A k \in Job : Born(k)' = Born(k)
  /\ UNCHANGED <<slotOf, slotLock, client, clearedAt, replaced>>

\* A job whose wait is over is the oldest of its slot.
LEMMA WaitIsOver ==
  ASSUME NEW j \in Job, IInv, pc[j] # "none",
         pc[j] = "join" /\ waitFor[j] # NoJob => pc[waitFor[j]] = "done"
  PROVE  IsOldest(j)
<1>1. Turn(j)
  BY DEF IInv, Order
<1>2. CASE pc[j] # "join"
  BY <1>1, <1>2 DEF Turn
<1>3. CASE pc[j] = "join"
  <2>. SUFFICES ASSUME NEW k \in Job, Earlier(k, j) PROVE Gone(k)
    BY DEF IsOldest
  <2>1. Gone(k) \/ k <= waitFor[j]
    BY <1>1, <1>3 DEF Turn
  <2>2. CASE waitFor[j] = NoJob
    BY <2>1, <2>2, JobsAreNumbers DEF NoJob
  <2>3. CASE waitFor[j] # NoJob
    <3>1. waitFor[j] \in Job /\ Earlier(waitFor[j], j) /\ pc[waitFor[j]] = "done"
      BY <1>1, <1>3, <2>3 DEF Turn, IInv, TypeOK
    <3>2. IsOldest(waitFor[j]) /\ Gone(waitFor[j])
      <4>1. Turn(waitFor[j])
        BY <3>1 DEF IInv, Order
      <4>. QED BY <3>1, <4>1 DEF Turn, Gone
    <3>3. Gone(k) \/ k = waitFor[j] \/ k < waitFor[j]
      <4>1. k \in Nat /\ waitFor[j] \in Nat
        BY <3>1, JobsAreNumbers
      <4>. QED BY <2>1, <4>1
    <3>. QED BY <3>1, <3>2, <3>3 DEF IsOldest, Earlier
  <2>. QED BY <2>2, <2>3
<1>. QED BY <1>2, <1>3

\* What a table named it names still, while jobs only move on.
LEMMA NamesKept ==
  ASSUME NEW s \in Slot, NEW j \in Job \cup {NoJob}, Names(s, j),
         \A k \in Job : Born(k)' = Born(k) /\ (Gone(k) => Gone(k)'),
         UNCHANGED slotOf
  PROVE  Names(s, j)'
BY JobsAreNumbers DEF Names

\* A step of a thread keeps the order of the jobs; that job was the oldest of its slot.
LEMMA ThreadKeepsOrder ==
  ASSUME NEW j \in Job, NEW place, IInv, ThreadMoves(j, place)
  PROVE  /\ Order'
         /\ \A k \in Job : Gone(k) => Gone(k)'
         /\ IsOldest(j) /\ Born(j)
         /\ \A k \in Job : pc[k] \notin {"none", "join"} => pc'[k] \notin {"none", "join"}
<1>. /\ pc \in [Job -> ThreadPC] /\ clearedAt \in [Slot -> Job \cup {NoJob}]
     /\ client \in [Client -> ClientRequest \cup {Idle}]
  BY DEF IInv, TypeOK
<1>1. \A k \in Job : pc'[k] = IF k = j THEN place ELSE pc[k]
  BY DEF ThreadMoves
<1>2. IsOldest(j)
  BY WaitIsOver DEF ThreadMoves
<1>3. \A k \in Job : Gone(k) => Gone(k)'
  BY <1>1 DEF Gone, ThreadMoves
<1>4. Born(j)
  BY DEF IInv, Order, Untouched, ThreadMoves
<1>5. \A k \in Job : pc'[k] = "none" <=> pc[k] = "none"
  BY <1>1 DEF ThreadMoves
<1>6. LockIsHeld' /\ InOrder'
  <2>1. PICK n \in Job \cup {NoJob} : \A k \in Job : Born(k) <=> k <= n
    BY DEF IInv, Order, InOrder
  <2>2. \A k \in Job : Born(k)' <=> k <= n
    BY <2>1 DEF ThreadMoves
  <2>. QED BY <2>2 DEF IInv, Order, LockIsHeld, InOrder, ThreadMoves
<1>7. \A k \in Job : (Untouched(k) /\ HasThread(k))'
  BY <1>5 DEF IInv, Order, Untouched, HasThread, Creating, ThreadMoves
<1>8. ASSUME NEW k \in Job PROVE Turn(k)'
  <2>1. CASE k = j
    BY <1>1, <1>2, <1>3, <2>1 DEF Turn, IsOldest, Earlier, ThreadMoves
  <2>2. CASE k # j
    <3>1. Turn(k) /\ pc'[k] = pc[k] /\ waitFor'[k] = waitFor[k]
      BY <1>1, <2>2 DEF IInv, Order, ThreadMoves
    <3>2. \A m \in Job : Earlier(m, k)' = Earlier(m, k)
      BY DEF Earlier, ThreadMoves
    <3>3. waitFor[k] # NoJob => Earlier(waitFor[k], k)' = Earlier(waitFor[k], k)
      BY <3>1 DEF Earlier, ThreadMoves
    <3>. QED BY <1>3, <3>1, <3>2, <3>3 DEF Turn, IsOldest, Earlier, ThreadMoves
  <2>. QED BY <2>1, <2>2
<1>9. ASSUME NEW s \in Slot PROVE Cleared(s)'
  BY <1>3 DEF IInv, Order, Cleared, ThreadMoves
<1>10. ASSUME NEW c \in Client PROVE NewJob(c)' /\ Clearing(c)'
  <2>1. NewJob(c) /\ Clearing(c) /\ client' = client
    BY DEF IInv, Order, ThreadMoves
  <2>2. NewJob(c)'
    <3>. SUFFICES ASSUME Creating(c) PROVE NewJob(c)'
      BY <2>1 DEF NewJob, Creating
    <3>1. client[c].job \in Job \cup {NoJob}
      BY DEF Creating, ClientRequest, Idle
    <3>. QED BY <1>1, <1>3, <1>5, <2>1, <3>1 DEF NewJob, Creating, Earlier, ThreadMoves
  <2>3. Clearing(c)'
    <3>. SUFFICES ASSUME client[c].pc \in {"cancel", "await", "clear"} PROVE Clearing(c)'
      BY <2>1 DEF Clearing
    <3>1. client[c].job \in Job \cup {NoJob} /\ client[c].slot \in Slot
      BY DEF ClientRequest, Idle
    <3>2. \A k \in Job \cup {NoJob} : Names(client[c].slot, k) => Names(client[c].slot, k)'
      BY <1>3, <2>1, <3>1, NamesKept DEF ThreadMoves
    <3>. QED BY <2>1, <3>1, <3>2 DEF Clearing
  <2>. QED BY <2>2, <2>3
<1>11. \A k \in Job : pc[k] \notin {"none", "join"} => pc'[k] \notin {"none", "join"}
  BY <1>1 DEF ThreadMoves
<1>. QED BY <1>2, <1>3, <1>4, <1>6, <1>7, <1>8, <1>9, <1>10, <1>11 DEF Order

-----------------------------------------------------------------------------
(* The steps of the thread of a job and of its worker. *)

\* A step that touches neither records nor tables.
QuietMove(j, place) ==
  /\ ThreadMoves(j, place)
  /\ UNCHANGED <<status, latest, registered, reason, bySlot, data, stop, running>>
  /\ byIdentity' \in [Identity -> Job \cup {NoJob}]
  /\ waitFor' \in [Job -> Job \cup {NoJob}]
  /\ exc' \in [Job -> Errors \cup {NoReason}] /\ \A k \in Job \ {j} : exc'[k] = exc[k]
  /\ admitted' \in SUBSET Job /\ admitted' \ {j} = admitted \ {j}
  /\ j \in admitted' => place \in {"prepare", "work", "publish", "fail", "unadmit"}
  /\ place = "fail" => exc'[j] \in Errors

\* What every step of a thread keeps of the types.
LEMMA ThreadTypes ==
  ASSUME NEW j \in Job, NEW place, IInv, ThreadMoves(j, place)
  PROVE  /\ pc' \in [Job -> ThreadPC] /\ slotOf' \in [Job -> Slot]
         /\ slotLock' \in Client \cup {NoClient}
         /\ client' \in [Client -> ClientRequest \cup {Idle}]
         /\ replaced' \in SUBSET Job /\ clearedAt' \in [Slot -> Job \cup {NoJob}]
BY DEF IInv, TypeOK, ThreadMoves

\* A step that leaves the tables alone keeps what they name.
LEMMA TablesKept ==
  ASSUME NEW j \in Job, NEW place, IInv, ThreadMoves(j, place),
         UNCHANGED <<latest, registered, bySlot>>
  PROVE  Tables'
<1>. SUFFICES ASSUME NEW s \in Slot PROVE Latest(s)' /\ Names(s, bySlot[s])'
  BY DEF Tables
<1>1. latest[s] \in Job \cup {NoJob} /\ bySlot[s] \in Job \cup {NoJob}
  BY DEF IInv, TypeOK
<1>2. \A k \in Job : Born(k)' = Born(k) /\ (Gone(k) => Gone(k)')
  BY ThreadKeepsOrder DEF ThreadMoves
<1>3. Latest(s) /\ Names(s, bySlot[s])
  BY DEF IInv, Tables
<1>4. Names(s, latest[s])' 
  <2>. DEFINE l == latest[s]
  <2>1. Names(s, l) /\ latest'[s] = l
    BY <1>3 DEF Latest
  <2>. HIDE DEF l
  <2>2. \A k \in Job \cup {NoJob} : Names(s, k) => Names(s, k)'
    BY <1>2, NamesKept DEF ThreadMoves
  <2>. QED BY <1>1, <2>1, <2>2 DEF Names, l
<1>5. Names(s, bySlot[s])'
  <2>2. \A k \in Job \cup {NoJob} : Names(s, k) => Names(s, k)'
    BY <1>2, NamesKept DEF ThreadMoves
  <2>. QED BY <1>1, <1>3, <2>2 DEF Names
<1>. QED BY <1>3, <1>4, <1>5 DEF Latest

\* A step that leaves the slots' data alone keeps whose it is.
LEMMA WrittenKept ==
  ASSUME NEW j \in Job, NEW place, IInv, ThreadMoves(j, place), UNCHANGED data
  PROVE  Written'
<1>1. \A k \in Job : pc[k] \notin {"none", "join"} => pc'[k] \notin {"none", "join"}
  BY ThreadKeepsOrder
<1>2. \A s \in Slot : data[s] \in Job \cup {NoJob}
  BY DEF IInv, TypeOK
<1>. QED BY <1>1, <1>2 DEF IInv, Written, ThreadMoves

\* Records and latest jobs as they were, what was replaced is as it was.
LEMMA ReplacedKept ==
  ASSUME NEW j \in Job, NEW place, IInv, ThreadMoves(j, place), UNCHANGED <<status, latest>>
  PROVE  \A k \in replaced' : IsReplaced(k)'
BY DEF IInv, IsReplaced, Born, ThreadMoves

\* A step that touches neither records nor tables keeps the invariant.
LEMMA QuietMoveKeeps ==
  ASSUME NEW j \in Job, NEW place, IInv, QuietMove(j, place) PROVE IInv'
<1>0. ThreadMoves(j, place)
  BY DEF QuietMove
<1>1. TypeOK'
  BY <1>0, ThreadTypes DEF IInv, TypeOK, QuietMove
<1>2. Order'
  BY <1>0, ThreadKeepsOrder
<1>3. InThread'
  <2>1. \A k \in Job : pc'[k] = IF k = j THEN place ELSE pc[k]
    BY DEF QuietMove, ThreadMoves, IInv, TypeOK
  <2>. QED BY <2>1 DEF IInv, InThread, QuietMove
<1>4. FewReasons' /\ Tables' /\ Written' /\ \A k \in replaced' : IsReplaced(k)'
  BY <1>0, TablesKept, WrittenKept, ReplacedKept DEF IInv, FewReasons, QuietMove
<1>. QED BY <1>1, <1>2, <1>3, <1>4 DEF IInv

\* How a thread gets from one place to the next.
LEMMA MovesTo ==
  ASSUME NEW j \in Job, NEW place \in ThreadPC \ {"none", "join"}, IInv,
         pc[j] \notin {"none", "pop", "done"} \/ (pc[j] = "pop" /\ place = "done"),
         pc[j] = "join" /\ waitFor[j] # NoJob => pc[waitFor[j]] = "done",
         pc' = [pc EXCEPT ![j] = place],
         \A k \in Job \ {j} : waitFor'[k] = waitFor[k],
         \A k \in Job : status'[k] = "unborn" <=> status[k] = "unborn",
         UNCHANGED <<slotOf, slotLock, client, clearedAt, replaced>>
  PROVE  ThreadMoves(j, place)
BY DEF ThreadMoves, Gone, Born

\* The steps of a thread and its worker that touch neither.
LEMMA PlainSteps ==
  ASSUME NEW j \in Job, IInv,
         \/ JoinPredecessor(j) \/ Admit(j) \/ WorkerReturns(j) \/ PublishFails(j)
         \/ ReleaseAdmission(j)
         \/ \E e \in Errors : SetupFails(j, e) \/ WorkerFails(j, e)
         \/ \E i \in Identity : Prepare(j, i)
  PROVE  IInv'
<1>. USE DEF Goto, Raise, registry, tables, shutdown
<1>0. /\ byIdentity \in [Identity -> Job \cup {NoJob}]
      /\ waitFor \in [Job -> Job \cup {NoJob}]
      /\ exc \in [Job -> Errors \cup {NoReason}]
      /\ admitted \in SUBSET Job
  BY DEF IInv, TypeOK
<1>a. {"admit", "prepare", "work", "publish", "fail", "unadmit", "release"}
        \subseteq ThreadPC \ {"none", "join"}
  BY DEF ThreadPC
<1>b. j \in admitted => pc[j] \in {"prepare", "work", "publish", "fail", "unadmit"}
  BY DEF IInv, InThread
<1>1. CASE JoinPredecessor(j)
  <2>1. waitFor' \in [Job -> Job \cup {NoJob}] /\ \A k \in Job \ {j} : waitFor'[k] = waitFor[k]
    BY <1>0, <1>1 DEF JoinPredecessor
  <2>2. PICK place \in {"admit", "fail"} : 
          /\ pc' = [pc EXCEPT ![j] = place]
          /\ place = "fail" => exc' = [exc EXCEPT ![j] = "stopped"]
          /\ place = "admit" => UNCHANGED exc
    BY <1>1 DEF JoinPredecessor
  <2>3. ThreadMoves(j, place)
    BY <1>1, <1>a, <2>1, <2>2, MovesTo DEF JoinPredecessor
  <2>4. /\ exc' \in [Job -> Errors \cup {NoReason}] /\ \A k \in Job \ {j} : exc'[k] = exc[k]
        /\ place = "fail" => exc'[j] \in Errors
    BY <1>0, <2>2 DEF Errors
  <2>5. j \notin admitted
    BY <1>1, <1>b DEF JoinPredecessor
  <2>6. QuietMove(j, place)
    BY <1>0, <1>1, <2>1, <2>3, <2>4, <2>5 DEF JoinPredecessor, QuietMove
  <2>. QED BY <2>6, QuietMoveKeeps
<1>2. CASE Admit(j)
  <2>1. ThreadMoves(j, "prepare")
    BY <1>2, <1>a, MovesTo DEF Admit
  <2>2. QuietMove(j, "prepare")
    BY <1>0, <1>2, <2>1 DEF Admit, QuietMove
  <2>. QED BY <2>2, QuietMoveKeeps
<1>3. CASE WorkerReturns(j)
  <2>1. ThreadMoves(j, "publish")
    BY <1>3, <1>a, MovesTo DEF WorkerReturns
  <2>2. QuietMove(j, "publish")
    BY <1>0, <1>3, <2>1 DEF WorkerReturns, QuietMove
  <2>. QED BY <2>2, QuietMoveKeeps
<1>4. CASE ReleaseAdmission(j)
  <2>1. ThreadMoves(j, "release")
    BY <1>4, <1>a, MovesTo DEF ReleaseAdmission
  <2>2. QuietMove(j, "release")
    BY <1>0, <1>4, <2>1 DEF ReleaseAdmission, QuietMove
  <2>. QED BY <2>2, QuietMoveKeeps
<1>5. ASSUME NEW i \in Identity, Prepare(j, i) PROVE IInv'
  <2>1. ThreadMoves(j, "work")
    BY <1>5, <1>a, MovesTo DEF Prepare
  <2>2. byIdentity' \in [Identity -> Job \cup {NoJob}]
    BY <1>0, <1>5 DEF Prepare
  <2>3. QuietMove(j, "work")
    BY <1>0, <1>5, <2>1, <2>2 DEF Prepare, QuietMove
  <2>. QED BY <2>3, QuietMoveKeeps
<1>6. ASSUME NEW e \in Errors,
             SetupFails(j, e) \/ WorkerFails(j, e) \/ (PublishFails(j) /\ e = "error")
      PROVE IInv'
  <2>1. /\ pc[j] \in {"admit", "prepare", "work", "publish"}
        /\ pc' = [pc EXCEPT ![j] = "fail"] /\ exc' = [exc EXCEPT ![j] = e]
        /\ UNCHANGED <<status, slotOf, registry, tables, waitFor, admitted, data, slotLock,
                       client, shutdown, replaced, clearedAt>>
    BY <1>6 DEF SetupFails, WorkerFails, PublishFails
  <2>2. ThreadMoves(j, "fail")
    BY <1>a, <2>1, MovesTo
  <2>3. QuietMove(j, "fail")
    BY <1>0, <2>1, <2>2 DEF QuietMove
  <2>. QED BY <2>3, QuietMoveKeeps
<1>7. CASE PublishFails(j)
  BY <1>6, <1>7 DEF PublishFails
<1>. QED BY <1>1, <1>2, <1>3, <1>4, <1>5, <1>6, <1>7

\* A worker writes its slot in its job's turn.
LEMMA WorkerPublishesKeeps == ASSUME NEW j \in Job, IInv, WorkerPublishes(j) PROVE IInv'
<1>. USE DEF registry, tables, shutdown
<1>0. pc \in [Job -> ThreadPC] /\ data \in [Slot -> Job \cup {NoJob}] /\ slotOf[j] \in Slot
  BY DEF IInv, TypeOK
<1>1. ThreadMoves(j, "work")
  <2>1. pc' = [pc EXCEPT ![j] = "work"]
    BY <1>0 DEF WorkerPublishes
  <2>. QED BY <2>1, MovesTo DEF WorkerPublishes, ThreadPC
<1>2. TypeOK'
  BY <1>0 DEF IInv, TypeOK, WorkerPublishes
<1>3. Written'
  BY <1>0 DEF IInv, Written, WorkerPublishes
<1>4. Order' /\ Tables' /\ \A k \in replaced' : IsReplaced(k)'
  BY <1>1, ThreadKeepsOrder, TablesKept, ReplacedKept DEF WorkerPublishes
<1>5. FewReasons' /\ InThread'
  BY DEF IInv, FewReasons, InThread, WorkerPublishes
<1>. QED BY <1>2, <1>3, <1>4, <1>5 DEF IInv

\* A job that ends: its record is finished as r, "completed" only if it is the latest.
LEMMA EndsKeep ==
  ASSUME NEW j \in Job, NEW r \in TerminalReasons, IInv,
         pc[j] \in {"publish", "fail"},
         r = "completed" => latest[slotOf[j]] = j,
         status' = [status EXCEPT ![j] = Transitioned(@, r)],
         pc' = [pc EXCEPT ![j] = "unadmit"],
         exc' \in [Job -> Errors \cup {NoReason}], \A k \in Job \ {j} : exc'[k] = exc[k],
         UNCHANGED <<slotOf, registry, tables, waitFor, admitted, data, slotLock,
                     client, shutdown, replaced, clearedAt>>
  PROVE  IInv'
<1>. USE DEF registry, tables, shutdown
<1>0. /\ status \in [Job -> TerminalReasons \cup {"unborn", "running"}]
      /\ pc \in [Job -> ThreadPC]
  BY DEF IInv, TypeOK
<1>. DEFINE new == Transitioned(status[j], r)
<1>1. /\ new \in TerminalReasons \cup {"unborn", "running"}
      /\ new = "unborn" <=> status[j] = "unborn"
      /\ status[j] = "superseded" => new = "superseded"
      /\ new = "completed" => status[j] = "completed" \/ r = "completed"
  BY <1>0, TransitionedIs
<1>2. status' = [status EXCEPT ![j] = new]
  OBVIOUS
<1>. HIDE DEF new
<1>3. status' \in [Job -> TerminalReasons \cup {"unborn", "running"}]
      /\ \A k \in Job : status'[k] = "unborn" <=> status[k] = "unborn"
  BY <1>0, <1>1, <1>2
<1>4. ThreadMoves(j, "unadmit")
  BY <1>3, MovesTo DEF ThreadPC
<1>5. TypeOK'
  BY <1>3, <1>4, ThreadTypes DEF IInv, TypeOK
<1>6. Order' /\ Tables' /\ Written'
  BY <1>4, ThreadKeepsOrder, TablesKept, WrittenKept
<1>7. InThread' /\ FewReasons'
  BY <1>0 DEF IInv, InThread, FewReasons
<1>8. ASSUME NEW k \in replaced PROVE IsReplaced(k)'
  <2>1. k \in Job /\ IsReplaced(k)
    BY DEF IInv, TypeOK
  <2>2. k = j => r # "completed"
    BY <2>1 DEF IsReplaced
  <2>3. status'[k] # "unborn" /\ status'[k] # "completed"
        /\ (status[k] = "superseded" => status'[k] = "superseded")
    BY <1>0, <1>1, <1>2, <2>1, <2>2 DEF IsReplaced, Born
  <2>. QED BY <2>1, <2>3 DEF IsReplaced, Born
<1>. QED BY <1>5, <1>6, <1>7, <1>8 DEF IInv

\* Only the slot's latest job is completed.
LEMMA PublishKeeps == ASSUME NEW j \in Job, IInv, Publish(j) PROVE IInv'
<1>. DEFINE r == IF Owns(j) THEN "completed" ELSE TokenReason(j, "cancelled")
<1>1. r \in TerminalReasons /\ (r = "completed" => latest[slotOf[j]] = j)
  BY DEF IInv, FewReasons, Owns, TokenReason, Cancelled, TerminalReasons
<1>2. status' = [status EXCEPT ![j] = Transitioned(@, r)]
  BY DEF Publish, PublishOutcome
<1>3. exc' \in [Job -> Errors \cup {NoReason}] /\ \A k \in Job \ {j} : exc'[k] = exc[k]
  BY DEF Publish, IInv, TypeOK
<1>. HIDE DEF r
<1>. QED BY <1>1, <1>2, <1>3, EndsKeep DEF Publish, Goto

\* No reason a failing thread records is "completed".
LEMMA FailReasonsAre ==
  ASSUME NEW j \in Job, IInv, pc[j] = "fail"
  PROVE  FailReasons(j) \subseteq TerminalReasons \ {"completed"}
<1>1. exc[j] \in {"stopped", "timed_out", "memory_limited", "contract_error", "error"}
  BY ConstantsAssumption DEF IInv, InThread, Errors
<1>2. \A o \in TerminalReasons \ {"completed"} :
        TokenReason(j, o) \in TerminalReasons \ {"completed"}
  BY DEF IInv, FewReasons, TokenReason, Cancelled, TerminalReasons
<1>. QED BY <1>1, <1>2 DEF FailReasons, TerminalReasons

\* A failing thread finishes its job's record.
LEMMA FailJobKeeps == ASSUME NEW j \in Job, IInv, FailJob(j) PROVE IInv'
<1>1. PICK r \in FailReasons(j) : status' = [status EXCEPT ![j] = Transitioned(@, r)]
  BY DEF FailJob
<1>2. r \in TerminalReasons \ {"completed"}
  BY FailReasonsAre DEF FailJob
<1>3. exc' \in [Job -> Errors \cup {NoReason}] /\ \A k \in Job \ {j} : exc'[k] = exc[k]
  BY DEF FailJob, IInv, TypeOK
<1>. QED BY <1>1, <1>2, <1>3, EndsKeep DEF FailJob, Goto

\* When the last job of a slot is gone, all jobs of the slot are.
LEMMA NoneLeft ==
  ASSUME NEW j \in Job, NEW place, IInv, ThreadMoves(j, place), Gone(j)',
         NEW s \in Slot, Names(s, j)
  PROVE  Names(s, NoJob)'
<1>. SUFFICES ASSUME NEW k \in Job, Born(k), slotOf[k] = s PROVE Gone(k)'
  BY JobsAreNumbers DEF Names, ThreadMoves
<1>1. k <= j /\ slotOf[j] = s
  BY JobsAreNumbers DEF Names
<1>2. CASE k = j
  BY <1>2
<1>3. CASE k # j
  <2>1. k \in Nat /\ j \in Nat
    BY JobsAreNumbers
  <2>2. Earlier(k, j)
    BY <1>1, <1>3, <2>1 DEF Earlier
  <2>. QED BY <2>2, ThreadKeepsOrder DEF IsOldest
<1>. QED BY <1>2, <1>3

\* An entry of a table that a thread leaves, or drops because it is the job's own.
LEMMA EntryKept ==
  ASSUME NEW j \in Job, NEW place, IInv, ThreadMoves(j, place), Gone(j)',
         NEW s \in Slot, NEW old \in Job \cup {NoJob}, NEW new \in {old, NoJob},
         Names(s, old), new # old => old = j
  PROVE  Names(s, new)'
<1>1. \A k \in Job : Born(k)' = Born(k) /\ (Gone(k) => Gone(k)')
  BY ThreadKeepsOrder DEF ThreadMoves
<1>2. CASE new = old
  <2>1. Names(s, new)
    BY <1>2
  <2>. QED BY <1>1, <2>1, NamesKept DEF ThreadMoves
<1>3. CASE new # old
  BY <1>3, NoneLeft
<1>. QED BY <1>2, <1>3

\* A released token takes the latest entry along only if it is the job's own.
LEMMA ReleaseJobKeeps == ASSUME NEW j \in Job, IInv, ReleaseJob(j) PROVE IInv'
<1>. USE DEF tables, shutdown
<1>0. /\ pc \in [Job -> ThreadPC] /\ latest \in [Slot -> Job \cup {NoJob}]
      /\ slotOf[j] \in Slot /\ registered \in SUBSET Job
  BY DEF IInv, TypeOK
<1>1. ThreadMoves(j, "pop") /\ Gone(j)'
  <2>1. ThreadMoves(j, "pop")
    BY MovesTo DEF ReleaseJob, Goto, ThreadPC
  <2>. QED BY <1>0, <2>1 DEF ThreadMoves, Gone
<1>2. /\ registered' = registered \ {j}
      /\ latest' \in [Slot -> Job \cup {NoJob}]
      /\ \A s \in Slot : latest'[s] \in {latest[s], NoJob}
      /\ \A s \in Slot : latest'[s] # latest[s] => latest[s] = j
      /\ latest[slotOf[j]] = j /\ j \in registered => latest'[slotOf[j]] = NoJob
  BY <1>0 DEF ReleaseJob, ReleaseToken
<1>3. Order'
  BY <1>1, ThreadKeepsOrder
<1>4. TypeOK' /\ FewReasons'
  <2>1. reason' \in [Job -> {NoReason, "superseded", "cancelled"}]
    BY DEF IInv, FewReasons, ReleaseJob, ReleaseToken
  <2>2. reason' \in [Job -> TerminalReasons \cup {NoReason}]
    BY <2>1 DEF TerminalReasons
  <2>. QED BY <1>0, <1>1, <1>2, <2>1, <2>2, ThreadTypes DEF IInv, TypeOK, FewReasons, ReleaseJob
<1>5. Tables'
  <2>. SUFFICES ASSUME NEW s \in Slot PROVE Latest(s)' /\ Names(s, bySlot[s])'
    BY DEF Tables
  <2>1. Latest(s) /\ Names(s, bySlot[s])
    BY DEF IInv, Tables
  <2>2. latest[s] \in Job \cup {NoJob} /\ bySlot[s] \in Job \cup {NoJob}
    BY DEF IInv, TypeOK
  <2>3. \A old \in Job \cup {NoJob} : \A new \in {old, NoJob} :
          Names(s, old) /\ (new # old => old = j) => Names(s, new)'
    BY <1>1, EntryKept
  <2>4. Names(s, latest[s])'
    <3>1. PICK l \in Job \cup {NoJob} :
            l = latest'[s] /\ l \in {latest[s], NoJob} /\ (l # latest[s] => latest[s] = j)
      BY <1>2
    <3>2. Names(s, l)'
      BY <2>1, <2>2, <2>3, <3>1 DEF Latest
    <3>. QED BY <3>1, <3>2 DEF Names
  <2>5. Names(s, bySlot[s])'
    <3>1. bySlot'[s] = bySlot[s]
      BY DEF ReleaseJob
    <3>2. \A b \in Job \cup {NoJob} : Names(s, b) => Names(s, b)'
      BY <2>3
    <3>. QED BY <2>1, <2>2, <3>1, <3>2 DEF Names
  <2>6. latest'[s] # NoJob => latest'[s] \in registered'
    <3>1. CASE latest[s] = j
      <4>1. slotOf[j] = s /\ j \in registered
        BY <2>1, <3>1, JobsAreNumbers DEF Latest, Names
      <4>. QED BY <1>2, <3>1, <4>1
    <3>2. CASE latest[s] # j
      BY <1>2, <2>1, <3>2 DEF Latest
    <3>. QED BY <3>1, <3>2
  <2>. QED BY <2>4, <2>5, <2>6 DEF Latest
<1>6. Written'
  BY <1>1, WrittenKept DEF ReleaseJob
<1>7. InThread'
  BY <1>0 DEF IInv, InThread, ReleaseJob, Goto
<1>8. \A k \in replaced' : IsReplaced(k)'
  <2>. SUFFICES ASSUME NEW k \in replaced PROVE IsReplaced(k)'
    BY DEF ReleaseJob
  <2>1. k \in Job /\ IsReplaced(k) /\ slotOf[k] \in Slot
    BY DEF IInv, TypeOK
  <2>2. latest'[slotOf[k]] # k
    BY <1>2, <2>1, JobsAreNumbers DEF IsReplaced
  <2>. QED BY <2>1, <2>2 DEF IsReplaced, Born, ReleaseJob
<1>. QED BY <1>3, <1>4, <1>5, <1>6, <1>7, <1>8 DEF IInv

\* A thread's last step drops the table entries that are its job's own.
LEMMA PopTablesKeeps == ASSUME NEW j \in Job, IInv, PopTables(j) PROVE IInv'
<1>. USE DEF registry, shutdown
<1>0. /\ pc \in [Job -> ThreadPC] /\ bySlot \in [Slot -> Job \cup {NoJob}]
      /\ byIdentity \in [Identity -> Job \cup {NoJob}] /\ slotOf[j] \in Slot
  BY DEF IInv, TypeOK
<1>1. ThreadMoves(j, "done") /\ Gone(j)'
  <2>1. ThreadMoves(j, "done")
    BY MovesTo DEF PopTables, Goto, ThreadPC
  <2>. QED BY <1>0, <2>1 DEF ThreadMoves, Gone
<1>2. /\ bySlot' \in [Slot -> Job \cup {NoJob}]
      /\ \A s \in Slot : bySlot'[s] \in {bySlot[s], NoJob}
      /\ \A s \in Slot : bySlot'[s] # bySlot[s] => bySlot[s] = j
  BY <1>0 DEF PopTables, PopSlot
<1>3. Order' /\ Written'
  BY <1>1, ThreadKeepsOrder, WrittenKept DEF PopTables
<1>4. TypeOK' /\ FewReasons'
  <2>1. byIdentity' \in [Identity -> Job \cup {NoJob}]
    BY <1>0 DEF PopTables
  <2>. QED BY <1>1, <1>2, <2>1, ThreadTypes DEF IInv, TypeOK, FewReasons, PopTables
<1>5. Tables'
  <2>. SUFFICES ASSUME NEW s \in Slot PROVE Latest(s)' /\ Names(s, bySlot[s])'
    BY DEF Tables
  <2>1. Latest(s) /\ Names(s, bySlot[s])
    BY DEF IInv, Tables
  <2>2. latest[s] \in Job \cup {NoJob} /\ bySlot[s] \in Job \cup {NoJob}
    BY DEF IInv, TypeOK
  <2>3. \A old \in Job \cup {NoJob} : \A new \in {old, NoJob} :
          Names(s, old) /\ (new # old => old = j) => Names(s, new)'
    BY <1>1, EntryKept
  <2>4. Names(s, bySlot[s])'
    <3>1. PICK b \in Job \cup {NoJob} :
            b = bySlot'[s] /\ b \in {bySlot[s], NoJob} /\ (b # bySlot[s] => bySlot[s] = j)
      BY <1>2
    <3>2. Names(s, b)'
      BY <2>1, <2>2, <2>3, <3>1
    <3>. QED BY <3>1, <3>2 DEF Names
  <2>5. Latest(s)'
    <3>1. latest'[s] = latest[s] /\ registered' = registered
      BY DEF PopTables
    <3>2. \A l \in Job \cup {NoJob} : Names(s, l) => Names(s, l)'
      BY <2>3
    <3>3. Names(s, latest[s])'
      BY <2>1, <2>2, <3>1, <3>2 DEF Names, Latest
    <3>. QED BY <2>1, <3>1, <3>3 DEF Latest
  <2>. QED BY <2>4, <2>5
<1>6. InThread'
  BY <1>0 DEF IInv, InThread, PopTables, Goto
<1>7. \A k \in replaced' : IsReplaced(k)'
  BY <1>1, ReplacedKept DEF PopTables
<1>. QED BY <1>2, <1>3, <1>4, <1>5, <1>6, <1>7 DEF IInv

-----------------------------------------------------------------------------
(* The steps of a request. *)

\* Requests take turns at _slot_lock.
LEMMA OthersIdle ==
  ASSUME NEW c \in Client, IInv, client[c].pc # "idle" \/ slotLock = NoClient
  PROVE  \A d \in Client \ {c} : client[d].pc = "idle"
BY ConstantsAssumption DEF IInv, Order, LockIsHeld

\* A step of a request that creates no job: it moves on, and may clear a slot.
LEMMA RequestMovesKeep ==
  ASSUME NEW c \in Client, IInv,
         \A d \in Client \ {c} : client[d].pc = "idle" /\ client'[d] = client[d],
         client' \in [Client -> ClientRequest \cup {Idle}],
         slotLock' \in Client \cup {NoClient},
         client'[c].pc # "idle" => slotLock' = c,
         ~Creating(c), ~Creating(c)', Clearing(c)',
         reason' \in [Job -> {NoReason, "superseded", "cancelled"}],
         data' \in [Slot -> Job \cup {NoJob}],
         \A s \in Slot : data'[s] \in {data[s], NoJob},
         clearedAt' \in [Slot -> Job \cup {NoJob}],
         \A s \in Slot, j \in Job : ~Born(j) => clearedAt'[s] < j,
         \A s \in Slot : Cleared(s)',
         UNCHANGED <<status, slotOf, registered, latest, tables, pc, waitFor, exc, admitted,
                     stop, running, replaced>>
  PROVE  IInv'
<1>. USE DEF tables, shutdown
<1>1. TypeOK' /\ FewReasons'
  <2>1. reason' \in [Job -> TerminalReasons \cup {NoReason}]
    BY DEF TerminalReasons
  <2>. QED BY <2>1 DEF IInv, TypeOK, FewReasons
<1>2. \A d \in Client : ~Creating(d) /\ ~Creating(d)'
  BY DEF Creating
<1>3. LockIsHeld' /\ InOrder'
  BY DEF IInv, Order, LockIsHeld, InOrder, Born
<1>4. ASSUME NEW j \in Job PROVE Untouched(j)' /\ HasThread(j)' /\ Turn(j)'
  <2>1. Untouched(j) /\ HasThread(j) /\ Turn(j)
    BY DEF IInv, Order
  <2>. QED BY <1>2, <2>1 DEF Untouched, HasThread, Turn, Born, IsOldest, Earlier, Gone
<1>5. ASSUME NEW d \in Client PROVE NewJob(d)' /\ Clearing(d)'
  BY <1>2 DEF NewJob, Clearing
<1>6. Order'
  BY <1>3, <1>4, <1>5 DEF Order
<1>7. Tables' /\ InThread'
  BY DEF IInv, Tables, Latest, Names, InThread, Born, Gone
<1>8. Written'
  BY DEF IInv, Written
<1>9. ASSUME NEW k \in replaced PROVE IsReplaced(k)'
  BY <1>2 DEF IInv, IsReplaced, Born, Creating
<1>. QED BY <1>1, <1>6, <1>7, <1>8, <1>9 DEF IInv

\* The steps of a clear, and the first of a run.
LEMMA ClearSteps ==
  ASSUME NEW c \in Client, IInv,
         \/ \E s \in Slot : ClearBegins(c, s) \/ \E i \in Identity : RunBegins(c, s, i)
         \/ ClearCancels(c) \/ ClearJoins(c) \/ ClearSlot(c)
  PROVE  IInv'
<1>. USE DEF tables, registry, shutdown
<1>0. /\ client \in [Client -> ClientRequest \cup {Idle}] /\ slotLock \in Client \cup {NoClient}
      /\ reason \in [Job -> {NoReason, "superseded", "cancelled"}]
      /\ data \in [Slot -> Job \cup {NoJob}] /\ clearedAt \in [Slot -> Job \cup {NoJob}]
      /\ \A s \in Slot, j \in Job : ~Born(j) => clearedAt[s] < j
      /\ \A s \in Slot : bySlot[s] \in Job \cup {NoJob}
      /\ Clearing(c)
  BY DEF IInv, TypeOK, FewReasons, Order, Untouched
<1>1. ASSUME UNCHANGED <<status, slotOf, clearedAt, pc>>
      PROVE \A s \in Slot : Cleared(s)'
  BY <1>1 DEF IInv, Order, Cleared, Born, Gone
<1>2. ASSUME NEW s \in Slot, NEW i \in Identity, RunBegins(c, s, i) PROVE IInv'
  <2>. DEFINE q == [pc |-> "register", slot |-> s, identity |-> i, job |-> NoJob, prev |-> NoJob]
  <2>1. q \in ClientRequest /\ client' = [client EXCEPT ![c] = q]
    BY <1>2 DEF RunBegins, ClientRequest
  <2>2. client'[c].pc = "register" /\ client[c].pc = "idle"
    BY <1>0, <1>2, <2>1 DEF RunBegins
  <2>3. ~Creating(c) /\ ~Creating(c)' /\ Clearing(c)'
    BY <2>2 DEF Creating, Clearing
  <2>4. \A d \in Client \ {c} : client[d].pc = "idle" /\ client'[d] = client[d]
    BY <1>2, <2>1, OthersIdle DEF RunBegins
  <2>5. client' \in [Client -> ClientRequest \cup {Idle}]
    BY <1>0, <2>1
  <2>. QED BY <1>0, <1>1, <1>2, <2>2, <2>3, <2>4, <2>5, RequestMovesKeep DEF RunBegins
<1>3. ASSUME NEW s \in Slot, ClearBegins(c, s) PROVE IInv'
  <2>. DEFINE q == [pc |-> IF bySlot[s] = NoJob THEN "clear" ELSE "cancel", slot |-> s,
                    identity |-> CHOOSE i \in Identity : TRUE, job |-> bySlot[s],
                    prev |-> NoJob]
  <2>0. (CHOOSE i \in Identity : TRUE) \in Identity
    BY ConstantsAssumption
  <2>1. q \in ClientRequest /\ client' = [client EXCEPT ![c] = q]
    BY <1>0, <1>3, <2>0 DEF ClearBegins, ClientRequest
  <2>2. client'[c] = q /\ client[c].pc = "idle"
    BY <1>0, <1>3, <2>1 DEF ClearBegins
  <2>3. ~Creating(c) /\ ~Creating(c)'
    BY <2>2 DEF Creating
  <2>4. Clearing(c)'
    <3>1. Names(s, bySlot[s])
      BY DEF IInv, Tables
    <3>2. \A j \in Job \cup {NoJob} : Names(s, j) => Names(s, j)'
      BY <1>3, NamesKept DEF ClearBegins, Born, Gone
    <3>3. PICK b \in Job \cup {NoJob} : b = bySlot[s]
      BY <1>0
    <3>4. /\ client'[c].slot = s /\ client'[c].job = b
          /\ client'[c].pc = IF b = NoJob THEN "clear" ELSE "cancel"
      BY <2>2, <3>3
    <3>5. Names(s, b)'
      BY <3>1, <3>2, <3>3
    <3>. QED BY <3>4, <3>5 DEF Clearing, Names
  <2>5. \A d \in Client \ {c} : client[d].pc = "idle" /\ client'[d] = client[d]
    BY <1>3, <2>1, OthersIdle DEF ClearBegins
  <2>6. client' \in [Client -> ClientRequest \cup {Idle}]
    BY <1>0, <2>1
  <2>. QED BY <1>0, <1>1, <1>3, <2>3, <2>4, <2>5, <2>6, RequestMovesKeep DEF ClearBegins
<1>4. ASSUME NEW place \in {"await", "clear"}, client' = [client EXCEPT ![c].pc = place]
      PROVE client[c].pc # "idle" =>
            /\ client' \in [Client -> ClientRequest \cup {Idle}] /\ client'[c].pc = place
            /\ client'[c].job = client[c].job /\ client'[c].slot = client[c].slot
            /\ \A d \in Client \ {c} : client'[d] = client[d]
  BY <1>0, <1>4 DEF ClientRequest, Idle
<1>5. CASE ClearCancels(c)
  <2>1. client[c].pc = "cancel" /\ client' = [client EXCEPT ![c].pc = "await"]
    BY <1>5 DEF ClearCancels
  <2>2. /\ client' \in [Client -> ClientRequest \cup {Idle}] /\ client'[c].pc = "await"
        /\ client'[c].job = client[c].job /\ client'[c].slot = client[c].slot
        /\ \A d \in Client \ {c} : client'[d] = client[d]
    BY <1>4, <2>1
  <2>3. ~Creating(c) /\ ~Creating(c)'
    BY <2>1, <2>2 DEF Creating
  <2>4. Clearing(c)'
    BY <1>0, <1>5, <2>1, <2>2 DEF Clearing, ClearCancels, Names, Born, Gone
  <2>5. \A d \in Client \ {c} : client[d].pc = "idle" /\ client'[d] = client[d]
    BY <2>1, <2>2, OthersIdle
  <2>6. reason' \in [Job -> {NoReason, "superseded", "cancelled"}]
    BY <1>0, <1>5 DEF ClearCancels, CancelToken
  <2>7. slotLock' = c
    BY <1>5, <2>1 DEF ClearCancels, IInv, Order, LockIsHeld
  <2>. QED BY <1>0, <1>1, <1>5, <2>2, <2>3, <2>4, <2>5, <2>6, <2>7, RequestMovesKeep
           DEF ClearCancels
<1>6. CASE ClearJoins(c)
  <2>1. client[c].pc = "await" /\ client' = [client EXCEPT ![c].pc = "clear"]
    BY <1>6 DEF ClearJoins
  <2>2. /\ client' \in [Client -> ClientRequest \cup {Idle}] /\ client'[c].pc = "clear"
        /\ client'[c].job = client[c].job /\ client'[c].slot = client[c].slot
        /\ \A d \in Client \ {c} : client'[d] = client[d]
    BY <1>4, <2>1
  <2>3. ~Creating(c) /\ ~Creating(c)'
    BY <2>1, <2>2 DEF Creating
  <2>4. Clearing(c)'
    <3>1. PICK j \in Job \cup {NoJob}, s \in Slot : j = client[c].job /\ s = client[c].slot
      BY <1>0, <2>1 DEF ClientRequest, Idle
    <3>2. j # NoJob /\ Names(s, j) /\ pc[j] = "done"
      BY <1>0, <1>6, <2>1, <3>1 DEF Clearing, ClearJoins
    <3>3. Turn(j)
      BY <3>1, <3>2 DEF IInv, Order
    <3>4. ASSUME NEW k \in Job, Born(k), slotOf[k] = s PROVE Gone(k)
      <4>1. k \in Nat /\ j \in Nat /\ k <= j /\ slotOf[j] = s
        BY <3>1, <3>2, <3>4, JobsAreNumbers DEF Names
      <4>2. CASE k = j
        BY <3>2, <4>2 DEF Gone
      <4>3. CASE k # j
        BY <3>2, <3>3, <3>4, <4>1, <4>3 DEF Turn, IsOldest, Earlier
      <4>. QED BY <4>2, <4>3
    <3>5. Names(s, NoJob)'
      BY <1>6, <3>4, JobsAreNumbers DEF Names, ClearJoins, Born, Gone
    <3>. QED BY <2>2, <3>1, <3>5 DEF Clearing, Names
  <2>5. \A d \in Client \ {c} : client[d].pc = "idle" /\ client'[d] = client[d]
    BY <2>1, <2>2, OthersIdle
  <2>7. slotLock' = c
    BY <1>6, <2>1 DEF ClearJoins, IInv, Order, LockIsHeld
  <2>. QED BY <1>0, <1>1, <1>6, <2>2, <2>3, <2>4, <2>5, <2>7, RequestMovesKeep DEF ClearJoins
<1>7. CASE ClearSlot(c)
  <2>1. client[c].pc = "clear" /\ client' = [client EXCEPT ![c] = Idle]
    BY <1>7 DEF ClearSlot
  <2>2. client' \in [Client -> ClientRequest \cup {Idle}] /\ client'[c].pc = "idle"
    BY <1>0, <2>1 DEF Idle
  <2>3. ~Creating(c) /\ ~Creating(c)' /\ Clearing(c)'
    BY <2>1, <2>2 DEF Creating, Clearing
  <2>4. \A d \in Client \ {c} : client[d].pc = "idle" /\ client'[d] = client[d]
    BY <2>1, OthersIdle
  <2>5. PICK s \in Slot : s = client[c].slot
    BY <1>0, <2>1 DEF ClientRequest, Idle
  <2>6. Names(s, NoJob)
    BY <1>0, <2>1, <2>5 DEF Clearing
  <2>. DEFINE n == CHOOSE m \in Job \cup {NoJob} : \A j \in Job : Born(j) <=> j <= m
  <2>7. n \in Job \cup {NoJob} /\ \A j \in Job : Born(j) <=> j <= n
    BY DEF IInv, Order, InOrder
  <2>8. clearedAt' = [clearedAt EXCEPT ![s] = n]
    BY <1>7, <2>5 DEF ClearSlot, Born
  <2>. HIDE DEF n
  <2>9. /\ clearedAt' \in [Slot -> Job \cup {NoJob}]
        /\ \A t \in Slot : clearedAt'[t] = IF t = s THEN n ELSE clearedAt[t]
    BY <1>0, <2>7, <2>8
  <2>10. \A t \in Slot, j \in Job : ~Born(j) => clearedAt'[t] < j
    <3>1. \A j \in Job : ~Born(j) => n < j
      BY <2>7, JobsAreNumbers DEF NoJob
    <3>. QED BY <1>0, <2>9, <3>1
  <2>11. \A t \in Slot : Cleared(t)'
    BY <1>7, <2>6, <2>9 DEF IInv, Order, Cleared, Names, ClearSlot, Born, Gone
  <2>12. data' \in [Slot -> Job \cup {NoJob}] /\ \A t \in Slot : data'[t] \in {data[t], NoJob}
    BY <1>0, <1>7 DEF ClearSlot
  <2>. QED BY <1>0, <1>7, <2>2, <2>3, <2>4, <2>9, <2>10, <2>11, <2>12, RequestMovesKeep
           DEF ClearSlot
<1>. QED BY <1>2, <1>3, <1>5, <1>6, <1>7

\* A request that creates a job is alone, and what it knows of that job.
LEMMA Creates ==
  ASSUME NEW c \in Client, IInv, Creating(c)
  PROVE  /\ \A d \in Client \ {c} : client[d].pc = "idle"
         /\ slotLock = c /\ client[c] \in ClientRequest
         /\ client[c].job \in Job /\ client[c].prev \in Job \cup {NoJob}
         /\ NewJob(c)
<1>1. client[c] \in ClientRequest
  BY DEF IInv, TypeOK, Creating, Idle
<1>2. NewJob(c)
  BY DEF IInv, Order
<1>. QED BY <1>1, <1>2, OthersIdle DEF Creating, NewJob, ClientRequest, IInv, Order, LockIsHeld

\* The jobs of the behaviour when the next one is created: j.
LEMMA NextJob ==
  ASSUME NEW j \in Job, IInv, status[j] = "unborn",
         \A k \in 1..(j - 1) : status[k] # "unborn"
  PROVE  \A k \in Job : Born(k) <=> k < j
<1>1. PICK n \in Job \cup {NoJob} : \A k \in Job : Born(k) <=> k <= n
  BY DEF IInv, Order, InOrder
<1>2. ~Born(j) /\ j \in Nat /\ n \in Nat
  BY JobsAreNumbers DEF Born, NoJob
<1>. SUFFICES ASSUME NEW k \in Job PROVE Born(k) <=> k < j
  OBVIOUS
<1>3. k \in Nat /\ k >= 1
  BY JobsAreNumbers DEF NoJob
<1>4. k < j => Born(k)
  <2>1. k < j => k \in 1..(j - 1)
    BY <1>2, <1>3
  <2>. QED BY <2>1 DEF Born
<1>5. Born(k) => k < j
  BY <1>1, <1>2, <1>3
<1>. QED BY <1>4, <1>5

\* A new job becomes its slot's newest, and what ran before is recorded as replaced.
LEMMA RunRegistersKeeps ==
  ASSUME NEW c \in Client, NEW j \in Job, IInv, RunRegisters(c, j) PROVE IInv'
<1>0. /\ client \in [Client -> ClientRequest \cup {Idle}] /\ latest \in [Slot -> Job \cup {NoJob}]
      /\ status \in [Job -> TerminalReasons \cup {"unborn", "running"}]
      /\ slotOf \in [Job -> Slot] /\ bySlot \in [Slot -> Job \cup {NoJob}]
      /\ byIdentity \in [Identity -> Job \cup {NoJob}]
      /\ reason \in [Job -> {NoReason, "superseded", "cancelled"}]
      /\ registered \in SUBSET Job /\ replaced \in SUBSET Job
      /\ data \in [Slot -> Job \cup {NoJob}] /\ pc \in [Job -> ThreadPC]
      /\ waitFor \in [Job -> Job \cup {NoJob}] /\ clearedAt \in [Slot -> Job \cup {NoJob}]
  BY DEF IInv, TypeOK, FewReasons
<1>1. /\ client[c].pc = "register" /\ client[c] \in ClientRequest
      /\ \A d \in Client \ {c} : client[d].pc = "idle"
  BY <1>0, OthersIdle DEF RunRegisters, Idle
<1>2. PICK s \in Slot : s = client[c].slot
  BY <1>1 DEF ClientRequest
<1>3. PICK p \in Job \cup {NoJob} : p = latest[s]
  BY <1>0
<1>4. \A k \in Job : Born(k) <=> k < j
  BY NextJob DEF RunRegisters
<1>5. /\ status' = [status EXCEPT ![j] = "running"] /\ slotOf' = [slotOf EXCEPT ![j] = s]
      /\ latest' = [latest EXCEPT ![s] = j] /\ registered' = registered \cup {j}
      /\ bySlot' = [bySlot EXCEPT ![s] = j]
      /\ replaced' = replaced \cup {k \in Job : k = p /\ status[k] = "running"}
      /\ byIdentity' = [byIdentity EXCEPT ![client[c].identity] = j]
      /\ UNCHANGED <<pc, waitFor, exc, admitted, data, slotLock, stop, running,
                     clearedAt>>
  BY <1>2, <1>3 DEF shutdown, RunRegisters, RegisterLatest
<1>6. /\ client' \in [Client -> ClientRequest \cup {Idle}]
      /\ \A d \in Client \ {c} : client'[d].pc = "idle"
      /\ client'[c].pc = "supersede" /\ client'[c].job = j /\ client'[c].prev = p
      /\ client'[c].slot = s
  <2>1. client' = [client EXCEPT ![c].pc = "supersede", ![c].job = j, ![c].prev = p]
    BY <1>2, <1>3 DEF RunRegisters
  <2>. DEFINE q == [client[c] EXCEPT !.pc = "supersede", !.job = j, !.prev = p]
  <2>2. client' = [client EXCEPT ![c] = q]
    BY <2>1
  <2>3. /\ q \in ClientRequest /\ q.pc = "supersede" /\ q.job = j /\ q.prev = p /\ q.slot = s
    BY <1>1, <1>2 DEF ClientRequest
  <2>. HIDE DEF q
  <2>4. client' \in [Client -> ClientRequest \cup {Idle}] /\ client'[c] = q
    BY <1>0, <2>2, <2>3
  <2>5. \A d \in Client \ {c} : client'[d] = client[d]
    BY <1>0, <2>2
  <2>. QED BY <1>1, <2>3, <2>4, <2>5
<1>7. pc[j] = "none" /\ \A t \in Slot : clearedAt[t] < j
  <2>1. ~Born(j) /\ Untouched(j)
    BY DEF IInv, Order, RunRegisters, Born
  <2>. QED BY <2>1 DEF Untouched
<1>8. \A k \in Job : Born(k)' <=> k <= j
  <2>1. \A k \in Job : Born(k)' <=> Born(k) \/ k = j
    BY <1>0, <1>5 DEF Born
  <2>. QED BY <1>4, <2>1, JobsAreNumbers
<1>9. TypeOK' /\ FewReasons'
  <2>1. reason' \in [Job -> {NoReason, "superseded", "cancelled"}]
    BY <1>0 DEF RunRegisters, RegisterLatest
  <2>2. reason' \in [Job -> TerminalReasons \cup {NoReason}]
    BY <2>1 DEF TerminalReasons
  <2>. QED BY <1>0, <1>5, <1>6, <2>1, <2>2 DEF IInv, TypeOK, FewReasons
<1>10. Creating(c)' /\ \A d \in Client : ~Creating(d) /\ (d # c => ~Creating(d)')
  BY <1>1, <1>6 DEF Creating
<1>11. \A k \in Job : Born(k) => pc[k] # "none"
  BY <1>10 DEF IInv, Order, HasThread
<1>12. \A k \in Job : Gone(k)' = Gone(k)
  BY <1>5 DEF Gone
<1>13. Names(s, p) => \A k \in Job : (Born(k) /\ slotOf[k] = s => Gone(k) \/ k <= p)
  BY JobsAreNumbers DEF Names
<1>14. Names(s, p)
  BY <1>3 DEF IInv, Tables, Latest
<1>15. LockIsHeld' /\ InOrder'
  BY <1>1, <1>5, <1>6, <1>8 DEF IInv, Order, LockIsHeld, InOrder
<1>16. ASSUME NEW k \in Job PROVE Untouched(k)' /\ HasThread(k)' /\ Turn(k)'
  <2>1. Untouched(k) /\ HasThread(k) /\ Turn(k)
    BY DEF IInv, Order
  <2>2. Untouched(k)'
    BY <1>4, <1>5, <1>8, <2>1, JobsAreNumbers DEF Untouched
  <2>3. HasThread(k)'
    <3>1. CASE k = j
      BY <1>6, <1>10, <3>1 DEF HasThread
    <3>2. CASE k # j
      <4>1. Born(k)' => Born(k)
        BY <1>4, <1>8, <3>2, JobsAreNumbers
      <4>. QED BY <1>5, <1>11, <4>1 DEF HasThread
    <3>. QED BY <3>1, <3>2
  <2>4. Turn(k)'
    <3>1. CASE pc[k] = "none"
      BY <1>5, <3>1 DEF Turn
    <3>2. CASE pc[k] # "none"
      <4>1. Born(k) /\ k < j /\ k # j
        BY <1>4, <2>1, <3>2, JobsAreNumbers DEF Untouched
      <4>2. ASSUME NEW m \in Job
            PROVE m < k => m # j /\ slotOf'[m] = slotOf[m] /\ slotOf'[k] = slotOf[k]
        BY <1>0, <1>5, <4>1, JobsAreNumbers
      <4>3. \A m \in Job : Earlier(m, k)' <=> Earlier(m, k)
        BY <4>2 DEF Earlier
      <4>4. waitFor[k] \in Job \cup {NoJob}
        BY <1>0
      <4>. QED BY <1>5, <1>12, <2>1, <4>3, <4>4 DEF Turn, IsOldest, Earlier
    <3>. QED BY <3>1, <3>2
  <2>. QED BY <2>2, <2>3, <2>4
<1>17. ASSUME NEW t \in Slot PROVE Cleared(t)'
  <2>1. Cleared(t) /\ clearedAt[t] < j /\ clearedAt[t] \in Nat
    <3>1. clearedAt[t] \in Job \cup {NoJob} /\ Cleared(t)
      BY <1>0 DEF IInv, Order
    <3>2. clearedAt[t] \in Nat
      BY <3>1, JobsAreNumbers
    <3>. QED BY <1>7, <3>1, <3>2
  <2>2. ASSUME NEW k \in Job, slotOf'[k] = t, k <= clearedAt[t] PROVE Gone(k)'
    <3>1. k < j /\ k # j
      BY <2>1, <2>2, JobsAreNumbers
    <3>. QED BY <1>0, <1>4, <1>5, <1>12, <2>1, <2>2, <3>1 DEF Cleared
  <2>. QED BY <1>5, <2>2 DEF Cleared
<1>18. NewJob(c)'
  <2>1. p # NoJob => Earlier(p, j)'
    <3>. SUFFICES ASSUME p # NoJob PROVE Earlier(p, j)'
      OBVIOUS
    <3>1. Born(p) /\ slotOf[p] = s /\ p \in Job
      BY <1>14 DEF Names
    <3>2. p < j /\ p # j
      BY <1>4, <3>1, JobsAreNumbers
    <3>. QED BY <1>0, <1>5, <3>1, <3>2 DEF Earlier
  <2>2. ASSUME NEW k \in Job, Earlier(k, j)' PROVE Gone(k)' \/ k <= p
    <3>1. k < j /\ k # j /\ slotOf'[k] = slotOf'[j]
      BY <2>2, JobsAreNumbers DEF Earlier
    <3>2. Born(k) /\ slotOf[k] = s
      BY <1>0, <1>4, <1>5, <3>1
    <3>. QED BY <1>12, <1>13, <1>14, <3>2
  <2>3. j # NoJob /\ Born(j)' /\ pc'[j] = "none" /\ slotOf'[j] = s
    BY <1>0, <1>5, <1>7, <1>8, JobsAreNumbers
  <2>. QED BY <1>6, <2>1, <2>2, <2>3 DEF NewJob
<1>19. Order'
  <2>1. \A d \in Client : Clearing(d)'
    BY <1>6 DEF Clearing
  <2>2. \A d \in Client \ {c} : NewJob(d)'
    BY <1>10 DEF NewJob
  <2>. QED BY <1>15, <1>16, <1>17, <1>18, <2>1, <2>2 DEF Order
<1>20. ASSUME NEW t \in Slot, NEW old \in Job \cup {NoJob}, NEW new \in Job \cup {NoJob},
              Names(t, old), new = IF t = s THEN j ELSE old
       PROVE  Names(t, new)'
  <2>1. CASE t = s
    BY <1>0, <1>5, <1>8, <1>20, <2>1, JobsAreNumbers DEF Names
  <2>2. CASE t # s
    <3>1. \A k \in Job : Born(k)' /\ slotOf'[k] = t <=> Born(k) /\ slotOf[k] = t
      <4>1. \A k \in Job : Born(k)' <=> Born(k) \/ k = j
        BY <1>0, <1>5 DEF Born
      <4>2. ~Born(j)
        BY <1>4, JobsAreNumbers
      <4>. QED BY <1>0, <1>5, <2>2, <4>1, <4>2
    <3>. QED BY <1>12, <1>20, <2>2, <3>1, JobsAreNumbers DEF Names
  <2>. QED BY <2>1, <2>2
<1>21. Tables'
  <2>. SUFFICES ASSUME NEW t \in Slot PROVE Latest(t)' /\ Names(t, bySlot[t])'
    BY DEF Tables
  <2>1. Latest(t) /\ Names(t, bySlot[t])
    BY DEF IInv, Tables
  <2>2. PICK l \in Job \cup {NoJob}, b \in Job \cup {NoJob} : l = latest'[t] /\ b = bySlot'[t]
    BY <1>0, <1>5
  <2>3. /\ l = IF t = s THEN j ELSE latest[t]
        /\ b = IF t = s THEN j ELSE bySlot[t]
    BY <1>0, <1>5, <2>2
  <2>4. Names(t, l)' /\ Names(t, b)'
    BY <1>0, <1>20, <2>1, <2>3 DEF Latest
  <2>5. l # NoJob => l \in registered'
    BY <1>5, <2>1, <2>3 DEF Latest
  <2>. QED BY <2>2, <2>4, <2>5 DEF Latest, Names
<1>22. Written'
  <2>. SUFFICES ASSUME NEW t \in Slot, data[t] # NoJob
                PROVE  slotOf'[data[t]] = t /\ pc[data[t]] \notin {"none", "join"}
    BY <1>5 DEF Written
  <2>1. slotOf[data[t]] = t /\ pc[data[t]] \notin {"none", "join"}
    BY DEF IInv, Written
  <2>2. data[t] # j
    BY <1>7, <2>1
  <2>. QED BY <1>0, <1>5, <2>1, <2>2
<1>23. InThread'
  BY <1>5 DEF IInv, InThread
<1>24. ASSUME NEW k \in replaced' PROVE IsReplaced(k)'
  <2>1. CASE k \in replaced
    <3>1. k \in Job /\ IsReplaced(k)
      BY <1>0, <2>1 DEF IInv
    <3>2. k < j /\ k # j /\ k <= j
      <4>1. Born(k) /\ k \in Nat /\ j \in Nat
        BY <3>1, JobsAreNumbers DEF IsReplaced
      <4>. QED BY <1>4, <3>1, <4>1
    <3>3. status'[k] = status[k] /\ slotOf'[k] = slotOf[k] /\ latest'[slotOf[k]] # k
      BY <1>0, <1>5, <3>1, <3>2 DEF IsReplaced
    <3>4. status[k] = "superseded"
      BY <1>10, <3>1 DEF IsReplaced, Creating
    <3>5. Born(k)'
      BY <1>8, <3>1, <3>2
    <3>. QED BY <3>3, <3>4, <3>5 DEF IsReplaced
  <2>2. CASE k \notin replaced
    <3>1. k \in Job /\ k = p /\ status[k] = "running"
      BY <1>5, <2>2
    <3>2. Born(k) /\ k # j /\ k < j
      BY <1>4, <3>1, JobsAreNumbers DEF Born
    <3>3. status'[k] = "running" /\ slotOf'[k] = s
      BY <1>0, <1>5, <1>14, <3>1, <3>2, JobsAreNumbers DEF Names
    <3>4. latest'[s] # k /\ client'[c].pc = "supersede" /\ client'[c].prev = k
      BY <1>0, <1>5, <1>6, <3>1, <3>2
    <3>. QED BY <3>3, <3>4 DEF IsReplaced, Born, TerminalReasons
  <2>. QED BY <2>1, <2>2
<1>. QED BY <1>9, <1>19, <1>21, <1>22, <1>23, <1>24 DEF IInv

\* The replaced job's record becomes "superseded", unless it had completed.
LEMMA RunSupersedesKeeps == ASSUME NEW c \in Client, IInv, RunSupersedes(c) PROVE IInv'
<1>. USE DEF registry, tables, shutdown
<1>0. /\ client \in [Client -> ClientRequest \cup {Idle}]
      /\ status \in [Job -> TerminalReasons \cup {"unborn", "running"}]
  BY DEF IInv, TypeOK
<1>1. /\ Creating(c) /\ client[c].pc = "supersede"
      /\ \A d \in Client \ {c} : client[d].pc = "idle"
      /\ client[c] \in ClientRequest /\ slotLock = c
  BY Creates DEF RunSupersedes, Creating
<1>2. PICK p \in Job \cup {NoJob} : p = client[c].prev
  BY Creates, <1>1
<1>3. /\ client' \in [Client -> ClientRequest \cup {Idle}]
      /\ \A d \in Client \ {c} : client'[d] = client[d]
      /\ client'[c].pc = "start" /\ client'[c].job = client[c].job
      /\ client'[c].prev = client[c].prev /\ client'[c].slot = client[c].slot
  BY <1>0, <1>1 DEF RunSupersedes, ClientRequest
<1>4. /\ status' \in [Job -> TerminalReasons \cup {"unborn", "running"}]
      /\ \A k \in Job : status'[k] = "unborn" <=> status[k] = "unborn"
      /\ \A k \in Job : status[k] = "superseded" => status'[k] = "superseded"
      /\ \A k \in Job : status'[k] = "completed" => status[k] = "completed"
      /\ p \in Job /\ status[p] \notin {"completed", "unborn"} => status'[p] = "superseded"
  <2>1. CASE p = NoJob
    BY <1>0, <1>2, <2>1, JobsAreNumbers DEF RunSupersedes
  <2>2. CASE p \in Job
    <3>. DEFINE new == Transitioned(status[p], "superseded")
    <3>1. /\ new \in TerminalReasons \cup {"unborn", "running"}
          /\ new = "unborn" <=> status[p] = "unborn"
          /\ status[p] = "superseded" => new = "superseded"
          /\ new = "completed" => status[p] = "completed"
          /\ status[p] \notin {"completed", "unborn"} => new = "superseded"
      <4>1. "superseded" \in TerminalReasons
        BY DEF TerminalReasons
      <4>. QED BY <1>0, <2>2, <4>1, TransitionedIs
    <3>2. status' = [status EXCEPT ![p] = new]
      BY <1>2, <2>2, JobsAreNumbers DEF RunSupersedes
    <3>. HIDE DEF new
    <3>. QED BY <1>0, <2>2, <3>1, <3>2
  <2>. QED BY <2>1, <2>2
<1>5. TypeOK' /\ FewReasons'
  BY <1>3, <1>4 DEF IInv, TypeOK, FewReasons, RunSupersedes
<1>6. \A k \in Job : Born(k)' = Born(k) /\ Gone(k)' = Gone(k)
  BY <1>4 DEF Born, Gone, RunSupersedes
<1>7. \A d \in Client : Creating(d)' = Creating(d) /\ client'[d].job = client[d].job
  BY <1>1, <1>3 DEF Creating
<1>8. UNCHANGED <<slotOf, slotLock, pc, waitFor, clearedAt, replaced, latest, registered, bySlot,
                  data, exc, admitted>>
  BY DEF RunSupersedes
<1>9. LockIsHeld' /\ InOrder'
  BY <1>1, <1>3, <1>6, <1>8 DEF IInv, Order, LockIsHeld, InOrder
<1>10. ASSUME NEW k \in Job PROVE Untouched(k)' /\ HasThread(k)' /\ Turn(k)'
  <2>1. Untouched(k) /\ HasThread(k) /\ Turn(k)
    BY DEF IInv, Order
  <2>2. Untouched(k)'
    BY <1>6, <1>8, <2>1 DEF Untouched
  <2>3. HasThread(k)'
    BY <1>6, <1>7, <1>8, <2>1 DEF HasThread
  <2>4. Turn(k)'
    BY <1>8, <2>1 DEF Turn, IsOldest, Earlier, Gone
  <2>. QED BY <2>2, <2>3, <2>4
<1>11. \A s \in Slot : Cleared(s)'
  BY <1>6, <1>8 DEF IInv, Order, Cleared
<1>12. ASSUME NEW d \in Client PROVE NewJob(d)' /\ Clearing(d)'
  <2>1. CASE d = c
    <3>1. NewJob(c) /\ client[c].job \in Job
      BY <1>1, Creates
    <3>. QED BY <1>3, <1>6, <1>7, <1>8, <2>1, <3>1 DEF NewJob, Clearing, Earlier, Born, Gone
  <2>2. CASE d # c
    BY <1>1, <1>3, <2>2 DEF NewJob, Clearing, Creating
  <2>. QED BY <2>1, <2>2
<1>13. Order'
  BY <1>9, <1>10, <1>11, <1>12 DEF Order
<1>14. Tables' /\ Written' /\ InThread'
  <2>1. \A s \in Slot : latest[s] \in Job \cup {NoJob} /\ bySlot[s] \in Job \cup {NoJob}
    BY DEF IInv, TypeOK
  <2>2. Tables'
    BY <1>6, <1>8, <2>1, JobsAreNumbers DEF IInv, Tables, Latest, Names
  <2>. QED BY <1>8, <2>2 DEF IInv, Written, InThread
<1>15. ASSUME NEW k \in replaced' PROVE IsReplaced(k)'
  <2>1. k \in Job /\ IsReplaced(k)
    BY <1>8, <1>15 DEF IInv, TypeOK
  <2>2. status'[k] = "superseded"
    <3>1. CASE status[k] = "superseded"
      BY <1>4, <2>1, <3>1
    <3>2. CASE status[k] # "superseded"
      <4>1. k = p
        BY <1>1, <1>2, <2>1, <3>2 DEF IsReplaced
      <4>. QED BY <1>4, <2>1, <4>1 DEF IsReplaced, Born
    <3>. QED BY <3>1, <3>2
  <2>. QED BY <1>8, <2>1, <2>2 DEF IsReplaced, Born
<1>. QED BY <1>5, <1>13, <1>14, <1>15 DEF IInv

\* A job's thread starts and waits for what is left of its predecessor.
LEMMA RunStartsKeeps == ASSUME NEW c \in Client, IInv, RunStarts(c) PROVE IInv'
<1>. USE DEF registry, tables, shutdown
<1>0. /\ client \in [Client -> ClientRequest \cup {Idle}] /\ pc \in [Job -> ThreadPC]
      /\ waitFor \in [Job -> Job \cup {NoJob}]
  BY DEF IInv, TypeOK
<1>1. /\ Creating(c) /\ client[c].pc = "start" /\ slotLock = c
      /\ \A d \in Client \ {c} : client[d].pc = "idle"
      /\ client[c].prev \in Job \cup {NoJob} /\ NewJob(c)
  BY Creates DEF RunStarts, Creating
<1>2. PICK j \in Job, p \in Job \cup {NoJob}, w \in Job \cup {NoJob} :
        j = client[c].job /\ p = client[c].prev /\ w = Predecessor(c)
  BY Creates, <1>1 DEF Predecessor
<1>3. /\ Born(j) /\ pc[j] = "none"
      /\ p # NoJob => Earlier(p, j)
      /\ \A k \in Job : Earlier(k, j) => Gone(k) \/ k <= p
  BY <1>1, <1>2 DEF NewJob
<1>4. /\ waitFor' = [waitFor EXCEPT ![j] = w] /\ pc' = [pc EXCEPT ![j] = "join"]
      /\ client' = [client EXCEPT ![c] = Idle] /\ slotLock' = NoClient
      /\ UNCHANGED <<status, slotOf, registered, latest, reason, byIdentity, bySlot, exc,
                     admitted, data, stop, running, replaced, clearedAt>>
  BY <1>2 DEF RunStarts
<1>5. \A d \in Client : client'[d].pc = "idle"
  BY <1>0, <1>1, <1>4 DEF Idle
<1>6. \A k \in Job : Born(k)' = Born(k) /\ Gone(k)' = Gone(k)
  BY <1>0, <1>3, <1>4 DEF Born, Gone
<1>7. TypeOK' /\ FewReasons'
  <2>1. pc' \in [Job -> ThreadPC] /\ waitFor' \in [Job -> Job \cup {NoJob}]
    BY <1>0, <1>4 DEF ThreadPC
  <2>. QED BY <1>4, <2>1 DEF IInv, TypeOK, FewReasons
\* All older jobs are gone, or the predecessor is the newest of those that are not.
<1>8. /\ w # NoJob => Earlier(w, j)
      /\ \A k \in Job : Earlier(k, j) => Gone(k) \/ k <= w
  <2>1. CASE w = p
    BY <1>3, <2>1
  <2>2. CASE w # p
    <3>1. w = NoJob /\ p \in Job /\ pc[p] \in {"none", "done"}
      BY <1>2, <2>2 DEF Predecessor
    <3>2. Earlier(p, j) /\ p # j
      BY <1>2, <1>3, <3>1, JobsAreNumbers DEF Earlier
    <3>3. Born(p)
      BY <1>3, <3>2, JobsAreNumbers, <3>1 DEF IInv, Order, InOrder, Earlier
    <3>4. pc[p] = "done"
      <4>1. HasThread(p)
        BY <3>1 DEF IInv, Order
      <4>. QED BY <1>1, <1>2, <3>1, <3>2, <3>3, <4>1 DEF HasThread, Creating
    <3>5. Gone(p) /\ IsOldest(p)
      <4>1. Turn(p)
        BY <3>1 DEF IInv, Order
      <4>. QED BY <3>4, <4>1 DEF Turn, Gone
    <3>6. ASSUME NEW k \in Job, Earlier(k, j) PROVE Gone(k)
      <4>1. Gone(k) \/ k <= p
        BY <1>3, <3>6
      <4>2. k \in Nat /\ p \in Nat
        BY <3>1, JobsAreNumbers
      <4>3. Gone(k) \/ k = p \/ Earlier(k, p)
        BY <3>2, <3>6, <4>1, <4>2 DEF Earlier
      <4>. QED BY <3>5, <4>3 DEF IsOldest
    <3>. QED BY <3>1, <3>6
  <2>. QED BY <2>1, <2>2
<1>9. LockIsHeld' /\ InOrder'
  BY <1>5, <1>6 DEF IInv, Order, LockIsHeld, InOrder
<1>10. ASSUME NEW k \in Job PROVE Untouched(k)' /\ HasThread(k)' /\ Turn(k)'
  <2>1. Untouched(k) /\ HasThread(k) /\ Turn(k)
    BY DEF IInv, Order
  <2>2. Untouched(k)'
    BY <1>0, <1>3, <1>4, <1>6, <2>1 DEF Untouched
  <2>3. HasThread(k)'
    BY <1>0, <1>1, <1>2, <1>4, <1>6, <2>1 DEF HasThread, Creating
  <2>4. Turn(k)'
    <3>1. CASE k = j
      BY <1>0, <1>4, <1>6, <1>8, <3>1 DEF Turn, Earlier
    <3>2. CASE k # j
      <4>1. pc'[k] = pc[k] /\ waitFor'[k] = waitFor[k]
        BY <1>0, <1>4, <3>2
      <4>. QED BY <1>4, <1>6, <2>1, <4>1 DEF Turn, IsOldest, Earlier
    <3>. QED BY <3>1, <3>2
  <2>. QED BY <2>2, <2>3, <2>4
<1>11. \A s \in Slot : Cleared(s)'
  BY <1>4, <1>6 DEF IInv, Order, Cleared
<1>12. \A d \in Client : NewJob(d)' /\ Clearing(d)'
  BY <1>5 DEF NewJob, Clearing, Creating
<1>13. Order'
  BY <1>9, <1>10, <1>11, <1>12 DEF Order
<1>14. Tables' /\ Written' /\ InThread'
  <2>1. \A s \in Slot : latest[s] \in Job \cup {NoJob} /\ bySlot[s] \in Job \cup {NoJob}
                        /\ data[s] \in Job \cup {NoJob}
    BY DEF IInv, TypeOK
  <2>2. Tables'
    BY <1>4, <1>6, <2>1, JobsAreNumbers DEF IInv, Tables, Latest, Names
  <2>3. Written' /\ InThread'
    BY <1>0, <1>3, <1>4, <2>1 DEF IInv, Written, InThread
  <2>. QED BY <2>2, <2>3
<1>15. ASSUME NEW k \in replaced' PROVE IsReplaced(k)'
  BY <1>1, <1>4, <1>15 DEF IInv, IsReplaced, Born
<1>. QED BY <1>7, <1>13, <1>14, <1>15 DEF IInv

\* A shutdown touches no record, table, thread or request; a pass may cancel tokens.
LEMMA ShutdownIs ==
  ASSUME ShutdownBegins \/ NextPass \/ ShutdownPass
  PROVE  /\ UNCHANGED <<status, slotOf, registered, latest, byIdentity, bySlot, pc, waitFor,
                        exc, admitted, data, slotLock, client, replaced, clearedAt>>
         /\ UNCHANGED reason \/ CancelAll("cancelled")
         /\ running \in BOOLEAN => running' \in BOOLEAN
         /\ stop' \in {"sampled", "waiting", "ended", "expired"}
BY DEF ShutdownBegins, NextPass, ShutdownSamples, ShutdownPass, CancellingPass, PassEnds,
       PassCancels, PassFindsHeld, registry, tables

\* The steps that only cancel tokens.
LEMMA TokenSteps ==
  ASSUME IInv, (\E j \in Job : CancelJob(j)) \/ ShutdownBegins \/ NextPass \/ ShutdownPass
  PROVE  IInv'
<1>. USE DEF tables, shutdown
<1>1. reason' \in [Job -> {NoReason, "superseded", "cancelled"}]
  BY ShutdownIs DEF IInv, FewReasons, CancelJob, CancelToken, CancelAll
<1>2. /\ reason' \in [Job -> TerminalReasons \cup {NoReason}] /\ running' \in BOOLEAN
      /\ stop' \in {"no", "sampled", "waiting", "ended", "expired"}
  BY <1>1, ShutdownIs DEF TerminalReasons, CancelJob, IInv, TypeOK
<1>3. UNCHANGED <<status, slotOf, registered, latest, byIdentity, bySlot, pc, waitFor, exc,
                  admitted, data, slotLock, client, replaced, clearedAt>>
  BY ShutdownIs DEF CancelJob
<1>4. TypeOK' /\ FewReasons'
  BY <1>1, <1>2, <1>3 DEF IInv, TypeOK, FewReasons
<1>5. Order'
  BY <1>3 DEF IInv, Order, LockIsHeld, InOrder, Untouched, HasThread, Turn, Cleared, NewJob,
              Clearing, Creating, Names, IsOldest, Earlier, Born, Gone
<1>6. Tables' /\ Written' /\ InThread' /\ \A k \in replaced' : IsReplaced(k)'
  BY <1>3 DEF IInv, Tables, Latest, Names, Written, InThread, IsReplaced, Born, Gone
<1>. QED BY <1>4, <1>5, <1>6 DEF IInv

-----------------------------------------------------------------------------
(* Theorems about the builds. *)

\* Every step preserves the inductive invariant.
LEMMA NextIInv == IInv /\ [Next]_vars => IInv'
<1>. SUFFICES ASSUME IInv, [Next]_vars PROVE IInv'
  OBVIOUS
<1>1. CASE UNCHANGED vars
  <2>1. TypeOK' /\ FewReasons'
    BY <1>1 DEF vars, registry, tables, shutdown, IInv, TypeOK, FewReasons
  <2>2. Order'
    BY <1>1 DEF vars, registry, tables, shutdown, IInv, Order, LockIsHeld, InOrder, Untouched, HasThread,
                Turn, Cleared, NewJob, Clearing, Creating, Names, IsOldest, Earlier, Born, Gone
  <2>3. Tables' /\ Written' /\ InThread' /\ \A k \in replaced' : IsReplaced(k)'
    BY <1>1 DEF vars, registry, tables, shutdown, IInv, Tables, Latest, Names, Written, InThread,
                IsReplaced, Born, Gone
  <2>. QED BY <2>1, <2>2, <2>3 DEF IInv
<1>2. ASSUME NEW c \in Client, RequestStep(c) PROVE IInv'
  BY <1>2, RunRegistersKeeps, RunSupersedesKeeps, RunStartsKeeps, ClearSteps DEF RequestStep
<1>3. ASSUME NEW j \in Job, ThreadStep(j) \/ WorkerStep(j) PROVE IInv'
  BY <1>3, PlainSteps, WorkerPublishesKeeps, PublishKeeps, FailJobKeeps, ReleaseJobKeeps,
     PopTablesKeeps DEF ThreadStep, WorkerStep
<1>4. CASE Next
  BY <1>2, <1>3, <1>4, ClearSteps, TokenSteps DEF Next
<1>. QED BY <1>1, <1>4

\* The inductive invariant of the node data builds: in which order the jobs of a slot
\* end, what waits for what, and what the tables and the slots hold of them.
THEOREM SpecIInv == Spec => []IInv
<1>1. Init => IInv
  BY InitIInv
<1>2. IInv /\ [Next]_vars => IInv'
  BY NextIInv
<1>. QED BY <1>1, <1>2, PTL DEF Spec

\* No two builds of one slot hold memory admission at once: _run_job joins the thread
\* it superseded before it asks for admission, and that thread joined its own.
THEOREM SpecOneAdmissionPerSlot == Spec => []OneAdmissionPerSlot
<1>1. IInv => OneAdmissionPerSlot
  <2>. SUFFICES ASSUME IInv, NEW j \in admitted, NEW k \in admitted, slotOf[j] = slotOf[k],
                       j # k
                PROVE  FALSE
    BY DEF OneAdmissionPerSlot
  <2>1. ASSUME NEW a \in admitted, NEW b \in admitted, slotOf[a] = slotOf[b], a < b
        PROVE  FALSE
    <3>1. a \in Job /\ b \in Job
      BY DEF IInv, TypeOK
    <3>2. Gone(a)
      BY <2>1, <3>1 DEF IInv, Order, Turn, IsOldest, Earlier, InThread
    <3>. QED BY <3>1, <3>2 DEF IInv, InThread, Gone
  <2>2. j \in Nat /\ k \in Nat
    BY JobsAreNumbers DEF IInv, TypeOK
  <2>3. j < k \/ k < j
    BY <2>2
  <2>. QED BY <2>1, <2>3
<1>. QED BY <1>1, SpecIInv, PTL

\* A job that run superseded while it ran reads "superseded" in the end, whatever cancel,
\* timeout or failure its thread records: the status protocol's precedence decides.
THEOREM SpecReplacedEndsSuperseded == Spec => []ReplacedEndsSuperseded
<1>1. IInv => ReplacedEndsSuperseded
  BY DEF IInv, ReplacedEndsSuperseded, IsReplaced
<1>. QED BY <1>1, SpecIInv, PTL

\* A job whose token was cancelled while it ran is never completed: publication checks
\* the token under the registry's lock, and no failure is recorded as a completion.
THEOREM SpecCancelledNeverCompletes == Spec => CancelledNeverCompletes
<1>1. IInv /\ [Next]_vars =>
        [\A j \in Job : Cancelled(j) /\ status[j] = "running" => status'[j] # "completed"]_vars
  <2>. SUFFICES ASSUME IInv, Next, NEW j \in Job, Cancelled(j), status[j] = "running",
                       status'[j] = "completed"
                PROVE  FALSE
    OBVIOUS
  <2>0. /\ "running" \notin TerminalReasons
        /\ status \in [Job -> TerminalReasons \cup {"unborn", "running"}]
    BY DEF TerminalReasons, IInv, TypeOK
  <2>1. ASSUME NEW k \in Job, NEW r \in TerminalReasons \ {"completed"},
               status' = [status EXCEPT ![k] = Transitioned(@, r)]
        PROVE  FALSE
    BY <2>0, <2>1, TransitionedIs
  <2>2. ASSUME NEW k \in Job, Publish(k) PROVE FALSE
    <3>1. CASE k = j
      <4>. DEFINE r == TokenReason(j, "cancelled")
      <4>1. r \in TerminalReasons \ {"completed"}
        BY DEF IInv, FewReasons, TokenReason, Cancelled, TerminalReasons
      <4>2. status' = [status EXCEPT ![j] = Transitioned(@, r)]
        BY <2>2, <3>1 DEF Publish, PublishOutcome, Owns
      <4>. HIDE DEF r
      <4>. QED BY <2>1, <4>1, <4>2
    <3>2. CASE k # j
      BY <2>0, <2>2, <3>2 DEF Publish
    <3>. QED BY <3>1, <3>2
  <2>3. ASSUME NEW k \in Job, FailJob(k) PROVE FALSE
    BY <2>1, <2>3, FailReasonsAre DEF FailJob
  <2>4. ASSUME NEW c \in Client, RunSupersedes(c) PROVE FALSE
    <3>1. client[c].prev \in Job \cup {NoJob}
      BY <2>4, Creates DEF RunSupersedes, Creating
    <3>2. "superseded" \in TerminalReasons \ {"completed"}
      BY DEF TerminalReasons
    <3>. QED BY <2>0, <2>1, <2>4, <3>1, <3>2 DEF RunSupersedes
  <2>5. ASSUME NEW c \in Client, NEW k \in Job, RunRegisters(c, k) PROVE FALSE
    BY <2>0, <2>5 DEF RunRegisters
  <2>6. status' # status
    BY <2>0
  <2>7. ASSUME NEW k \in Job, ThreadStep(k) \/ WorkerStep(k) PROVE FALSE
    BY <2>2, <2>3, <2>6, <2>7
       DEF ThreadStep, WorkerStep, JoinPredecessor, Admit, SetupFails, Prepare, PublishFails,
           ReleaseAdmission, ReleaseJob, PopTables, WorkerPublishes, WorkerReturns, WorkerFails
  <2>8. ASSUME NEW c \in Client, RequestStep(c) PROVE FALSE
    BY <2>4, <2>5, <2>6, <2>8 DEF RequestStep, RunStarts, ClearCancels, ClearJoins, ClearSlot
  <2>. QED BY <2>6, <2>7, <2>8, ShutdownIs DEF Next, ClearBegins, RunBegins, CancelJob
<1>. QED BY <1>1, SpecIInv, PTL DEF Spec, CancelledNeverCompletes

\* A slot's snapshot is replaced by a newer job's only, and by none that existed when the
\* slot was last cleared: clear joins the thread of the slot's newest job, which is gone
\* after all older ones are.
THEOREM SpecSnapshotsMoveForward == Spec => SnapshotsMoveForward
<1>1. IInv /\ [Next]_vars =>
        [\A s \in Slot : data'[s] \notin {data[s], NoJob} =>
           data'[s] > data[s] /\ data'[s] > clearedAt[s]]_vars
  <2>. SUFFICES ASSUME IInv, Next, NEW s \in Slot, data'[s] \notin {data[s], NoJob}
                PROVE  data'[s] > data[s] /\ data'[s] > clearedAt[s]
    OBVIOUS
  <2>0. data \in [Slot -> Job \cup {NoJob}]
    BY DEF IInv, TypeOK
  <2>1. PICK j \in Job : WorkerPublishes(j)
    <3>1. data' # data
      BY <2>0
    <3>2. ASSUME NEW j \in Job, ThreadStep(j) PROVE FALSE
      BY <3>1, <3>2 DEF ThreadStep, JoinPredecessor, Admit, SetupFails, Prepare, Publish,
         PublishFails, FailJob, ReleaseAdmission, ReleaseJob, PopTables
    <3>3. ASSUME NEW j \in Job, WorkerStep(j) PROVE WorkerPublishes(j)
      BY <3>1, <3>3 DEF WorkerStep, WorkerReturns, WorkerFails
    <3>4. ASSUME NEW c \in Client, RequestStep(c) PROVE FALSE
      <4>1. ~ClearSlot(c)
        <5>. SUFFICES ASSUME ClearSlot(c) PROVE FALSE
          OBVIOUS
        <5>1. data' = [data EXCEPT ![client[c].slot] = NoJob]
          BY DEF ClearSlot
        <5>. QED BY <2>0, <5>1
      <4>. QED BY <3>1, <3>4, <4>1 DEF RequestStep, RunRegisters, RunSupersedes, RunStarts,
                  ClearCancels, ClearJoins
    <3>. QED BY <3>1, <3>2, <3>3, <3>4, ShutdownIs
             DEF Next, ClearBegins, RunBegins, CancelJob
  <2>2. data'[s] = j /\ slotOf[j] = s /\ pc[j] = "work" /\ data[s] # j
    BY <2>0, <2>1 DEF WorkerPublishes
  <2>3. Born(j) /\ ~Gone(j)
    BY <2>2 DEF IInv, Order, Untouched, Gone
  <2>4. j \in Nat /\ data[s] \in Nat /\ clearedAt[s] \in Nat
    BY <2>0, JobsAreNumbers DEF IInv, TypeOK
  <2>5. ~(j <= clearedAt[s])
    BY <2>2, <2>3 DEF IInv, Order, Cleared
  <2>6. ~(j < data[s])
    <3>. SUFFICES ASSUME j < data[s] PROVE FALSE
      OBVIOUS
    <3>1. data[s] \in Job /\ data[s] # NoJob
      BY <2>0, JobsAreNumbers DEF NoJob
    <3>2. slotOf[data[s]] = s /\ IsOldest(data[s])
      BY <3>1 DEF IInv, Written, Order, Turn
    <3>. QED BY <2>2, <2>3, <3>2 DEF IsOldest, Earlier
  <2>. QED BY <2>2, <2>4, <2>5, <2>6
<1>. QED BY <1>1, SpecIInv, PTL DEF Spec, SnapshotsMoveForward

\* No state of the builds has an ill-typed registry, table, thread or request.
THEOREM SpecTypeOK == Spec => []TypeOK
<1>1. IInv => TypeOK
  BY DEF IInv
<1>. QED BY <1>1, SpecIInv, PTL

-----------------------------------------------------------------------------
(* Sums over a finite set. *)

\* A set of numbers has a least one.
LEMMA LeastNumber ==
  ASSUME NEW T \in SUBSET Nat, T # {}
  PROVE  \E n \in T : \A m \in T : ~(m < n)
<1>1. PICK n \in T : \A m \in T : ~(<<m, n>> \in OpToRel(<, Nat))
  BY NatLessThanWellFounded, WFMin
<1>2. \A m \in T : m < n => <<m, n>> \in OpToRel(<, Nat)
  BY DEF OpToRel
<1>. QED BY <1>1, <1>2

\* Induction, as a fact about a set of numbers.
LEMMA NumbersByInduction ==
  ASSUME NEW T \in SUBSET Nat, 0 \in T, \A n \in T : n + 1 \in T
  PROVE  T = Nat
<1>. SUFFICES ASSUME Nat \ T # {} PROVE FALSE
  OBVIOUS
<1>1. PICK n \in Nat \ T : \A m \in Nat \ T : ~(m < n)
  BY LeastNumber
<1>2. n - 1 \in Nat /\ n - 1 < n /\ (n - 1) + 1 = n
  BY <1>1
<1>. QED BY <1>1, <1>2

\* The element a sum over s starts with, and the rest.
First(s) == CHOOSE x \in s : TRUE
Rest(s) == s \ {First(s)}

\* The sums of fun over the subsets of its domain, from those over their rests.
Added(fun, sums) ==
  [s \in SUBSET DOMAIN fun |-> IF s = {} THEN 0 ELSE fun[First(s)] + sums[Rest(s)]]

Sums(fun) == CHOOSE sums : sums = Added(fun, sums)

\* A nonempty finite set has one element more than its rest.
LEMMA RestIsSmaller ==
  ASSUME NEW S, IsFiniteSet(S), NEW s \in SUBSET S, s # {}
  PROVE  /\ First(s) \in s /\ Rest(s) \in SUBSET S /\ First(s) \notin Rest(s)
         /\ Cardinality(s) \in Nat /\ Cardinality(Rest(s)) \in Nat
         /\ Cardinality(Rest(s)) = Cardinality(s) - 1
<1>1. IsFiniteSet(s) /\ First(s) \in s
  BY FS_Subset DEF First
<1>. QED BY <1>1, FS_RemoveElement, FS_CardinalityType DEF Rest

\* The empty set has no elements, and only it.
LEMMA NoneIsEmpty ==
  ASSUME NEW S, IsFiniteSet(S), NEW s \in SUBSET S
  PROVE  Cardinality(s) \in Nat /\ (Cardinality(s) <= 0 <=> s = {})
BY FS_Subset, FS_CardinalityType, FS_EmptySet

\* sums are the sums over the subsets with at most n elements.
UpTo(fun, sums, n) ==
  \A s \in SUBSET DOMAIN fun : Cardinality(s) <= n => sums[s] = Added(fun, sums)[s]

\* They exist for every n, and are extended by one element at a time.
LEMMA SumsExist ==
  ASSUME NEW S, IsFiniteSet(S), NEW fun \in [S -> Nat]
  PROVE  \A n \in Nat : \E sums : UpTo(fun, sums, n)
<1>. DEFINE T == {n \in Nat : \E sums : UpTo(fun, sums, n)}
<1>1. 0 \in T
  <2>. DEFINE zero == [s \in SUBSET S |-> 0]
  <2>1. UpTo(fun, zero, 0)
    BY NoneIsEmpty DEF UpTo, Added
  <2>. QED BY <2>1
<1>2. ASSUME NEW n \in T PROVE n + 1 \in T
  <2>1. PICK sums : UpTo(fun, sums, n)
    BY <1>2
  <2>. DEFINE more == Added(fun, sums)
  <2>2. ASSUME NEW s \in SUBSET S, Cardinality(s) <= n + 1 PROVE more[s] = Added(fun, more)[s]
    <3>1. CASE s = {}
      BY <3>1 DEF Added
    <3>2. CASE s # {}
      <4>1. Cardinality(Rest(s)) <= n /\ Rest(s) \in SUBSET S
        BY <2>2, <3>2, <1>2, RestIsSmaller
      <4>2. sums[Rest(s)] = more[Rest(s)]
        BY <2>1, <4>1 DEF UpTo
      <4>. QED BY <3>2, <4>2 DEF Added
    <3>. QED BY <3>1, <3>2
  <2>. HIDE DEF more
  <2>3. UpTo(fun, more, n + 1)
    BY <2>2 DEF UpTo
  <2>. QED BY <1>2, <2>3
<1>3. T = Nat
  <2>. HIDE DEF T
  <2>1. T \in SUBSET Nat
    BY DEF T
  <2>. QED BY <1>1, <1>2, <2>1, NumbersByInduction
<1>. QED BY <1>3

\* So the sums are defined.
LEMMA SumsAre ==
  ASSUME NEW S, IsFiniteSet(S), NEW fun \in [S -> Nat]
  PROVE  Sums(fun) = Added(fun, Sums(fun))
<1>1. Cardinality(S) \in Nat
  BY FS_CardinalityType
<1>2. PICK sums : UpTo(fun, sums, Cardinality(S))
  BY <1>1, SumsExist
<1>3. \A s \in SUBSET S : Cardinality(s) <= Cardinality(S)
  BY FS_Subset
<1>. DEFINE all == Added(fun, sums)
<1>4. \A s \in SUBSET S : sums[s] = all[s]
  BY <1>2, <1>3 DEF UpTo
<1>5. all = Added(fun, all)
  <2>1. \A s \in SUBSET S : s # {} => Rest(s) \in SUBSET S
    BY DEF Rest
  <2>. QED BY <1>4, <2>1 DEF Added
<1>. HIDE DEF all
<1>. QED BY <1>5 DEF Sums

\* They are numbers.
LEMMA SumsAreNumbers ==
  ASSUME NEW S, IsFiniteSet(S), NEW fun \in [S -> Nat]
  PROVE  \A s \in SUBSET S : Sums(fun)[s] \in Nat
<1>. DEFINE T == {n \in Nat : \A s \in SUBSET S : Cardinality(s) <= n => Sums(fun)[s] \in Nat}
<1>0. \A s \in SUBSET S :
        Sums(fun)[s] = IF s = {} THEN 0 ELSE fun[First(s)] + Sums(fun)[Rest(s)]
  BY SumsAre DEF Added
<1>1. 0 \in T
  BY <1>0, NoneIsEmpty
<1>2. ASSUME NEW n \in T PROVE n + 1 \in T
  <2>1. ASSUME NEW s \in SUBSET S, Cardinality(s) <= n + 1 PROVE Sums(fun)[s] \in Nat
    <3>1. CASE s # {}
      <4>1. /\ First(s) \in S /\ Rest(s) \in SUBSET S /\ Cardinality(Rest(s)) <= n
        BY <1>2, <2>1, <3>1, RestIsSmaller
      <4>2. Sums(fun)[Rest(s)] \in Nat /\ fun[First(s)] \in Nat
        BY <1>2, <4>1
      <4>. QED BY <1>0, <3>1, <4>2
    <3>. QED BY <1>0, <3>1
  <2>. QED BY <1>2, <2>1
<1>3. T = Nat
  <2>. HIDE DEF T
  <2>1. T \in SUBSET Nat
    BY DEF T
  <2>. QED BY <1>1, <1>2, <2>1, NumbersByInduction
<1>4. \A s \in SUBSET S : Cardinality(s) \in Nat
  BY NoneIsEmpty
<1>. QED BY <1>3, <1>4

\* What a sum becomes when one value changes.
LEMMA SumsChange ==
  ASSUME NEW S, IsFiniteSet(S), NEW fun \in [S -> Nat], NEW r \in S, NEW a \in Nat,
         NEW new \in [S -> Nat], \A x \in S : new[x] = IF x = r THEN a ELSE fun[x]
  PROVE  \A s \in SUBSET S :
           Sums(new)[s] = Sums(fun)[s] + (IF r \in s THEN a - fun[r] ELSE 0)
<1>. DEFINE Same(s) == Sums(new)[s] = Sums(fun)[s] + (IF r \in s THEN a - fun[r] ELSE 0)
<1>. DEFINE T == {n \in Nat : \A s \in SUBSET S : Cardinality(s) <= n => Same(s)}
<1>0. new \in [S -> Nat] /\ \A x \in S : new[x] = IF x = r THEN a ELSE fun[x]
  OBVIOUS
<1>a. \A s \in SUBSET S :
        Sums(fun)[s] = IF s = {} THEN 0 ELSE fun[First(s)] + Sums(fun)[Rest(s)]
  BY SumsAre DEF Added
<1>b. \A s \in SUBSET S :
        Sums(new)[s] = IF s = {} THEN 0 ELSE new[First(s)] + Sums(new)[Rest(s)]
  BY <1>0, SumsAre DEF Added
<1>1. 0 \in T
  <2>1. Sums(fun)[{}] = 0 /\ Sums(new)[{}] = 0
    BY <1>a, <1>b
  <2>2. Same({})
    BY <2>1
  <2>. QED BY <2>2, NoneIsEmpty
<1>2. ASSUME NEW n \in T PROVE n + 1 \in T
  <2>1. ASSUME NEW s \in SUBSET S, Cardinality(s) <= n + 1 PROVE Same(s)
    <3>1. CASE s # {}
      <4>1. /\ First(s) \in s /\ Rest(s) \in SUBSET S /\ Cardinality(Rest(s)) <= n
            /\ Rest(s) = s \ {First(s)}
        BY <1>2, <2>1, <3>1, RestIsSmaller DEF Rest
      <4>2. Same(Rest(s))
        BY <1>2, <4>1
      <4>3. /\ Sums(fun)[Rest(s)] \in Nat /\ Sums(new)[Rest(s)] \in Nat
            /\ fun[First(s)] \in Nat /\ fun[r] \in Nat
        BY <1>0, <4>1, SumsAreNumbers
      <4>4. /\ Sums(fun)[s] = fun[First(s)] + Sums(fun)[Rest(s)]
            /\ Sums(new)[s] = (IF First(s) = r THEN a ELSE fun[First(s)]) + Sums(new)[Rest(s)]
        BY <1>0, <1>a, <1>b, <3>1, <4>1
      <4>. QED BY <4>1, <4>2, <4>3, <4>4
    <3>2. CASE s = {}
      BY <1>a, <1>b, <3>2
    <3>. QED BY <3>1, <3>2
  <2>. QED BY <1>2, <2>1
<1>3. T = Nat
  <2>. HIDE DEF T
  <2>1. T \in SUBSET Nat
    BY DEF T
  <2>. QED BY <1>1, <1>2, <2>1, NumbersByInduction
<1>4. \A s \in SUBSET S : Cardinality(s) \in Nat
  BY NoneIsEmpty
<1>5. \A s \in SUBSET S : Same(s)
  BY <1>3, <1>4
<1>. QED BY <1>5

\* Nothing adds up to nothing.
LEMMA SumOfNone ==
  ASSUME NEW S, IsFiniteSet(S)
  PROVE  \A s \in SUBSET S : Sums([x \in S |-> 0])[s] = 0
<1>. DEFINE none == [x \in S |-> 0]
<1>. DEFINE T == {n \in Nat : \A s \in SUBSET S : Cardinality(s) <= n => Sums(none)[s] = 0}
<1>0. none \in [S -> Nat] /\ \A x \in S : none[x] = 0
  OBVIOUS
<1>. HIDE DEF none
<1>a. \A s \in SUBSET S :
        Sums(none)[s] = IF s = {} THEN 0 ELSE none[First(s)] + Sums(none)[Rest(s)]
  BY <1>0, SumsAre DEF Added
<1>1. 0 \in T
  BY <1>a, NoneIsEmpty
<1>2. ASSUME NEW n \in T PROVE n + 1 \in T
  <2>1. ASSUME NEW s \in SUBSET S, Cardinality(s) <= n + 1, s # {} PROVE Sums(none)[s] = 0
    <3>1. /\ First(s) \in S /\ Rest(s) \in SUBSET S /\ Cardinality(Rest(s)) <= n
      BY <1>2, <2>1, RestIsSmaller
    <3>2. Sums(none)[Rest(s)] = 0
      BY <1>2, <3>1
    <3>. QED BY <1>0, <1>a, <2>1, <3>1, <3>2
  <2>. QED BY <1>2, <1>a, <2>1
<1>3. T = Nat
  <2>. HIDE DEF T
  <2>1. T \in SUBSET Nat
    BY DEF T
  <2>. QED BY <1>1, <1>2, <2>1, NumbersByInduction
<1>4. \A s \in SUBSET S : Cardinality(s) \in Nat
  BY NoneIsEmpty
<1>5. \A s \in SUBSET S : Sums(none)[s] = 0
  BY <1>3, <1>4
<1>. QED BY <1>5 DEF none

\* A finite set of numbers has a greatest one.
LEMMA GreatestNumber ==
  ASSUME NEW S \in SUBSET Nat, IsFiniteSet(S)
  PROVE  S # {} => \E m \in S : \A k \in S : m >= k
<1>. DEFINE T == {n \in Nat : \A s \in SUBSET S : Cardinality(s) <= n /\ s # {} =>
                                \E m \in s : \A k \in s : m >= k}
<1>1. 0 \in T
  BY NoneIsEmpty
<1>2. ASSUME NEW n \in T PROVE n + 1 \in T
  <2>1. ASSUME NEW s \in SUBSET S, Cardinality(s) <= n + 1, s # {}
        PROVE  \E m \in s : \A k \in s : m >= k
    <3>. n \in Nat
      BY <1>2
    <3>1. /\ First(s) \in s /\ Rest(s) \in SUBSET S /\ Cardinality(Rest(s)) <= n
          /\ Rest(s) = s \ {First(s)}
      <4>1. /\ First(s) \in s /\ Rest(s) \in SUBSET S /\ Cardinality(s) \in Nat
            /\ Cardinality(Rest(s)) = Cardinality(s) - 1
        BY <2>1, RestIsSmaller
      <4>. QED BY <2>1, <4>1 DEF Rest
    <3>2. CASE Rest(s) = {}
      <4>1. First(s) \in Nat /\ \A k \in s : k = First(s)
        BY <3>1, <3>2
      <4>. QED BY <3>1, <4>1
    <3>3. CASE Rest(s) # {}
      <4>1. PICK m \in Rest(s) : \A k \in Rest(s) : m >= k
        BY <1>2, <3>1, <3>3
      <4>2. CASE m >= First(s)
        BY <3>1, <4>1, <4>2
      <4>3. CASE ~(m >= First(s))
        BY <3>1, <4>1, <4>3
      <4>. QED BY <4>2, <4>3
    <3>. QED BY <3>2, <3>3
  <2>. QED BY <1>2, <2>1
<1>3. T = Nat
  <2>. HIDE DEF T
  <2>1. T \in SUBSET Nat
    BY DEF T
  <2>. QED BY <1>1, <1>2, <2>1, NumbersByInduction
<1>4. Cardinality(S) \in Nat
  BY FS_CardinalityType
<1>. QED BY <1>3, <1>4

-----------------------------------------------------------------------------
(* ExecutionAdmission: the memory that admitted work holds                 *)

Mem == INSTANCE ExecutionAdmission

\* A request that arrived needs some memory: what makes a reservation of it
\* differ from none.
Sized == \A r \in Mem!Request : at[r] # "new" => need[r] \in Sizes

\* The inductive invariant: a holder's share matches its reservation.
MemoryInv == Mem!TypeOK /\ Sized /\ Mem!ReservationIsOwned

\* What every step but an arrival does to r: r alone moves, to a place other
\* than "new", and has memory exactly where it should.
MovesOnly(r) ==
  /\ r \in Mem!Request
  /\ \E place \in Mem!Place \ {"new"}, amount \in Nat :
       /\ at' = [at EXCEPT ![r] = place]
       /\ reserved' = [reserved EXCEPT ![r] = amount]
       /\ amount # Mem!None <=> place \in {"build", "running", "dropped"}
  /\ at[r] # "new"
  /\ limit' \in [Mem!Request -> Limits \cup {Mem!None}]
  /\ UNCHANGED <<Mem!request, late>>

\* Such a move keeps the invariant: no other request's memory is touched.
LEMMA MovesOnlyKeeps == ASSUME NEW r, MemoryInv, MovesOnly(r) PROVE MemoryInv'
<1>1. PICK place \in Mem!Place \ {"new"}, amount \in Nat :
        /\ at' = [at EXCEPT ![r] = place]
        /\ reserved' = [reserved EXCEPT ![r] = amount]
        /\ amount # Mem!None <=> place \in {"build", "running", "dropped"}
  BY DEF MovesOnly
<1>2. r \in Mem!Request /\ at[r] # "new" /\ UNCHANGED <<kind, need, budget, late>>
  BY DEF MovesOnly, Mem!request
<1>3. at' \in [Mem!Request -> Mem!Place] /\ reserved' \in [Mem!Request -> Nat]
  BY <1>1, <1>2 DEF MemoryInv, Mem!TypeOK
<1>4. Mem!TypeOK'
  BY <1>2, <1>3 DEF MemoryInv, Mem!TypeOK, MovesOnly
<1>5. Sized'
  BY <1>1, <1>2 DEF MemoryInv, Mem!TypeOK, Sized
<1>6. Mem!ReservationIsOwned'
  BY <1>1, <1>2 DEF MemoryInv, Mem!TypeOK, Mem!ReservationIsOwned
<1>. QED BY <1>4, <1>5, <1>6 DEF MemoryInv

\* A step that leaves the reservations alone moves between places on the same
\* side: both with memory, or both without.
LEMMA MoveWithout ==
  ASSUME NEW r \in Mem!Request, NEW place \in Mem!Place \ {"new"}, MemoryInv,
         at[r] # "new",
         at[r] \in {"build", "running", "dropped"} <=> place \in {"build", "running", "dropped"},
         Mem!Goto(r, place),
         limit' \in [Mem!Request -> Limits \cup {Mem!None}],
         UNCHANGED <<Mem!request, late, reserved>>
  PROVE MovesOnly(r)
<1>1. reserved[r] \in Nat /\ reserved' = [reserved EXCEPT ![r] = reserved[r]]
  BY DEF MemoryInv, Mem!TypeOK
<1>2. reserved[r] # Mem!None <=> place \in {"build", "running", "dropped"}
  BY DEF MemoryInv, Mem!ReservationIsOwned
<1>. QED BY <1>1, <1>2 DEF MovesOnly, Mem!Goto

\* What a wait that ends or starts does to its limit.
LEMMA LimitType ==
  ASSUME NEW r \in Mem!Request, NEW l \in Limits \cup {Mem!None}, MemoryInv
  PROVE /\ limit \in [Mem!Request -> Limits \cup {Mem!None}]
        /\ [limit EXCEPT ![r] = l] \in [Mem!Request -> Limits \cup {Mem!None}]
BY DEF MemoryInv, Mem!TypeOK

\* A sample the process may meet is one of the limits.
LEMMA LimitsForType ==
  ASSUME NEW r \in Mem!Request, MemoryInv PROVE Mem!LimitsFor(r) \subseteq Limits
BY DEF MemoryInv, Mem!TypeOK, Mem!LimitsFor

\* An arrival brings a size, and no memory.
LEMMA ArriveKeeps == ASSUME NEW r \in Mem!Request, MemoryInv, Mem!Arrive(r) PROVE MemoryInv'
<1>1. PICK k \in Kind, n \in Sizes, b \in Limits \cup {Mem!None} :
        /\ kind' = [kind EXCEPT ![r] = k]
        /\ need' = [need EXCEPT ![r] = n]
        /\ budget' = [budget EXCEPT ![r] = b]
        /\ IF k \in {"patient", "growth"}
           THEN \E l \in (IF b = Mem!None THEN Limits ELSE {b}) : Mem!StartWait(r, l)
           ELSE Mem!Goto(r, "admit") /\ UNCHANGED limit
  BY DEF Mem!Arrive
<1>2. at[r] = "new" /\ UNCHANGED <<late, reserved>>
  BY DEF Mem!Arrive
<1>3. PICK place \in {"wait", "admit"} : at' = [at EXCEPT ![r] = place]
  BY <1>1 DEF Mem!StartWait, Mem!Goto
<1>4. limit' \in [Mem!Request -> Limits \cup {Mem!None}]
  <2>1. CASE UNCHANGED limit
    BY <2>1 DEF MemoryInv, Mem!TypeOK
  <2>2. CASE \E l \in (IF b = Mem!None THEN Limits ELSE {b}) : Mem!StartWait(r, l)
    BY <2>2 DEF MemoryInv, Mem!TypeOK, Mem!StartWait
  <2>. QED BY <1>1, <2>1, <2>2
<1>5. /\ kind' \in [Mem!Request -> Kind] /\ need' \in [Mem!Request -> Sizes \cup {Mem!None}]
      /\ budget' \in [Mem!Request -> Limits \cup {Mem!None}]
  BY <1>1 DEF MemoryInv, Mem!TypeOK
<1>6. /\ at' \in [Mem!Request -> Mem!Place]
      /\ reserved' \in [Mem!Request -> Nat]
      /\ late' \in SUBSET Mem!Request
  BY <1>2, <1>3 DEF MemoryInv, Mem!TypeOK, Mem!Place
<1>7. Mem!TypeOK'
  BY <1>4, <1>5, <1>6 DEF Mem!TypeOK
<1>8. Sized'
  BY <1>1, <1>3 DEF MemoryInv, Mem!TypeOK, Sized
<1>9. Mem!ReservationIsOwned'
  BY <1>2, <1>3 DEF MemoryInv, Mem!TypeOK, Mem!ReservationIsOwned
<1>. QED BY <1>7, <1>8, <1>9 DEF MemoryInv

\* The steps that leave the reservations alone.
LEMMA QuietSteps ==
  ASSUME NEW r \in Mem!Request, MemoryInv,
         \/ Mem!StopWaiting(r) \/ Mem!Sleep(r) \/ Mem!Wake(r) \/ Mem!CancelWait(r)
         \/ Mem!RefuseOutright(r) \/ Mem!Check(r) \/ Mem!Build(r) \/ Mem!Drop(r)
  PROVE  MovesOnly(r)
<1>. {"wait", "asleep", "admit", "check", "build", "running", "dropped", "done", "refused",
      "failed", "cancelled"} \subseteq Mem!Place \ {"new"}
  BY DEF Mem!Place
<1>0. Mem!None \in Limits \cup {Mem!None} /\ limit \in [Mem!Request -> Limits \cup {Mem!None}]
  BY LimitType
<1>1. CASE Mem!StopWaiting(r)
  <2>1. limit' \in [Mem!Request -> Limits \cup {Mem!None}]
    BY <1>1, LimitType DEF Mem!StopWaiting
  <2>. QED BY <1>1, <2>1, MoveWithout DEF Mem!StopWaiting
<1>2. CASE Mem!Sleep(r)
  BY <1>0, <1>2, MoveWithout DEF Mem!Sleep
<1>3. CASE Mem!Wake(r)
  BY <1>0, <1>3, MoveWithout DEF Mem!Wake
<1>4. CASE Mem!CancelWait(r)
  <2>1. limit' \in [Mem!Request -> Limits \cup {Mem!None}]
    BY <1>4, LimitType DEF Mem!CancelWait
  <2>. QED BY <1>4, <2>1, MoveWithout DEF Mem!CancelWait
<1>5. CASE Mem!RefuseOutright(r)
  BY <1>0, <1>5, MoveWithout DEF Mem!RefuseOutright
<1>6. CASE Mem!Check(r)
  <2>1. PICK next \in Mem!LimitsFor(r) :
          Mem!StartWait(r, next) \/ (Mem!Goto(r, "refused") /\ UNCHANGED limit)
    BY <1>6 DEF Mem!Check
  <2>2. next \in Limits
    BY LimitsForType
  <2>3. limit' \in [Mem!Request -> Limits \cup {Mem!None}]
    BY <1>0, <2>1, <2>2, LimitType DEF Mem!StartWait
  <2>4. PICK place \in {"wait", "refused"} : Mem!Goto(r, place)
    BY <2>1 DEF Mem!StartWait
  <2>. QED BY <1>6, <2>3, <2>4, MoveWithout DEF Mem!Check
<1>7. CASE Mem!Build(r)
  BY <1>0, <1>7, MoveWithout DEF Mem!Build
<1>8. CASE Mem!Drop(r)
  BY <1>0, <1>8, MoveWithout DEF Mem!Drop
<1>. QED BY <1>1, <1>2, <1>3, <1>4, <1>5, <1>6, <1>7, <1>8

\* A reservation is of a positive size, and leads to a context being built.
LEMMA ReservingSteps ==
  ASSUME NEW r \in Mem!Request, MemoryInv, Mem!Reserve(r) \/ Mem!GrowthGrant(r)
  PROVE  MovesOnly(r)
<1>1. /\ at[r] = "admit" /\ limit' = limit /\ UNCHANGED <<Mem!request, late>>
      /\ limit \in [Mem!Request -> Limits \cup {Mem!None}]
  BY DEF Mem!Reserve, Mem!GrowthGrant, MemoryInv, Mem!TypeOK
<1>2. reserved[r] = Mem!None /\ reserved = [reserved EXCEPT ![r] = Mem!None]
  BY <1>1 DEF MemoryInv, Mem!TypeOK, Mem!ReservationIsOwned
<1>3. need[r] \in Nat \ {0}
  BY <1>1, AdmissionAssumption DEF MemoryInv, Sized
<1>4. PICK place \in {"build", "check", "refused"}, amount \in Nat :
        /\ at' = [at EXCEPT ![r] = place]
        /\ reserved' = [reserved EXCEPT ![r] = amount]
        /\ amount # Mem!None <=> place = "build"
  <2>1. CASE Mem!Reserve(r)
    <3>1. CASE reserved' = [reserved EXCEPT ![r] = need[r]] /\ Mem!Goto(r, "build")
      BY <3>1, <1>3 DEF Mem!Goto, Mem!None
    <3>2. CASE UNCHANGED reserved /\ (Mem!Goto(r, "check") \/ Mem!Goto(r, "refused"))
      BY <3>2, <1>2 DEF Mem!Goto, Mem!None
    <3>. QED BY <2>1, <3>1, <3>2 DEF Mem!Reserve
  <2>2. CASE Mem!GrowthGrant(r)
    <3>1. CASE UNCHANGED reserved /\ Mem!Goto(r, "refused")
      BY <3>1, <1>2 DEF Mem!Goto, Mem!None
    <3>2. CASE \E grant \in Nat \ {0} :
                 reserved' = [reserved EXCEPT ![r] = grant] /\ Mem!Goto(r, "build")
      BY <3>2 DEF Mem!Goto, Mem!None
    <3>3. ASSUME NEW usable \in Limits PROVE 1..(usable - Mem!Total) \subseteq Nat \ {0}
      OBVIOUS
    <3>. QED BY <2>2, <3>1, <3>2, <3>3 DEF Mem!GrowthGrant
  <2>. QED BY <2>1, <2>2
<1>5. place \in Mem!Place \ {"new"}
  BY DEF Mem!Place
<1>6. amount # Mem!None <=> place \in {"build", "running", "dropped"}
  BY <1>4
<1>. QED BY <1>1, <1>4, <1>5, <1>6 DEF MovesOnly

\* What releases a reservation leaves its request without a context.
LEMMA ReleasingSteps ==
  ASSUME NEW r \in Mem!Request, MemoryInv, Mem!BuildFails(r) \/ Mem!Release(r) \/ Mem!Finalize(r)
  PROVE  MovesOnly(r)
<1>1. /\ at[r] # "new" /\ limit' = limit /\ UNCHANGED <<Mem!request, late>>
      /\ limit \in [Mem!Request -> Limits \cup {Mem!None}]
  BY DEF Mem!BuildFails, Mem!Release, Mem!Finalize, MemoryInv, Mem!TypeOK
<1>2. PICK place \in {"failed", "done"} : at' = [at EXCEPT ![r] = place]
  BY DEF Mem!BuildFails, Mem!Release, Mem!Finalize, Mem!Goto
<1>3. reserved' = [reserved EXCEPT ![r] = Mem!None]
  BY DEF Mem!BuildFails, Mem!Release, Mem!Finalize, Mem!ReleaseReservation
<1>4. /\ place \in Mem!Place \ {"new"} /\ place \notin {"build", "running", "dropped"}
      /\ Mem!None \in Nat
  BY DEF Mem!Place, Mem!None
<1>. QED BY <1>1, <1>2, <1>3, <1>4 DEF MovesOnly

\* A deadline moves nothing.
LEMMA DeadlineKeeps == ASSUME NEW r \in Mem!Request, MemoryInv, Mem!Deadline(r) PROVE MemoryInv'
BY DEF MemoryInv, Mem!TypeOK, Sized, Mem!ReservationIsOwned, Mem!Deadline, Mem!request

\* The first states satisfy the inductive invariant.
LEMMA InitMemoryInv == ASSUME Mem!Init PROVE MemoryInv
BY AdmissionAssumption DEF Mem!Init, MemoryInv, Mem!TypeOK, Sized, Mem!ReservationIsOwned,
   Mem!Place, Mem!None

\* Every step preserves the inductive invariant.
LEMMA NextMemoryInv == ASSUME MemoryInv, [Mem!Next]_(Mem!vars) PROVE MemoryInv'
<1>1. ASSUME NEW r \in Mem!Request, Mem!Arrive(r) PROVE MemoryInv'
  BY <1>1, ArriveKeeps
<1>2. ASSUME NEW r \in Mem!Request,
             \/ Mem!StopWaiting(r) \/ Mem!Sleep(r) \/ Mem!Wake(r) \/ Mem!CancelWait(r)
             \/ Mem!RefuseOutright(r) \/ Mem!Check(r) \/ Mem!Build(r) \/ Mem!Drop(r)
      PROVE  MemoryInv'
  BY <1>2, QuietSteps, MovesOnlyKeeps
<1>3. ASSUME NEW r \in Mem!Request, Mem!Reserve(r) \/ Mem!GrowthGrant(r) PROVE MemoryInv'
  BY <1>3, ReservingSteps, MovesOnlyKeeps
<1>4. ASSUME NEW r \in Mem!Request, Mem!BuildFails(r) \/ Mem!Release(r) \/ Mem!Finalize(r)
      PROVE  MemoryInv'
  BY <1>4, ReleasingSteps, MovesOnlyKeeps
<1>5. ASSUME NEW r \in Mem!Request, Mem!Deadline(r) PROVE MemoryInv'
  BY <1>5, DeadlineKeeps
<1>6. ASSUME UNCHANGED Mem!vars PROVE MemoryInv'
  BY <1>6 DEF Mem!vars, MemoryInv, Mem!TypeOK, Sized, Mem!ReservationIsOwned
<1>. QED BY <1>1, <1>2, <1>3, <1>4, <1>5, <1>6 DEF Mem!Next, Mem!Terminating

\* The inductive invariant holds of every reachable state.
LEMMA MemoryInvHolds == Mem!Spec => []MemoryInv
<1>1. Mem!Init => MemoryInv
  BY InitMemoryInv
<1>2. MemoryInv /\ [Mem!Next]_(Mem!vars) => MemoryInv'
  BY NextMemoryInv
<1>. QED BY <1>1, <1>2, PTL DEF Mem!Spec

\* Requests and reservations keep their types: no sample, deadline or release
\* puts anything but a size of memory in _IN_FLIGHT_RESERVATIONS.
THEOREM MemoryTypeCorrect == Mem!Spec => []Mem!TypeOK
<1>1. MemoryInv => Mem!TypeOK
  BY DEF MemoryInv
<1>. QED BY <1>1, MemoryInvHolds, PTL

\* A reservation lasts exactly as long as a context, or its building, answers
\* for it: none leaks and none is released under running work
\* (_reservation_release).
THEOREM ReservationsAreOwned == Mem!Spec => []ReservationIsOwned
<1>1. MemoryInv => ReservationIsOwned
  BY DEF MemoryInv, Mem!ReservationIsOwned, Mem!Request, Mem!None, ReservationIsOwned, Request, None
<1>. QED BY <1>1, MemoryInvHolds, PTL

--------------------------------------------------------------------------------
(* A refusal of a patient request. *)

\* What a refusal rests on: a sample r does not fit alone, or another operation
\* that is not short-lived.
Excuse(r) ==
  \/ \E l \in Mem!LimitsFor(r) : need[r] > l
  \/ \E q \in Mem!Request \ {r} : at[q] # "new" /\ kind[q] # "short"

\* What was found of r and of an operation that has arrived does not change: only
\* an arrival sets what a request is, and nothing becomes new again.
LEMMA ArrivedStays ==
  ASSUME Mem!TypeOK, Mem!Next, NEW q \in Mem!Request, at[q] # "new"
  PROVE  /\ kind'[q] = kind[q] /\ need'[q] = need[q] /\ budget'[q] = budget[q]
         /\ at'[q] # "new" /\ (q \in late => q \in late')
         /\ at'[q] = "refused" => at[q] \in {"refused", "admit", "check"}
<1>1. ASSUME NEW r \in Mem!Request, Mem!Arrive(r)
      PROVE  /\ r # q /\ kind'[q] = kind[q] /\ need'[q] = need[q] /\ budget'[q] = budget[q]
             /\ at'[q] = at[q] /\ late' = late
  BY <1>1 DEF Mem!Arrive, Mem!StartWait, Mem!Goto, Mem!TypeOK
<1>2. ASSUME NEW r \in Mem!Request,
             \/ Mem!StopWaiting(r) \/ Mem!Sleep(r) \/ Mem!Wake(r) \/ Mem!CancelWait(r)
             \/ Mem!Build(r) \/ Mem!BuildFails(r) \/ Mem!Release(r) \/ Mem!Drop(r)
             \/ Mem!Finalize(r) \/ Mem!RefuseOutright(r)
      PROVE  /\ UNCHANGED <<Mem!request, late>>
             /\ at'[q] # "new" /\ (at'[q] = "refused" => at[q] = "refused")
  BY <1>2 DEF Mem!StopWaiting, Mem!Sleep, Mem!Wake, Mem!CancelWait, Mem!Build, Mem!BuildFails,
     Mem!Release, Mem!Drop,
     Mem!Finalize, Mem!RefuseOutright, Mem!Goto, Mem!TypeOK
<1>3. ASSUME NEW r \in Mem!Request, Mem!Reserve(r) \/ Mem!Check(r) \/ Mem!GrowthGrant(r)
      PROVE  /\ UNCHANGED <<Mem!request, late>> /\ at[r] \in {"admit", "check"}
             /\ at'[q] # "new" /\ (at'[q] = "refused" => at[q] = "refused" \/ q = r)
  BY <1>3 DEF Mem!Reserve, Mem!Check, Mem!GrowthGrant, Mem!StartWait, Mem!Goto, Mem!TypeOK
<1>4. ASSUME NEW r \in Mem!Request, Mem!Deadline(r)
      PROVE  UNCHANGED <<Mem!request, at>> /\ late \subseteq late'
  BY <1>4 DEF Mem!Deadline
<1>. QED BY <1>1, <1>2, <1>3, <1>4 DEF Mem!Next, Mem!Terminating, Mem!vars, Mem!request

\* An excuse, once found, stands.
LEMMA ExcuseStays ==
  ASSUME Mem!TypeOK, Mem!Next, NEW r \in Mem!Request, at[r] # "new", Excuse(r)
  PROVE  Excuse(r)'
<1>1. need'[r] = need[r] /\ Mem!LimitsFor(r)' = Mem!LimitsFor(r)
  BY ArrivedStays DEF Mem!LimitsFor
<1>2. ASSUME NEW q \in Mem!Request, at[q] # "new", kind[q] # "short"
      PROVE  at'[q] # "new" /\ kind'[q] # "short"
  BY <1>2, ArrivedStays
<1>. QED BY <1>1, <1>2 DEF Excuse

\* A patient request is refused by _refusal_is_transient alone, and with an excuse.
LEMMA RefusedWithExcuse ==
  ASSUME MemoryInv, Mem!Next, NEW r \in Mem!Request,
         at[r] # "refused", at'[r] = "refused",
         kind[r] = "patient", r \notin late
  PROVE  Excuse(r)
<1>1. at[r] # "new"
  BY DEF Mem!Next, Mem!Arrive, Mem!StopWaiting, Mem!Sleep, Mem!Wake, Mem!CancelWait, Mem!Deadline,
     Mem!RefuseOutright,
     Mem!Reserve, Mem!Check, Mem!GrowthGrant, Mem!Build, Mem!BuildFails, Mem!Release, Mem!Drop,
     Mem!Finalize, Mem!StartWait,
     Mem!Goto, Mem!Terminating, Mem!vars, MemoryInv, Mem!TypeOK
<1>2. Mem!Check(r)
  <2>1. ASSUME NEW q \in Mem!Request, Mem!Reserve(q) \/ Mem!GrowthGrant(q) PROVE FALSE
    BY <2>1 DEF Mem!Reserve, Mem!GrowthGrant, Mem!Goto, MemoryInv, Mem!TypeOK
  <2>2. ASSUME NEW q \in Mem!Request, Mem!Check(q) PROVE q = r
    BY <2>2 DEF Mem!Check, Mem!StartWait, Mem!Goto, MemoryInv, Mem!TypeOK
  <2>3. ASSUME NEW q \in Mem!Request, Mem!Arrive(q) PROVE FALSE
    BY <2>3, <1>1 DEF Mem!Arrive, Mem!StartWait, Mem!Goto, MemoryInv, Mem!TypeOK
  <2>. QED BY <2>1, <2>2, <2>3 DEF Mem!Next, Mem!StopWaiting, Mem!Sleep, Mem!Wake, Mem!CancelWait,
     Mem!Deadline,
          Mem!RefuseOutright, Mem!Build, Mem!BuildFails, Mem!Release, Mem!Drop, Mem!Finalize,
          Mem!Goto, Mem!Terminating,
          Mem!vars, MemoryInv, Mem!TypeOK
<1>3. PICK l \in Mem!LimitsFor(r) : ~Mem!Transient(r, l)
  <2>1. PICK l \in Mem!LimitsFor(r), next \in Mem!LimitsFor(r) :
          IF r \notin late /\ Mem!Transient(r, l)
          THEN Mem!StartWait(r, next)
          ELSE Mem!Goto(r, "refused") /\ UNCHANGED limit
    BY <1>2 DEF Mem!Check
  <2>2. ~Mem!StartWait(r, next)
    BY DEF Mem!StartWait, Mem!Goto, MemoryInv, Mem!TypeOK
  <2>. QED BY <2>1, <2>2
<1>4. CASE Mem!Holders = {}
  <2>1. need[r] \in Nat /\ l \in Nat
    BY <1>1, LimitsForType, AdmissionAssumption DEF MemoryInv, Sized
  <2>. QED BY <1>3, <1>4, <2>1 DEF Mem!Transient, Excuse
<1>5. CASE Mem!Holders # {}
  <2>1. PICK h \in Mem!Holders : kind[h] # "short"
    BY <1>3, <1>5 DEF Mem!Transient, Mem!OnlyShortHold
  <2>2. h \in Mem!Request /\ at[h] \in {"build", "running", "dropped"}
    BY DEF Mem!Holders, MemoryInv, Mem!ReservationIsOwned
  <2>3. at[r] = "check"
    BY <1>2 DEF Mem!Check
  <2>. QED BY <2>1, <2>2, <2>3 DEF Excuse
<1>. QED BY <1>4, <1>5

\* Short holders never refuse: a patient request that is refused before its deadline
\* was refused over memory that no wait could free, and for as long as it is known,
\* whatever arrives or ends since (create_admitted_execution_context).
THEOREM RefusalsStand == Mem!Spec => []ShortHoldersNeverRefuse
<1> DEFINE Stand == Mem!ShortHoldersNeverRefuse
<1>1. Stand <=> \A r \in Mem!Request :
         at[r] = "refused" /\ kind[r] = "patient" /\ r \notin late => Excuse(r)
  BY DEF Mem!ShortHoldersNeverRefuse, Excuse
<1>2. Mem!Init => Stand
  BY DEF Mem!Init, Mem!ShortHoldersNeverRefuse
<1>3. ASSUME MemoryInv, Stand, Mem!Next, NEW r \in Mem!Request,
             at'[r] = "refused", kind'[r] = "patient", r \notin late'
      PROVE  Excuse(r)'
  <2>1. at[r] # "new"
    BY <1>3 DEF Mem!Next, Mem!Arrive, Mem!StopWaiting, Mem!Sleep, Mem!Wake, Mem!CancelWait,
       Mem!Deadline,
       Mem!RefuseOutright, Mem!Reserve, Mem!Check, Mem!GrowthGrant, Mem!Build, Mem!BuildFails,
       Mem!Release, Mem!Drop,
       Mem!Finalize, Mem!StartWait, Mem!Goto, Mem!Terminating, Mem!vars, MemoryInv, Mem!TypeOK
  <2>2. kind[r] = "patient" /\ r \notin late
    BY <1>3, <2>1, ArrivedStays DEF MemoryInv
  <2>3. Excuse(r)
    BY <1>1, <1>3, <2>1, <2>2, RefusedWithExcuse
  <2>. QED BY <1>3, <2>1, <2>3, ExcuseStays DEF MemoryInv
<1>4. MemoryInv /\ Stand /\ [Mem!Next]_(Mem!vars) => Stand'
  <2>1. ASSUME UNCHANGED Mem!vars, Stand PROVE Stand'
    BY <2>1 DEF Mem!vars, Mem!ShortHoldersNeverRefuse, Mem!LimitsFor
  <2>2. ASSUME MemoryInv, Stand, Mem!Next PROVE Stand'
    BY <1>3, <2>2 DEF Mem!ShortHoldersNeverRefuse, Excuse
  <2>. QED BY <2>1, <2>2
<1>5. Stand => ShortHoldersNeverRefuse
  BY DEF Mem!ShortHoldersNeverRefuse, Mem!LimitsFor, Mem!Request, Mem!None,
     ShortHoldersNeverRefuse, LimitsFor, Request, None
<1>. QED BY <1>2, <1>4, <1>5, MemoryInvHolds, PTL DEF Mem!Spec

-----------------------------------------------------------------------------
(* What is in flight, against what was found usable. *)

\* _IN_FLIGHT_RESERVATIONS has finitely many entries, and its sum is one of theirs.
LEMMA TotalIs ==
  ASSUME reserved \in [Mem!Request -> Nat]
  PROVE  IsFiniteSet(Mem!Request) /\ Mem!Total = Sums(reserved)[Mem!Request]
<1>1. IsFiniteSet(Mem!Request)
  BY FS_Interval, AdmissionAssumption DEF Mem!Request
<1>2. DOMAIN reserved = Mem!Request
  OBVIOUS
<1>3. Mem!Total = Sums(reserved)[DOMAIN reserved]
  BY DEF Mem!Total, Mem!SumFunction, Mem!SumFunctionOnSet, Mem!FoldFunctionOnSet,
     Mem!MapThenFoldSet, Sums, Added, First, Rest
<1>. QED BY <1>1, <1>2, <1>3

\* What a new reservation of r, or its release, does to the sum.
LEMMA TotalChanges ==
  ASSUME reserved \in [Mem!Request -> Nat], NEW r \in Mem!Request,
         NEW a \in Nat, reserved' \in [Mem!Request -> Nat],
         \A q \in Mem!Request : reserved'[q] = IF q = r THEN a ELSE reserved[q]
  PROVE  /\ Mem!Total \in Nat /\ Mem!Total' \in Nat
         /\ Mem!Total' = Mem!Total + (a - reserved[r])
<1>1. IsFiniteSet(Mem!Request) /\ Mem!Total = Sums(reserved)[Mem!Request]
  BY TotalIs
<1>2. Mem!Total' = Sums(reserved')[Mem!Request]
  <2>1. DOMAIN reserved' = Mem!Request
    OBVIOUS
  <2>2. Mem!Total' = Sums(reserved')[DOMAIN reserved']
    BY DEF Mem!Total, Mem!SumFunction, Mem!SumFunctionOnSet, Mem!FoldFunctionOnSet,
       Mem!MapThenFoldSet, Sums, Added, First, Rest
  <2>. QED BY <2>1, <2>2
<1>3. /\ Sums(reserved)[Mem!Request] \in Nat /\ Sums(reserved')[Mem!Request] \in Nat
  BY <1>1, SumsAreNumbers
<1>4. Sums(reserved')[Mem!Request] = Sums(reserved)[Mem!Request] + (a - reserved[r])
  <2>1. \A s \in SUBSET Mem!Request :
          Sums(reserved')[s] = Sums(reserved)[s] + (IF r \in s THEN a - reserved[r] ELSE 0)
    BY <1>1, SumsChange
  <2>. QED BY <2>1
<1>. QED BY <1>1, <1>2, <1>3, <1>4

\* The greatest of the samples.
LEMMA MostIsUsable ==
         /\ Limits \subseteq Nat /\ Mem!Max(Limits) \in Limits
         /\ \A l \in Limits : l <= Mem!Max(Limits)
<1>1. Limits \in SUBSET Nat /\ IsFiniteSet(Limits) /\ Limits # {}
  BY AdmissionAssumption
<1>2. \E m \in Limits : \A k \in Limits : m >= k
  BY <1>1, GreatestNumber
<1>3. Mem!Max(Limits) \in Limits /\ \A k \in Limits : Mem!Max(Limits) >= k
  BY <1>2 DEF Mem!Max
<1>. QED BY <1>1, <1>3

\* Nothing is in flight at first.
LEMMA InitWithin == ASSUME Mem!Init PROVE Mem!InFlightWithinMemory
<1>1. reserved = [r \in Mem!Request |-> 0]
  BY DEF Mem!Init, Mem!None
<1>2. reserved \in [Mem!Request -> Nat]
  BY <1>1
<1>3. Mem!Total = 0
  BY <1>1, <1>2, TotalIs, SumOfNone
<1>4. Mem!Max(Limits) \in Nat
  BY MostIsUsable
<1>5. 0 <= Mem!Max(Limits)
  BY <1>4
<1>. QED BY <1>3, <1>5 DEF Mem!InFlightWithinMemory

\* A reservation is made against the sum, a release lowers it.
LEMMA NextWithin ==
  ASSUME MemoryInv, Mem!InFlightWithinMemory, [Mem!Next]_(Mem!vars)
  PROVE  Mem!InFlightWithinMemory'
<1>0. reserved \in [Mem!Request -> Nat]
  BY DEF MemoryInv, Mem!TypeOK
<1>1. CASE UNCHANGED reserved
  <2>1. Mem!Total' = Mem!Total
    BY <1>1 DEF Mem!Total
  <2>. QED BY <2>1 DEF Mem!InFlightWithinMemory
<1>2. ASSUME NEW r \in Mem!Request, NEW a \in Nat, NEW l \in Limits,
             reserved' = [reserved EXCEPT ![r] = a],
             reserved[r] = 0, Mem!Total + a <= l
      PROVE  Mem!InFlightWithinMemory'
  <2>0. /\ reserved' \in [Mem!Request -> Nat]
        /\ \A q \in Mem!Request : reserved'[q] = IF q = r THEN a ELSE reserved[q]
    BY <1>0, <1>2
  <2>1. Mem!Total \in Nat /\ Mem!Total' = Mem!Total + (a - reserved[r])
    BY <1>0, <2>0, TotalChanges
  <2>2. l \in Nat /\ Mem!Max(Limits) \in Nat /\ l <= Mem!Max(Limits)
    BY MostIsUsable
  <2>3. Mem!Total' <= Mem!Max(Limits)
    BY <1>2, <2>1, <2>2
  <2>. QED BY <2>3 DEF Mem!InFlightWithinMemory
<1>3. ASSUME NEW r \in Mem!Request, Mem!Reserve(r) \/ Mem!GrowthGrant(r)
      PROVE  Mem!InFlightWithinMemory'
  <2>1. reserved[r] = 0 /\ at[r] = "admit"
    BY <1>3 DEF Mem!Reserve, Mem!GrowthGrant, MemoryInv, Mem!ReservationIsOwned, Mem!None
  <2>2. need[r] \in Nat
    BY <2>1, AdmissionAssumption DEF MemoryInv, Sized
  <2>3. CASE Mem!Reserve(r)
    <3>1. PICK l \in Mem!LimitsFor(r) :
            \/ Mem!Total + need[r] <= l /\ reserved' = [reserved EXCEPT ![r] = need[r]]
            \/ UNCHANGED reserved
      BY <2>3 DEF Mem!Reserve
    <3>2. l \in Limits
      BY LimitsForType
    <3>. QED BY <1>1, <1>2, <2>1, <2>2, <3>1, <3>2
  <2>4. CASE Mem!GrowthGrant(r)
    <3>1. PICK usable \in Limits :
            \/ UNCHANGED reserved
            \/ \E grant \in 1..(usable - Mem!Total) : reserved' = [reserved EXCEPT ![r] = grant]
      BY <2>4 DEF Mem!GrowthGrant
    <3>2. ASSUME NEW grant \in 1..(usable - Mem!Total),
                 reserved' = [reserved EXCEPT ![r] = grant]
          PROVE  Mem!InFlightWithinMemory'
      <4>1. grant \in Nat /\ usable \in Nat
        BY MostIsUsable
      <4>2. Mem!Total \in Nat
        BY <1>0, TotalIs, SumsAreNumbers
      <4>3. Mem!Total + grant <= usable
        BY <4>1, <4>2
      <4>. QED BY <1>2, <2>1, <3>2, <4>1, <4>3
    <3>. QED BY <1>1, <3>1, <3>2
  <2>. QED BY <1>3, <2>3, <2>4
<1>4. ASSUME NEW r \in Mem!Request, Mem!BuildFails(r) \/ Mem!Release(r) \/ Mem!Finalize(r)
      PROVE  Mem!InFlightWithinMemory'
  <2>1. reserved' = [reserved EXCEPT ![r] = 0] /\ reserved[r] \in Nat
    BY <1>0, <1>4
       DEF Mem!BuildFails, Mem!Release, Mem!Finalize, Mem!ReleaseReservation, Mem!None
  <2>2. /\ Mem!Total \in Nat /\ Mem!Total' \in Nat
        /\ Mem!Total' = Mem!Total + (0 - reserved[r])
    <3>1. /\ reserved' \in [Mem!Request -> Nat]
          /\ \A q \in Mem!Request : reserved'[q] = IF q = r THEN 0 ELSE reserved[q]
      BY <1>0, <2>1
    <3>. QED BY <1>0, <3>1, TotalChanges
  <2>3. Mem!Max(Limits) \in Nat
    BY MostIsUsable
  <2>4. Mem!Total' <= Mem!Max(Limits)
    BY <2>1, <2>2, <2>3 DEF Mem!InFlightWithinMemory
  <2>. QED BY <2>4 DEF Mem!InFlightWithinMemory
<1>5. ASSUME NEW r \in Mem!Request,
             \/ Mem!Arrive(r) \/ Mem!StopWaiting(r) \/ Mem!Sleep(r) \/ Mem!Wake(r)
             \/ Mem!CancelWait(r) \/ Mem!Deadline(r) \/ Mem!RefuseOutright(r) \/ Mem!Check(r)
             \/ Mem!Build(r) \/ Mem!Drop(r)
      PROVE  UNCHANGED reserved
  BY <1>5 DEF Mem!Arrive, Mem!StopWaiting, Mem!Sleep, Mem!Wake, Mem!CancelWait, Mem!Deadline,
     Mem!RefuseOutright, Mem!Check, Mem!Build, Mem!Drop
<1>6. ASSUME UNCHANGED Mem!vars PROVE UNCHANGED reserved
  BY <1>6 DEF Mem!vars
<1>. QED BY <1>1, <1>3, <1>4, <1>5, <1>6 DEF Mem!Next, Mem!Terminating

\* The reservations of all requests together never exceed what some sample of memory
\* found usable, however often samples vary between the sections of an admission: each
\* is made against the sum of those in flight, under the lock (_reserve_in_flight_budget,
\* _growth_grant_terms).
THEOREM InFlightIsWithinMemory == Mem!Spec => []InFlightWithinMemory
<1>1. Mem!Init => Mem!InFlightWithinMemory
  BY InitWithin
<1>2. MemoryInv /\ Mem!InFlightWithinMemory /\ [Mem!Next]_(Mem!vars) => Mem!InFlightWithinMemory'
  BY NextWithin
<1>3. Mem!InFlightWithinMemory => InFlightWithinMemory
  <2>1. Mem!Total = Total
    BY DEF Mem!Total, Mem!SumFunction, Mem!SumFunctionOnSet, Mem!FoldFunctionOnSet,
       Mem!MapThenFoldSet, Total, SumFunction, SumFunctionOnSet, FoldFunctionOnSet, MapThenFoldSet
  <2>2. Mem!Max(Limits) = Max(Limits)
    BY DEF Mem!Max, Max
  <2>. QED BY <2>1, <2>2 DEF Mem!InFlightWithinMemory, InFlightWithinMemory
<1>. QED BY <1>1, <1>2, <1>3, MemoryInvHolds, PTL DEF Mem!Spec
=============================================================================
