--------------------------- MODULE NodeDataBuilds ---------------------------
(***************************************************************************)
(* routes/_node_data_service.NodeDataService: building the snapshot of a   *)
(* pipeline node in a background job.  The service composes the            *)
(* CancellableJobRegistry (who is the latest job of a slot, who was asked  *)
(* to stop), the job store's status protocol, one thread per job that      *)
(* supervises a worker process, and the service's own tables.  Requests    *)
(* run on server threads (clients here); run and clear hold _slot_lock.    *)
(*                                                                         *)
(* A slot is what the snapshot of one node is stored under, an identity    *)
(* the signature of the data it would hold.  Profiles, responses, metrics  *)
(* and the TTL of the job store are not modelled here.                     *)
(***************************************************************************)
EXTENDS JobLifecycle, FiniteSets

CONSTANTS
  MaxJobs,   \* bound: the jobs created in a behaviour
  Client, Slot, Identity, NoClient,
  Fault      \* the ways a worker may fail, besides being stopped

ASSUME ConstantsAssumption ==
  /\ MaxJobs \in Nat \ {0}
  /\ NoClient \notin Client /\ Slot # {} /\ Identity # {}
  /\ Fault \subseteq {"timed_out", "memory_limited", "contract_error", "error"}

\* Job ids, in the order the jobs are created.
Job == 1..MaxJobs
NoJob == 0
NoReason == "none"

VARIABLES
  status,      \* the job's status in the store; "unborn" before create_job
  slotOf,      \* the slot a job builds
  registered,  \* _tokens_by_job_id of the registry
  latest,      \* _latest_by_key of the registry
  reason,      \* the terminal_reason of each token, NoReason until cancelled
  byIdentity,  \* _job_by_identity
  bySlot,      \* _job_by_slot
  pc,          \* where each job's thread is; "none" before it starts
  waitFor,     \* the superseded job whose thread a job's thread joins first
  exc,         \* the exception a job's thread is handling
  admitted,    \* jobs that hold a memory admission
  data,        \* the job whose worker wrote the snapshot a slot holds
  slotLock,    \* _slot_lock
  client,      \* what each request is doing
  stop,        \* where stop_background_jobs is
  running,     \* its last sample found a job thread alive
  replaced,    \* history: jobs a registration superseded while they ran
  clearedAt    \* history: the newest job when the slot was last cleared

registry == <<registered, latest, reason>>
tables == <<byIdentity, bySlot>>
shutdown == <<stop, running>>
vars == <<status, slotOf, registered, latest, reason, byIdentity, bySlot, pc,
          waitFor, exc, admitted, data, slotLock, client, stop, running,
          replaced, clearedAt>>

ThreadPC ==
  {"none", "join", "admit", "prepare", "work", "publish", "fail", "unadmit",
   "release", "pop", "done"}

\* Places from which a job's worker may still write its slot.
BeforeWorkerExit == {"join", "admit", "prepare", "work"}

Errors == Fault \cup {"stopped"}

ClientRequest ==
  [pc : {"register", "supersede", "start", "cancel", "await", "clear"},
   slot : Slot, identity : Identity, job : Job \cup {NoJob}, prev : Job \cup {NoJob}]

Idle == [pc |-> "idle"]

TypeOK ==
  /\ status \in [Job -> TerminalReasons \cup {"unborn", "running"}]
  /\ slotOf \in [Job -> Slot]
  /\ registered \in SUBSET Job
  /\ latest \in [Slot -> Job \cup {NoJob}]
  /\ reason \in [Job -> TerminalReasons \cup {NoReason}]
  /\ byIdentity \in [Identity -> Job \cup {NoJob}]
  /\ bySlot \in [Slot -> Job \cup {NoJob}]
  /\ pc \in [Job -> ThreadPC]
  /\ waitFor \in [Job -> Job \cup {NoJob}]
  /\ exc \in [Job -> Errors \cup {NoReason}]
  /\ admitted \in SUBSET Job
  /\ data \in [Slot -> Job \cup {NoJob}]
  /\ slotLock \in Client \cup {NoClient}
  /\ client \in [Client -> ClientRequest \cup {Idle}]
  /\ stop \in {"no", "sampled", "waiting", "ended", "expired"}
  /\ running \in BOOLEAN
  /\ replaced \in SUBSET Job
  /\ clearedAt \in [Slot -> Job \cup {NoJob}]

Init ==
  /\ status = [j \in Job |-> "unborn"]
  /\ slotOf = [j \in Job |-> CHOOSE s \in Slot : TRUE]
  /\ registered = {}
  /\ latest = [s \in Slot |-> NoJob]
  /\ reason = [j \in Job |-> NoReason]
  /\ byIdentity = [i \in Identity |-> NoJob]
  /\ bySlot = [s \in Slot |-> NoJob]
  /\ pc = [j \in Job |-> "none"]
  /\ waitFor = [j \in Job |-> NoJob]
  /\ exc = [j \in Job |-> NoReason]
  /\ admitted = {}
  /\ data = [s \in Slot |-> NoJob]
  /\ slotLock = NoClient
  /\ client = [c \in Client |-> Idle]
  /\ stop = "no"
  /\ running = FALSE
  /\ replaced = {}
  /\ clearedAt = [s \in Slot |-> NoJob]

-----------------------------------------------------------------------------
(* The registry: CancellableJobRegistry *)

Cancelled(j) == reason[j] # NoReason

\* Fault: the request to stop is not passed on to the token.
MutCancelTokenLost(j, why) == UNCHANGED reason

\* cancel(job_id, reason): nothing without a token; the last reason wins.
CancelToken(j, why) ==
  reason' = IF j \in registered THEN [reason EXCEPT ![j] = why] ELSE reason

\* register_latest: supersede the previous job of the key, become the latest.
RegisterLatest(s, j) ==
  /\ reason' = IF latest[s] \in registered
               THEN [reason EXCEPT ![latest[s]] = "superseded"] ELSE reason
  /\ latest' = [latest EXCEPT ![s] = j]
  /\ registered' = registered \cup {j}

\* Fault: only the token is looked at, not whether it was cancelled.
MutOwnsIgnoresCancel(j) == j \in registered

\* What latest_publication yields.
Owns(j) == j \in registered /\ ~Cancelled(j) /\ latest[slotOf[j]] = j

\* release: the latest entry goes only if it is still the job's own.
ReleaseToken(j) ==
  /\ registered' = registered \ {j}
  /\ latest' = [latest EXCEPT ![slotOf[j]] =
                  IF j \in registered /\ @ = j THEN NoJob ELSE @]
  /\ reason' = [reason EXCEPT ![j] = NoReason]

\* cancel_all: every token not already cancelled.
CancelAll(why) ==
  reason' = [j \in Job |-> IF j \in registered /\ ~Cancelled(j) THEN why ELSE reason[j]]

-----------------------------------------------------------------------------
(* run: start a build, or join the running one of the same identity *)

Joinable(i) == byIdentity[i] # NoJob /\ status[byIdentity[i]] = "running"

\* A shutdown begins when the server takes no more requests; those under way go on.
Serving == stop = "no"

\* Up to the join check; a request that joins or finds current data returns
\* without touching anything.
RunBegins(c, s, i) ==
  /\ Serving /\ client[c].pc = "idle" /\ slotLock = NoClient
  /\ status[MaxJobs] = "unborn"
  /\ ~Joinable(i)
  /\ slotLock' = c
  /\ client' = [client EXCEPT ![c] = [pc |-> "register", slot |-> s, identity |-> i,
                                      job |-> NoJob, prev |-> NoJob]]
  /\ UNCHANGED <<status, slotOf, registry, tables, pc, waitFor, exc, admitted,
                 data, shutdown, replaced, clearedAt>>

\* create_job, then register_latest and the service's tables under _lock.
RunRegisters(c, j) ==
  LET s == client[c].slot IN
  /\ client[c].pc = "register"
  /\ status[j] = "unborn" /\ \A k \in 1..(j - 1) : status[k] # "unborn"
  /\ status' = [status EXCEPT ![j] = "running"]
  /\ slotOf' = [slotOf EXCEPT ![j] = s]
  /\ RegisterLatest(s, j)
  /\ byIdentity' = [byIdentity EXCEPT ![client[c].identity] = j]
  /\ bySlot' = [bySlot EXCEPT ![s] = j]
  /\ client' = [client EXCEPT ![c].pc = "supersede", ![c].job = j,
                              ![c].prev = latest[s]]
  /\ replaced' = replaced \cup {k \in Job : k = latest[s] /\ status[k] = "running"}
  /\ UNCHANGED <<pc, waitFor, exc, admitted, data, slotLock, shutdown, clearedAt>>

\* The previous job's record becomes "superseded" unless it ended higher.
RunSupersedes(c) ==
  LET k == client[c].prev IN
  /\ client[c].pc = "supersede"
  /\ status' = IF k = NoJob THEN status
               ELSE [status EXCEPT ![k] = Transitioned(@, "superseded")]
  /\ client' = [client EXCEPT ![c].pc = "start"]
  /\ UNCHANGED <<slotOf, registry, tables, pc, waitFor, exc, admitted, data,
                 slotLock, shutdown, replaced, clearedAt>>

\* Fault: the new job's thread does not wait for the one it replaces.
MutPredecessorNone(c) == NoJob

\* _threads.get(previous_job_id): gone once that thread popped its entry.
Predecessor(c) ==
  LET k == client[c].prev IN
  IF k # NoJob /\ pc[k] \notin {"none", "done"} THEN k ELSE NoJob

\* Look up the previous thread, start the job's own, and answer.
RunStarts(c) ==
  LET j == client[c].job IN
  /\ client[c].pc = "start"
  /\ waitFor' = [waitFor EXCEPT ![j] = Predecessor(c)]
  /\ pc' = [pc EXCEPT ![j] = "join"]
  /\ client' = [client EXCEPT ![c] = Idle]
  /\ slotLock' = NoClient
  /\ UNCHANGED <<status, slotOf, registry, tables, exc, admitted, data, shutdown,
                 replaced, clearedAt>>

-----------------------------------------------------------------------------
(* clear, cancel, shutdown *)

\* clear: find the slot's job and its thread under the locks.
ClearBegins(c, s) ==
  /\ Serving /\ client[c].pc = "idle" /\ slotLock = NoClient
  /\ slotLock' = c
  /\ client' = [client EXCEPT ![c] =
        [pc |-> IF bySlot[s] = NoJob THEN "clear" ELSE "cancel", slot |-> s,
         identity |-> CHOOSE i \in Identity : TRUE, job |-> bySlot[s], prev |-> NoJob]]
  /\ UNCHANGED <<status, slotOf, registry, tables, pc, waitFor, exc, admitted,
                 data, shutdown, replaced, clearedAt>>

ClearCancels(c) ==
  /\ client[c].pc = "cancel"
  /\ CancelToken(client[c].job, "cancelled")
  /\ client' = [client EXCEPT ![c].pc = "await"]
  /\ UNCHANGED <<status, slotOf, registered, latest, tables, pc, waitFor, exc,
                 admitted, data, slotLock, shutdown, replaced, clearedAt>>

\* Fault: the wait is left out.
MutClearJoinsAtOnce(c) ==
  /\ client[c].pc = "await"
  /\ client' = [client EXCEPT ![c].pc = "clear"]
  /\ UNCHANGED <<status, slotOf, registry, tables, pc, waitFor, exc, admitted,
                 data, slotLock, shutdown, replaced, clearedAt>>

\* running_thread.join()
ClearJoins(c) ==
  /\ client[c].pc = "await"
  /\ pc[client[c].job] = "done"
  /\ client' = [client EXCEPT ![c].pc = "clear"]
  /\ UNCHANGED <<status, slotOf, registry, tables, pc, waitFor, exc, admitted,
                 data, slotLock, shutdown, replaced, clearedAt>>

ClearSlot(c) ==
  /\ client[c].pc = "clear"
  /\ data' = [data EXCEPT ![client[c].slot] = NoJob]
  /\ clearedAt' = [clearedAt EXCEPT ![client[c].slot] =
        CHOOSE n \in Job \cup {NoJob} : \A j \in Job : status[j] # "unborn" <=> j <= n]
  /\ client' = [client EXCEPT ![c] = Idle]
  /\ slotLock' = NoClient
  /\ UNCHANGED <<status, slotOf, registry, tables, pc, waitFor, exc, admitted,
                 shutdown, replaced>>

\* The cancel route: the status read may be stale when the token is cancelled.
CancelJob(j) ==
  /\ Serving /\ j \in registered
  /\ CancelToken(j, "cancelled")
  /\ UNCHANGED <<status, slotOf, registered, latest, tables, pc, waitFor, exc,
                 admitted, data, slotLock, client, shutdown, replaced, clearedAt>>

Alive(j) == pc[j] \notin {"none", "done"}

\* stop_background_jobs begins a pass, the first or another one: it samples the
\* threads that are alive.
ShutdownSamples ==
  /\ stop' = "sampled"
  /\ running' = (\E j \in Job : Alive(j))
  /\ UNCHANGED <<status, slotOf, registry, tables, pc, waitFor, exc, admitted,
                 data, slotLock, client, replaced, clearedAt>>

\* Bound: while a job may still be created, so that one can meet the shutdown.
ShutdownBegins == Serving /\ status[MaxJobs] = "unborn" /\ ShutdownSamples

NextPass == stop = "waiting" /\ ShutdownSamples

\* Fault: what is registered is not asked to stop.
MutPassCancelsNothing == UNCHANGED reason

\* cancel_all with the registry's lock, which a publication holds.
PassCancels ==
  /\ \A j \in Job : pc[j] # "publish"
  /\ CancelAll("cancelled")

\* cancel_all while a thread is in any section of the registry: it never waits.
PassFindsHeld == UNCHANGED reason

\* The end of a pass: the loop returns when the sample found no thread alive, and
\* perhaps for its timeout; otherwise it waits for _SHUTDOWN_PASS_SECONDS at most.
PassEnds ==
  /\ stop = "sampled"
  /\ stop' \in IF running THEN {"waiting", "expired"} ELSE {"ended"}
  /\ UNCHANGED <<status, slotOf, registered, latest, tables, pc, waitFor, exc,
                 admitted, data, slotLock, client, running, replaced, clearedAt>>

CancellingPass == PassEnds /\ PassCancels

ShutdownPass == CancellingPass \/ (PassEnds /\ PassFindsHeld)

-----------------------------------------------------------------------------
(* _run_job, the thread of job j *)

Goto(j, place) == pc' = [pc EXCEPT ![j] = place]

Raise(j, e) ==
  /\ exc' = [exc EXCEPT ![j] = e]
  /\ Goto(j, "fail")

\* superseded_thread.join(), then the token check.
JoinPredecessor(j) ==
  /\ pc[j] = "join"
  /\ waitFor[j] # NoJob => pc[waitFor[j]] = "done"
  /\ IF Cancelled(j) THEN Raise(j, "stopped") ELSE Goto(j, "admit") /\ UNCHANGED exc
  /\ waitFor' = [waitFor EXCEPT ![j] = NoJob]
  /\ UNCHANGED <<status, slotOf, registry, tables, admitted, data,
                 slotLock, client, shutdown, replaced, clearedAt>>

Admit(j) ==
  /\ pc[j] = "admit"
  /\ admitted' = admitted \cup {j}
  /\ Goto(j, "prepare")
  /\ UNCHANGED <<status, slotOf, registry, tables, waitFor, exc, data, slotLock,
                 client, shutdown, replaced, clearedAt>>

\* Admission or preparation raises; a cancelled token makes it raise too.
SetupFails(j, e) ==
  /\ pc[j] \in {"admit", "prepare"}
  /\ e = "stopped" => Cancelled(j)
  /\ e # "timed_out"
  /\ Raise(j, e)
  /\ UNCHANGED <<status, slotOf, registry, tables, waitFor, admitted, data,
                 slotLock, client, shutdown, replaced, clearedAt>>

\* _prepare_inputs: bind the identity i of the prepared inputs.
Prepare(j, i) ==
  /\ pc[j] = "prepare"
  /\ byIdentity' = IF bySlot[slotOf[j]] = j THEN [byIdentity EXCEPT ![i] = j]
                   ELSE byIdentity
  /\ Goto(j, "work")
  /\ UNCHANGED <<status, slotOf, registry, bySlot, waitFor, exc, admitted, data,
                 slotLock, client, shutdown, replaced, clearedAt>>

\* The worker process publishes its snapshot itself.
WorkerPublishes(j) ==
  /\ pc[j] = "work"
  /\ data[slotOf[j]] # j
  /\ data' = [data EXCEPT ![slotOf[j]] = j]
  /\ UNCHANGED <<status, slotOf, registry, tables, pc, waitFor, exc, admitted,
                 slotLock, client, shutdown, replaced, clearedAt>>

WorkerReturns(j) ==
  /\ pc[j] = "work"
  /\ Goto(j, "publish")
  /\ UNCHANGED <<status, slotOf, registry, tables, waitFor, exc, admitted, data,
                 slotLock, client, shutdown, replaced, clearedAt>>

\* It is stopped, times out, exceeds its memory, reports a failure or dies.
WorkerFails(j, e) ==
  /\ pc[j] = "work"
  /\ e = "stopped" => Cancelled(j)
  /\ Raise(j, e)
  /\ UNCHANGED <<status, slotOf, registry, tables, waitFor, admitted, data,
                 slotLock, client, shutdown, replaced, clearedAt>>

\* The reason of the token, which wins over how the worker ended.
TokenReason(j, otherwise) == IF Cancelled(j) THEN reason[j] ELSE otherwise

\* The reasons _fail_job may record: an end the supervisor observed yields to the
\* token's reason, one that was reported (by the worker, by admission, by an
\* exception of the thread) does not; a failure of the other kinds may be either.
FailReasons(j) ==
  CASE exc[j] = "stopped" -> {TokenReason(j, "cancelled")}
    [] exc[j] = "timed_out" -> {TokenReason(j, "timed_out")}
    [] OTHER -> {TokenReason(j, exc[j]), exc[j]}

\* The status after latest_publication's block.
PublishOutcome(j) ==
  Transitioned(status[j], IF Owns(j) THEN "completed" ELSE TokenReason(j, "cancelled"))

Publish(j) ==
  /\ pc[j] = "publish"
  /\ status' = [status EXCEPT ![j] = PublishOutcome(j)]
  /\ Goto(j, "unadmit")
  /\ UNCHANGED <<slotOf, registry, tables, waitFor, exc, admitted, data, slotLock,
                 client, shutdown, replaced, clearedAt>>

\* What is to be published does not validate.
PublishFails(j) ==
  /\ pc[j] = "publish" /\ "error" \in Errors
  /\ Raise(j, "error")
  /\ UNCHANGED <<status, slotOf, registry, tables, waitFor, admitted, data,
                 slotLock, client, shutdown, replaced, clearedAt>>

FailJob(j) ==
  /\ pc[j] = "fail"
  /\ \E r \in FailReasons(j) :
       status' = [status EXCEPT ![j] = Transitioned(@, r)]
  /\ exc' = [exc EXCEPT ![j] = NoReason]
  /\ Goto(j, "unadmit")
  /\ UNCHANGED <<slotOf, registry, tables, waitFor, admitted, data, slotLock,
                 client, shutdown, replaced, clearedAt>>

\* finally: release_admission, then the registry, then the service's tables.
ReleaseAdmission(j) ==
  /\ pc[j] = "unadmit"
  /\ admitted' = admitted \ {j}
  /\ Goto(j, "release")
  /\ UNCHANGED <<status, slotOf, registry, tables, waitFor, exc, data, slotLock,
                 client, shutdown, replaced, clearedAt>>

ReleaseJob(j) ==
  /\ pc[j] = "release"
  /\ ReleaseToken(j)
  /\ Goto(j, "pop")
  /\ UNCHANGED <<status, slotOf, tables, waitFor, exc, admitted, data, slotLock,
                 client, shutdown, replaced, clearedAt>>

PopSlot(j) == [bySlot EXCEPT ![slotOf[j]] = IF @ = j THEN NoJob ELSE @]

PopTables(j) ==
  /\ pc[j] = "pop"
  /\ byIdentity' = [i \in Identity |-> IF byIdentity[i] = j THEN NoJob ELSE byIdentity[i]]
  /\ bySlot' = PopSlot(j)
  /\ Goto(j, "done")
  /\ UNCHANGED <<status, slotOf, registry, waitFor, exc, admitted, data, slotLock,
                 client, shutdown, replaced, clearedAt>>

\* What the thread does by itself, the worker's own end aside.
ThreadStep(j) ==
  \/ JoinPredecessor(j)
  \/ Admit(j)
  \/ \E e \in Errors : SetupFails(j, e)
  \/ \E i \in Identity : Prepare(j, i)
  \/ Publish(j)
  \/ PublishFails(j)
  \/ FailJob(j)
  \/ ReleaseAdmission(j)
  \/ ReleaseJob(j)
  \/ PopTables(j)

WorkerStep(j) ==
  \/ WorkerPublishes(j)
  \/ WorkerReturns(j)
  \/ \E e \in Errors : WorkerFails(j, e)

RequestStep(c) ==
  \/ \E j \in Job : RunRegisters(c, j)
  \/ RunSupersedes(c)
  \/ RunStarts(c)
  \/ ClearCancels(c)
  \/ ClearJoins(c)
  \/ ClearSlot(c)

Next ==
  \/ \E c \in Client, s \in Slot :
       ClearBegins(c, s) \/ \E i \in Identity : RunBegins(c, s, i)
  \/ \E c \in Client : RequestStep(c)
  \/ \E j \in Job : CancelJob(j) \/ ThreadStep(j) \/ WorkerStep(j)
  \/ ShutdownBegins
  \/ ShutdownPass
  \/ NextPass

Spec == Init /\ [][Next]_vars

\* Threads and requests run and the supervisor stops the worker of a cancelled
\* job; the project's time limit would end any worker, but nothing relies on it.  A
\* section of the registry lasts an instant, or one publication, and passes are
\* _SHUTDOWN_PASS_SECONDS apart: not all of them find it held.  No deadline is owed.
FairSpec ==
  /\ Spec
  /\ \A j \in Job : WF_vars(ThreadStep(j)) /\ WF_vars(WorkerFails(j, "stopped"))
  /\ \A c \in Client : WF_vars(RequestStep(c))
  /\ WF_vars(NextPass) /\ WF_vars(ShutdownPass) /\ SF_vars(CancellingPass)

-----------------------------------------------------------------------------
(* Properties *)

\* "Wait for its worker to stop so both never hold memory admission": no two
\* builds of one slot are admitted at once, however often it is superseded.
OneAdmissionPerSlot ==
  \A j, k \in admitted : slotOf[j] = slotOf[k] => j = k

\* "It must stop before the slot is cleared or it could publish afterwards": a
\* snapshot is only ever replaced by a newer job's, and no job that existed when
\* the slot was cleared, the one clear cancelled or one that had superseded or
\* was superseded by it, writes the slot again.
SnapshotsMoveForward ==
  [][\A s \in Slot : data'[s] \notin {data[s], NoJob} =>
       data'[s] > data[s] /\ data'[s] > clearedAt[s]]_vars

\* A job that was superseded while it ran ends "superseded", unless it had
\* completed before: neither a user's cancel, nor a timeout, nor a failure of its
\* worker that races the registration is what its record says in the end.
ReplacedEndsSuperseded ==
  \A j \in replaced :
    pc[j] = "done" /\ (\A c \in Client : client[c].pc = "supersede" => client[c].prev # j)
      => status[j] = "superseded"

\* A job that was asked to stop while it was running never reads "completed".
CancelledNeverCompletes ==
  [][\A j \in Job : Cancelled(j) /\ status[j] = "running" => status'[j] # "completed"]_vars

\* Every request is answered, though builds may run for ever: a clear does not
\* wait in vain for the thread it cancelled, nor anyone for _slot_lock.
RequestsAreAnswered ==
  \A c \in Client : client[c].pc # "idle" ~> client[c].pc = "idle"

\* "Repeating catches a job registered, or a thread started, while it waits": the
\* loop ends without its timeout, and with a sample that finds no thread alive,
\* though any pass may find the registry held and nothing else stops a worker.
ShutdownEnds ==
  stop = "sampled" ~> stop = "expired" \/ (stop = "ended" /\ ~running)
=============================================================================
