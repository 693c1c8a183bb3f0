------------------------------ MODULE JobStore ------------------------------
(***************************************************************************)
(* haute.routes._job_store.JobStore: the in-memory store of background     *)
(* jobs.  Every public method is one critical section under _write_lock;   *)
(* what it detaches (artifact files, resource-owning heavy values, a       *)
(* retention timer to schedule) is dealt with after the lock is released,  *)
(* where other threads interleave.  An agent is a caller's thread or the   *)
(* thread of a threading.Timer running its callback.                       *)
(*                                                                         *)
(* Data are abstracted as follows.  The heavy values of a record are one   *)
(* flag for the values that own nothing (solver, quote grid, ...) and the  *)
(* solver session that owns a process.  A handle stands for its lease key  *)
(* (kind, path); its lease count is the set of threads that hold a lease.  *)
(* Paths and job ids are unique, so a handle, a resource or a job id that  *)
(* was used once is never used again.                                      *)
(***************************************************************************)
EXTENDS JobLifecycle, FiniteSets

CONSTANTS
  Job, Thread, Timer, Handle, Resource,
  NoTimer, NoResource, NoJob,
  Reasons,      \* the terminal reasons callers use
  TTL,          \* ttl_seconds
  HeavyTTL,     \* heavy_object_ttl_seconds
  LockWait,     \* bound: how stale a timestamp read before the lock may be
  MaxTime       \* bound on the clock

ASSUME TimeAssumption ==
  TTL \in Nat /\ HeavyTTL \in Nat /\ LockWait \in Nat /\ MaxTime \in Nat

Agent == Thread \cup Timer

ASSUME NamesAssumption ==
  /\ NoTimer \notin Timer
  /\ NoResource \notin Resource
  /\ NoJob \notin Job
  /\ Thread \cap Timer = {}
  /\ Handle \cap Resource = {}

ASSUME ReasonsAssumption == Reasons \subseteq TerminalReasons

NoTime == -1      \* an absent timestamp key
Time == Nat \cup {NoTime}

\* "unborn" and "gone" are ids that are not keys of _jobs.
Status == TerminalReasons \cup {"running", "unborn", "gone"}

Record ==
  [status : Status, created : Time, completed : Time, expires : Time,
   plain : BOOLEAN, session : Resource \cup {NoResource},
   handles : SUBSET Handle]

EmptyRecord(status) ==
  [status |-> status, created |-> NoTime, completed |-> NoTime,
   expires |-> NoTime, plain |-> FALSE, session |-> NoResource, handles |-> {}]

\* What an agent still has to do once it has released _write_lock.
Pending ==
  [cleanups : SUBSET SUBSET Handle,            \* detached, per removed job
   doomed   : SUBSET Handle,                   \* found unleased, cleaner to run
   releases : SUBSET Resource,                 \* detached, release() to call
   schedule : [job : Job \cup {NoJob}, at : Time],
   start    : Timer \cup {NoTimer}]            \* installed, start() to call

NoSchedule == [job |-> NoJob, at |-> NoTime]

NoPending ==
  [cleanups |-> {}, doomed |-> {}, releases |-> {}, schedule |-> NoSchedule,
   start |-> NoTimer]

VARIABLES
  now,          \* time.time()
  job,          \* _jobs
  activity,     \* _running_activity_at
  timerOf,      \* _heavy_object_timers
  timer,        \* the threading.Timer objects: their state and delay or deadline
  leases,       \* _artifact_leases: the threads that hold each handle
  deferred,     \* _deferred_artifact_cleanups
  pend,         \* the work of each agent after its last critical section
  stored,       \* history: handles and resources that were ever in a record
  cleanerRuns,  \* history: how often each handle's cleaner was called
  releaseRuns   \* history: how often each resource's release() was called

vars == <<now, job, activity, timerOf, timer, leases, deferred, pend, stored,
          cleanerRuns, releaseRuns>>

TimerState == {"free", "installed", "cancelled", "armed", "firing"}

TypeOK ==
  /\ now \in Nat
  /\ job \in [Job -> Record]
  /\ activity \in [Job -> Time]
  /\ timerOf \in [Job -> Timer \cup {NoTimer}]
  /\ timer \in [Timer -> [st : TimerState, job : Job \cup {NoJob}, due : Nat]]
  /\ \A m \in Timer : timer[m].st # "free" => timer[m].job \in Job
  /\ leases \in [Handle -> SUBSET Thread]
  /\ deferred \in SUBSET Handle
  /\ pend \in [Agent -> Pending]
  /\ stored \in SUBSET (Handle \cup Resource)
  /\ cleanerRuns \in [Handle -> Nat]
  /\ releaseRuns \in [Resource -> Nat]

FreeTimer == [st |-> "free", job |-> NoJob, due |-> 0]

Init ==
  /\ now = 0
  /\ job = [j \in Job |-> EmptyRecord("unborn")]
  /\ activity = [j \in Job |-> NoTime]
  /\ timerOf = [j \in Job |-> NoTimer]
  /\ timer = [m \in Timer |-> FreeTimer]
  /\ leases = [h \in Handle |-> {}]
  /\ deferred = {}
  /\ pend = [a \in Agent |-> NoPending]
  /\ stored = {}
  /\ cleanerRuns = [h \in Handle |-> 0]
  /\ releaseRuns = [r \in Resource |-> 0]

-----------------------------------------------------------------------------
(* Records *)

Live(r) == r.status \notin {"unborn", "gone"}

HasHeavy(r) == r.plain \/ r.session # NoResource

\* _heavy_objects_expires_at
ExpiresAt(r) ==
  IF r.expires # NoTime THEN r.expires ELSE r.completed + HeavyTTL

\* What _clear_heavy_objects_locked leaves of a record.
Cleared(r) ==
  [r EXCEPT !.plain = FALSE, !.session = NoResource, !.expires = NoTime]

\* The test of _clear_expired_heavy_objects_locked.
HeavyExpired(r) ==
  /\ r.status = "completed"
  /\ HasHeavy(r)
  /\ ExpiresAt(r) <= now

\* _job_eviction_timestamp_locked
EvictionTimestamp(j) ==
  IF job[j].status = "running" /\ activity[j] # NoTime
  THEN activity[j]
  ELSE job[j].created

Stale(j) == Live(job[j]) /\ EvictionTimestamp(j) < now - TTL

StaleJobs == {j \in Job : Stale(j)}
ExpiredJobs == {j \in Job : HeavyExpired(job[j])}

\* The records after _evict_stale_locked.
AfterEviction ==
  [j \in Job |-> IF Stale(j) THEN EmptyRecord("gone")
                 ELSE IF HeavyExpired(job[j]) THEN Cleared(job[j])
                 ELSE job[j]]

\* Fault: a removed job's artifacts are not queued.
MutHandleGroupsForgotten(js) == {}

Sessions(js) == {job[j].session : j \in js} \ {NoResource}
HandleGroups(js) == {job[j].handles : j \in js} \ {{}}

-----------------------------------------------------------------------------
(* Critical sections *)

Idle(a) == pend[a] = NoPending

\* Timer.cancel(): a callback that already runs is not stopped.
CancelledTimer(m) ==
  CASE timer[m].st = "installed" -> [timer[m] EXCEPT !.st = "cancelled"]
    [] timer[m].st = "armed"     -> FreeTimer
    [] OTHER                     -> timer[m]

\* _cancel_heavy_object_timer_locked for every job of js.
CancelTimers(js) ==
  /\ timerOf' = [j \in Job |-> IF j \in js THEN NoTimer ELSE timerOf[j]]
  /\ timer' = [m \in Timer |-> IF \E j \in js : timerOf[j] = m
                               THEN CancelledTimer(m) ELSE timer[m]]

\* What the block's thread-local collector holds when the lock is released.
Collect(a, groups, sessions, schedule) ==
  pend' = [pend EXCEPT ![a] =
             [NoPending EXCEPT !.cleanups = groups, !.releases = sessions,
                               !.schedule = schedule]]

\* _evict_stale_locked as the whole effect of a block on the records.
EvictOnly(a) ==
  /\ job' = AfterEviction
  /\ activity' = [j \in Job |-> IF Stale(j) THEN NoTime ELSE activity[j]]
  /\ CancelTimers(StaleJobs \cup ExpiredJobs)
  /\ Collect(a, HandleGroups(StaleJobs), Sessions(StaleJobs \cup ExpiredJobs),
             NoSchedule)

NoFields == [plain |-> FALSE, session |-> NoResource, add |-> {}, drop |-> {}]

\* {**old, **fields} and what _store_merged_job_locked does to it: the
\* resource of a job that ends other than completed is dropped, and a
\* completed record gets its retention stamp.
Merged(r, f, status, ts) ==
  LET session == IF status \notin {"running", "completed"} THEN NoResource
                 ELSE IF f.session # NoResource THEN f.session ELSE r.session
      m == [r EXCEPT !.status = status, !.plain = @ \/ f.plain,
                     !.session = session,
                     !.handles = (@ \ f.drop) \cup f.add,
                     !.completed = IF status = "completed" /\ @ = NoTime
                                   THEN ts ELSE @]
  IN  IF status # "completed" THEN m
      ELSE [m EXCEPT !.expires = IF HasHeavy(m) THEN ExpiresAt(m) ELSE NoTime]

\* Fault: only a replaced resource is queued; a failed job's own is dropped.
MutMergeDetachedReplaced(r, f, status) ==
  { s \in {r.session, f.session} \ {NoResource} :
      s = r.session /\ f.session \notin {NoResource, s} }

\* The resources a merge detaches: a replaced one, and every one that a job
\* ending other than completed would keep.
MergeDetached(r, f, status) ==
  { s \in {r.session, f.session} \ {NoResource} :
      \/ s = r.session /\ f.session \notin {NoResource, s}
      \/ status \notin {"running", "completed"} }

\* Fault: expiry is left to the sweeps.
MutMergeScheduleNever(j, m) == NoSchedule

\* _prepare_heavy_object_policy_locked asks for a timer.
MergeSchedule(j, m) ==
  IF m.status = "completed" /\ HasHeavy(m) /\ job[j].expires = NoTime
  THEN [job |-> j, at |-> m.expires] ELSE NoSchedule

\* _store_merged_job_locked.  Handles and resources in f are new ones.
StoreMerged(a, j, f, status, ts) ==
  LET m == Merged(job[j], f, status, ts) IN
  /\ f.add \cap stored = {}
  /\ f.session \notin stored
  /\ job' = [job EXCEPT ![j] = m]
  /\ activity' = [activity EXCEPT ![j] = IF status = "running" THEN ts ELSE NoTime]
  /\ CancelTimers(IF status # "completed" \/ ~HasHeavy(m) THEN {j} ELSE {})
  /\ Collect(a, {f.drop} \ {{}}, MergeDetached(job[j], f, status),
             MergeSchedule(j, m))
  /\ stored' = stored \cup f.add \cup ({f.session} \ {NoResource})

-----------------------------------------------------------------------------
(* Public operations, each by an idle thread t *)

\* get_job, list_jobs, require_job, has_job_with_status, has_job_matching
Poll(t) ==
  /\ Idle(t)
  /\ EvictOnly(t)
  /\ UNCHANGED <<now, leases, deferred, stored, cleanerRuns, releaseRuns>>

CreateJob(t, j) ==
  /\ Idle(t)
  /\ job[j].status = "unborn"
  /\ job' = [AfterEviction EXCEPT ![j] =
               [EmptyRecord("running") EXCEPT !.created = now]]
  /\ activity' = [i \in Job |-> IF i = j THEN now
                                ELSE IF Stale(i) THEN NoTime ELSE activity[i]]
  /\ CancelTimers(StaleJobs \cup ExpiredJobs)
  /\ Collect(t, HandleGroups(StaleJobs), Sessions(StaleJobs \cup ExpiredJobs),
             NoSchedule)
  /\ UNCHANGED <<now, leases, deferred, stored, cleanerRuns, releaseRuns>>

\* update_job and atomic_update: a merge that leaves the status alone.
AtomicUpdate(t, j, f) ==
  /\ Idle(t)
  /\ Live(job[j])
  /\ StoreMerged(t, j, f, job[j].status, now)
  /\ UNCHANGED <<now, leases, deferred, cleanerRuns, releaseRuns>>

\* atomic_update_if_heavy_present as _publish_point_handle calls it: the new
\* handle h replaces the handles the bound evicts, which the caller then
\* gives to release_detached_artifact_handles.
PublishPointHandle(t, j, h, evicted) ==
  /\ Idle(t)
  /\ job[j].status = "completed"
  /\ HasHeavy(job[j])
  /\ evicted \subseteq job[j].handles
  /\ StoreMerged(t, j, [NoFields EXCEPT !.add = {h}, !.drop = evicted],
                 "completed", now)
  /\ UNCHANGED <<now, leases, deferred, cleanerRuns, releaseRuns>>

\* compare_and_publish_completion; its timestamp is read under the lock.
PublishCompletion(t, j, f) ==
  /\ Idle(t)
  /\ job[j].status = "running"
  /\ StoreMerged(t, j, f, "completed", now)
  /\ UNCHANGED <<now, leases, deferred, cleanerRuns, releaseRuns>>

\* transition_terminal; its timestamp ts is read before the lock is taken.
TransitionTerminal(t, j, to, expected, ts) ==
  /\ Idle(t)
  /\ Live(job[j])
  /\ expected = "completed" => to = "error"
  /\ MayTransition(job[j].status, to, expected)
  /\ StoreMerged(t, j, NoFields, to, ts)
  /\ UNCHANGED <<now, leases, deferred, cleanerRuns, releaseRuns>>

\* touch_heavy_objects: evict, then move the expiry if that makes it later.
TouchHeavyObjects(t, j) ==
  LET r == AfterEviction[j]
      refreshed == IF now + HeavyTTL < r.created + TTL
                   THEN now + HeavyTTL ELSE r.created + TTL
  IN
  /\ Idle(t)
  /\ r.status = "completed"
  /\ HasHeavy(r)
  /\ refreshed > ExpiresAt(r)
  /\ job' = [AfterEviction EXCEPT ![j].expires = refreshed]
  /\ activity' = [i \in Job |-> IF Stale(i) THEN NoTime ELSE activity[i]]
  /\ CancelTimers(StaleJobs \cup ExpiredJobs)
  /\ Collect(t, HandleGroups(StaleJobs), Sessions(StaleJobs \cup ExpiredJobs),
             [job |-> j, at |-> refreshed])
  /\ UNCHANGED <<now, leases, deferred, stored, cleanerRuns, releaseRuns>>

\* clear_result_data for the session key, the plain keys, or both.
ClearResultData(t, j, plainToo, sessionToo) ==
  LET r == job[j]
      c == [r EXCEPT !.plain = @ /\ ~plainToo,
                     !.session = IF sessionToo THEN NoResource ELSE @]
  IN
  /\ Idle(t)
  /\ Live(r)
  /\ plainToo \/ sessionToo
  /\ job' = [job EXCEPT ![j] = IF HasHeavy(c) THEN c
                               ELSE [c EXCEPT !.expires = NoTime]]
  /\ CancelTimers(IF HasHeavy(c) THEN {} ELSE {j})
  /\ Collect(t, {}, IF sessionToo THEN Sessions({j}) ELSE {}, NoSchedule)
  /\ UNCHANGED <<now, activity, leases, deferred, stored, cleanerRuns, releaseRuns>>

DetachArtifactHandle(t, j, h) ==
  /\ Idle(t)
  /\ Live(job[j])
  /\ h \in job[j].handles
  /\ job' = [job EXCEPT ![j].handles = @ \ {h}]
  /\ Collect(t, {{h}}, {}, NoSchedule)
  /\ UNCHANGED <<now, activity, timerOf, timer, leases, deferred, stored,
                 cleanerRuns, releaseRuns>>

\* delete_job (js = {j}) and clear_all (js = Job).
RemoveJobs(t, js) ==
  LET removed == {j \in js : Live(job[j])} IN
  /\ Idle(t)
  /\ removed # {}
  /\ job' = [j \in Job |-> IF j \in removed THEN EmptyRecord("gone") ELSE job[j]]
  /\ activity' = [j \in Job |-> IF j \in removed THEN NoTime ELSE activity[j]]
  /\ CancelTimers(removed)
  /\ Collect(t, HandleGroups(removed), Sessions(removed), NoSchedule)
  /\ UNCHANGED <<now, leases, deferred, stored, cleanerRuns, releaseRuns>>

\* lease.__enter__: evict, then count a lease on an attached handle.
Lease(t, j, h) ==
  /\ Idle(t)
  /\ h \in AfterEviction[j].handles
  /\ t \notin leases[h]
  /\ leases' = [leases EXCEPT ![h] = @ \cup {t}]
  /\ EvictOnly(t)
  /\ UNCHANGED <<now, deferred, stored, cleanerRuns, releaseRuns>>

\* Fault: the last release forgets the deferred cleanup it pops.
MutTakeOverNothing(t, h) == {}

\* The deferred cleanup that the release of t's lease on h takes over.
TakeOver(t, h) == IF leases[h] = {t} /\ h \in deferred THEN {h} ELSE {}

\* lease.__exit__: the last release pops a deferred cleanup and runs it.
Unlease(t, h) ==
  /\ Idle(t)
  /\ t \in leases[h]
  /\ leases' = [leases EXCEPT ![h] = @ \ {t}]
  /\ deferred' = IF leases[h] = {t} THEN deferred \ {h} ELSE deferred
  /\ pend' = [pend EXCEPT ![t].doomed = TakeOver(t, h)]
  /\ UNCHANGED <<now, job, activity, timerOf, timer, stored, cleanerRuns, releaseRuns>>

-----------------------------------------------------------------------------
(* After the lock: _write_locked_with_artifact_cleanup's finally clause *)

\* Fault: the lease count is not looked at.
MutReadNothing(group) == {}

\* The handles of a group that some reader holds.
Read(group) == {h \in group : leases[h] # {}}

\* _cleanup_artifact_handles for one removed job: split its handles under
\* the lock into those with a reader, deferred, and those to clean now.
SplitCleanup(a, group) ==
  LET leased == Read(group) IN
  /\ group \in pend[a].cleanups
  /\ pend[a].doomed = {}
  /\ deferred' = deferred \cup leased
  /\ pend' = [pend EXCEPT ![a].cleanups = @ \ {group},
                          ![a].doomed = group \ leased]
  /\ UNCHANGED <<now, job, activity, timerOf, timer, leases, stored,
                 cleanerRuns, releaseRuns>>

\* _run_artifact_cleaners: one cleaner, outside the lock.  A cleaner that
\* raises is logged, so the call is over either way.
RunCleaner(a, h) ==
  /\ h \in pend[a].doomed
  /\ cleanerRuns' = [cleanerRuns EXCEPT ![h] = @ + 1]
  /\ pend' = [pend EXCEPT ![a].doomed = @ \ {h}]
  /\ UNCHANGED <<now, job, activity, timerOf, timer, leases, deferred, stored,
                 releaseRuns>>

\* _release_heavy_values: one release(), after every artifact cleanup.
ReleaseHeavy(a, r) ==
  /\ pend[a].cleanups = {} /\ pend[a].doomed = {}
  /\ r \in pend[a].releases
  /\ releaseRuns' = [releaseRuns EXCEPT ![r] = @ + 1]
  /\ pend' = [pend EXCEPT ![a].releases = @ \ {r}]
  /\ UNCHANGED <<now, job, activity, timerOf, timer, leases, deferred, stored,
                 cleanerRuns>>

Drained(a) ==
  /\ pend[a].cleanups = {} /\ pend[a].doomed = {} /\ pend[a].releases = {}

\* The re-checks of _schedule_heavy_object_cleanup under the lock.
ScheduleWanted(s) ==
  /\ job[s.job].status = "completed"
  /\ HasHeavy(job[s.job])
  /\ ExpiresAt(job[s.job]) = s.at

Delay(at) == IF at > now THEN at - now ELSE 0

\* _schedule_heavy_object_cleanup when the record still wants the timer m.
\* The delay is fixed here; the timer counts it from its start.
InstallTimer(a, m) ==
  LET s == pend[a].schedule
      old == timerOf[s.job]
  IN
  /\ Drained(a)
  /\ s.job # NoJob
  /\ ScheduleWanted(s)
  /\ timer[m].st = "free" /\ Idle(m)
  /\ timerOf' = [timerOf EXCEPT ![s.job] = m]
  /\ timer' = [x \in Timer |->
                 IF x = m THEN [st |-> "installed", job |-> s.job, due |-> Delay(s.at)]
                 ELSE IF x = old THEN CancelledTimer(x) ELSE timer[x]]
  /\ pend' = [pend EXCEPT ![a].schedule = NoSchedule, ![a].start = m]
  /\ UNCHANGED <<now, job, activity, leases, deferred, stored, cleanerRuns, releaseRuns>>

\* Its early returns; a record without heavy values also loses its timer.
SkipTimer(a) ==
  LET s == pend[a].schedule IN
  /\ Drained(a)
  /\ s.job # NoJob
  /\ ~ScheduleWanted(s)
  /\ CancelTimers(IF job[s.job].status = "completed" /\ ~HasHeavy(job[s.job])
                  THEN {s.job} ELSE {})
  /\ pend' = [pend EXCEPT ![a].schedule = NoSchedule]
  /\ UNCHANGED <<now, job, activity, leases, deferred, stored, cleanerRuns, releaseRuns>>

Started(x) ==
  IF x.st = "installed"
  THEN [st |-> "armed", job |-> x.job, due |-> now + x.due] ELSE FreeTimer

\* timer.start(), outside the lock: one cancelled before does not run.
StartTimer(a) ==
  LET m == pend[a].start IN
  /\ m # NoTimer
  /\ timer' = [timer EXCEPT ![m] = Started(timer[m])]
  /\ pend' = [pend EXCEPT ![a].start = NoTimer]
  /\ UNCHANGED <<now, job, activity, timerOf, leases, deferred, stored,
                 cleanerRuns, releaseRuns>>

AfterLock(a) ==
  \/ \E group \in pend[a].cleanups : SplitCleanup(a, group)
  \/ \E h \in pend[a].doomed : RunCleaner(a, h)
  \/ \E r \in pend[a].releases : ReleaseHeavy(a, r)
  \/ \E m \in Timer : InstallTimer(a, m)
  \/ SkipTimer(a)
  \/ StartTimer(a)

-----------------------------------------------------------------------------
(* Timers and the clock *)

TimerFires(m) ==
  /\ timer[m].st = "armed"
  /\ now >= timer[m].due
  /\ timer' = [timer EXCEPT ![m].st = "firing"]
  /\ UNCHANGED <<now, job, activity, timerOf, leases, deferred, pend, stored,
                 cleanerRuns, releaseRuns>>

\* _clear_expired_heavy_objects(job_id, timer): the callback forgets itself
\* if it is still the job's timer, and clears what is due; clearing cancels
\* the timer a later schedule installed.
TimerCallback(m) ==
  LET j == timer[m].job
      due == HeavyExpired(job[j])
  IN
  /\ timer[m].st = "firing"
  /\ job' = IF due THEN [job EXCEPT ![j] = Cleared(@)] ELSE job
  /\ timerOf' = [timerOf EXCEPT ![j] = IF due \/ @ = m THEN NoTimer ELSE @]
  /\ timer' = [x \in Timer |->
                 IF x = m THEN FreeTimer
                 ELSE IF due /\ x = timerOf[j] THEN CancelledTimer(x) ELSE timer[x]]
  /\ Collect(m, {}, IF due THEN Sessions({j}) ELSE {}, NoSchedule)
  /\ UNCHANGED <<now, activity, leases, deferred, stored, cleanerRuns, releaseRuns>>

\* MaxTime bounds the clock, except that it always reaches the deadline of an
\* armed timer and, once it has met the TTL of a completed job whose values are
\* shed, passes it.
Tick ==
  /\ \/ now < MaxTime
     \/ \E m \in Timer : timer[m].st = "armed" /\ now < timer[m].due
     \/ \E j \in Job : /\ job[j].status = "completed" /\ ~HasHeavy(job[j])
                      /\ now = job[j].created + TTL
  /\ now' = now + 1
  /\ UNCHANGED <<job, activity, timerOf, timer, leases, deferred, pend, stored,
                 cleanerRuns, releaseRuns>>

\* The fields a caller merges, as far as the properties tell them apart.
UpdateFields ==
  [plain : BOOLEAN, session : Resource \cup {NoResource}, add : {{}}, drop : {{}}]

CompletionFields ==
  [plain : BOOLEAN, session : Resource \cup {NoResource}, add : SUBSET Handle,
   drop : {{}}]

Operation(t) ==
  \/ Poll(t)
  \/ \E j \in Job :
       \/ CreateJob(t, j)
       \/ \E f \in UpdateFields : AtomicUpdate(t, j, f)
       \/ \E h \in Handle, ev \in SUBSET Handle : PublishPointHandle(t, j, h, ev)
       \/ \E f \in CompletionFields : PublishCompletion(t, j, f)
       \/ \E to \in Reasons, ex \in {"running", "completed"}, w \in 0..LockWait :
            now >= w /\ TransitionTerminal(t, j, to, ex, now - w)
       \/ TouchHeavyObjects(t, j)
       \/ \E p, s \in BOOLEAN : ClearResultData(t, j, p, s)
       \/ \E h \in Handle : DetachArtifactHandle(t, j, h) \/ Lease(t, j, h)
       \/ RemoveJobs(t, {j})
  \/ RemoveJobs(t, Job)
  \/ \E h \in Handle : Unlease(t, h)

Next ==
  \/ \E t \in Thread : Operation(t)
  \/ \E a \in Agent : AfterLock(a)
  \/ \E m \in Timer : TimerFires(m) \/ TimerCallback(m)
  \/ Tick

Spec == Init /\ [][Next]_vars

\* Every thread finishes what it does after the lock, timers run when due and
\* finish too, the clock moves, and a reader leaves its lease after finitely many store
\* operations inside it (hence strong fairness; for AfterLock it is strong
\* because the model's pool of timers may be empty now and then, which the
\* code, creating its timers, never waits for).  Nothing obliges a client to
\* poll, so no operation that sweeps the store is fair.
Fairness ==
  /\ WF_vars(Tick)
  /\ \A t \in Thread : SF_vars(AfterLock(t))
  /\ \A m \in Timer : WF_vars(TimerFires(m) \/ TimerCallback(m) \/ AfterLock(m))
  /\ \A t \in Thread, h \in Handle : SF_vars(Unlease(t, h))

FairSpec == Spec /\ Fairness

-----------------------------------------------------------------------------
(* Properties *)

Attached(h) == {j \in Job : h \in job[j].handles}
QueuedBy(h) == {a \in Agent : \E g \in pend[a].cleanups : h \in g}
DoomedBy(h) == {a \in Agent : h \in pend[a].doomed}

\* While a reader holds a lease on an artifact, its cleaner has not run and
\* no thread has decided to run it: job expiry, delete_job, clear_all and a
\* handle eviction racing the reader only defer (lease, _cleanup_artifact_handles).
LeasedArtifactIntact ==
  \A h \in Handle : leases[h] # {} => cleanerRuns[h] = 0 /\ DoomedBy(h) = {}

\* A deferred cleanup always has a reader whose release will run it, however
\* the split of a cleanup interleaves with lease releases; one deferred just
\* after the last release would keep its file for ever.
DeferredHasReader == \A h \in deferred : leases[h] # {}

\* Every artifact that was ever adopted has exactly one custodian: a record, a
\* thread's cleanup queue, a thread about to clean it, the deferred table, or
\* a cleaner that ran, once.  No file is leaked and none is deleted twice.
HandleHasOneCustodian ==
  \A h \in Handle \cap stored :
    Cardinality(Attached(h)) + Cardinality(QueuedBy(h)) + Cardinality(DoomedBy(h))
      + (IF h \in deferred THEN 1 ELSE 0) + cleanerRuns[h] = 1

\* Every resource-owning heavy value (a solver process) that was ever stored is
\* in one record, in one thread's release queue, or was released exactly once.
ResourceHasOneCustodian ==
  \A r \in Resource \cap stored :
    Cardinality({j \in Job : job[j].session = r})
      + Cardinality({a \in Agent : r \in pend[a].releases}) + releaseRuns[r] = 1

\* The store sheds the heavy values of every completed job although no client
\* ever polls it again.
HeavyValuesAreShed ==
  \A j \in Job : job[j].status = "completed" /\ HasHeavy(job[j])
                   ~> ~(job[j].status = "completed" /\ HasHeavy(job[j]))

\* Whatever leaves a record is reclaimed in the end: the artifact's cleaner and
\* the resource's release() are called, after the readers there may be.
DetachedIsReclaimed ==
  /\ \A h \in Handle : h \in stored /\ Attached(h) = {} ~> cleanerRuns[h] = 1
  /\ \A r \in Resource :
       r \in stored /\ (\A j \in Job : job[j].session # r) ~> releaseRuns[r] = 1

\* "Completed jobs keep their lightweight status/result metadata for
\* ttl_seconds": a sweep never evicts a completed record earlier than TTL after
\* its completion.
CompletedKeptForTTL ==
  [][\A t \in Thread, j \in Job :
       Poll(t) /\ job[j].status = "completed" /\ job'[j].status = "gone" =>
         now >= job[j].completed + TTL]_vars

=============================================================================
