--------------------------- MODULE JobStoreProofs ---------------------------
(***************************************************************************)
(* Theorems about JobStore, for any number of jobs, threads, timers,       *)
(* artifacts and resources and any retention times: no artifact is cleaned *)
(* under a reader, and every artifact and resource has one custodian.      *)
(***************************************************************************)
EXTENDS JobStore, FiniteSetTheorems, TLAPS

\* The fields a caller may merge into a record.
Fields ==
  [plain : BOOLEAN, session : Resource \cup {NoResource},
   add : SUBSET Handle, drop : SUBSET Handle]

-----------------------------------------------------------------------------
(* What the operators return *)

\* An id that is not a key of _jobs is still a record.
LEMMA EmptyRecordType ==
  ASSUME NEW status \in Status PROVE EmptyRecord(status) \in Record
BY DEF EmptyRecord, Record, Time, NoTime

\* Stripping the heavy values (_clear_heavy_objects_locked) leaves a record.
LEMMA ClearedType ==
  ASSUME NEW r \in Record PROVE Cleared(r) \in Record
BY DEF Cleared, Record, Time, NoTime

\* A merge (_store_merged_job_locked) of well-typed fields is a record.
LEMMA MergedType ==
  ASSUME NEW r \in Record, NEW f \in Fields, NEW status \in Status, NEW ts \in Nat
  PROVE  Merged(r, f, status, ts) \in Record
<1> DEFINE session == IF status \notin {"running", "completed"} THEN NoResource
                      ELSE IF f.session # NoResource THEN f.session ELSE r.session
           completed == IF status = "completed" /\ r.completed = NoTime
                        THEN ts ELSE r.completed
           m == [r EXCEPT !.status = status, !.plain = @ \/ f.plain,
                          !.session = session,
                          !.handles = (@ \ f.drop) \cup f.add,
                          !.completed = IF status = "completed" /\ @ = NoTime
                                        THEN ts ELSE @]
<1>1. session \in Resource \cup {NoResource}
  BY DEF Record, Fields
<1>2. completed \in Time /\ (status = "completed" => completed \in Nat)
  BY DEF Record, Time, NoTime
<1>3. m \in Record
  BY <1>1, <1>2 DEF Record, Fields
<1>4. status = "completed" =>
        (IF HasHeavy(m) THEN ExpiresAt(m) ELSE NoTime) \in Time
  <2>1. m.completed = completed /\ m.expires = r.expires /\ r.expires \in Time
    BY DEF Record
  <2>2. QED
    BY <1>2, <2>1, TimeAssumption DEF ExpiresAt, Time, NoTime
<1>5. Merged(r, f, status, ts) =
        IF status # "completed" THEN m
        ELSE [m EXCEPT !.expires = IF HasHeavy(m) THEN ExpiresAt(m) ELSE NoTime]
  BY Zenon DEF Merged
<1> HIDE DEF m
<1>6. QED
  BY <1>3, <1>4, <1>5 DEF Record
\* Timer.cancel() on the timers of any set of jobs keeps the timer table typed.
LEMMA CancelTimersType ==
  ASSUME TypeOK, NEW js \in SUBSET Job, CancelTimers(js)
  PROVE  /\ timerOf' \in [Job -> Timer \cup {NoTimer}]
         /\ timer' \in [Timer -> [st : TimerState, job : Job \cup {NoJob}, due : Nat]]
         /\ \A m \in Timer : timer'[m].st # "free" => timer'[m].job \in Job
<1>1. \A m \in Timer :
        /\ CancelledTimer(m) \in [st : TimerState, job : Job \cup {NoJob}, due : Nat]
        /\ CancelledTimer(m).st # "free" => CancelledTimer(m).job \in Job
  BY DEF TypeOK, CancelledTimer, FreeTimer, TimerState
<1>2. QED
  BY <1>1 DEF CancelTimers, TypeOK

\* What a critical section leaves to its agent is well-typed.
LEMMA CollectType ==
  ASSUME TypeOK, NEW a \in Agent,
         NEW groups \in SUBSET SUBSET Handle, NEW sessions \in SUBSET Resource,
         NEW schedule \in [job : Job \cup {NoJob}, at : Time],
         Collect(a, groups, sessions, schedule)
  PROVE  pend' \in [Agent -> Pending]
BY DEF TypeOK, Collect, NoPending, Pending, NoSchedule

\* Detached sessions and handle groups come out of records.
LEMMA DetachedType ==
  ASSUME TypeOK, NEW js \in SUBSET Job
  PROVE  /\ Sessions(js) \in SUBSET Resource
         /\ HandleGroups(js) \in SUBSET SUBSET Handle
BY DEF TypeOK, Sessions, HandleGroups, Record

\* A sweep (_evict_stale_locked) leaves records.
LEMMA AfterEvictionType ==
  ASSUME TypeOK PROVE AfterEviction \in [Job -> Record]
<1>1. EmptyRecord("gone") \in Record
  BY EmptyRecordType DEF Status
<1>2. \A j \in Job : Cleared(job[j]) \in Record
  BY ClearedType DEF TypeOK
<1>3. QED
  BY <1>1, <1>2 DEF TypeOK, AfterEviction

\* An absent schedule is a schedule.
LEMMA NoScheduleType == NoSchedule \in [job : Job \cup {NoJob}, at : Time]
BY DEF NoSchedule, Time, NoTime

\* The sweep of get_job, list_jobs and lease preserves the types.
LEMMA EvictOnlyType ==
  ASSUME TypeOK, NEW a \in Agent, EvictOnly(a)
  PROVE  /\ job' \in [Job -> Record]
         /\ activity' \in [Job -> Time]
         /\ timerOf' \in [Job -> Timer \cup {NoTimer}]
         /\ timer' \in [Timer -> [st : TimerState, job : Job \cup {NoJob}, due : Nat]]
         /\ \A m \in Timer : timer'[m].st # "free" => timer'[m].job \in Job
         /\ pend' \in [Agent -> Pending]
<1>1. StaleJobs \in SUBSET Job /\ ExpiredJobs \in SUBSET Job
  BY DEF StaleJobs, ExpiredJobs
<1>2. job' \in [Job -> Record]
  BY AfterEvictionType DEF EvictOnly
<1>3. activity' \in [Job -> Time]
  BY DEF EvictOnly, TypeOK, Time, NoTime
<1>4. QED
  BY <1>1, <1>2, <1>3, CancelTimersType, CollectType, DetachedType, NoScheduleType
     DEF EvictOnly

\* A merge of well-typed fields preserves the types.
LEMMA StoreMergedType ==
  ASSUME TypeOK, NEW a \in Agent, NEW j \in Job, NEW f \in Fields,
         NEW status \in Status, NEW ts \in Nat, StoreMerged(a, j, f, status, ts)
  PROVE  /\ job' \in [Job -> Record]
         /\ activity' \in [Job -> Time]
         /\ timerOf' \in [Job -> Timer \cup {NoTimer}]
         /\ timer' \in [Timer -> [st : TimerState, job : Job \cup {NoJob}, due : Nat]]
         /\ \A m \in Timer : timer'[m].st # "free" => timer'[m].job \in Job
         /\ pend' \in [Agent -> Pending]
         /\ stored' \in SUBSET (Handle \cup Resource)
<1> DEFINE m == Merged(job[j], f, status, ts)
<1>1. m \in Record
  BY MergedType DEF TypeOK
<1>2. job' = [job EXCEPT ![j] = m]
  BY DEF StoreMerged
<1>3. job' \in [Job -> Record]
  BY <1>1, <1>2 DEF TypeOK
<1>4. activity' \in [Job -> Time]
  BY DEF StoreMerged, TypeOK, Time, NoTime
<1>5. MergeSchedule(j, m) \in [job : Job \cup {NoJob}, at : Time]
  BY <1>1, NoScheduleType DEF MergeSchedule, Record
<1>6. MergeDetached(job[j], f, status) \in SUBSET Resource
  BY DEF MergeDetached, TypeOK, Record, Fields
<1>7. {f.drop} \ {{}} \in SUBSET SUBSET Handle
  BY DEF Fields
<1>8. pend' \in [Agent -> Pending]
  BY <1>5, <1>6, <1>7, CollectType DEF StoreMerged
<1>9. stored' \in SUBSET (Handle \cup Resource)
  BY DEF StoreMerged, TypeOK, Fields
<1>10. PICK js \in SUBSET Job : CancelTimers(js)
  BY DEF StoreMerged
<1>11. QED
  BY <1>3, <1>4, <1>8, <1>9, <1>10, CancelTimersType
-----------------------------------------------------------------------------
(* Type correctness *)

\* Timer.cancel() of one timer returns a timer.
LEMMA CancelledTimerType ==
  ASSUME TypeOK, NEW m \in Timer
  PROVE  /\ CancelledTimer(m) \in [st : TimerState, job : Job \cup {NoJob}, due : Nat]
         /\ CancelledTimer(m).st # "free" => CancelledTimer(m).job \in Job
BY DEF TypeOK, CancelledTimer, FreeTimer, TimerState

\* The fields callers merge are well-typed.
LEMMA UpdateFieldsType == UpdateFields \cup CompletionFields \subseteq Fields
BY DEF UpdateFields, CompletionFields, Fields

\* The updates of an agent's remaining work keep it well-typed.
LEMMA PendingExcept ==
  ASSUME NEW p \in Pending, NEW cs \in SUBSET SUBSET Handle,
         NEW ds \in SUBSET Handle, NEW rs \in SUBSET Resource,
         NEW m \in Timer \cup {NoTimer}
  PROVE  /\ [p EXCEPT !.doomed = ds] \in Pending
         /\ [p EXCEPT !.cleanups = cs, !.doomed = ds] \in Pending
         /\ [p EXCEPT !.releases = rs] \in Pending
         /\ [p EXCEPT !.schedule = NoSchedule] \in Pending
         /\ [p EXCEPT !.schedule = NoSchedule, !.start = m] \in Pending
         /\ [p EXCEPT !.start = m] \in Pending
<1>1. NoSchedule \in [job : Job \cup {NoJob}, at : Time]
  BY NoScheduleType
<1> QED
  BY <1>1 DEF Pending

\* Every operation of a caller's thread preserves the types.
LEMMA OperationType ==
  ASSUME TypeOK, NEW t \in Thread, Operation(t) PROVE TypeOK'
<1> t \in Agent
  BY DEF Agent
<1>0. StaleJobs \in SUBSET Job /\ ExpiredJobs \in SUBSET Job
  BY DEF StaleJobs, ExpiredJobs
<1>1. CASE Poll(t)
  BY <1>1, EvictOnlyType DEF Poll, TypeOK
<1>2. ASSUME NEW j \in Job, CreateJob(t, j) PROVE TypeOK'
  <2>1. [EmptyRecord("running") EXCEPT !.created = now] \in Record
    BY EmptyRecordType DEF Status, Record, TypeOK, Time
  <2>2. job' \in [Job -> Record]
    BY <1>2, <2>1, AfterEvictionType DEF CreateJob
  <2>3. activity' \in [Job -> Time]
    BY <1>2 DEF CreateJob, TypeOK, Time, NoTime
  <2>4. pend' \in [Agent -> Pending]
    BY <1>0, <1>2, CollectType, DetachedType, NoScheduleType DEF CreateJob
  <2>5. QED
    BY <1>0, <1>2, <2>2, <2>3, <2>4, CancelTimersType DEF CreateJob, TypeOK
<1>3. ASSUME NEW j \in Job, NEW f \in UpdateFields, AtomicUpdate(t, j, f)
      PROVE  TypeOK'
  <2>1. f \in Fields
    BY UpdateFieldsType
  <2>2. job[j].status \in Status /\ now \in Nat
    BY DEF TypeOK, Record
  <2>3. StoreMerged(t, j, f, job[j].status, now)
    BY <1>3 DEF AtomicUpdate
  <2>4. UNCHANGED <<now, leases, deferred, cleanerRuns, releaseRuns>>
    BY <1>3 DEF AtomicUpdate
  <2>5. QED
    BY <2>1, <2>2, <2>3, <2>4, StoreMergedType DEF TypeOK
<1>4. ASSUME NEW j \in Job, NEW h \in Handle, NEW ev \in SUBSET Handle,
             PublishPointHandle(t, j, h, ev)
      PROVE  TypeOK'
  <2> DEFINE f == [NoFields EXCEPT !.add = {h}, !.drop = ev]
  <2>1. f \in Fields
    BY DEF NoFields, Fields
  <2>2. "completed" \in Status /\ now \in Nat
    BY DEF TypeOK, Status, TerminalReasons
  <2>3. StoreMerged(t, j, f, "completed", now)
    BY <1>4 DEF PublishPointHandle
  <2>4. UNCHANGED <<now, leases, deferred, cleanerRuns, releaseRuns>>
    BY <1>4 DEF PublishPointHandle
  <2> HIDE DEF f
  <2>5. QED
    BY <2>1, <2>2, <2>3, <2>4, StoreMergedType DEF TypeOK
<1>5. ASSUME NEW j \in Job, NEW f \in CompletionFields, PublishCompletion(t, j, f)
      PROVE  TypeOK'
  <2>1. f \in Fields
    BY UpdateFieldsType
  <2>2. "completed" \in Status /\ now \in Nat
    BY DEF TypeOK, Status, TerminalReasons
  <2>3. StoreMerged(t, j, f, "completed", now)
    BY <1>5 DEF PublishCompletion
  <2>4. UNCHANGED <<now, leases, deferred, cleanerRuns, releaseRuns>>
    BY <1>5 DEF PublishCompletion
  <2>5. QED
    BY <2>1, <2>2, <2>3, <2>4, StoreMergedType DEF TypeOK
<1>6. ASSUME NEW j \in Job, NEW to \in Reasons, NEW ex \in {"running", "completed"},
             NEW w \in 0..LockWait, now >= w, TransitionTerminal(t, j, to, ex, now - w)
      PROVE  TypeOK'
  <2>1. NoFields \in Fields
    BY DEF NoFields, Fields
  <2>2. to \in Status
    BY ReasonsAssumption DEF Status
  <2>3. now - w \in Nat
    BY <1>6, TimeAssumption DEF TypeOK
  <2>4. StoreMerged(t, j, NoFields, to, now - w)
    BY <1>6 DEF TransitionTerminal
  <2>5. UNCHANGED <<now, leases, deferred, cleanerRuns, releaseRuns>>
    BY <1>6 DEF TransitionTerminal
  <2>6. QED
    BY <2>1, <2>2, <2>3, <2>4, <2>5, StoreMergedType DEF TypeOK
<1>7. ASSUME NEW j \in Job, TouchHeavyObjects(t, j) PROVE TypeOK'
  <2> DEFINE r == AfterEviction[j]
             refreshed == IF now + HeavyTTL < r.created + TTL
                          THEN now + HeavyTTL ELSE r.created + TTL
  <2>1. AfterEviction \in [Job -> Record]
    BY AfterEvictionType
  <2>2. refreshed \in Time
    <3>1. r.created \in Time
      BY <2>1 DEF Record
    <3>2. QED
      BY <3>1, TimeAssumption DEF Time, NoTime, TypeOK
  <2>3. job' = [AfterEviction EXCEPT ![j].expires = refreshed]
    BY <1>7 DEF TouchHeavyObjects
  <2>4. Collect(t, HandleGroups(StaleJobs), Sessions(StaleJobs \cup ExpiredJobs),
                [job |-> j, at |-> refreshed])
    BY <1>7 DEF TouchHeavyObjects
  <2>5. activity' \in [Job -> Time]
    BY <1>7 DEF TouchHeavyObjects, TypeOK, Time, NoTime
  <2>6. CancelTimers(StaleJobs \cup ExpiredJobs)
    BY <1>7 DEF TouchHeavyObjects
  <2>7. UNCHANGED <<now, leases, deferred, stored, cleanerRuns, releaseRuns>>
    BY <1>7 DEF TouchHeavyObjects
  <2> HIDE DEF refreshed
  <2>8. job' \in [Job -> Record]
    BY <2>1, <2>2, <2>3 DEF Record
  <2>9. [job |-> j, at |-> refreshed] \in [job : Job \cup {NoJob}, at : Time]
    BY <2>2
  <2>10. pend' \in [Agent -> Pending]
    BY <1>0, <2>4, <2>9, CollectType, DetachedType
  <2>11. QED
    BY <1>0, <2>5, <2>6, <2>7, <2>8, <2>10, CancelTimersType DEF TypeOK
<1>8. ASSUME NEW j \in Job, NEW p \in BOOLEAN, NEW s \in BOOLEAN,
             ClearResultData(t, j, p, s)
      PROVE  TypeOK'
  <2> DEFINE c == [job[j] EXCEPT !.plain = @ /\ ~p,
                                 !.session = IF s THEN NoResource ELSE @]
  <2>1. c \in Record
    <3>1. job[j] \in Record /\ (job[j].plain /\ ~p) \in BOOLEAN
      BY Zenon DEF TypeOK
    <3>2. (IF s THEN NoResource ELSE job[j].session) \in Resource \cup {NoResource}
      BY <3>1 DEF Record
    <3> QED
      BY <3>1, <3>2 DEF Record
  <2>2. job' = [job EXCEPT ![j] = IF HasHeavy(c) THEN c
                                  ELSE [c EXCEPT !.expires = NoTime]]
    BY <1>8 DEF ClearResultData
  <2>3. PICK js \in SUBSET Job : CancelTimers(js)
    BY <1>8 DEF ClearResultData
  <2>4. PICK ss \in SUBSET Resource : Collect(t, {}, ss, NoSchedule)
    BY <1>8, DetachedType DEF ClearResultData
  <2>5. UNCHANGED <<now, activity, leases, deferred, stored, cleanerRuns, releaseRuns>>
    BY <1>8 DEF ClearResultData
  <2> HIDE DEF c
  <2>6. job' \in [Job -> Record]
    BY <2>1, <2>2 DEF TypeOK, Record, Time, NoTime
  <2>7. pend' \in [Agent -> Pending]
    BY <2>4, CollectType, NoScheduleType
  <2>8. QED
    BY <2>3, <2>5, <2>6, <2>7, CancelTimersType DEF TypeOK
<1>9. ASSUME NEW j \in Job, NEW h \in Handle, DetachArtifactHandle(t, j, h)
      PROVE  TypeOK'
  <2>1. job' \in [Job -> Record]
    <3>1. [job[j] EXCEPT !.handles = @ \ {h}] \in Record
      <4>1. job[j] \in Record
        BY DEF TypeOK
      <4>2. job[j].handles \ {h} \in SUBSET Handle
        BY <4>1 DEF Record
      <4> QED
        BY <4>1, <4>2 DEF Record
    <3>2. job' = [job EXCEPT ![j] = [job[j] EXCEPT !.handles = @ \ {h}]]
      BY <1>9 DEF DetachArtifactHandle, TypeOK
    <3> QED
      BY <3>1, <3>2 DEF TypeOK
  <2>2. pend' \in [Agent -> Pending]
    BY <1>9, CollectType, NoScheduleType DEF DetachArtifactHandle
  <2>3. QED
    BY <1>9, <2>1, <2>2 DEF DetachArtifactHandle, TypeOK
<1>10. ASSUME NEW j \in Job, NEW h \in Handle, Lease(t, j, h) PROVE TypeOK'
  <2>1. leases' \in [Handle -> SUBSET Thread]
    BY <1>10 DEF Lease, TypeOK
  <2>2. QED
    BY <1>10, <2>1, EvictOnlyType DEF Lease, TypeOK
<1>11. ASSUME NEW js \in SUBSET Job, RemoveJobs(t, js) PROVE TypeOK'
  <2> DEFINE removed == {j \in js : Live(job[j])}
  <2>1. removed \in SUBSET Job
    OBVIOUS
  <2>2. job' \in [Job -> Record]
    <3>1. EmptyRecord("gone") \in Record
      BY EmptyRecordType DEF Status
    <3>2. QED
      BY <1>11, <3>1 DEF RemoveJobs, TypeOK
  <2>3. activity' \in [Job -> Time]
    BY <1>11 DEF RemoveJobs, TypeOK, Time, NoTime
  <2>4. CancelTimers(removed)
    BY <1>11 DEF RemoveJobs
  <2>5. Collect(t, HandleGroups(removed), Sessions(removed), NoSchedule)
    BY <1>11 DEF RemoveJobs
  <2>6. UNCHANGED <<now, leases, deferred, stored, cleanerRuns, releaseRuns>>
    BY <1>11 DEF RemoveJobs
  <2> HIDE DEF removed
  <2>7. pend' \in [Agent -> Pending]
    BY <2>1, <2>5, CollectType, DetachedType, NoScheduleType
  <2>8. QED
    BY <2>1, <2>2, <2>3, <2>4, <2>6, <2>7, CancelTimersType DEF TypeOK
<1>12. ASSUME NEW h \in Handle, Unlease(t, h) PROVE TypeOK'
  <2>1. pend' \in [Agent -> Pending]
    <3>1. TakeOver(t, h) \in SUBSET Handle
      BY DEF TakeOver
    <3>2. [pend[t] EXCEPT !.doomed = TakeOver(t, h)] \in Pending
      BY <3>1, PendingExcept DEF TypeOK
    <3> QED
      BY <1>12, <3>2 DEF Unlease, TypeOK
  <2>2. QED
    BY <1>12, <2>1 DEF Unlease, TypeOK
<1>13. QED
  BY <1>1, <1>2, <1>3, <1>4, <1>5, <1>6, <1>7, <1>8, <1>9, <1>10, <1>11, <1>12
     DEF Operation
\* So does everything an agent does after the lock.
LEMMA AfterLockType ==
  ASSUME TypeOK, NEW a \in Agent, AfterLock(a) PROVE TypeOK'
<1>0. pend[a] \in Pending
  BY DEF TypeOK
<1>1. ASSUME NEW g \in pend[a].cleanups, SplitCleanup(a, g) PROVE TypeOK'
  <2>1. g \in SUBSET Handle /\ Read(g) \in SUBSET Handle
    BY <1>0 DEF Pending, Read
  <2>2. [pend[a] EXCEPT !.cleanups = @ \ {g}, !.doomed = g \ Read(g)] \in Pending
    <3>1. pend[a].cleanups \ {g} \in SUBSET SUBSET Handle
      BY <1>0 DEF Pending
    <3> QED
      BY <1>0, <2>1, <3>1, PendingExcept
  <2>3. pend' = [pend EXCEPT ![a] =
                   [pend[a] EXCEPT !.cleanups = @ \ {g}, !.doomed = g \ Read(g)]]
    BY <1>1 DEF SplitCleanup, TypeOK
  <2>4. pend' \in [Agent -> Pending]
    BY <2>2, <2>3 DEF TypeOK
  <2> QED
    BY <1>1, <2>1, <2>4 DEF SplitCleanup, TypeOK
<1>2. ASSUME NEW h \in pend[a].doomed, RunCleaner(a, h) PROVE TypeOK'
  <2>1. h \in Handle /\ pend[a].doomed \ {h} \in SUBSET Handle
    BY <1>0 DEF Pending
  <2>2. [pend[a] EXCEPT !.doomed = @ \ {h}] \in Pending
    BY <1>0, <2>1, PendingExcept
  <2>3. pend' \in [Agent -> Pending]
    BY <1>2, <2>2 DEF RunCleaner, TypeOK
  <2>4. cleanerRuns' \in [Handle -> Nat]
    BY <1>2, <2>1 DEF RunCleaner, TypeOK
  <2> QED
    BY <1>2, <2>3, <2>4 DEF RunCleaner, TypeOK
<1>3. ASSUME NEW r \in pend[a].releases, ReleaseHeavy(a, r) PROVE TypeOK'
  <2>1. r \in Resource /\ pend[a].releases \ {r} \in SUBSET Resource
    BY <1>0 DEF Pending
  <2>2. [pend[a] EXCEPT !.releases = @ \ {r}] \in Pending
    BY <1>0, <2>1, PendingExcept
  <2>3. pend' \in [Agent -> Pending]
    BY <1>3, <2>2 DEF ReleaseHeavy, TypeOK
  <2>4. releaseRuns' \in [Resource -> Nat]
    BY <1>3, <2>1 DEF ReleaseHeavy, TypeOK
  <2> QED
    BY <1>3, <2>3, <2>4 DEF ReleaseHeavy, TypeOK
<1>4. ASSUME NEW m \in Timer, InstallTimer(a, m) PROVE TypeOK'
  <2> DEFINE s == pend[a].schedule
  <2>1. s.job \in Job /\ s.at \in Time
    BY <1>0, <1>4 DEF InstallTimer, Pending
  <2>2. Delay(s.at) \in Nat
    BY <2>1 DEF Delay, Time, NoTime, TypeOK
  <2>3. timerOf' \in [Job -> Timer \cup {NoTimer}]
    BY <1>4 DEF InstallTimer, TypeOK
  <2>4. timer' = [x \in Timer |->
                    IF x = m
                    THEN [st |-> "installed", job |-> s.job, due |-> Delay(s.at)]
                    ELSE IF x = timerOf[s.job] THEN CancelledTimer(x) ELSE timer[x]]
    BY <1>4 DEF InstallTimer
  <2>5. [pend[a] EXCEPT !.schedule = NoSchedule, !.start = m] \in Pending
    BY <1>0, PendingExcept
  <2>6. pend' = [pend EXCEPT ![a] =
                   [pend[a] EXCEPT !.schedule = NoSchedule, !.start = m]]
    BY <1>4 DEF InstallTimer, TypeOK
  <2>7. pend' \in [Agent -> Pending]
    BY <2>5, <2>6 DEF TypeOK
  <2>8. UNCHANGED <<now, job, activity, leases, deferred, stored, cleanerRuns,
                    releaseRuns>>
    BY <1>4 DEF InstallTimer
  <2>9. /\ timer' \in [Timer -> [st : TimerState, job : Job \cup {NoJob}, due : Nat]]
        /\ \A x \in Timer : timer'[x].st # "free" => timer'[x].job \in Job
    BY <2>1, <2>2, <2>4, CancelledTimerType DEF TypeOK, TimerState
  <2> QED
    BY <2>3, <2>7, <2>8, <2>9 DEF TypeOK
<1>5. ASSUME SkipTimer(a) PROVE TypeOK'
  <2>1. pend[a].schedule.job \in Job
    BY <1>0, <1>5 DEF SkipTimer, Pending
  <2>2. PICK js \in SUBSET Job : CancelTimers(js)
    BY <1>5, <2>1 DEF SkipTimer
  <2>3. [pend[a] EXCEPT !.schedule = NoSchedule] \in Pending
    BY <1>0, PendingExcept
  <2>4. pend' \in [Agent -> Pending]
    BY <1>5, <2>3 DEF SkipTimer, TypeOK
  <2> QED
    BY <1>5, <2>2, <2>4, CancelTimersType DEF SkipTimer, TypeOK
<1>6. ASSUME StartTimer(a) PROVE TypeOK'
  <2> DEFINE m == pend[a].start
  <2>1. m \in Timer
    BY <1>0, <1>6 DEF StartTimer, Pending
  <2>2. [pend[a] EXCEPT !.start = NoTimer] \in Pending
    BY <1>0, PendingExcept
  <2>3. pend' \in [Agent -> Pending]
    BY <1>6, <2>2 DEF StartTimer, TypeOK
  <2>4. timer' = [timer EXCEPT ![m] = Started(timer[m])]
    BY <1>6 DEF StartTimer
  <2>5. /\ Started(timer[m]) \in [st : TimerState, job : Job \cup {NoJob}, due : Nat]
        /\ Started(timer[m]).st # "free" => Started(timer[m]).job \in Job
    BY <2>1 DEF Started, TypeOK, TimerState, FreeTimer
  <2>6. /\ timer' \in [Timer -> [st : TimerState, job : Job \cup {NoJob}, due : Nat]]
        /\ \A x \in Timer : timer'[x].st # "free" => timer'[x].job \in Job
    BY <2>1, <2>4, <2>5 DEF TypeOK
  <2> QED
    BY <1>6, <2>3, <2>6 DEF StartTimer, TypeOK
<1> QED
  BY <1>1, <1>2, <1>3, <1>4, <1>5, <1>6 DEF AfterLock

\* Timers and the clock preserve the types.
LEMMA TimerType ==
  ASSUME TypeOK, NEW m \in Timer, TimerFires(m) \/ TimerCallback(m) PROVE TypeOK'
<1> m \in Agent
  BY DEF Agent
<1>1. CASE TimerFires(m)
  <2>1. /\ timer' \in [Timer -> [st : TimerState, job : Job \cup {NoJob}, due : Nat]]
        /\ \A x \in Timer : timer'[x].st # "free" => timer'[x].job \in Job
    BY <1>1 DEF TimerFires, TypeOK, TimerState
  <2> QED
    BY <1>1, <2>1 DEF TimerFires, TypeOK
<1>2. CASE TimerCallback(m)
  <2> DEFINE j == timer[m].job
  <2>1. j \in Job
    BY <1>2 DEF TimerCallback, TypeOK
  <2>2. job' \in [Job -> Record]
    <3>1. Cleared(job[j]) \in Record
      BY <2>1, ClearedType DEF TypeOK
    <3> QED
      BY <1>2, <3>1 DEF TimerCallback, TypeOK
  <2>3. timerOf' \in [Job -> Timer \cup {NoTimer}]
    BY <1>2 DEF TimerCallback, TypeOK
  <2>4. /\ timer' \in [Timer -> [st : TimerState, job : Job \cup {NoJob}, due : Nat]]
        /\ \A x \in Timer : timer'[x].st # "free" => timer'[x].job \in Job
    BY <1>2, CancelledTimerType DEF TimerCallback, TypeOK, FreeTimer, TimerState
  <2>5. PICK ss \in SUBSET Resource : Collect(m, {}, ss, NoSchedule)
    BY <1>2, <2>1, DetachedType DEF TimerCallback
  <2>6. pend' \in [Agent -> Pending]
    BY <2>5, CollectType, NoScheduleType
  <2> QED
    BY <1>2, <2>2, <2>3, <2>4, <2>6 DEF TimerCallback, TypeOK
<1> QED
  BY <1>1, <1>2

\* The initial state is well-typed.
LEMMA InitType == Init => TypeOK
<1> SUFFICES ASSUME Init PROVE TypeOK
  OBVIOUS
<1>1. job \in [Job -> Record]
  BY EmptyRecordType DEF Init, Status
<1>2. pend \in [Agent -> Pending]
  BY NoScheduleType DEF Init, NoPending, Pending
<1> QED
  BY <1>1, <1>2 DEF Init, TypeOK, FreeTimer, TimerState, Time, NoTime

\* Every step of JobStore preserves the types.
LEMMA NextType == TypeOK /\ [Next]_vars => TypeOK'
<1> SUFFICES ASSUME TypeOK, [Next]_vars PROVE TypeOK'
  OBVIOUS
<1>1. CASE Tick
  BY <1>1 DEF Tick, TypeOK
<1>2. CASE UNCHANGED vars
  BY <1>2 DEF vars, TypeOK
<1> QED
  BY <1>1, <1>2, OperationType, AfterLockType, TimerType DEF Next

\* Records, timers, leases and the agents' remaining work keep their types in
\* every behaviour of the store, in particular a delay is never negative and a
\* timer that may still run knows its job.
THEOREM TypeCorrect == Spec => []TypeOK
BY InitType, NextType, PTL DEF Spec
-----------------------------------------------------------------------------
(* Lease safety *)

\* A handle's cleanup has been decided, at whatever stage it is.
Consumed(h) ==
  \/ \E a \in Agent : \E g \in pend[a].cleanups : h \in g
  \/ \E a \in Agent : h \in pend[a].doomed
  \/ h \in deferred
  \/ cleanerRuns[h] # 0

\* No two records own one artifact.
OneOwner ==
  \A h \in Handle : \A i, j \in Job :
    h \in job[i].handles /\ h \in job[j].handles => i = j

\* An artifact a record owns is not on its way to a cleaner, and whatever a
\* record owns or a thread cleans was adopted, so it is not adopted again.
OwnedNotConsumed ==
  \A h \in Handle :
    /\ \A j \in Job : h \in job[j].handles => h \in stored /\ ~Consumed(h)
    /\ Consumed(h) => h \in stored

\* No reader can find the artifact of a cleaner that ran or is about to.
NoneReadWhileCleaned ==
  \A h \in Handle : leases[h] # {} =>
    cleanerRuns[h] = 0 /\ \A a \in Agent : h \notin pend[a].doomed

\* The inductive strengthening of LeasedArtifactIntact and DeferredHasReader:
\* a new lease needs an owned artifact, which must not be a consumed one.
LeaseInv ==
  TypeOK /\ OneOwner /\ OwnedNotConsumed /\ NoneReadWhileCleaned /\ DeferredHasReader

\* A critical section moves handles only out of records into its agent's queue
\* and adopts only new ones, into one record; leases grow on owned artifacts.
SectionEffect(a, p, j0, N) ==
  /\ pend' = [pend EXCEPT ![a] = p]
  /\ p.doomed = {}
  /\ deferred' = deferred
  /\ cleanerRuns' = cleanerRuns
  /\ N \cap stored = {}
  /\ stored \cup N \subseteq stored'
  /\ \A j \in Job :
       job'[j].handles \subseteq job[j].handles \cup (IF j = j0 THEN N ELSE {})
  /\ \A g \in p.cleanups : \A h \in g :
       \E j \in Job : h \in job[j].handles /\ h \notin job'[j].handles
  /\ \A h \in Handle :
       \/ leases'[h] = leases[h]
       \/ /\ leases[h] \subseteq leases'[h]
          /\ \E j \in Job : h \in job[j].handles

\* Every critical section keeps the invariant.
LEMMA SectionStep ==
  ASSUME LeaseInv, TypeOK', NEW a \in Agent, NEW p, NEW j0,
         NEW N \in SUBSET Handle, SectionEffect(a, p, j0, N)
  PROVE  LeaseInv'
<1> USE DEF SectionEffect
<1>1. pend'[a] = p /\ \A b \in Agent : b # a => pend'[b] = pend[b]
  BY DEF LeaseInv, TypeOK
<1>2. OneOwner'
  BY DEF LeaseInv, OneOwner, OwnedNotConsumed
<1>3. ASSUME NEW h \in Handle, Consumed(h)'
      PROVE  h \in stored /\ \/ Consumed(h)
                             \/ \E j \in Job : h \in job[j].handles /\ h \notin job'[j].handles
  <2>1. \/ Consumed(h)
        \/ \E g \in p.cleanups : h \in g
    BY <1>1, <1>3 DEF Consumed
  <2> QED
    BY <2>1 DEF LeaseInv, OwnedNotConsumed
<1>4. OwnedNotConsumed'
  <2> SUFFICES ASSUME NEW h \in Handle
               PROVE  /\ \A j \in Job : h \in job'[j].handles =>
                           h \in stored' /\ ~Consumed(h)'
                      /\ Consumed(h)' => h \in stored'
    BY DEF OwnedNotConsumed
  <2>1. ASSUME NEW j \in Job, h \in job'[j].handles PROVE h \in stored'
    BY <2>1 DEF LeaseInv, OwnedNotConsumed
  <2>2. ASSUME NEW j \in Job, h \in job'[j].handles, Consumed(h)' PROVE FALSE
    <3>1. CASE h \in N
      BY <1>3, <2>2, <3>1
    <3>2. CASE h \notin N
      <4>1. h \in job[j].handles
        BY <2>2, <3>2
      <4> QED
        BY <1>3, <2>2, <4>1 DEF LeaseInv, OwnedNotConsumed, OneOwner
    <3> QED
      BY <3>1, <3>2
  <2> QED
    BY <1>3, <2>1, <2>2
<1>5. NoneReadWhileCleaned'
  <2> SUFFICES ASSUME NEW h \in Handle, leases'[h] # {}
               PROVE  cleanerRuns'[h] = 0 /\ \A b \in Agent : h \notin pend'[b].doomed
    BY DEF NoneReadWhileCleaned
  <2>1. CASE leases'[h] = leases[h]
    BY <1>1, <2>1 DEF LeaseInv, NoneReadWhileCleaned
  <2>2. CASE \E j \in Job : h \in job[j].handles
    BY <1>1, <2>2 DEF LeaseInv, OwnedNotConsumed, Consumed
  <2> QED
    BY <2>1, <2>2
<1>6. DeferredHasReader'
  <2> SUFFICES ASSUME NEW h \in deferred PROVE leases'[h] # {}
    BY DEF DeferredHasReader
  <2>1. h \in Handle /\ leases[h] # {}
    BY DEF LeaseInv, TypeOK, DeferredHasReader
  <2> QED
    BY <2>1
<1> QED
  BY <1>2, <1>4, <1>5, <1>6 DEF LeaseInv

\* A step that moves no handle and changes no lease keeps the invariant.
LEMMA NeutralStep ==
  ASSUME LeaseInv, TypeOK', job' = job,
         leases' = leases, deferred' = deferred, stored' = stored,
         cleanerRuns' = cleanerRuns,
         \A a \in Agent : /\ pend'[a].cleanups = pend[a].cleanups
                          /\ pend'[a].doomed = pend[a].doomed
  PROVE  LeaseInv'
<1>1. \A h : Consumed(h)' <=> Consumed(h)
  BY DEF Consumed
<1>2. OneOwner' /\ NoneReadWhileCleaned' /\ DeferredHasReader'
  BY DEF LeaseInv, OneOwner, NoneReadWhileCleaned, DeferredHasReader
<1>3. OwnedNotConsumed'
  BY <1>1 DEF LeaseInv, OwnedNotConsumed
<1> QED
  BY <1>2, <1>3 DEF LeaseInv
\* A sweep takes handles only from stale jobs, and takes all of theirs.
LEMMA EvictionHandles ==
  ASSUME TypeOK, NEW j \in Job
  PROVE  /\ AfterEviction[j].handles \subseteq job[j].handles
         /\ j \in StaleJobs => AfterEviction[j].handles = {}
BY DEF TypeOK, AfterEviction, EmptyRecord, Cleared, StaleJobs, Record

\* Queued groups come from the jobs that were removed.
LEMMA GroupMember ==
  ASSUME NEW js, NEW g \in HandleGroups(js), NEW h \in g
  PROVE  \E j \in js : h \in job[j].handles
BY DEF HandleGroups

\* What Collect leaves in an agent's queues.
LEMMA CollectQueues ==
  ASSUME NEW a, NEW groups, NEW sessions, NEW schedule,
         Collect(a, groups, sessions, schedule)
  PROVE  \E p : /\ pend' = [pend EXCEPT ![a] = p]
                /\ p.cleanups = groups /\ p.doomed = {}
<1> DEFINE p == [NoPending EXCEPT !.cleanups = groups, !.releases = sessions,
                                  !.schedule = schedule]
<1>1. pend' = [pend EXCEPT ![a] = p]
  BY DEF Collect
<1>2. p.cleanups = groups /\ p.doomed = {}
  BY DEF NoPending
<1> HIDE DEF p
<1> QED
  BY <1>1, <1>2

\* A block that sweeps the store, and adopts nothing, keeps the invariant.
LEMMA SweepStep ==
  ASSUME LeaseInv, TypeOK', NEW a \in Agent, NEW sessions, NEW schedule,
         Collect(a, HandleGroups(StaleJobs), sessions, schedule),
         \A j \in Job : job'[j].handles \subseteq AfterEviction[j].handles,
         deferred' = deferred, cleanerRuns' = cleanerRuns, stored' = stored,
         \A h \in Handle :
           \/ leases'[h] = leases[h]
           \/ /\ leases[h] \subseteq leases'[h]
              /\ \E j \in Job : h \in job[j].handles
  PROVE  LeaseInv'
<1>1. PICK p : /\ pend' = [pend EXCEPT ![a] = p]
               /\ p.cleanups = HandleGroups(StaleJobs) /\ p.doomed = {}
  BY CollectQueues
<1>2. TypeOK
  BY DEF LeaseInv
<1>3. \A j \in Job : job'[j].handles \subseteq job[j].handles
  BY <1>2, EvictionHandles
<1>4. \A g \in p.cleanups : \A h \in g :
        \E j \in Job : h \in job[j].handles /\ h \notin job'[j].handles
  <2> SUFFICES ASSUME NEW g \in HandleGroups(StaleJobs), NEW h \in g
               PROVE  \E j \in Job : h \in job[j].handles /\ h \notin job'[j].handles
    BY <1>1
  <2>1. PICK j \in StaleJobs : h \in job[j].handles
    BY GroupMember
  <2>2. j \in Job /\ AfterEviction[j].handles = {}
    BY <1>2, EvictionHandles DEF StaleJobs
  <2> QED
    BY <2>1, <2>2
<1>5. SectionEffect(a, p, NoJob, {})
  BY <1>1, <1>3, <1>4 DEF SectionEffect
<1> QED
  BY <1>5, SectionStep

\* The handles of a merged record.
LEMMA MergedHandles ==
  ASSUME NEW r \in Record, NEW f \in Fields, NEW status, NEW ts
  PROVE  Merged(r, f, status, ts).handles = (r.handles \ f.drop) \cup f.add
BY DEF Merged, Record

\* A merge keeps the invariant when what it drops is what the record owned.
LEMMA MergeStep ==
  ASSUME LeaseInv, TypeOK', NEW a \in Agent, NEW j \in Job, NEW f \in Fields,
         NEW status, NEW ts, StoreMerged(a, j, f, status, ts),
         f.drop \subseteq job[j].handles,
         deferred' = deferred, cleanerRuns' = cleanerRuns, leases' = leases
  PROVE  LeaseInv'
<1>0. TypeOK /\ job[j] \in Record
  BY DEF LeaseInv, TypeOK
<1>1. PICK p : /\ pend' = [pend EXCEPT ![a] = p]
               /\ p.cleanups = {f.drop} \ {{}} /\ p.doomed = {}
  BY CollectQueues DEF StoreMerged
<1>2. job'[j].handles = (job[j].handles \ f.drop) \cup f.add
  BY <1>0, MergedHandles DEF StoreMerged, TypeOK
<1>3. \A i \in Job : i # j => job'[i] = job[i]
  BY <1>0 DEF StoreMerged, TypeOK
<1>4. f.add \in SUBSET Handle /\ f.add \cap stored = {} /\ stored \cup f.add \subseteq stored'
  BY DEF StoreMerged, Fields
<1>5. \A i \in Job :
        job'[i].handles \subseteq job[i].handles \cup (IF i = j THEN f.add ELSE {})
  BY <1>2, <1>3
<1>6. \A h \in Handle : h \in job[j].handles => h \in stored
  BY DEF LeaseInv, OwnedNotConsumed
<1>7. \A g \in p.cleanups : \A h \in g :
        \E i \in Job : h \in job[i].handles /\ h \notin job'[i].handles
  <2> SUFFICES ASSUME NEW h \in f.drop
               PROVE  h \in job[j].handles /\ h \notin job'[j].handles
    BY <1>1
  <2>1. h \in Handle /\ h \in job[j].handles
    BY DEF Fields
  <2> QED
    BY <1>2, <1>4, <1>6, <2>1
<1>8. SectionEffect(a, p, j, f.add)
  BY <1>1, <1>4, <1>5, <1>7 DEF SectionEffect
<1> QED
  BY <1>4, <1>8, SectionStep
\* Every operation of a caller's thread keeps the invariant.
LEMMA OperationLease ==
  ASSUME LeaseInv, NEW t \in Thread, Operation(t) PROVE LeaseInv'
<1> t \in Agent
  BY DEF Agent
<1>0. TypeOK /\ TypeOK'
  BY OperationType DEF LeaseInv
<1>1. CASE Poll(t)
  BY <1>0, <1>1, SweepStep DEF Poll, EvictOnly
<1>2. ASSUME NEW j \in Job, CreateJob(t, j) PROVE LeaseInv'
  <2>1. \A i \in Job : job'[i].handles \subseteq AfterEviction[i].handles
    <3>1. [EmptyRecord("running") EXCEPT !.created = now].handles = {}
      BY DEF EmptyRecord
    <3>2. \A i \in Job : i # j => job'[i] = AfterEviction[i]
      BY <1>0, <1>2, AfterEvictionType DEF CreateJob
    <3>3. job'[j] = [EmptyRecord("running") EXCEPT !.created = now]
      BY <1>0, <1>2, AfterEvictionType DEF CreateJob
    <3> QED
      BY <3>1, <3>2, <3>3
  <2> QED
    BY <1>0, <1>2, <2>1, SweepStep DEF CreateJob
<1>3. ASSUME NEW j \in Job, NEW f \in UpdateFields, AtomicUpdate(t, j, f)
      PROVE  LeaseInv'
  <2>1. f \in Fields /\ f.drop = {}
    BY UpdateFieldsType DEF UpdateFields
  <2> QED
    BY <1>0, <1>3, <2>1, MergeStep DEF AtomicUpdate
<1>4. ASSUME NEW j \in Job, NEW h \in Handle, NEW ev \in SUBSET Handle,
             PublishPointHandle(t, j, h, ev)
      PROVE  LeaseInv'
  <2> DEFINE f == [NoFields EXCEPT !.add = {h}, !.drop = ev]
  <2>1. f \in Fields /\ f.drop = ev
    BY DEF NoFields, Fields
  <2>2. StoreMerged(t, j, f, "completed", now)
    BY <1>4 DEF PublishPointHandle
  <2>3. ev \subseteq job[j].handles
    BY <1>4 DEF PublishPointHandle
  <2>4. UNCHANGED <<deferred, cleanerRuns, leases>>
    BY <1>4 DEF PublishPointHandle
  <2> HIDE DEF f
  <2> QED
    BY <1>0, <2>1, <2>2, <2>3, <2>4, MergeStep
<1>5. ASSUME NEW j \in Job, NEW f \in CompletionFields, PublishCompletion(t, j, f)
      PROVE  LeaseInv'
  <2>1. f \in Fields /\ f.drop = {}
    BY UpdateFieldsType DEF CompletionFields
  <2> QED
    BY <1>0, <1>5, <2>1, MergeStep DEF PublishCompletion
<1>6. ASSUME NEW j \in Job, NEW to, NEW ex, NEW ts, TransitionTerminal(t, j, to, ex, ts)
      PROVE  LeaseInv'
  <2>1. NoFields \in Fields /\ NoFields.drop = {}
    BY DEF NoFields, Fields
  <2> QED
    BY <1>0, <1>6, <2>1, MergeStep DEF TransitionTerminal
<1>7. ASSUME NEW j \in Job, TouchHeavyObjects(t, j) PROVE LeaseInv'
  <2>1. PICK e : job' = [AfterEviction EXCEPT ![j].expires = e]
    BY <1>7 DEF TouchHeavyObjects
  <2>2. \A i \in Job : job'[i].handles \subseteq AfterEviction[i].handles
    BY <1>0, <2>1, AfterEvictionType DEF Record
  <2>3. PICK ss, sc : Collect(t, HandleGroups(StaleJobs), ss, sc)
    BY <1>7 DEF TouchHeavyObjects
  <2>4. UNCHANGED <<deferred, cleanerRuns, leases, stored>>
    BY <1>7 DEF TouchHeavyObjects
  <2> QED
    BY <1>0, <2>2, <2>3, <2>4, SweepStep
<1>8. ASSUME NEW j \in Job, NEW pl, NEW se, ClearResultData(t, j, pl, se)
      PROVE  LeaseInv'
  <2>1. PICK c : /\ job' = [job EXCEPT ![j] = c] /\ c.handles = job[j].handles
    <3> DEFINE c0 == [job[j] EXCEPT !.plain = @ /\ ~pl,
                                    !.session = IF se THEN NoResource ELSE @]
               c1 == IF HasHeavy(c0) THEN c0 ELSE [c0 EXCEPT !.expires = NoTime]
    <3>1. c1.handles = job[j].handles
      BY <1>0 DEF TypeOK, Record
    <3>2. job' = [job EXCEPT ![j] = c1]
      BY <1>8 DEF ClearResultData
    <3> HIDE DEF c1
    <3> QED
      BY <3>1, <3>2
  <2>2. \A i \in Job : job'[i].handles = job[i].handles
    BY <1>0, <2>1 DEF TypeOK
  <2>3. PICK ss : Collect(t, {}, ss, NoSchedule)
    BY <1>8 DEF ClearResultData
  <2>4. PICK p : /\ pend' = [pend EXCEPT ![t] = p]
                 /\ p.cleanups = {} /\ p.doomed = {}
    BY <2>3, CollectQueues
  <2>5. SectionEffect(t, p, NoJob, {})
    BY <1>8, <2>2, <2>4 DEF SectionEffect, ClearResultData
  <2> QED
    BY <1>0, <2>5, SectionStep
<1>9. ASSUME NEW j \in Job, NEW h \in Handle, DetachArtifactHandle(t, j, h)
      PROVE  LeaseInv'
  <2>1. PICK p : /\ pend' = [pend EXCEPT ![t] = p]
                 /\ p.cleanups = {{h}} /\ p.doomed = {}
    BY <1>9, CollectQueues DEF DetachArtifactHandle
  <2>2. job'[j].handles = job[j].handles \ {h} /\ \A i \in Job : i # j => job'[i] = job[i]
    BY <1>0, <1>9 DEF DetachArtifactHandle, TypeOK, Record
  <2>3. h \in job[j].handles
    BY <1>9 DEF DetachArtifactHandle
  <2>4. SectionEffect(t, p, NoJob, {})
    BY <1>9, <2>1, <2>2, <2>3 DEF SectionEffect, DetachArtifactHandle
  <2> QED
    BY <1>0, <2>4, SectionStep
<1>10. ASSUME NEW j \in Job, NEW h \in Handle, Lease(t, j, h) PROVE LeaseInv'
  <2>1. h \in job[j].handles
    BY <1>0, <1>10, EvictionHandles DEF Lease
  <2>2. \A x \in Handle :
          \/ leases'[x] = leases[x]
          \/ /\ leases[x] \subseteq leases'[x]
             /\ \E i \in Job : x \in job[i].handles
    BY <1>0, <1>10, <2>1 DEF Lease, TypeOK
  <2> QED
    BY <1>0, <1>10, <2>2, SweepStep DEF Lease, EvictOnly
<1>11. ASSUME NEW js \in SUBSET Job, RemoveJobs(t, js) PROVE LeaseInv'
  <2> DEFINE removed == {j \in js : Live(job[j])}
  <2>1. removed \in SUBSET Job
    OBVIOUS
  <2>2. \A i \in Job : IF i \in removed THEN job'[i].handles = {} ELSE job'[i] = job[i]
    BY <1>11 DEF RemoveJobs, EmptyRecord
  <2>3. Collect(t, HandleGroups(removed), Sessions(removed), NoSchedule)
    BY <1>11 DEF RemoveJobs
  <2>4. UNCHANGED <<leases, deferred, stored, cleanerRuns>>
    BY <1>11 DEF RemoveJobs
  <2> HIDE DEF removed
  <2>5. PICK p : /\ pend' = [pend EXCEPT ![t] = p]
                 /\ p.cleanups = HandleGroups(removed) /\ p.doomed = {}
    BY <2>3, CollectQueues
  <2>6. \A g \in p.cleanups : \A h \in g :
          \E i \in Job : h \in job[i].handles /\ h \notin job'[i].handles
    BY <2>1, <2>2, <2>5, GroupMember
  <2>7. SectionEffect(t, p, NoJob, {})
    BY <2>2, <2>4, <2>5, <2>6 DEF SectionEffect
  <2> QED
    BY <1>0, <2>7, SectionStep
<1>12. ASSUME NEW h \in Handle, Unlease(t, h) PROVE LeaseInv'
  <2>1. /\ leases' = [leases EXCEPT ![h] = @ \ {t}]
        /\ deferred' = IF leases[h] = {t} THEN deferred \ {h} ELSE deferred
        /\ UNCHANGED <<job, stored, cleanerRuns>>
        /\ t \in leases[h]
    BY <1>12 DEF Unlease
  <2>2. /\ pend'[t].cleanups = pend[t].cleanups
        /\ pend'[t].doomed = TakeOver(t, h)
        /\ \A b \in Agent : b # t => pend'[b] = pend[b]
    BY <1>0, <1>12 DEF Unlease, TypeOK, Pending
  <2>3. ASSUME NEW x \in Handle, Consumed(x)' PROVE Consumed(x)
    BY <2>1, <2>2, <2>3 DEF Consumed, TakeOver
  <2>4. OneOwner' /\ OwnedNotConsumed'
    BY <2>1, <2>3 DEF LeaseInv, OneOwner, OwnedNotConsumed
  <2>5. DeferredHasReader'
    BY <1>0, <2>1 DEF LeaseInv, DeferredHasReader, TypeOK
  <2>6. NoneReadWhileCleaned'
    BY <1>0, <2>1, <2>2 DEF LeaseInv, NoneReadWhileCleaned, TakeOver, TypeOK
  <2> QED
    BY <1>0, <2>4, <2>5, <2>6 DEF LeaseInv
<1> QED
  BY <1>1, <1>2, <1>3, <1>4, <1>5, <1>6, <1>7, <1>8, <1>9, <1>10, <1>11, <1>12
     DEF Operation

\* Everything an agent does after the lock keeps the invariant.
LEMMA AfterLockLease ==
  ASSUME LeaseInv, NEW a \in Agent, AfterLock(a) PROVE LeaseInv'
<1>0. TypeOK /\ TypeOK' /\ pend[a] \in Pending
  BY AfterLockType DEF LeaseInv, TypeOK
<1>1. ASSUME NEW g \in pend[a].cleanups, SplitCleanup(a, g) PROVE LeaseInv'
  <2>1. /\ deferred' = deferred \cup Read(g)
        /\ UNCHANGED <<job, leases, stored, cleanerRuns>>
    BY <1>1 DEF SplitCleanup
  <2>2. /\ pend'[a].cleanups = pend[a].cleanups \ {g}
        /\ pend'[a].doomed = g \ Read(g)
        /\ \A b \in Agent : b # a => pend'[b] = pend[b]
    BY <1>0, <1>1 DEF SplitCleanup, TypeOK, Pending
  <2>3. g \subseteq Handle
    BY <1>0 DEF Pending
  <2>4. ASSUME NEW x \in Handle, Consumed(x)' PROVE Consumed(x)
    BY <2>1, <2>2, <2>4 DEF Consumed, Read
  <2>5. OneOwner' /\ OwnedNotConsumed'
    BY <2>1, <2>4 DEF LeaseInv, OneOwner, OwnedNotConsumed
  <2>6. DeferredHasReader'
    BY <2>1 DEF LeaseInv, DeferredHasReader, Read
  <2>7. NoneReadWhileCleaned'
    BY <2>1, <2>2 DEF LeaseInv, NoneReadWhileCleaned, Read
  <2> QED
    BY <1>0, <2>5, <2>6, <2>7 DEF LeaseInv
<1>2. ASSUME NEW h \in pend[a].doomed, RunCleaner(a, h) PROVE LeaseInv'
  <2>1. /\ cleanerRuns' = [cleanerRuns EXCEPT ![h] = @ + 1]
        /\ UNCHANGED <<job, leases, stored, deferred>>
    BY <1>2 DEF RunCleaner
  <2>2. /\ pend'[a].cleanups = pend[a].cleanups
        /\ pend'[a].doomed = pend[a].doomed \ {h}
        /\ \A b \in Agent : b # a => pend'[b] = pend[b]
    BY <1>0, <1>2 DEF RunCleaner, TypeOK, Pending
  <2>3. h \in Handle /\ Consumed(h) /\ leases[h] = {}
    BY <1>0 DEF LeaseInv, Pending, Consumed, NoneReadWhileCleaned
  <2>4. ASSUME NEW x \in Handle, Consumed(x)' PROVE Consumed(x)
    <3>1. CASE x = h
      BY <2>3, <3>1
    <3>2. CASE x # h
      <4>1. cleanerRuns'[x] = cleanerRuns[x]
        BY <1>0, <2>1, <3>2 DEF TypeOK
      <4> QED
        BY <2>1, <2>2, <2>4, <4>1 DEF Consumed
    <3> QED
      BY <3>1, <3>2
  <2>5. OneOwner' /\ OwnedNotConsumed' /\ DeferredHasReader'
    BY <2>1, <2>4 DEF LeaseInv, OneOwner, OwnedNotConsumed, DeferredHasReader
  <2>6. NoneReadWhileCleaned'
    BY <1>0, <2>1, <2>2, <2>3 DEF LeaseInv, NoneReadWhileCleaned, TypeOK
  <2> QED
    BY <1>0, <2>5, <2>6 DEF LeaseInv
<1>3. ASSUME \/ \E r \in pend[a].releases : ReleaseHeavy(a, r)
             \/ \E m \in Timer : InstallTimer(a, m)
             \/ SkipTimer(a)
             \/ StartTimer(a)
      PROVE  LeaseInv'
  <2>1. UNCHANGED <<job, leases, deferred, stored, cleanerRuns>>
    BY <1>3 DEF ReleaseHeavy, InstallTimer, SkipTimer, StartTimer
  <2>2. \A b \in Agent : /\ pend'[b].cleanups = pend[b].cleanups
                         /\ pend'[b].doomed = pend[b].doomed
    <3>1. CASE \E r \in pend[a].releases : ReleaseHeavy(a, r)
      BY <1>0, <3>1 DEF ReleaseHeavy, TypeOK, Pending
    <3>2. CASE \E m \in Timer : InstallTimer(a, m)
      <4>1. PICK m \in Timer :
              pend' = [pend EXCEPT ![a].schedule = NoSchedule, ![a].start = m]
        BY <3>2 DEF InstallTimer
      <4> QED
        BY <1>0, <4>1 DEF TypeOK, Pending
    <3>3. CASE SkipTimer(a)
      <4>1. pend' = [pend EXCEPT ![a].schedule = NoSchedule]
        BY <3>3 DEF SkipTimer
      <4> QED
        BY <1>0, <4>1 DEF TypeOK, Pending
    <3>4. CASE StartTimer(a)
      <4>1. pend' = [pend EXCEPT ![a].start = NoTimer]
        BY <3>4 DEF StartTimer
      <4> QED
        BY <1>0, <4>1 DEF TypeOK, Pending
    <3> QED
      BY <1>3, <3>1, <3>2, <3>3, <3>4
  <2> QED
    BY <1>0, <2>1, <2>2, NeutralStep
<1> QED
  BY <1>1, <1>2, <1>3 DEF AfterLock

\* So do timers.
LEMMA TimerLease ==
  ASSUME LeaseInv, NEW m \in Timer, TimerFires(m) \/ TimerCallback(m) PROVE LeaseInv'
<1> m \in Agent
  BY DEF Agent
<1>0. TypeOK /\ TypeOK'
  BY TimerType DEF LeaseInv
<1>1. CASE TimerFires(m)
  BY <1>0, <1>1, NeutralStep DEF TimerFires
<1>2. CASE TimerCallback(m)
  <2> DEFINE j == timer[m].job
  <2>1. \A i \in Job : job'[i].handles = job[i].handles
    <3>1. job' = job \/ job' = [job EXCEPT ![j] = Cleared(job[j])]
      BY <1>2 DEF TimerCallback
    <3>2. j \in Job
      BY <1>0, <1>2 DEF TimerCallback, TypeOK
    <3>3. Cleared(job[j]).handles = job[j].handles
      BY <1>0, <3>2 DEF TypeOK, Record, Cleared
    <3> QED
      BY <1>0, <3>1, <3>2, <3>3 DEF TypeOK
  <2>2. PICK ss : Collect(m, {}, ss, NoSchedule)
    BY <1>2 DEF TimerCallback
  <2>3. PICK p : /\ pend' = [pend EXCEPT ![m] = p]
                 /\ p.cleanups = {} /\ p.doomed = {}
    BY <2>2, CollectQueues
  <2>4. UNCHANGED <<leases, deferred, stored, cleanerRuns>>
    BY <1>2 DEF TimerCallback
  <2>5. SectionEffect(m, p, NoJob, {})
    BY <2>1, <2>3, <2>4 DEF SectionEffect
  <2> QED
    BY <1>0, <2>5, SectionStep
<1> QED
  BY <1>1, <1>2

\* Nothing is owned, leased or cleaned in the beginning.
LEMMA InitLease == Init => LeaseInv
<1> SUFFICES ASSUME Init PROVE LeaseInv
  OBVIOUS
<1>1. TypeOK
  BY InitType
<1>2. \A j \in Job : job[j].handles = {}
  BY DEF Init, EmptyRecord
<1>3. \A h \in Handle : ~Consumed(h) /\ leases[h] = {}
  BY DEF Init, Consumed, NoPending
<1> QED
  BY <1>1, <1>2, <1>3
     DEF LeaseInv, OneOwner, OwnedNotConsumed, NoneReadWhileCleaned, DeferredHasReader, Init

\* Every step of JobStore preserves the inductive invariant.
LEMMA NextLease == LeaseInv /\ [Next]_vars => LeaseInv'
<1> SUFFICES ASSUME LeaseInv, [Next]_vars PROVE LeaseInv'
  OBVIOUS
<1>0. TypeOK'
  BY NextType DEF LeaseInv
<1>1. CASE Tick
  BY <1>0, <1>1, NeutralStep DEF Tick
<1>2. CASE UNCHANGED vars
  BY <1>0, <1>2, NeutralStep DEF vars
<1> QED
  BY <1>1, <1>2, OperationLease, AfterLockLease, TimerLease DEF Next

\* For any number of jobs, threads and artifacts: while a reader holds a lease
\* no cleaner of the artifact has run and none has been decided on, whatever
\* expiry, deletion, eviction or supersession detaches meanwhile.
THEOREM LeaseSafety == Spec => []LeasedArtifactIntact
<1>1. LeaseInv => LeasedArtifactIntact
  BY DEF LeaseInv, NoneReadWhileCleaned, LeasedArtifactIntact, DoomedBy
<1> QED
  BY <1>1, InitLease, NextLease, PTL DEF Spec

\* A deferred cleanup is never orphaned: some reader still holds the lease
\* whose release runs it.
THEOREM DeferredNotOrphaned == Spec => []DeferredHasReader
<1>1. LeaseInv => DeferredHasReader
  BY DEF LeaseInv
<1> QED
  BY <1>1, InitLease, NextLease, PTL DEF Spec
-----------------------------------------------------------------------------
(* Every artifact and every resource has one custodian                     *)

\* A callback runs on an agent that has nothing left to do: a timer object is used
\* for one schedule, and its agent is idle until the callback's block is over.
TimersIdle == \A m \in Timer : timer[m].st # "free" => Idle(m)

\* An id that was never given out owns nothing.
UnbornBare ==
  \A j \in Job : job[j].status = "unborn" =>
    job[j].handles = {} /\ job[j].session = NoResource

\* No adopted artifact is forgotten: it is owned, or its cleanup is decided or over.
HandleKept ==
  \A h \in Handle \cap stored : Consumed(h) \/ \E j \in Job : h \in job[j].handles

\* A cleanup is decided once, and is at one stage.
ConsumedOnce ==
  \A h \in Handle :
    /\ \A a, b \in Agent : \A g \in pend[a].cleanups, i \in pend[b].cleanups :
          h \in g /\ h \in i => a = b /\ g = i
    /\ \A a, b \in Agent : h \in pend[a].doomed /\ h \in pend[b].doomed => a = b
    /\ (\E a \in Agent : h \in pend[a].doomed) \/ h \in deferred \/ cleanerRuns[h] # 0 =>
          \A a \in Agent : \A g \in pend[a].cleanups : h \notin g
    /\ (\E a \in Agent : h \in pend[a].doomed) => h \notin deferred /\ cleanerRuns[h] = 0
    /\ h \in deferred => cleanerRuns[h] = 0
    /\ cleanerRuns[h] \in {0, 1}

\* The release of a resource has been decided, or is over.
Given(r) == (\E a \in Agent : r \in pend[a].releases) \/ releaseRuns[r] # 0

\* No resource is forgotten, and none is in two records or released under a record.
ResourceKept ==
  \A r \in Resource :
    /\ r \in stored => Given(r) \/ \E j \in Job : job[j].session = r
    /\ \A i, j \in Job : job[i].session = r /\ job[j].session = r => i = j
    /\ \A j \in Job : job[j].session = r => r \in stored /\ ~Given(r)
    /\ Given(r) => r \in stored

\* A resource is released once.
GivenOnce ==
  \A r \in Resource :
    /\ \A a, b \in Agent : r \in pend[a].releases /\ r \in pend[b].releases => a = b
    /\ (\E a \in Agent : r \in pend[a].releases) => releaseRuns[r] = 0
    /\ releaseRuns[r] \in {0, 1}

\* The inductive invariant of both custodies.
CustodyInv ==
  /\ LeaseInv
  /\ TimersIdle
  /\ UnbornBare
  /\ HandleKept
  /\ ConsumedOnce
  /\ ResourceKept
  /\ GivenOnce

-----------------------------------------------------------------------------
(* What a critical section does to the custody of artifacts and resources *)

\* A block of an idle agent a: it leaves p to a and touches no other custodian.
Block(a, p) ==
  /\ Idle(a)
  /\ pend' = [pend EXCEPT ![a] = p]
  /\ p.doomed = {}
  /\ deferred' = deferred
  /\ cleanerRuns' = cleanerRuns
  /\ releaseRuns' = releaseRuns

\* Records adopt the new artifacts N, and what leaves a record is queued, once.
HandlesMove(p, N) ==
  /\ \A h \in Handle : h \in stored' => h \in stored \/ h \in N
  /\ \A h \in N : \E j \in Job : h \in job'[j].handles
  /\ \A j \in Job : \A h \in job[j].handles :
       h \in job'[j].handles \/ \E g \in p.cleanups : h \in g
  /\ \A g \in p.cleanups : \A h \in g : \E j \in Job : h \in job[j].handles
  /\ \A g, i \in p.cleanups : \A h : h \in g /\ h \in i => g = i

\* Record j0 may adopt a new resource of R, and what leaves a record, or is not
\* taken into it, is queued.
SessionsMove(p, j0, R) ==
  /\ R \cap stored = {}
  /\ \A r \in Resource : r \in stored' <=> r \in stored \/ r \in R
  /\ \A j \in Job : \/ job'[j].session \in {job[j].session, NoResource}
                    \/ j = j0 /\ job'[j].session \in R
  /\ \A r \in Resource \cap R :
       (\E j \in Job : job'[j].session = r) \/ r \in p.releases
  /\ \A j \in Job : job[j].session \in Resource =>
       job'[j].session = job[j].session \/ job[j].session \in p.releases
  /\ \A r \in p.releases :
       /\ r \in R \/ \E j \in Job : job[j].session = r
       /\ \A j \in Job : job'[j].session # r

\* A block moves every artifact from one custodian to the next.
LEMMA BlockHandles ==
  ASSUME CustodyInv, NEW a \in Agent, NEW p, NEW N, Block(a, p), HandlesMove(p, N)
  PROVE  HandleKept' /\ ConsumedOnce'
<1>1. TypeOK /\ OwnedNotConsumed /\ ConsumedOnce /\ HandleKept
  BY DEF CustodyInv, LeaseInv
<1>2. pend'[a] = p /\ \A b \in Agent : b # a => pend'[b] = pend[b]
  BY <1>1 DEF Block, TypeOK
<1>3. pend[a].cleanups = {} /\ pend[a].doomed = {} /\ p.doomed = {}
  BY DEF Block, Idle, NoPending
<1>4. \A b \in Agent : pend'[b].doomed = pend[b].doomed
  BY <1>2, <1>3
<1>5. \A b \in Agent : \A g :
        g \in pend'[b].cleanups <=> g \in pend[b].cleanups \/ (b = a /\ g \in p.cleanups)
  BY <1>2, <1>3
<1>6. deferred' = deferred /\ cleanerRuns' = cleanerRuns
  BY DEF Block
<1>7. \A h : Consumed(h) => Consumed(h)'
  BY <1>4, <1>5, <1>6 DEF Consumed
<1>8. \A g \in p.cleanups : \A h \in g : h \in Handle => ~Consumed(h)
  BY <1>1 DEF HandlesMove, OwnedNotConsumed
<1>9. HandleKept'
  <2> SUFFICES ASSUME NEW h \in Handle, h \in stored'
               PROVE  Consumed(h)' \/ \E j \in Job : h \in job'[j].handles
    BY DEF HandleKept
  <2>1. CASE h \in N
    BY <2>1 DEF HandlesMove
  <2>2. CASE Consumed(h)
    BY <1>7, <2>2
  <2>3. ASSUME NEW j \in Job, h \in job[j].handles
        PROVE  Consumed(h)' \/ h \in job'[j].handles
    <3>1. CASE \E g \in p.cleanups : h \in g
      BY <1>5, <3>1 DEF Consumed
    <3> QED
      BY <2>3, <3>1 DEF HandlesMove
  <2>4. h \in stored \/ h \in N
    BY DEF HandlesMove
  <2> QED
    BY <1>1, <2>1, <2>2, <2>3, <2>4 DEF HandleKept
<1>10. ConsumedOnce'
  <2> SUFFICES ASSUME NEW h \in Handle
               PROVE
    /\ \A b, c \in Agent : \A g \in pend'[b].cleanups, i \in pend'[c].cleanups :
          h \in g /\ h \in i => b = c /\ g = i
    /\ \A b, c \in Agent : h \in pend'[b].doomed /\ h \in pend'[c].doomed => b = c
    /\ (\E b \in Agent : h \in pend'[b].doomed) \/ h \in deferred' \/ cleanerRuns'[h] # 0 =>
          \A b \in Agent : \A g \in pend'[b].cleanups : h \notin g
    /\ (\E b \in Agent : h \in pend'[b].doomed) => h \notin deferred' /\ cleanerRuns'[h] = 0
    /\ h \in deferred' => cleanerRuns'[h] = 0
    /\ cleanerRuns'[h] \in {0, 1}
    BY DEF ConsumedOnce
  <2>1. ASSUME NEW b \in Agent, NEW c \in Agent,
               NEW g \in pend'[b].cleanups, NEW i \in pend'[c].cleanups, h \in g, h \in i
        PROVE  b = c /\ g = i
    <3>1. CASE g \in pend[b].cleanups /\ i \in pend[c].cleanups
      BY <1>1, <2>1, <3>1 DEF ConsumedOnce
    <3>2. CASE b = a /\ g \in p.cleanups /\ c = a /\ i \in p.cleanups
      BY <2>1, <3>2 DEF HandlesMove
    <3>3. CASE g \in pend[b].cleanups /\ i \in p.cleanups
      BY <1>8, <2>1, <3>3 DEF Consumed
    <3>4. CASE g \in p.cleanups /\ i \in pend[c].cleanups
      BY <1>8, <2>1, <3>4 DEF Consumed
    <3> QED
      BY <1>5, <3>1, <3>2, <3>3, <3>4
  <2>2. ASSUME (\E b \in Agent : h \in pend'[b].doomed) \/ h \in deferred' \/ cleanerRuns'[h] # 0,
               NEW b \in Agent, NEW g \in pend'[b].cleanups, h \in g
        PROVE  FALSE
    <3>1. /\ Consumed(h)
          /\ (\E c \in Agent : h \in pend[c].doomed) \/ h \in deferred \/ cleanerRuns[h] # 0
      BY <1>4, <1>6, <2>2 DEF Consumed
    <3>2. CASE g \in pend[b].cleanups
      BY <1>1, <2>2, <3>1, <3>2 DEF ConsumedOnce
    <3>3. CASE g \in p.cleanups
      BY <1>8, <2>2, <3>1, <3>3
    <3> QED
      BY <1>5, <3>2, <3>3
  <2>3. /\ \A b, c \in Agent : h \in pend'[b].doomed /\ h \in pend'[c].doomed => b = c
        /\ (\E b \in Agent : h \in pend'[b].doomed) => h \notin deferred' /\ cleanerRuns'[h] = 0
        /\ h \in deferred' => cleanerRuns'[h] = 0
        /\ cleanerRuns'[h] \in {0, 1}
    BY <1>1, <1>4, <1>6 DEF ConsumedOnce
  <2> QED
    BY <2>1, <2>2, <2>3
<1> QED
  BY <1>9, <1>10

\* A block moves every resource from one custodian to the next.
LEMMA BlockSessions ==
  ASSUME CustodyInv, NEW a \in Agent, NEW p, NEW j0, NEW R, Block(a, p),
         SessionsMove(p, j0, R)
  PROVE  ResourceKept' /\ GivenOnce'
<1>1. TypeOK /\ ResourceKept /\ GivenOnce
  BY DEF CustodyInv, LeaseInv
<1>2. pend'[a] = p /\ \A b \in Agent : b # a => pend'[b] = pend[b]
  BY <1>1 DEF Block, TypeOK
<1>3. pend[a].releases = {}
  BY DEF Block, Idle, NoPending
<1>4. \A b \in Agent : \A r :
        r \in pend'[b].releases <=> r \in pend[b].releases \/ (b = a /\ r \in p.releases)
  BY <1>2, <1>3
<1>5. releaseRuns' = releaseRuns
  BY DEF Block
<1>6. \A r : Given(r)' <=> Given(r) \/ r \in p.releases
  BY <1>4, <1>5 DEF Given
<1>7. \A r \in p.releases : r \in Resource => ~Given(r)
  BY <1>1 DEF SessionsMove, ResourceKept
<1>8. NoResource \notin Resource
  BY NamesAssumption
<1>9. ResourceKept'
  <2> SUFFICES ASSUME NEW r \in Resource
               PROVE
    /\ r \in stored' => Given(r)' \/ \E j \in Job : job'[j].session = r
    /\ \A i, j \in Job : job'[i].session = r /\ job'[j].session = r => i = j
    /\ \A j \in Job : job'[j].session = r => r \in stored' /\ ~Given(r)'
    /\ Given(r)' => r \in stored'
    BY DEF ResourceKept
  <2>1. ASSUME r \in stored' PROVE Given(r)' \/ \E j \in Job : job'[j].session = r
    BY <1>1, <1>6, <2>1 DEF SessionsMove, ResourceKept
  <2>2. ASSUME NEW j \in Job, job'[j].session = r
        PROVE  IF r \in R THEN j = j0 ELSE job[j].session = r
    BY <1>1, <1>8, <2>2 DEF SessionsMove, ResourceKept
  <2>3. ASSUME NEW i \in Job, NEW j \in Job, job'[i].session = r, job'[j].session = r
        PROVE  i = j
    BY <1>1, <2>2, <2>3 DEF ResourceKept
  <2>4. ASSUME NEW j \in Job, job'[j].session = r PROVE r \in stored' /\ ~Given(r)'
    BY <1>1, <1>6, <2>2, <2>4 DEF SessionsMove, ResourceKept
  <2>5. ASSUME Given(r)' PROVE r \in stored'
    BY <1>1, <1>6, <2>5 DEF SessionsMove, ResourceKept
  <2> QED
    BY <2>1, <2>3, <2>4, <2>5
<1>10. GivenOnce'
  <2> SUFFICES ASSUME NEW r \in Resource
               PROVE
    /\ \A b, c \in Agent : r \in pend'[b].releases /\ r \in pend'[c].releases => b = c
    /\ (\E b \in Agent : r \in pend'[b].releases) => releaseRuns'[r] = 0
    /\ releaseRuns'[r] \in {0, 1}
    BY DEF GivenOnce
  <2>1. CASE r \in p.releases
    BY <1>1, <1>4, <1>5, <1>7, <2>1 DEF Given
  <2>2. CASE r \notin p.releases
    BY <1>1, <1>4, <1>5, <2>2 DEF GivenOnce
  <2> QED
    BY <2>1, <2>2
<1> QED
  BY <1>9, <1>10

\* What Collect leaves to an idle agent.
LEMMA CollectBlock ==
  ASSUME NEW a \in Agent, NEW groups, NEW sessions, NEW schedule, Idle(a),
         Collect(a, groups, sessions, schedule),
         UNCHANGED <<deferred, cleanerRuns, releaseRuns>>
  PROVE  \E p : Block(a, p) /\ p.cleanups = groups /\ p.releases = sessions
<1> DEFINE p == [NoPending EXCEPT !.cleanups = groups, !.releases = sessions,
                                  !.schedule = schedule]
<1>1. pend' = [pend EXCEPT ![a] = p]
  BY DEF Collect
<1>2. p.cleanups = groups /\ p.doomed = {} /\ p.releases = sessions
  BY DEF NoPending
<1> HIDE DEF p
<1>3. Block(a, p)
  BY <1>1, <1>2 DEF Block
<1> QED
  BY <1>2, <1>3

\* Two queued groups are those of two jobs, which own nothing in common.
LEMMA GroupsAreDisjoint ==
  ASSUME LeaseInv, NEW js \in SUBSET Job, NEW g \in HandleGroups(js),
         NEW i \in HandleGroups(js), NEW h, h \in g, h \in i
  PROVE  g = i
<1>1. PICK j \in js : g = job[j].handles
  BY DEF HandleGroups
<1>2. PICK k \in js : i = job[k].handles
  BY DEF HandleGroups
<1>3. h \in Handle
  BY <1>1 DEF LeaseInv, TypeOK, Record
<1> QED
  BY <1>1, <1>2, <1>3 DEF LeaseInv, OneOwner

\* What a sweep leaves in a record.
LEMMA EvictionKeeps ==
  ASSUME TypeOK, NEW j \in Job
  PROVE  /\ AfterEviction[j].handles = IF j \in StaleJobs THEN {} ELSE job[j].handles
         /\ AfterEviction[j].session =
              IF j \in StaleJobs \cup ExpiredJobs THEN NoResource ELSE job[j].session
<1>1. job[j] \in Record
  BY DEF TypeOK
<1>2. /\ EmptyRecord("gone").handles = {} /\ EmptyRecord("gone").session = NoResource
      /\ Cleared(job[j]).handles = job[j].handles /\ Cleared(job[j]).session = NoResource
  BY <1>1 DEF EmptyRecord, Cleared, Record
<1> QED
  BY <1>2 DEF AfterEviction, StaleJobs, ExpiredJobs

\* A block that removes the records of gone, strips those of shed, and queues what they
\* owned, moves custody properly.
LEMMA RemovalKeeps ==
  ASSUME CustodyInv, NEW a \in Agent, NEW gone \in SUBSET Job, NEW shed \in SUBSET Job,
         NEW schedule, Idle(a),
         Collect(a, HandleGroups(gone), Sessions(shed), schedule),
         \A j \in Job :
           /\ job'[j].handles = IF j \in gone THEN {} ELSE job[j].handles
           /\ job'[j].session = IF j \in shed THEN NoResource ELSE job[j].session,
         UNCHANGED <<deferred, stored, cleanerRuns, releaseRuns>>
  PROVE  HandleKept' /\ ConsumedOnce' /\ ResourceKept' /\ GivenOnce'
<1>0. LeaseInv /\ TypeOK
  BY DEF CustodyInv, LeaseInv
<1>1. PICK p : Block(a, p) /\ p.cleanups = HandleGroups(gone) /\ p.releases = Sessions(shed)
  BY CollectBlock
<1>2. \A j \in gone : \A h \in job[j].handles : \E g \in p.cleanups : h \in g
  BY <1>1 DEF HandleGroups
<1>3. \A g \in p.cleanups : \A h \in g : \E j \in Job : h \in job[j].handles
  BY <1>1, GroupMember
<1>4. \A g, i \in p.cleanups : \A h : h \in g /\ h \in i => g = i
  BY <1>0, <1>1, GroupsAreDisjoint
<1>5. HandlesMove(p, {})
  BY <1>2, <1>3, <1>4 DEF HandlesMove
<1>6. \A j \in shed : job[j].session \in Resource => job[j].session \in p.releases
  BY <1>1, NamesAssumption DEF Sessions
<1>7. ASSUME NEW r \in p.releases
      PROVE  (\E j \in Job : job[j].session = r) /\ \A j \in Job : job'[j].session # r
  <2>1. PICK k \in shed : job[k].session = r /\ r # NoResource
    BY <1>1, <1>7 DEF Sessions
  <2>2. r \in Resource
    BY <1>0, <2>1 DEF TypeOK, Record
  <2>3. ASSUME NEW j \in Job, job'[j].session = r PROVE FALSE
    <3>1. j \notin shed /\ job[j].session = r
      BY <2>1, <2>3
    <3> QED
      BY <2>1, <2>2, <3>1 DEF CustodyInv, ResourceKept
  <2> QED
    BY <2>1, <2>3
<1>8. SessionsMove(p, NoJob, {})
  BY <1>6, <1>7 DEF SessionsMove
<1> QED
  BY <1>1, <1>5, <1>8, BlockHandles, BlockSessions

\* So does a sweep, whatever else the block does to the records it leaves.
LEMMA SweepKeeps ==
  ASSUME CustodyInv, NEW a \in Agent, NEW schedule, Idle(a),
         Collect(a, HandleGroups(StaleJobs), Sessions(StaleJobs \cup ExpiredJobs), schedule),
         \A j \in Job : /\ job'[j].handles = AfterEviction[j].handles
                        /\ job'[j].session = AfterEviction[j].session,
         UNCHANGED <<deferred, stored, cleanerRuns, releaseRuns>>
  PROVE  HandleKept' /\ ConsumedOnce' /\ ResourceKept' /\ GivenOnce'
<1>0. TypeOK
  BY DEF CustodyInv, LeaseInv
<1>1. StaleJobs \in SUBSET Job /\ StaleJobs \cup ExpiredJobs \in SUBSET Job
  BY DEF StaleJobs, ExpiredJobs
<1> QED
  BY <1>0, <1>1, EvictionKeeps, RemovalKeeps

\* The session of a merged record.
LEMMA MergedSession ==
  ASSUME NEW r \in Record, NEW f \in Fields, NEW status, NEW ts
  PROVE  Merged(r, f, status, ts).session =
           IF status \notin {"running", "completed"} THEN NoResource
           ELSE IF f.session # NoResource THEN f.session ELSE r.session
BY DEF Merged, Record

\* So does a merge whose dropped artifacts are the record's own.
LEMMA MergeKeeps ==
  ASSUME CustodyInv, NEW a \in Agent, NEW j \in Job, NEW f \in Fields,
         NEW status, NEW ts, Idle(a), StoreMerged(a, j, f, status, ts),
         f.drop \subseteq job[j].handles,
         UNCHANGED <<deferred, cleanerRuns, releaseRuns>>
  PROVE  HandleKept' /\ ConsumedOnce' /\ ResourceKept' /\ GivenOnce'
<1>0. TypeOK /\ job[j] \in Record
  BY DEF CustodyInv, LeaseInv, TypeOK
<1>1. PICK p : /\ Block(a, p) /\ p.cleanups = {f.drop} \ {{}}
               /\ p.releases = MergeDetached(job[j], f, status)
  BY CollectBlock DEF StoreMerged
<1>2. /\ job'[j].handles = (job[j].handles \ f.drop) \cup f.add
      /\ job'[j].session = IF status \notin {"running", "completed"} THEN NoResource
                           ELSE IF f.session # NoResource THEN f.session
                           ELSE job[j].session
  BY <1>0, MergedHandles, MergedSession DEF StoreMerged, TypeOK
<1>3. \A i \in Job : i # j => job'[i] = job[i]
  BY <1>0 DEF StoreMerged, TypeOK
<1>4. /\ f.add \in SUBSET Handle /\ f.session \notin stored
      /\ f.session \in Resource \cup {NoResource}
      /\ stored' = stored \cup f.add \cup ({f.session} \ {NoResource})
  BY DEF StoreMerged, Fields
<1>5. NoResource \notin Resource /\ Handle \cap Resource = {}
  BY NamesAssumption
<1>6. HandlesMove(p, f.add)
  <2>1. \A h \in Handle : h \in stored' => h \in stored \/ h \in f.add
    BY <1>4, <1>5
  <2>2. \A h \in f.add : \E i \in Job : h \in job'[i].handles
    BY <1>2
  <2>3. ASSUME NEW i \in Job, NEW h \in job[i].handles
        PROVE  h \in job'[i].handles \/ \E g \in p.cleanups : h \in g
    <3>1. CASE i = j
      BY <1>1, <1>2, <2>3, <3>1
    <3> QED
      BY <1>3, <3>1
  <2>4. \A g \in p.cleanups : g = f.drop
    BY <1>1
  <2> QED
    BY <2>1, <2>2, <2>3, <2>4 DEF HandlesMove
<1>7. SessionsMove(p, j, {f.session})
  <2> DEFINE s0 == f.session
             bad == status \notin {"running", "completed"}
  <2>1. \A r \in Resource : r \in stored' <=> r \in stored \/ r = s0
    BY <1>4, <1>5
  <2>2. \A i \in Job : \/ job'[i].session \in {job[i].session, NoResource}
                       \/ i = j /\ job'[i].session = s0
    BY <1>2, <1>3
  <2>3. p.releases = { s \in {job[j].session, s0} \ {NoResource} :
                         \/ s = job[j].session /\ s0 \notin {NoResource, s}
                         \/ bad }
    BY <1>1 DEF MergeDetached
  <2>4. s0 \in Resource => (\E i \in Job : job'[i].session = s0) \/ s0 \in p.releases
    BY <1>2, <1>5, <2>3
  <2>5. ASSUME NEW i \in Job, job[i].session \in Resource
        PROVE  job'[i].session = job[i].session \/ job[i].session \in p.releases
    <3>1. CASE i = j
      BY <1>2, <1>5, <2>3, <2>5, <3>1
    <3> QED
      BY <1>3, <3>1
  <2>6. ASSUME NEW r \in p.releases
        PROVE  /\ r = s0 \/ \E i \in Job : job[i].session = r
               /\ \A i \in Job : job'[i].session # r
    <3>1. r \in Resource /\ r \in {job[j].session, s0}
      BY <1>0, <1>4, <2>3, <2>6 DEF Record
    <3>2. job'[j].session # r
      BY <1>2, <1>5, <2>3, <2>6, <3>1
    <3>3. ASSUME NEW i \in Job, i # j, job'[i].session = r PROVE FALSE
      <4>1. job[i].session = r /\ r \in stored
        BY <1>3, <3>1, <3>3 DEF CustodyInv, ResourceKept
      <4>2. job[j].session = r
        BY <1>4, <3>1, <4>1
      <4> QED
        BY <3>1, <3>3, <4>1, <4>2 DEF CustodyInv, ResourceKept
    <3> QED
      BY <3>1, <3>2, <3>3
  <2> QED
    BY <1>4, <2>1, <2>2, <2>4, <2>5, <2>6 DEF SessionsMove
<1> QED
  BY <1>1, <1>6, <1>7, BlockHandles, BlockSessions

\* Every operation of a caller's thread moves custody properly.
LEMMA OperationCustody ==
  ASSUME CustodyInv, NEW t \in Thread, Operation(t)
  PROVE  HandleKept' /\ ConsumedOnce' /\ ResourceKept' /\ GivenOnce'
<1> DEFINE Goal == HandleKept' /\ ConsumedOnce' /\ ResourceKept' /\ GivenOnce'
<1> t \in Agent
  BY DEF Agent
<1>0. TypeOK /\ AfterEviction \in [Job -> Record]
  BY AfterEvictionType DEF CustodyInv, LeaseInv
<1>1. CASE Poll(t)
  BY <1>1, SweepKeeps DEF Poll, EvictOnly
<1>2. ASSUME NEW j \in Job, CreateJob(t, j) PROVE Goal
  <2>1. /\ job' = [AfterEviction EXCEPT ![j] = [EmptyRecord("running") EXCEPT !.created = now]]
        /\ job[j].status = "unborn"
    BY <1>2 DEF CreateJob
  <2>2. /\ [EmptyRecord("running") EXCEPT !.created = now].handles = {}
        /\ [EmptyRecord("running") EXCEPT !.created = now].session = NoResource
    BY DEF EmptyRecord
  <2>3. AfterEviction[j].handles = {} /\ AfterEviction[j].session = NoResource
    BY <1>0, <2>1, EvictionKeeps DEF CustodyInv, UnbornBare
  <2>4. \A i \in Job : /\ job'[i].handles = AfterEviction[i].handles
                       /\ job'[i].session = AfterEviction[i].session
    BY <1>0, <2>1, <2>2, <2>3
  <2>5. /\ Idle(t)
        /\ Collect(t, HandleGroups(StaleJobs), Sessions(StaleJobs \cup ExpiredJobs), NoSchedule)
        /\ UNCHANGED <<deferred, stored, cleanerRuns, releaseRuns>>
    BY <1>2 DEF CreateJob
  <2> QED
    BY <2>4, <2>5, SweepKeeps
<1>3. ASSUME NEW j \in Job, NEW f \in UpdateFields, AtomicUpdate(t, j, f) PROVE Goal
  <2>1. f \in Fields /\ f.drop = {}
    BY UpdateFieldsType DEF UpdateFields
  <2> QED
    BY <1>3, <2>1, MergeKeeps DEF AtomicUpdate
<1>4. ASSUME NEW j \in Job, NEW h \in Handle, NEW ev \in SUBSET Handle,
             PublishPointHandle(t, j, h, ev)
      PROVE  Goal
  <2> DEFINE f == [NoFields EXCEPT !.add = {h}, !.drop = ev]
  <2>1. f \in Fields /\ f.drop = ev
    BY DEF NoFields, Fields
  <2>2. /\ StoreMerged(t, j, f, "completed", now) /\ Idle(t)
        /\ ev \subseteq job[j].handles
        /\ UNCHANGED <<deferred, cleanerRuns, releaseRuns>>
    BY <1>4 DEF PublishPointHandle
  <2> HIDE DEF f
  <2> QED
    BY <2>1, <2>2, MergeKeeps
<1>5. ASSUME NEW j \in Job, NEW f \in CompletionFields, PublishCompletion(t, j, f) PROVE Goal
  <2>1. f \in Fields /\ f.drop = {}
    BY UpdateFieldsType DEF CompletionFields
  <2> QED
    BY <1>5, <2>1, MergeKeeps DEF PublishCompletion
<1>6. ASSUME NEW j \in Job, NEW to, NEW ex, NEW ts, TransitionTerminal(t, j, to, ex, ts)
      PROVE  Goal
  <2>1. NoFields \in Fields /\ NoFields.drop = {}
    BY DEF NoFields, Fields
  <2> QED
    BY <1>6, <2>1, MergeKeeps DEF TransitionTerminal
<1>7. ASSUME NEW j \in Job, TouchHeavyObjects(t, j) PROVE Goal
  <2>1. PICK e : job' = [AfterEviction EXCEPT ![j].expires = e]
    BY <1>7 DEF TouchHeavyObjects
  <2>2. \A i \in Job : /\ job'[i].handles = AfterEviction[i].handles
                       /\ job'[i].session = AfterEviction[i].session
    BY <1>0, <2>1 DEF Record
  <2>3. PICK sc : Collect(t, HandleGroups(StaleJobs), Sessions(StaleJobs \cup ExpiredJobs), sc)
    BY <1>7 DEF TouchHeavyObjects
  <2>4. Idle(t) /\ UNCHANGED <<deferred, stored, cleanerRuns, releaseRuns>>
    BY <1>7 DEF TouchHeavyObjects
  <2> QED
    BY <2>2, <2>3, <2>4, SweepKeeps
<1>8. ASSUME NEW j \in Job, NEW pl, NEW se, ClearResultData(t, j, pl, se) PROVE Goal
  <2> DEFINE shed == IF se THEN {j} ELSE {}
  <2>1. PICK c : /\ job' = [job EXCEPT ![j] = c] /\ c.handles = job[j].handles
                 /\ c.session = IF se THEN NoResource ELSE job[j].session
    <3> DEFINE c0 == [job[j] EXCEPT !.plain = @ /\ ~pl,
                                    !.session = IF se THEN NoResource ELSE @]
               c1 == IF HasHeavy(c0) THEN c0 ELSE [c0 EXCEPT !.expires = NoTime]
    <3>1. /\ c1.handles = job[j].handles
          /\ c1.session = IF se THEN NoResource ELSE job[j].session
      BY <1>0 DEF TypeOK, Record
    <3>2. job' = [job EXCEPT ![j] = c1]
      BY <1>8 DEF ClearResultData
    <3> HIDE DEF c1
    <3> QED
      BY <3>1, <3>2
  <2>2. \A i \in Job :
          /\ job'[i].handles = IF i \in {} THEN {} ELSE job[i].handles
          /\ job'[i].session = IF i \in shed THEN NoResource ELSE job[i].session
    BY <1>0, <2>1 DEF TypeOK
  <2>3. HandleGroups({}) = {} /\ Sessions({}) = {}
    BY DEF HandleGroups, Sessions
  <2>4. Collect(t, HandleGroups({}), Sessions(shed), NoSchedule)
    BY <1>8, <2>3 DEF ClearResultData
  <2>5. shed \in SUBSET Job /\ {} \in SUBSET Job
    OBVIOUS
  <2>6. Idle(t) /\ UNCHANGED <<deferred, stored, cleanerRuns, releaseRuns>>
    BY <1>8 DEF ClearResultData
  <2> HIDE DEF shed
  <2> QED
    BY <2>2, <2>4, <2>5, <2>6, RemovalKeeps
<1>9. ASSUME NEW j \in Job, NEW h \in Handle, DetachArtifactHandle(t, j, h) PROVE Goal
  <2>1. PICK p : Block(t, p) /\ p.cleanups = {{h}} /\ p.releases = {}
    BY <1>9, CollectBlock DEF DetachArtifactHandle
  <2>2. /\ job'[j].handles = job[j].handles \ {h} /\ job'[j].session = job[j].session
        /\ \A i \in Job : i # j => job'[i] = job[i]
    BY <1>0, <1>9 DEF DetachArtifactHandle, TypeOK, Record
  <2>3. h \in job[j].handles /\ stored' = stored
    BY <1>9 DEF DetachArtifactHandle
  <2>4. \A i \in Job : \A x \in job[i].handles :
          x \in job'[i].handles \/ \E g \in p.cleanups : x \in g
    BY <2>1, <2>2
  <2>5. HandlesMove(p, {})
    BY <2>1, <2>3, <2>4 DEF HandlesMove
  <2>6. SessionsMove(p, NoJob, {})
    BY <2>1, <2>2, <2>3 DEF SessionsMove
  <2> QED
    BY <2>1, <2>5, <2>6, BlockHandles, BlockSessions
<1>10. ASSUME NEW j \in Job, NEW h \in Handle, Lease(t, j, h) PROVE Goal
  BY <1>10, SweepKeeps DEF Lease, EvictOnly
<1>11. ASSUME NEW js \in SUBSET Job, RemoveJobs(t, js) PROVE Goal
  <2> DEFINE removed == {j \in js : Live(job[j])}
  <2>1. removed \in SUBSET Job
    OBVIOUS
  <2>2. \A i \in Job :
          /\ job'[i].handles = IF i \in removed THEN {} ELSE job[i].handles
          /\ job'[i].session = IF i \in removed THEN NoResource ELSE job[i].session
    BY <1>11 DEF RemoveJobs, EmptyRecord
  <2>3. /\ Collect(t, HandleGroups(removed), Sessions(removed), NoSchedule)
        /\ Idle(t) /\ UNCHANGED <<deferred, stored, cleanerRuns, releaseRuns>>
    BY <1>11 DEF RemoveJobs
  <2> HIDE DEF removed
  <2> QED
    BY <2>1, <2>2, <2>3, RemovalKeeps
<1>12. ASSUME NEW h \in Handle, Unlease(t, h) PROVE Goal
  <2>1. /\ deferred' = IF leases[h] = {t} THEN deferred \ {h} ELSE deferred
        /\ pend' = [pend EXCEPT ![t].doomed = TakeOver(t, h)]
        /\ UNCHANGED <<job, stored, cleanerRuns, releaseRuns>>
        /\ pend[t].doomed = {}
    BY <1>12 DEF Unlease, Idle, NoPending
  <2>2. \A b \in Agent : /\ pend'[b].cleanups = pend[b].cleanups
                         /\ pend'[b].releases = pend[b].releases
                         /\ b # t => pend'[b].doomed = pend[b].doomed
    BY <1>0, <2>1 DEF TypeOK, Pending
  <2>3. pend'[t].doomed = TakeOver(t, h)
    BY <1>0, <2>1 DEF TypeOK, Pending
  <2>4. ASSUME NEW x \in Handle PROVE Consumed(x) => Consumed(x)'
    BY <2>1, <2>2, <2>3 DEF Consumed, TakeOver
  <2>5. HandleKept'
    BY <2>1, <2>4 DEF CustodyInv, HandleKept
  <2>6. ConsumedOnce'
    <3>1. ASSUME NEW x \in Handle, x # h \/ TakeOver(t, h) = {}
          PROVE  /\ \A b \in Agent : x \in pend'[b].doomed <=> x \in pend[b].doomed
                 /\ x \in deferred' <=> x \in deferred
      BY <2>1, <2>2, <2>3, <3>1 DEF TakeOver
    <3>2. ASSUME TakeOver(t, h) # {}
          PROVE  /\ h \in deferred /\ h \notin deferred'
                 /\ \A b \in Agent : h \in pend'[b].doomed <=> b = t
                 /\ cleanerRuns'[h] = 0
      <4>1. h \in deferred /\ leases[h] = {t} /\ TakeOver(t, h) = {h}
        BY <3>2 DEF TakeOver
      <4>2. cleanerRuns[h] = 0 /\ \A b \in Agent : h \notin pend[b].doomed
        BY <4>1 DEF CustodyInv, ConsumedOnce
      <4> QED
        BY <2>1, <2>2, <2>3, <4>1, <4>2
    <3>3. ConsumedOnce
      BY DEF CustodyInv
    <3> SUFFICES ASSUME NEW x \in Handle
                 PROVE
      /\ \A b, c \in Agent : \A g \in pend'[b].cleanups, i \in pend'[c].cleanups :
            x \in g /\ x \in i => b = c /\ g = i
      /\ \A b, c \in Agent : x \in pend'[b].doomed /\ x \in pend'[c].doomed => b = c
      /\ (\E b \in Agent : x \in pend'[b].doomed) \/ x \in deferred' \/ cleanerRuns'[x] # 0 =>
            \A b \in Agent : \A g \in pend'[b].cleanups : x \notin g
      /\ (\E b \in Agent : x \in pend'[b].doomed) => x \notin deferred' /\ cleanerRuns'[x] = 0
      /\ x \in deferred' => cleanerRuns'[x] = 0
      /\ cleanerRuns'[x] \in {0, 1}
      BY DEF ConsumedOnce
    <3>4. CASE x # h \/ TakeOver(t, h) = {}
      BY <2>1, <2>2, <3>1, <3>3, <3>4 DEF ConsumedOnce
    <3>5. CASE x = h /\ TakeOver(t, h) # {}
      BY <2>1, <2>2, <3>2, <3>3, <3>5 DEF ConsumedOnce
    <3> QED
      BY <3>4, <3>5
  <2>7. ResourceKept' /\ GivenOnce'
    <3>1. \A r : Given(r)' <=> Given(r)
      BY <2>1, <2>2 DEF Given
    <3>2. ResourceKept'
      BY <2>1, <3>1 DEF CustodyInv, ResourceKept
    <3>3. GivenOnce'
      BY <2>1, <2>2 DEF CustodyInv, GivenOnce
    <3> QED
      BY <3>2, <3>3
  <2> QED
    BY <2>5, <2>6, <2>7
<1> QED
  BY <1>1, <1>2, <1>3, <1>4, <1>5, <1>6, <1>7, <1>8, <1>9, <1>10, <1>11, <1>12
     DEF Operation

\* A step that moves no artifact keeps their custody.
LEMMA HandlesRest ==
  ASSUME CustodyInv, \A h \in Handle : h \in stored' => h \in stored,
         \A j \in Job : job'[j].handles = job[j].handles,
         deferred' = deferred, cleanerRuns' = cleanerRuns,
         \A a \in Agent : /\ pend'[a].cleanups = pend[a].cleanups
                          /\ pend'[a].doomed = pend[a].doomed
  PROVE  HandleKept' /\ ConsumedOnce'
<1>1. \A h : Consumed(h)' <=> Consumed(h)
  BY DEF Consumed
<1>2. HandleKept'
  BY <1>1 DEF CustodyInv, HandleKept
<1>3. ConsumedOnce'
  BY DEF CustodyInv, ConsumedOnce
<1> QED
  BY <1>2, <1>3

\* A step that moves no resource keeps theirs.
LEMMA SessionsRest ==
  ASSUME CustodyInv, \A r \in Resource : r \in stored' <=> r \in stored,
         \A j \in Job : job'[j].session = job[j].session,
         releaseRuns' = releaseRuns,
         \A a \in Agent : pend'[a].releases = pend[a].releases
  PROVE  ResourceKept' /\ GivenOnce'
<1>1. \A r : Given(r)' <=> Given(r)
  BY DEF Given
<1>2. ResourceKept'
  BY <1>1 DEF CustodyInv, ResourceKept
<1>3. GivenOnce'
  BY DEF CustodyInv, GivenOnce
<1> QED
  BY <1>2, <1>3

\* Splitting a removed job's artifacts moves each into the deferred table or to the
\* cleaner about to run.
LEMMA SplitCustody ==
  ASSUME CustodyInv, NEW a \in Agent, NEW g \in pend[a].cleanups, SplitCleanup(a, g)
  PROVE  HandleKept' /\ ConsumedOnce'
<1>0. TypeOK /\ pend[a] \in Pending /\ ConsumedOnce
  BY DEF CustodyInv, LeaseInv, TypeOK
<1>1. /\ deferred' = deferred \cup Read(g) /\ pend[a].doomed = {}
      /\ UNCHANGED <<job, stored, cleanerRuns>>
  BY DEF SplitCleanup
<1>2. /\ pend'[a].cleanups = pend[a].cleanups \ {g}
      /\ pend'[a].doomed = g \ Read(g)
      /\ \A b \in Agent : b # a => pend'[b] = pend[b]
  BY <1>0 DEF SplitCleanup, TypeOK, Pending
<1>3. ASSUME NEW h \in Handle, h \in g
      PROVE  /\ \A b \in Agent : h \notin pend[b].doomed
             /\ h \notin deferred /\ cleanerRuns[h] = 0
             /\ \A b \in Agent : \A i \in pend'[b].cleanups : h \notin i
  <2>1. (\A b \in Agent : h \notin pend[b].doomed) /\ h \notin deferred /\ cleanerRuns[h] = 0
    BY <1>0, <1>3 DEF ConsumedOnce
  <2>2. ASSUME NEW b \in Agent, NEW i \in pend'[b].cleanups, h \in i PROVE FALSE
    <3>1. i \in pend[b].cleanups /\ (b = a => i # g)
      BY <1>2, <2>2
    <3> QED
      BY <1>0, <1>3, <2>2, <3>1 DEF ConsumedOnce
  <2> QED
    BY <2>1, <2>2
<1>4. ASSUME NEW h \in Handle, h \notin g
      PROVE  /\ h \in deferred' <=> h \in deferred
             /\ \A b \in Agent : h \in pend'[b].doomed <=> h \in pend[b].doomed
             /\ \A b \in Agent : \A i : h \in i =>
                  (i \in pend'[b].cleanups <=> i \in pend[b].cleanups)
  BY <1>1, <1>2, <1>4 DEF Read
<1>5. HandleKept'
  <2>1. ASSUME NEW h \in Handle, Consumed(h) PROVE Consumed(h)'
    <3>1. CASE h \in g
      BY <1>1, <1>2, <3>1 DEF Consumed, Read
    <3>2. CASE h \notin g
      BY <1>1, <1>4, <2>1, <3>2 DEF Consumed
    <3> QED
      BY <3>1, <3>2
  <2> QED
    BY <1>1, <2>1 DEF CustodyInv, HandleKept
<1>6. ConsumedOnce'
  <2> SUFFICES ASSUME NEW h \in Handle
               PROVE
    /\ \A b, c \in Agent : \A k \in pend'[b].cleanups, i \in pend'[c].cleanups :
          h \in k /\ h \in i => b = c /\ k = i
    /\ \A b, c \in Agent : h \in pend'[b].doomed /\ h \in pend'[c].doomed => b = c
    /\ (\E b \in Agent : h \in pend'[b].doomed) \/ h \in deferred' \/ cleanerRuns'[h] # 0 =>
          \A b \in Agent : \A k \in pend'[b].cleanups : h \notin k
    /\ (\E b \in Agent : h \in pend'[b].doomed) => h \notin deferred' /\ cleanerRuns'[h] = 0
    /\ h \in deferred' => cleanerRuns'[h] = 0
    /\ cleanerRuns'[h] \in {0, 1}
    BY DEF ConsumedOnce
  <2>1. CASE h \in g
    <3>1. \A b \in Agent : h \in pend'[b].doomed => b = a /\ h \notin Read(g)
      BY <1>2, <1>3, <2>1
    <3>2. h \in deferred' => h \in Read(g)
      BY <1>1, <1>3, <2>1
    <3>3. cleanerRuns'[h] = 0
      BY <1>1, <1>3, <2>1
    <3> QED
      BY <1>3, <2>1, <3>1, <3>2, <3>3
  <2>2. CASE h \notin g
    <3>1. \A b, c \in Agent : \A k \in pend'[b].cleanups, i \in pend'[c].cleanups :
            h \in k /\ h \in i => b = c /\ k = i
      BY <1>0, <1>4, <2>2 DEF ConsumedOnce
    <3>2. (\E b \in Agent : h \in pend'[b].doomed) \/ h \in deferred' \/ cleanerRuns'[h] # 0 =>
            \A b \in Agent : \A k \in pend'[b].cleanups : h \notin k
      BY <1>0, <1>1, <1>4, <2>2 DEF ConsumedOnce
    <3> QED
      BY <1>0, <1>1, <1>4, <2>2, <3>1, <3>2 DEF ConsumedOnce
  <2> QED
    BY <2>1, <2>2
<1> QED
  BY <1>5, <1>6

\* A cleaner that is called ends the custody of its artifact.
LEMMA CleanerCustody ==
  ASSUME CustodyInv, NEW a \in Agent, NEW h \in pend[a].doomed, RunCleaner(a, h)
  PROVE  HandleKept' /\ ConsumedOnce'
<1>0. TypeOK /\ pend[a] \in Pending /\ ConsumedOnce
  BY DEF CustodyInv, LeaseInv, TypeOK
<1>1. /\ cleanerRuns' = [cleanerRuns EXCEPT ![h] = @ + 1]
      /\ UNCHANGED <<job, stored, deferred>>
  BY DEF RunCleaner
<1>2. /\ pend'[a].doomed = pend[a].doomed \ {h}
      /\ \A b \in Agent : b # a => pend'[b] = pend[b]
      /\ \A b \in Agent : pend'[b].cleanups = pend[b].cleanups
  BY <1>0 DEF RunCleaner, TypeOK, Pending
<1>3. h \in Handle
  BY <1>0 DEF Pending
<1>4. /\ cleanerRuns'[h] = 1 /\ h \notin deferred
      /\ \A b \in Agent : h \notin pend'[b].doomed
      /\ \A b \in Agent : \A g \in pend[b].cleanups : h \notin g
  <2>1. cleanerRuns[h] = 0 /\ h \notin deferred
    BY <1>0, <1>3 DEF ConsumedOnce
  <2>2. cleanerRuns'[h] = 1
    BY <1>0, <1>1, <1>3, <2>1 DEF TypeOK
  <2>3. \A b \in Agent : h \notin pend'[b].doomed
    BY <1>0, <1>2, <1>3 DEF ConsumedOnce
  <2>4. \A b \in Agent : \A g \in pend[b].cleanups : h \notin g
    BY <1>0, <1>3 DEF ConsumedOnce
  <2> QED
    BY <2>1, <2>2, <2>3, <2>4
<1>5. ASSUME NEW x \in Handle, x # h
      PROVE  /\ cleanerRuns'[x] = cleanerRuns[x]
             /\ \A b \in Agent : x \in pend'[b].doomed <=> x \in pend[b].doomed
  BY <1>0, <1>1, <1>2, <1>5 DEF TypeOK
<1>6. ASSUME NEW x \in Handle, Consumed(x) PROVE Consumed(x)'
  <2>1. CASE x = h
    BY <1>4, <2>1 DEF Consumed
  <2>2. CASE x # h
    BY <1>1, <1>2, <1>5, <1>6, <2>2 DEF Consumed
  <2> QED
    BY <2>1, <2>2
<1>7. HandleKept'
  BY <1>1, <1>6 DEF CustodyInv, HandleKept
<1>8. ConsumedOnce'
  <2> SUFFICES ASSUME NEW x \in Handle
               PROVE
    /\ \A b, c \in Agent : \A g \in pend'[b].cleanups, i \in pend'[c].cleanups :
          x \in g /\ x \in i => b = c /\ g = i
    /\ \A b, c \in Agent : x \in pend'[b].doomed /\ x \in pend'[c].doomed => b = c
    /\ (\E b \in Agent : x \in pend'[b].doomed) \/ x \in deferred' \/ cleanerRuns'[x] # 0 =>
          \A b \in Agent : \A g \in pend'[b].cleanups : x \notin g
    /\ (\E b \in Agent : x \in pend'[b].doomed) => x \notin deferred' /\ cleanerRuns'[x] = 0
    /\ x \in deferred' => cleanerRuns'[x] = 0
    /\ cleanerRuns'[x] \in {0, 1}
    BY DEF ConsumedOnce
  <2>1. CASE x = h
    BY <1>1, <1>2, <1>4, <2>1
  <2>2. CASE x # h
    BY <1>0, <1>1, <1>2, <1>5, <2>2 DEF ConsumedOnce
  <2> QED
    BY <2>1, <2>2
<1> QED
  BY <1>7, <1>8

\* A release that is called ends the custody of its resource.
LEMMA ReleaseCustody ==
  ASSUME CustodyInv, NEW a \in Agent, NEW r \in pend[a].releases, ReleaseHeavy(a, r)
  PROVE  ResourceKept' /\ GivenOnce'
<1>0. TypeOK /\ pend[a] \in Pending /\ GivenOnce /\ ResourceKept
  BY DEF CustodyInv, LeaseInv, TypeOK
<1>1. /\ releaseRuns' = [releaseRuns EXCEPT ![r] = @ + 1]
      /\ UNCHANGED <<job, stored>>
  BY DEF ReleaseHeavy
<1>2. /\ pend'[a].releases = pend[a].releases \ {r}
      /\ \A b \in Agent : b # a => pend'[b] = pend[b]
  BY <1>0 DEF ReleaseHeavy, TypeOK, Pending
<1>3. r \in Resource
  BY <1>0 DEF Pending
<1>4. releaseRuns[r] = 0 /\ releaseRuns'[r] = 1
  BY <1>0, <1>1, <1>3 DEF GivenOnce, TypeOK
<1>5. \A x \in Resource : x # r => releaseRuns'[x] = releaseRuns[x]
  BY <1>0, <1>1 DEF TypeOK
<1>6. \A b \in Agent : \A x : x # r => (x \in pend'[b].releases <=> x \in pend[b].releases)
  BY <1>2
<1>7. \A b \in Agent : r \notin pend'[b].releases
  BY <1>0, <1>2, <1>3 DEF GivenOnce
<1>8. \A x \in Resource : Given(x)' <=> Given(x)
  <2> SUFFICES ASSUME NEW x \in Resource PROVE Given(x)' <=> Given(x)
    OBVIOUS
  <2>1. CASE x = r
    BY <1>4, <2>1 DEF Given
  <2>2. CASE x # r
    BY <1>5, <1>6, <2>2 DEF Given
  <2> QED
    BY <2>1, <2>2
<1>9. ResourceKept'
  BY <1>0, <1>1, <1>8 DEF ResourceKept
<1>10. GivenOnce'
  BY <1>0, <1>4, <1>5, <1>6, <1>7 DEF GivenOnce
<1> QED
  BY <1>9, <1>10

\* Everything an agent does after the lock moves custody properly.
LEMMA AfterLockCustody ==
  ASSUME CustodyInv, NEW a \in Agent, AfterLock(a)
  PROVE  HandleKept' /\ ConsumedOnce' /\ ResourceKept' /\ GivenOnce'
<1>0. TypeOK /\ pend[a] \in Pending
  BY DEF CustodyInv, LeaseInv, TypeOK
<1>1. ASSUME NEW g \in pend[a].cleanups, SplitCleanup(a, g)
      PROVE  HandleKept' /\ ConsumedOnce' /\ ResourceKept' /\ GivenOnce'
  <2>1. \A b \in Agent : pend'[b].releases = pend[b].releases
    BY <1>0, <1>1 DEF SplitCleanup, TypeOK, Pending
  <2>2. UNCHANGED <<job, stored, releaseRuns>>
    BY <1>1 DEF SplitCleanup
  <2> QED
    BY <1>1, <2>1, <2>2, SplitCustody, SessionsRest
<1>2. ASSUME NEW h \in pend[a].doomed, RunCleaner(a, h)
      PROVE  HandleKept' /\ ConsumedOnce' /\ ResourceKept' /\ GivenOnce'
  <2>1. \A b \in Agent : pend'[b].releases = pend[b].releases
    BY <1>0, <1>2 DEF RunCleaner, TypeOK, Pending
  <2>2. UNCHANGED <<job, stored, releaseRuns>>
    BY <1>2 DEF RunCleaner
  <2> QED
    BY <1>2, <2>1, <2>2, CleanerCustody, SessionsRest
<1>3. ASSUME NEW r \in pend[a].releases, ReleaseHeavy(a, r)
      PROVE  HandleKept' /\ ConsumedOnce' /\ ResourceKept' /\ GivenOnce'
  <2>1. \A b \in Agent : /\ pend'[b].cleanups = pend[b].cleanups
                         /\ pend'[b].doomed = pend[b].doomed
    BY <1>0, <1>3 DEF ReleaseHeavy, TypeOK, Pending
  <2>2. UNCHANGED <<job, stored, deferred, cleanerRuns>>
    BY <1>3 DEF ReleaseHeavy
  <2> QED
    BY <1>3, <2>1, <2>2, ReleaseCustody, HandlesRest
<1>4. ASSUME (\E m \in Timer : InstallTimer(a, m)) \/ SkipTimer(a) \/ StartTimer(a)
      PROVE  HandleKept' /\ ConsumedOnce' /\ ResourceKept' /\ GivenOnce'
  <2>1. UNCHANGED <<job, stored, deferred, cleanerRuns, releaseRuns>>
    BY <1>4 DEF InstallTimer, SkipTimer, StartTimer
  <2>2. CASE \E m \in Timer : InstallTimer(a, m)
    <3>1. PICK m \in Timer :
            pend' = [pend EXCEPT ![a].schedule = NoSchedule, ![a].start = m]
      BY <2>2 DEF InstallTimer
    <3>2. \A b \in Agent : /\ pend'[b].cleanups = pend[b].cleanups
                           /\ pend'[b].doomed = pend[b].doomed
                           /\ pend'[b].releases = pend[b].releases
      BY <1>0, <3>1 DEF TypeOK, Pending
    <3> QED
      BY <2>1, <3>2, HandlesRest, SessionsRest
  <2>3. CASE SkipTimer(a)
    <3>1. pend' = [pend EXCEPT ![a].schedule = NoSchedule]
      BY <2>3 DEF SkipTimer
    <3>2. \A b \in Agent : /\ pend'[b].cleanups = pend[b].cleanups
                           /\ pend'[b].doomed = pend[b].doomed
                           /\ pend'[b].releases = pend[b].releases
      BY <1>0, <3>1 DEF TypeOK, Pending
    <3> QED
      BY <2>1, <3>2, HandlesRest, SessionsRest
  <2>4. CASE StartTimer(a)
    <3>1. pend' = [pend EXCEPT ![a].start = NoTimer]
      BY <2>4 DEF StartTimer
    <3>2. \A b \in Agent : /\ pend'[b].cleanups = pend[b].cleanups
                           /\ pend'[b].doomed = pend[b].doomed
                           /\ pend'[b].releases = pend[b].releases
      BY <1>0, <3>1 DEF TypeOK, Pending
    <3> QED
      BY <2>1, <3>2, HandlesRest, SessionsRest
  <2> QED
    BY <1>4, <2>2, <2>3, <2>4
<1> QED
  BY <1>1, <1>2, <1>3, <1>4 DEF AfterLock

\* So do timers: a callback gives the resource it strips to its own agent.
LEMMA TimerCustody ==
  ASSUME CustodyInv, NEW m \in Timer, TimerFires(m) \/ TimerCallback(m)
  PROVE  HandleKept' /\ ConsumedOnce' /\ ResourceKept' /\ GivenOnce'
<1> m \in Agent
  BY DEF Agent
<1>0. TypeOK
  BY DEF CustodyInv, LeaseInv
<1>1. CASE TimerFires(m)
  BY <1>1, HandlesRest, SessionsRest DEF TimerFires
<1>2. CASE TimerCallback(m)
  <2> DEFINE j == timer[m].job
             shed == IF HeavyExpired(job[j]) THEN {j} ELSE {}
  <2>1. j \in Job /\ Idle(m)
    BY <1>0, <1>2 DEF TimerCallback, TypeOK, CustodyInv, TimersIdle
  <2>2. \A i \in Job :
          /\ job'[i].handles = IF i \in {} THEN {} ELSE job[i].handles
          /\ job'[i].session = IF i \in shed THEN NoResource ELSE job[i].session
    <3>1. /\ Cleared(job[j]).handles = job[j].handles
          /\ Cleared(job[j]).session = NoResource
      BY <1>0, <2>1 DEF TypeOK, Record, Cleared
    <3>2. job' = IF HeavyExpired(job[j]) THEN [job EXCEPT ![j] = Cleared(job[j])] ELSE job
      BY <1>2 DEF TimerCallback
    <3> QED
      BY <1>0, <2>1, <3>1, <3>2 DEF TypeOK
  <2>3. HandleGroups({}) = {} /\ Sessions({}) = {}
    BY DEF HandleGroups, Sessions
  <2>4. Collect(m, HandleGroups({}), Sessions(shed), NoSchedule)
    BY <1>2, <2>3 DEF TimerCallback
  <2>5. shed \in SUBSET Job /\ {} \in SUBSET Job
    BY <2>1
  <2>6. UNCHANGED <<deferred, stored, cleanerRuns, releaseRuns>>
    BY <1>2 DEF TimerCallback
  <2> HIDE DEF shed, j
  <2> QED
    BY <2>1, <2>2, <2>4, <2>5, <2>6, RemovalKeeps
<1> QED
  BY <1>1, <1>2

\* Cancelling makes no timer live.
LEMMA CancelFrees ==
  ASSUME NEW js, CancelTimers(js), NEW m \in Timer, timer'[m].st # "free"
  PROVE  timer[m].st # "free"
BY DEF CancelTimers, CancelledTimer, FreeTimer

\* An operation leaves work to its own thread only, and no timer it found free runs.
LEMMA OperationTimers ==
  ASSUME TypeOK, NEW t \in Thread, Operation(t)
  PROVE  /\ \A m \in Timer : pend'[m] = pend[m]
         /\ \A m \in Timer : timer'[m].st # "free" => timer[m].st # "free"
<1> DEFINE Own == \E p : pend' = [pend EXCEPT ![t] = p]
           Cancels == timer' = timer \/ \E js : CancelTimers(js)
<1>1. \A g, s, c : Collect(t, g, s, c) => Own
  BY DEF Collect
<1>2. \A js : CancelTimers(js) => Cancels
  OBVIOUS
<1>3. ASSUME NEW j, NEW f, NEW st, NEW ts, StoreMerged(t, j, f, st, ts) PROVE Own /\ Cancels
  BY <1>1, <1>2, <1>3 DEF StoreMerged
<1>4. EvictOnly(t) => Own /\ Cancels
  BY <1>1, <1>2 DEF EvictOnly
<1> HIDE DEF Own, Cancels
<1>5. Own /\ Cancels
  <2>1. CASE Poll(t)
    BY <1>4, <2>1 DEF Poll
  <2>2. ASSUME NEW j, CreateJob(t, j) PROVE Own /\ Cancels
    BY <1>1, <1>2, <2>2 DEF CreateJob
  <2>3. ASSUME NEW j, NEW f, AtomicUpdate(t, j, f) PROVE Own /\ Cancels
    BY <1>3, <2>3 DEF AtomicUpdate
  <2>4. ASSUME NEW j, NEW h, NEW ev, PublishPointHandle(t, j, h, ev) PROVE Own /\ Cancels
    BY <1>3, <2>4 DEF PublishPointHandle
  <2>5. ASSUME NEW j, NEW f, PublishCompletion(t, j, f) PROVE Own /\ Cancels
    BY <1>3, <2>5 DEF PublishCompletion
  <2>6. ASSUME NEW j, NEW to, NEW ex, NEW ts, TransitionTerminal(t, j, to, ex, ts)
        PROVE  Own /\ Cancels
    BY <1>3, <2>6 DEF TransitionTerminal
  <2>7. ASSUME NEW j, TouchHeavyObjects(t, j) PROVE Own /\ Cancels
    BY <1>1, <1>2, <2>7 DEF TouchHeavyObjects
  <2>8. ASSUME NEW j, NEW pl, NEW se, ClearResultData(t, j, pl, se) PROVE Own /\ Cancels
    BY <1>1, <1>2, <2>8 DEF ClearResultData
  <2>9. ASSUME NEW j, NEW h, DetachArtifactHandle(t, j, h) PROVE Own /\ Cancels
    BY <1>1, <2>9 DEF DetachArtifactHandle, Cancels
  <2>10. ASSUME NEW j, NEW h, Lease(t, j, h) PROVE Own /\ Cancels
    BY <1>4, <2>10 DEF Lease
  <2>11. ASSUME NEW js, RemoveJobs(t, js) PROVE Own /\ Cancels
    BY <1>1, <1>2, <2>11 DEF RemoveJobs
  <2>12. ASSUME NEW h, Unlease(t, h) PROVE Own /\ Cancels
    <3>1. Own
      <4>1. pend' = [pend EXCEPT ![t] = [@ EXCEPT !.doomed = TakeOver(t, h)]]
        BY <2>12 DEF Unlease
      <4> QED
        BY <4>1 DEF Own
    <3> QED
      BY <2>12, <3>1 DEF Unlease, Cancels
  <2> QED
    BY <2>1, <2>2, <2>3, <2>4, <2>5, <2>6, <2>7, <2>8, <2>9, <2>10, <2>11, <2>12
       DEF Operation
<1>6. \A m \in Timer : m # t
  BY NamesAssumption
<1>7. \A m \in Timer : pend'[m] = pend[m]
  BY <1>5, <1>6 DEF Own, TypeOK, Agent
<1>8. \A m \in Timer : timer'[m].st # "free" => timer[m].st # "free"
  BY <1>5, CancelFrees DEF Cancels
<1> QED
  BY <1>7, <1>8

\* Every step leaves the agents of live timers idle.
LEMMA TimersIdleStep ==
  ASSUME TypeOK, TimersIdle, Next
  PROVE  TimersIdle'
<1>1. ASSUME NEW t \in Thread, Operation(t) PROVE TimersIdle'
  BY <1>1, OperationTimers DEF TimersIdle, Idle
<1>2. ASSUME NEW a \in Agent, AfterLock(a) PROVE TimersIdle'
  <2>1. ~Idle(a)
    <3>1. Idle(a) => /\ pend[a].cleanups = {} /\ pend[a].doomed = {}
                     /\ pend[a].releases = {} /\ pend[a].schedule.job = NoJob
                     /\ pend[a].start = NoTimer
      BY DEF Idle, NoPending, NoSchedule
    <3>2. \A m \in Timer : InstallTimer(a, m) => pend[a].schedule.job # NoJob
      BY DEF InstallTimer
    <3>3. SkipTimer(a) => pend[a].schedule.job # NoJob
      BY DEF SkipTimer
    <3>4. StartTimer(a) => pend[a].start # NoTimer
      BY DEF StartTimer
    <3> QED
      BY <1>2, <3>1, <3>2, <3>3, <3>4 DEF AfterLock
  <2>2. \A b \in Agent : b # a => pend'[b] = pend[b]
    BY <1>2 DEF AfterLock, SplitCleanup, RunCleaner, ReleaseHeavy, InstallTimer, SkipTimer,
       StartTimer, TypeOK
  <2>3. ASSUME NEW m \in Timer, timer'[m].st # "free" PROVE Idle(m)
    <3>1. CASE UNCHANGED timer
      BY <2>3, <3>1 DEF TimersIdle
    <3>2. CASE SkipTimer(a)
      <4>1. PICK js : CancelTimers(js)
        BY <3>2 DEF SkipTimer
      <4> QED
        BY <2>3, <4>1, CancelFrees DEF TimersIdle
    <3>3. CASE StartTimer(a)
      <4>1. timer[m].st # "free"
        BY <2>3, <3>3 DEF StartTimer, Started, FreeTimer, TypeOK
      <4> QED
        BY <4>1 DEF TimersIdle
    <3>4. ASSUME NEW x \in Timer, InstallTimer(a, x) PROVE Idle(m)
      <4>1. CASE m = x
        BY <3>4, <4>1 DEF InstallTimer
      <4>2. CASE m # x
        <5>1. timer'[m] = timer[m] \/ timer'[m] = CancelledTimer(m)
          BY <3>4, <4>2 DEF InstallTimer
        <5>2. timer[m].st # "free"
          BY <2>3, <5>1 DEF CancelledTimer, FreeTimer
        <5> QED
          BY <5>2 DEF TimersIdle
      <4> QED
        BY <4>1, <4>2
    <3> QED
      BY <1>2, <3>1, <3>2, <3>3, <3>4 DEF AfterLock, SplitCleanup, RunCleaner, ReleaseHeavy
  <2> QED
    BY <2>1, <2>2, <2>3 DEF TimersIdle, Idle, Agent
<1>3. ASSUME NEW m \in Timer, TimerFires(m) \/ TimerCallback(m) PROVE TimersIdle'
  <2>1. CASE TimerFires(m)
    BY <1>3, <2>1 DEF TimerFires, TimersIdle, Idle, TypeOK
  <2>2. CASE TimerCallback(m)
    <3>1. timer'[m].st = "free"
      BY <2>2 DEF TimerCallback, FreeTimer
    <3>2. \A x \in Timer : x # m /\ timer'[x].st # "free" => timer[x].st # "free"
      BY <2>2 DEF TimerCallback, CancelledTimer, FreeTimer
    <3>3. \A x \in Timer : x # m => pend'[x] = pend[x]
      BY <2>2 DEF TimerCallback, Collect, TypeOK, Agent
    <3> QED
      BY <3>1, <3>2, <3>3 DEF TimersIdle, Idle
  <2> QED
    BY <1>3, <2>1, <2>2
<1>4. CASE Tick
  BY <1>4 DEF Tick, TimersIdle, Idle
<1> QED
  BY <1>1, <1>2, <1>3, <1>4 DEF Next

\* A sweep leaves the ids that were never given out alone.
LEMMA EvictionOfUnborn ==
  ASSUME TypeOK, NEW j \in Job, AfterEviction[j].status = "unborn"
  PROVE  AfterEviction[j] = job[j]
<1>1. AfterEviction[j] = IF Stale(j) THEN EmptyRecord("gone")
                         ELSE IF HeavyExpired(job[j]) THEN Cleared(job[j]) ELSE job[j]
  BY DEF AfterEviction
<1>2. EmptyRecord("gone").status = "gone"
  BY DEF EmptyRecord
<1>3. HeavyExpired(job[j]) => Cleared(job[j]).status = "completed"
  BY DEF HeavyExpired, Cleared, TypeOK, Record
<1> QED
  BY <1>1, <1>2, <1>3

\* A merge gives a record a status that is not "unborn".
LEMMA MergeOfBorn ==
  ASSUME TypeOK, NEW a, NEW j \in Job, NEW f, NEW status, NEW ts, StoreMerged(a, j, f, status, ts),
         status # "unborn"
  PROVE  \A i \in Job : job'[i].status = "unborn" => job'[i] = job[i]
<1>1. Merged(job[j], f, status, ts).status = status
  BY DEF Merged, TypeOK, Record
<1>2. job' = [job EXCEPT ![j] = Merged(job[j], f, status, ts)]
  BY DEF StoreMerged
<1> QED
  BY <1>1, <1>2 DEF TypeOK

\* Every operation leaves the ids that were never given out alone.
LEMMA OperationUnborn ==
  ASSUME TypeOK, NEW t \in Thread, Operation(t)
  PROVE  \A i \in Job : job'[i].status = "unborn" => job'[i] = job[i]
<1> DEFINE Goal == \A i \in Job : job'[i].status = "unborn" => job'[i] = job[i]
<1>0. AfterEviction \in [Job -> Record]
  BY AfterEvictionType
<1>1. job' = AfterEviction => Goal
  BY EvictionOfUnborn
<1>2. ASSUME NEW j \in Job, CreateJob(t, j) PROVE Goal
  <2>1. [EmptyRecord("running") EXCEPT !.created = now].status = "running"
    BY DEF EmptyRecord
  <2>2. job' = [AfterEviction EXCEPT ![j] = [EmptyRecord("running") EXCEPT !.created = now]]
    BY <1>2 DEF CreateJob
  <2> QED
    BY <1>0, <2>1, <2>2, EvictionOfUnborn
<1>3. ASSUME NEW j \in Job, NEW f, AtomicUpdate(t, j, f) PROVE Goal
  BY <1>3, MergeOfBorn DEF AtomicUpdate, Live
<1>4. ASSUME NEW j \in Job, NEW h, NEW ev, PublishPointHandle(t, j, h, ev) PROVE Goal
  BY <1>4, MergeOfBorn DEF PublishPointHandle
<1>5. ASSUME NEW j \in Job, NEW f, PublishCompletion(t, j, f) PROVE Goal
  BY <1>5, MergeOfBorn DEF PublishCompletion
<1>6. ASSUME NEW j \in Job, NEW to \in Reasons, NEW ex, NEW ts,
             TransitionTerminal(t, j, to, ex, ts)
      PROVE  Goal
  <2>1. to # "unborn"
    BY ReasonsAssumption DEF TerminalReasons
  <2> QED
    BY <1>6, <2>1, MergeOfBorn DEF TransitionTerminal
<1>7. ASSUME NEW j \in Job, TouchHeavyObjects(t, j) PROVE Goal
  <2>1. PICK e : job' = [AfterEviction EXCEPT ![j].expires = e]
    BY <1>7 DEF TouchHeavyObjects
  <2>2. AfterEviction[j].status = "completed"
    BY <1>7 DEF TouchHeavyObjects
  <2>3. job'[j].status = "completed" /\ \A i \in Job : i # j => job'[i] = AfterEviction[i]
    BY <1>0, <2>1, <2>2 DEF Record
  <2> QED
    BY <2>3, EvictionOfUnborn
<1>8. ASSUME NEW j \in Job, NEW pl, NEW se, ClearResultData(t, j, pl, se) PROVE Goal
  <2>1. PICK c : job' = [job EXCEPT ![j] = c] /\ c.status = job[j].status
    <3> DEFINE c0 == [job[j] EXCEPT !.plain = @ /\ ~pl,
                                    !.session = IF se THEN NoResource ELSE @]
               c1 == IF HasHeavy(c0) THEN c0 ELSE [c0 EXCEPT !.expires = NoTime]
    <3>1. c1.status = job[j].status
      BY DEF TypeOK, Record
    <3>2. job' = [job EXCEPT ![j] = c1]
      BY <1>8 DEF ClearResultData
    <3> HIDE DEF c1
    <3> QED
      BY <3>1, <3>2
  <2>2. job[j].status # "unborn"
    BY <1>8 DEF ClearResultData, Live
  <2> QED
    BY <2>1, <2>2 DEF TypeOK
<1>9. ASSUME NEW j \in Job, NEW h, DetachArtifactHandle(t, j, h) PROVE Goal
  <2>1. job' = [job EXCEPT ![j].handles = @ \ {h}] /\ job[j].status # "unborn"
    BY <1>9 DEF DetachArtifactHandle, Live
  <2>2. job'[j].status = job[j].status
    BY <2>1 DEF TypeOK, Record
  <2> QED
    BY <2>1, <2>2 DEF TypeOK
<1>10. ASSUME NEW js \in SUBSET Job, RemoveJobs(t, js) PROVE Goal
  <2>1. EmptyRecord("gone").status = "gone"
    BY DEF EmptyRecord
  <2>2. \A i \in Job : job'[i] = job[i] \/ job'[i] = EmptyRecord("gone")
    BY <1>10 DEF RemoveJobs
  <2> QED
    BY <2>1, <2>2
<1>11. \A j, h : Lease(t, j, h) => Goal
  BY <1>1 DEF Lease, EvictOnly
<1>12. Poll(t) => Goal
  BY <1>1 DEF Poll, EvictOnly
<1>13. \A h : Unlease(t, h) => Goal
  BY DEF Unlease
<1> HIDE DEF Goal
<1>14. Goal
  BY <1>2, <1>3, <1>4, <1>5, <1>6, <1>7, <1>8, <1>9, <1>10, <1>11, <1>12, <1>13
     DEF Operation
<1> QED
  BY <1>14 DEF Goal

\* Every step leaves them bare.
LEMMA UnbornBareStep ==
  ASSUME TypeOK, UnbornBare, Next
  PROVE  UnbornBare'
<1>1. \A i \in Job : job'[i].status = "unborn" => job'[i] = job[i]
  <2>1. ASSUME NEW m \in Timer, TimerCallback(m)
        PROVE  \A i \in Job : job'[i].status = "unborn" => job'[i] = job[i]
    <3> DEFINE j == timer[m].job
    <3>1. j \in Job
      BY <2>1 DEF TimerCallback, TypeOK
    <3>2. job' = job \/ (job' = [job EXCEPT ![j] = Cleared(job[j])] /\ HeavyExpired(job[j]))
      BY <2>1 DEF TimerCallback
    <3>3. HeavyExpired(job[j]) => Cleared(job[j]).status = "completed"
      BY <3>1 DEF HeavyExpired, Cleared, TypeOK, Record
    <3> HIDE DEF j
    <3> QED
      BY <3>1, <3>2, <3>3 DEF TypeOK
  <2>2. ASSUME NEW a \in Agent, AfterLock(a) PROVE job' = job
    BY <2>2 DEF AfterLock, SplitCleanup, RunCleaner, ReleaseHeavy, InstallTimer, SkipTimer,
       StartTimer
  <2>3. ASSUME NEW m \in Timer, TimerFires(m) PROVE job' = job
    BY <2>3 DEF TimerFires
  <2>4. Tick => job' = job
    BY DEF Tick
  <2> QED
    BY <2>1, <2>2, <2>3, <2>4, OperationUnborn DEF Next
<1> QED
  BY <1>1 DEF UnbornBare

\* In the beginning there is nothing to keep.
LEMMA InitCustody == Init => CustodyInv
<1> SUFFICES ASSUME Init PROVE CustodyInv
  OBVIOUS
<1>1. LeaseInv
  BY InitLease
<1>2. /\ \A j \in Job : job[j].handles = {} /\ job[j].session = NoResource
      /\ \A a \in Agent : /\ pend[a] = NoPending /\ pend[a].cleanups = {}
                          /\ pend[a].doomed = {} /\ pend[a].releases = {}
      /\ stored = {} /\ deferred = {}
      /\ \A h \in Handle : cleanerRuns[h] = 0
      /\ \A r \in Resource : releaseRuns[r] = 0
  BY DEF Init, EmptyRecord, NoPending
<1>3. TimersIdle
  BY <1>2 DEF TimersIdle, Idle, Agent
<1>4. UnbornBare /\ HandleKept
  BY <1>2 DEF UnbornBare, HandleKept
<1>5. ConsumedOnce
  BY <1>2 DEF ConsumedOnce
<1>6. \A r \in Resource : ~Given(r)
  BY <1>2 DEF Given
<1>7. ResourceKept /\ GivenOnce
  BY <1>2, <1>6, NamesAssumption DEF ResourceKept, GivenOnce
<1> QED
  BY <1>1, <1>3, <1>4, <1>5, <1>7 DEF CustodyInv

\* Every step of JobStore preserves the custody.
LEMMA NextCustody == CustodyInv /\ [Next]_vars => CustodyInv'
<1>1. ASSUME CustodyInv, Next PROVE CustodyInv'
  <2>1. LeaseInv' /\ TypeOK
    BY <1>1, NextLease DEF CustodyInv, LeaseInv
  <2>2. TimersIdle' /\ UnbornBare'
    BY <1>1, <2>1, TimersIdleStep, UnbornBareStep DEF CustodyInv
  <2>3. HandleKept' /\ ConsumedOnce' /\ ResourceKept' /\ GivenOnce'
    <3>1. CASE Tick
      BY <1>1, <3>1, HandlesRest, SessionsRest DEF Tick
    <3> QED
      BY <1>1, <3>1, OperationCustody, AfterLockCustody, TimerCustody DEF Next
  <2> QED
    BY <2>1, <2>2, <2>3 DEF CustodyInv
<1>2. ASSUME CustodyInv, UNCHANGED vars PROVE CustodyInv'
  <2>1. LeaseInv'
    BY <1>2, NextLease DEF CustodyInv
  <2>2. HandleKept' /\ ConsumedOnce' /\ ResourceKept' /\ GivenOnce'
    BY <1>2, HandlesRest, SessionsRest DEF vars
  <2>3. TimersIdle' /\ UnbornBare'
    BY <1>2 DEF vars, CustodyInv, TimersIdle, UnbornBare, Idle
  <2> QED
    BY <2>1, <2>2, <2>3 DEF CustodyInv
<1> QED
  BY <1>1, <1>2

\* A set of one custodian counts one.
LEMMA CountOne ==
  ASSUME NEW S, NEW x, S = {x} PROVE Cardinality(S) = 1
BY FS_Singleton

\* An artifact has one custodian when the custody invariant holds.
LEMMA OneHandleCustodian == CustodyInv => HandleHasOneCustodian
<1> SUFFICES ASSUME CustodyInv, NEW h \in Handle, h \in stored
             PROVE  Cardinality(Attached(h)) + Cardinality(QueuedBy(h))
                      + Cardinality(DoomedBy(h)) + (IF h \in deferred THEN 1 ELSE 0)
                      + cleanerRuns[h] = 1
  BY DEF HandleHasOneCustodian
<1>0. /\ TypeOK /\ OneOwner /\ OwnedNotConsumed /\ HandleKept /\ ConsumedOnce
      /\ cleanerRuns[h] \in {0, 1}
  BY DEF CustodyInv, LeaseInv, ConsumedOnce
<1>1. \A S : S = {} => Cardinality(S) = 0
  BY FS_EmptySet
<1>2. ASSUME ~Consumed(h)
      PROVE  /\ Cardinality(Attached(h)) = 1
             /\ QueuedBy(h) = {} /\ DoomedBy(h) = {} /\ h \notin deferred /\ cleanerRuns[h] = 0
  <2>1. PICK j \in Job : h \in job[j].handles
    BY <1>0, <1>2 DEF HandleKept
  <2>2. Attached(h) = {j}
    BY <1>0, <2>1 DEF Attached, OneOwner
  <2>3. QueuedBy(h) = {} /\ DoomedBy(h) = {} /\ h \notin deferred /\ cleanerRuns[h] = 0
    BY <1>2 DEF Consumed, QueuedBy, DoomedBy
  <2> QED
    BY <2>2, <2>3, CountOne
<1>3. Consumed(h) => Attached(h) = {}
  BY <1>0 DEF OwnedNotConsumed, Attached
<1>4. ASSUME NEW a \in Agent, NEW g \in pend[a].cleanups, h \in g
      PROVE  /\ Cardinality(QueuedBy(h)) = 1
             /\ Consumed(h) /\ DoomedBy(h) = {} /\ h \notin deferred /\ cleanerRuns[h] = 0
  <2>1. /\ QueuedBy(h) = {a}
        /\ Consumed(h) /\ DoomedBy(h) = {} /\ h \notin deferred /\ cleanerRuns[h] = 0
    BY <1>0, <1>4 DEF ConsumedOnce, QueuedBy, DoomedBy, Consumed
  <2> QED
    BY <2>1, CountOne
<1>5. ASSUME NEW a \in Agent, h \in pend[a].doomed
      PROVE  /\ Cardinality(DoomedBy(h)) = 1
             /\ Consumed(h) /\ QueuedBy(h) = {} /\ h \notin deferred /\ cleanerRuns[h] = 0
  <2>1. /\ DoomedBy(h) = {a}
        /\ Consumed(h) /\ QueuedBy(h) = {} /\ h \notin deferred /\ cleanerRuns[h] = 0
    BY <1>0, <1>5 DEF ConsumedOnce, QueuedBy, DoomedBy, Consumed
  <2> QED
    BY <2>1, CountOne
<1>6. ASSUME h \in deferred
      PROVE  Consumed(h) /\ QueuedBy(h) = {} /\ DoomedBy(h) = {} /\ cleanerRuns[h] = 0
  BY <1>0, <1>6 DEF ConsumedOnce, QueuedBy, DoomedBy, Consumed
<1>7. ASSUME cleanerRuns[h] # 0
      PROVE  /\ Consumed(h) /\ QueuedBy(h) = {} /\ DoomedBy(h) = {}
             /\ h \notin deferred /\ cleanerRuns[h] = 1
  BY <1>0, <1>7 DEF ConsumedOnce, QueuedBy, DoomedBy, Consumed
<1> DEFINE na == Cardinality(Attached(h))
           nq == Cardinality(QueuedBy(h))
           nd == Cardinality(DoomedBy(h))
<1>8. \/ na = 1 /\ nq = 0 /\ nd = 0 /\ h \notin deferred /\ cleanerRuns[h] = 0
      \/ na = 0 /\ nq = 1 /\ nd = 0 /\ h \notin deferred /\ cleanerRuns[h] = 0
      \/ na = 0 /\ nq = 0 /\ nd = 1 /\ h \notin deferred /\ cleanerRuns[h] = 0
      \/ na = 0 /\ nq = 0 /\ nd = 0 /\ h \in deferred /\ cleanerRuns[h] = 0
      \/ na = 0 /\ nq = 0 /\ nd = 0 /\ h \notin deferred /\ cleanerRuns[h] = 1
  <2>1. CASE ~Consumed(h)
    BY <1>1, <1>2, <2>1
  <2>2. CASE \E a \in Agent : \E g \in pend[a].cleanups : h \in g
    BY <1>1, <1>3, <1>4, <2>2
  <2>3. CASE \E a \in Agent : h \in pend[a].doomed
    BY <1>1, <1>3, <1>5, <2>3
  <2>4. CASE h \in deferred
    BY <1>1, <1>3, <1>6, <2>4
  <2>5. CASE cleanerRuns[h] # 0
    BY <1>1, <1>3, <1>7, <2>5
  <2> QED
    BY <2>1, <2>2, <2>3, <2>4, <2>5 DEF Consumed
<1> HIDE DEF na, nq, nd
<1>9. na + nq + nd + (IF h \in deferred THEN 1 ELSE 0) + cleanerRuns[h] = 1
  BY <1>8
<1> QED
  BY <1>9 DEF na, nq, nd

\* So has a resource.
LEMMA OneResourceCustodian == CustodyInv => ResourceHasOneCustodian
<1> SUFFICES ASSUME CustodyInv, NEW r \in Resource, r \in stored
             PROVE  Cardinality({j \in Job : job[j].session = r})
                      + Cardinality({a \in Agent : r \in pend[a].releases})
                      + releaseRuns[r] = 1
  BY DEF ResourceHasOneCustodian
<1> DEFINE Owners == {j \in Job : job[j].session = r}
           Releasers == {a \in Agent : r \in pend[a].releases}
<1>0. ResourceKept /\ GivenOnce /\ releaseRuns[r] \in {0, 1}
  BY DEF CustodyInv, GivenOnce
<1>1. \A S : S = {} => Cardinality(S) = 0
  BY FS_EmptySet
<1>2. ASSUME NEW j \in Job, job[j].session = r
      PROVE  Cardinality(Owners) = 1 /\ Releasers = {} /\ releaseRuns[r] = 0
  <2>1. Owners = {j} /\ Releasers = {} /\ releaseRuns[r] = 0
    BY <1>0, <1>2 DEF ResourceKept, Given
  <2> QED
    BY <2>1, CountOne
<1>3. Given(r) => Owners = {}
  BY <1>0 DEF ResourceKept
<1>4. ASSUME NEW a \in Agent, r \in pend[a].releases
      PROVE  Given(r) /\ Cardinality(Releasers) = 1 /\ releaseRuns[r] = 0
  <2>1. Given(r) /\ Releasers = {a} /\ releaseRuns[r] = 0
    BY <1>0, <1>4 DEF GivenOnce, Given
  <2> QED
    BY <2>1, CountOne
<1>5. ASSUME releaseRuns[r] # 0
      PROVE  Given(r) /\ Releasers = {} /\ releaseRuns[r] = 1
  BY <1>0, <1>5 DEF GivenOnce, Given
<1>6. Given(r) \/ \E j \in Job : job[j].session = r
  BY <1>0 DEF ResourceKept
<1> DEFINE no == Cardinality(Owners)
           nr == Cardinality(Releasers)
<1>7. \/ no = 1 /\ nr = 0 /\ releaseRuns[r] = 0
      \/ no = 0 /\ nr = 1 /\ releaseRuns[r] = 0
      \/ no = 0 /\ nr = 0 /\ releaseRuns[r] = 1
  <2> HIDE DEF Owners, Releasers
  <2>1. CASE \E j \in Job : job[j].session = r
    BY <1>1, <1>2, <2>1
  <2>2. CASE \E a \in Agent : r \in pend[a].releases
    BY <1>1, <1>3, <1>4, <2>2
  <2>3. CASE releaseRuns[r] # 0
    BY <1>1, <1>3, <1>5, <2>3
  <2> QED
    BY <1>6, <2>1, <2>2, <2>3 DEF Given
<1> HIDE DEF no, nr
<1>8. no + nr + releaseRuns[r] = 1
  BY <1>7
<1> QED
  BY <1>8 DEF no, nr

\* For any number of jobs, threads and artifacts: every artifact that was adopted is
\* owned by one record, in one thread's queue, about to be cleaned by one thread,
\* deferred, or was cleaned once, whatever expires, is deleted, replaced or leased.
THEOREM ArtifactsHaveOneCustodian == Spec => []HandleHasOneCustodian
BY InitCustody, NextCustody, OneHandleCustodian, PTL DEF Spec

\* For any number of jobs and solver sessions: every resource that was stored, or
\* came too late to be, is in one record, in one thread's release queue, or was
\* released once.
THEOREM ResourcesHaveOneCustodian == Spec => []ResourceHasOneCustodian
BY InitCustody, NextCustody, OneResourceCustodian, PTL DEF Spec

=============================================================================
