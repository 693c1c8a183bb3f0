# Verification of haute's background work and durable storage

haute is a pricing workbench: a FastAPI server (`src/src/haute`) and a browser
front end that build, preview, train, optimise, trace and deploy rating
pipelines. Most of its code transforms data or calls libraries. What is hard to
test is the part that outlives a request: jobs, their threads and worker
processes, timers, leases, queues and locks, and the files that processes share
and leave behind when they die. This directory holds TLA+ models of
that part, TLC configurations that check them on small instances, and proofs,
checked by TLAPS, for instances of any size.

Paths below are relative to `src/src/haute`. `PROJECT.json` maps each definition
to the lines it models.

## 1. The system

### Parts that are modelled

| part | state | operations | hard because |
|---|---|---|---|
| job store, `routes/_job_store.py` | records by job id, running activity, a retention timer per job, artifact leases, deferred cleanups, a per-thread queue of work for after the lock | create, poll, touch, update, publish a completion, terminal transitions, delete, clear, handle eviction, lease and release, schedule, timer callback | what a critical section detaches is dealt with after it; timers and readers run in between |
| status protocol, `routes/_job_lifecycle.py` and `_job_store.py` | a job's status | transition to a terminal reason | several ends of one job race |
| node data builds, `routes/_node_data_service.py`, with the registry and shutdown of `routes/_background_jobs.py` | running job of each slot and identity, tokens and latest job of the registry, a thread and a worker per job, memory admissions, the snapshot in each slot | run (join, start, supersede), clear, cancel, the thread's stages, the worker's own publication, shutdown | a build is superseded, cleared, cancelled or shut down at any stage, its worker publishes by itself, and a shutdown looks a finite number of times |
| shared flights, `routes/_shared_flights.py` `SharedFlights` | the flight of each key, its subscribers, outcome and cancellation | subscribe, wait, detach, run, finish | the last leaver, a new joiner and the end of the run meet |
| latest-wins queue, same file, `LatestWinsQueue` | per group one running flight, one waiting flight | subscribe (join, replace, start, wait), detach (abandon, drop), finish and promote | decisions under the lock are carried out after it, by different threads |
| request supersession, `routes/_supersession.py` over `routes/_timeouts.py` | per key a generation, an active flag, a canceller, a reference count; a limiter | `run_latest`, work left behind by a response timeout | awaits split every decision; work outlives its response; the state of a key is dropped and made anew |
| memory admission, `_execution_admission.py` with the lease of `_execution_context.py` | the memory each admitted operation has in flight | wait out short-lived holders, reserve, judge a refusal, grant growth, build the context, release it or finalize it | the steps of one admission are separate critical sections, each with its own sample of memory |
| source snapshots, `_source_cache.py`, with the supervised builds of `_input_preparation.py` | generations on disk, the pointer to the current one, lease markers by process, counts by process, a worker per supervisor | lease, re-encode, build, publish, clear, retire, supervise and settle a build | any process dies between two file operations, and others read, retire and publish around what it left |
| node snapshots, `_node_snapshots.py` | a slot's index, pin and one pointer per signature; generations, markers, counts; three kinds of lock | stage, re-check, publish, retire, lease, pin, clear, budget pass | a publication is a series of files; its rule is applied before the lock that moves the pointer |
| hosted storage, `_uc_transport.py` with the queue, bind and boot of `_project_storage.py` | pointers, bundles and the binding on a volume; clone, record, queue and session of a container | restore, boot on a kept disk, bind, save, publish, retry, prune | overlapping containers, calls that are not answered and take effect later, wiped and kept disks |
| file lock, `_file_lock.py` | lock file path and inodes, POSIX locks, thread owner and depth | acquire, re-enter, retry, give up, release, sweep | processes exit; a sweep unlinks the file others wait on |

How they interact. A build of a node's data is a job in the job store; its
thread asks the registry whether it still owns its slot before it publishes, and
transitions the record with the status protocol. Readers of a job's artifacts
hold leases in the store. Preview, trace and check requests go through
supersession; profiles and pivots join shared flights; the optimiser's frontier
pages use a latest-wins queue and publish handles into the job store. Training
waits out evaluation previews, and the solver its estimates, in memory admission,
which every heavy operation passes. Snapshots,
the project and git are guarded by file locks, also against other processes: the
lease lock of both snapshot stores is a file lock, so their models take it as
exclusive and freed by the death of its holder, which is what `FileLock` is shown
to implement. A build of a node's data publishes into the node snapshot store
from its worker; `NodeDataBuilds` keeps of it only which build wrote the slot.
Input snapshots are built by a worker that the server supervises and settles
for. On a hosted app every save counts into the push queue, which publishes the
project's history to a volume that the next container restores from.

### Parts that are not modelled

`PROJECT.json` lists every part with its reason. Three groups:

- protocols that belong here and are planned (section 7): single-flight joining
  of input builds, worker processes and their pools, optimiser sessions, training
  jobs, event bus, caches, saves and git transactions, workbench rollouts;
- data transformation without state over time, where tests by example fit:
  execution engine, expression parsing and code generation, rating and banding,
  json shredding, column lineage, schemas, tracing, scaffolding, the sandbox's
  checks;
- calls to external services (MLflow, Databricks, deployment), and the browser
  front end.

The last two groups are by far the larger part of the repository: the models
cover a small share of its lines and most of its server-side protocols.

### What must be right

- Job store: no file is deleted under a reader; what a record gives up is dealt
  with exactly once, and in the end; retained values are shed although nobody
  polls.
- Builds: one admission per slot; a superseded, cleared or cancelled build never
  reads completed and never writes over something newer; requests end, and a shutdown returns with no thread of a job left unless
  its timeout ran out.
- Flights and queue: the waiters of a key share one run, a lane has one run, what
  is given up has no waiter, waiters are answered, abandoned runs end.
- Supersession: one piece of work per key, permits conserved, an answer is the
  newest's, waiting requests that lost are told at once.
- Memory admission: what is in flight never exceeds what a sample found usable and
  always has an owner; an operation that can wait is not refused over holders that
  will be gone; waits end.
- File lock: mutual exclusion across threads and processes through retries,
  sweeps and exits; no lost wake-up.
- Source snapshots: whatever dies, the pointer names a complete generation and
  leased data stays complete; a copy made to re-encode old data never replaces
  newer data; a failed build's generation is gone once it is settled, or its
  removal was tried and the server knows that it failed.
- Node snapshots: leased data stays; Clear can find every file; a slot shows one
  dataset; a publication never makes the data worse and the budget never evicts
  what is pinned, although both decide on state they read earlier.
- Hosted storage: what the newest pointer names stays restorable (section 5 has
  the one exception), no published commit is lost, and what is shown as synced is
  published.

## 2. Modules

| module | models | notes |
|---|---|---|
| `JobLifecycle` | terminal reasons, precedence, transition | constants and operators shared by two models |
| `JobStore` | the job store | one action per public operation, then the steps after the lock |
| `NodeDataBuilds` | node data builds, registry, shutdown | extends `JobLifecycle` |
| `Flights` | one flight: subscribers, outcome, thread, token | shared by the next two, as `_Flight` and `FlightSubscription` are |
| `SharedFlights` | flights by key | extends `Flights` |
| `LatestWinsQueue` | one lane of the queue | extends `Flights` |
| `Supersession` | `run_latest`, limiter, background work | |
| `MemoryInFlight` | the state of memory admission and its promises | |
| `ExecutionAdmission` | admission against memory in flight | extends `MemoryInFlight` |
| `ExclusiveLock` | what `FileLock` promises | abstract specification |
| `FileLock` | the lock over inodes, handles and paths | implements `ExclusiveLock`: `Abstract`, `IsExclusiveLock` |
| `SourceCacheStore` | input snapshots of one identity, supervised builds | crashes |
| `NodeSnapshotStore` | node snapshots of one slot | crashes |
| `NodeSnapshotPins` | the same with a history of what the pin protected | extends `NodeSnapshotStore`, for the run `pins` |
| `HostedStorage` | one `uc://` location and its containers | crashes, failed calls, calls that land late |
| `JobStoreProofs`, `SupersessionProofs`, `FileLockProofs`, `SourceCacheStoreProofs`, `NodeSnapshotStoreProofs`, `HostedStorageProofs` | theorems about the module each is named after | section 6 |
| `AdmissionProofs` | theorems about `NodeDataBuilds` and `ExecutionAdmission` | extends the one and `MemoryInFlight`, instances the other as `Mem` |
| `FlightsProofs` | theorems about `LatestWinsQueue` and `SharedFlights` | extends the one, instances the other as `Shared` |
| `MC...` | instances for TLC | symmetry sets and the constant functions |

Operators whose name begins with `Mut` are faults: each states, next to the
operator it would replace, a bug somebody might write there. Nothing uses them in
a specification; substituting one shows that a property notices that bug.

### Correspondence

`JobStore`. A public method is one action by an agent (a request's thread, or a
timer's thread): the critical section under `_write_lock`, with the eviction
sweep it begins with. What the section leaves for later is kept in `pend[agent]`:
detached artifact groups, resources to release, a timer to schedule or start.
The second critical section of `_cleanup_artifact_handles` (`SplitCleanup`), each
cleaner call, each release and the timer's installation and start are steps of
their own (`AfterLock`). A reader's `with lease(...)` is `Lease` and `Unlease`. An agent with pending work
makes no further call. Heavy values are a flag for those that own nothing and one
session for the solver process. `PublishPointHandle` is the caller in
`_optimiser_frontier.py` that evicts one handle when it adds another. `Tick` is
the clock; a caller may have read it up to `LockWait` before its section.

`NodeDataBuilds`. `client[c]` is a request; `run` and `clear` hold `_slot_lock`
from `RunBegins`/`ClearBegins` to the end. `pc[j]` is a job's thread: join the
superseded thread, admission, preparation, worker, publication, failure,
release of the admission, the registry and the tables. The worker is not a
process of its own but the ways it may end: published or not before it returned,
stopped, or failed in one of `Fault`. `WorkerPublishes` writes the slot from the
worker, before the thread knows. `create_job` and `register_latest` are one
step, because nothing can see the job before it has a token. `stop` is where
`stop_background_jobs` is: a pass samples which threads are alive
(`ShutdownSamples`; `running` keeps whether there were any), then tries
`cancel_all`, which a registry whose lock is held passes over (`PassFindsHeld`;
`register_latest`, `owns_latest` and others hold it for a moment at any time, a
publication for as long as it writes), and then returns or waits for the next
pass. It returns when the sample was empty, or perhaps at its timeout, and makes
no pass after that. The server takes no new requests once it has begun; those
under way go on and may still register a job. `ShutdownBegins` is bounded to the time
before the last job exists, so that one can meet the shutdown.

`Flights`, `SharedFlights`, `LatestWinsQueue`. A caller's `pc` is between its
critical sections; `start()`, `cancel()` and the completion of a dropped future
happen after the lock and are steps. The queue is modelled for one lane: groups
share nothing.

`Supersession`. The coordinator runs on one event loop, so a stretch without an
await is one step. A condition's lock is never held across an await other than
`wait()`, so `async with` on it does not suspend. A request's place is the await
it is at. `state[r]` is the object it retained, named after the request that
made it, which tells the state of a key from its successor. "own" is the work's
result or its error. Requests and keys are numbered in order of arrival, which
only removes renamings. No limiter is a limiter that suffices for all requests.

`ExecutionAdmission`. A request is one call of `create_admitted_execution_context`
("short", "plain" or, with `wait_out_holders`, "patient") or of
`admit_growth_grant` ("growth"). Each critical section under `_IN_FLIGHT_LOCK` is
a step; the limit a section compares with is sampled before it, so it is any of
`LimitsFor`. `Sleep`, `Wake` and `CancelWait` are the condition's wait, whose slice
may end at any time. The holders a waiting call names are the "short" ones. A
settled budget brings its own sample (`budget`), one configured in bytes does
not. RSS and estimates, which need no other request, are `RefuseOutright`; the
headroom of the process makes any grant up to the least of the other terms
possible. A lease's release and a finalizer call the same closure, which acts
once, so a finalizer after a release is no step.

`FileLock`. An open file is an inode; unlinking clears the path, and an inode
that nobody has open may be used again. `Open`, `Flock`, `Verify` and the sweep's
steps are the system calls. Exit of a process closes its handles.

`SourceCacheStore`. `dir[g]` says what the disk holds of a generation: nothing, a
staging directory, the published directory, or what an interrupted removal left.
A process runs one store operation at a time (the identity lock) and `op[p].pc`
is where it is; leases are held outside that lock, while others publish, clear
and retire.
What one holding of `leases.lock` does without touching a file that a crash could
separate is one step. A build holds it across `RenameIntoPlace` and `MovePointer`;
`RetireAfterBuild` takes it anew. A reconciliation holds it across `Reconcile` and
`EndReconcile`, whose deletion may fail and leave the directory, wholly or in part
(`Remnants`): the server then has "unremovable" on record instead of "failed", as
`reconcile_unpublished` reports it and `tests/test_source_cache.py` pins it.
`Clear` removes the pointer and retires what it named in one step, where the code
unlinks first: a death between the two leaves generations nothing names, which is
what a retirement finds in the model too. Retirement
judges a marker as the code does: its own by its own count, another's by whether
the owner's token file is still locked, which is whether the process is alive.
The grace period is a free choice, except that without a current generation
everything is due. `OldGeneration` is the snapshot an earlier release of the
program wrote, whose parts a reader re-encodes into a copy (`StartCopy`,
`SkipCopy`). `sup[s]` is the server's side of a supervised worker: `SpawnBuild`,
`SpawnReader`, and what it settles when the worker has ended, however it ended.
A reader is spawned with a generation that its parent has leased and pins it by
itself: `PinGeneration` records the lease, then validates, and gives the lease
back when that fails. `Die` takes a process at any point; its locks are free and its markers stay.

`NodeSnapshotStore`. `Stage` is the writing of an artifact, `Recheck` the rule
`should_publish` applied under the identity's publication lock, and
`RegisterCandidate`, `Install`, `Commit`, `RetireOthers`, `FinishPublish` are the
files that `publish_node_output` then writes under the lease lock. Any of them
may raise (`PublishFails` before the commit, `RetirementFails` after it) and the
process may die after each. `ScanUsage` and `EvictCaptures` are the two looks of
the automatic budget, whose second one judges again under the lock.
Only a publication is split file by file: `Release` with the retirement it may
cause, `Clear`, `ClearSlot`, `Pin` and `EvictCaptures` write or remove several files (pointer,
directories, index) in one step under the lease lock, and a death or failure
between those is not modelled. `WriteIndex` writes the index with the rule that drops a pin on an identity that
is no longer listed. The upstream snapshot is a number; `PublishUpstream` and
`ClearUpstream` change it at any time.

`HostedStorage`. A container is one process life, hence one writer id. `op[c]`
is the operation under way with the call it makes next: read the head, fetch,
pack and upload, create the pointer, prune, write the binding. A save is a commit
in the clone (`Save`) and then its count in the queue (`EnqueueCheck`,
`EnqueueCount`), with the queue's worker and a bind in between. The fence is that
a pointer's create succeeds once: `CreatePointer` when the path is free,
`CreateRefused` when it is not. An unanswered create (`CreateUnanswered`) is in
`transit`: it may land at any later time, also after its sender died, or never
(`LandsLate`), while its sender's client library sends it again or the operation
fails. `CreateRefused` does not ask whose pointer it met, as the code does not. An
upload of a bundle that fails has no effect later. A pointer's
`tip` and a bundle's contents are sets of commits, and ancestry is inclusion. A
container may publish over a head it wrote itself, or over the one it last saw
(`Superseded`): `seen` is set by a restore, by a boot on a kept disk whose record
names the head, and by its own publications. A refusal because another app holds
the claim is possible at any time, so nothing rests on the claim.

## 3. Runs

| run | instance | shows |
|---|---|---|
| `jobstore` | 1 job, 2 threads, 2 timers, 1 handle, 1 resource, TTL 3, retention 2 | a leased artifact is never cleaned; the handle and the resource each have one custodian (a record, a queue, the deferred set, or the one call that ends them); everything detached is cleaned or released; heavy values are shed without polls |
| `jobstore_ttl` | 1 job, times to 3 | a disagreement between code and docstring: section 5 |
| `nodedata` | 3 jobs, 1 slot, 2 identities, 1 fault | one admission per slot; a replaced build ends superseded (unless it had completed); a cancelled build never completes; snapshots only move forward and nothing is written after a clear; requests are answered, and a shutdown returns with no thread of a job left or at its timeout, although no worker ends by itself |
| `flights` | 3 callers, 1 key, 3 flights | waiters of a key share one run that nobody else cancels; abandoned runs end |
| `queue` | 3 callers, 2 keys, 3 flights, `cancel_abandoned` | one run per lane; nobody waits for a flight that is cancelled or dropped; waiters are answered if runs return |
| `filelock` | 2 processes with 2 and 1 threads, 3 inodes, depth 2, 2 attempts, 2 sweeps, 1 exit | `FileLock` implements `ExclusiveLock`, hence exclusion; the lock is passed on |
| `supersession` | 3 requests, up to 2 keys, limiter of 1 or 2 | one piece of work per key, permits conserved; only the newest is served its own result and only others are told they are superseded, at once; requests end |
| `admission` | 3 requests, size 2, samples of 1 or 4 | section 1's list for memory admission; a wait ends without its deadline |
| `source_cache` | 2 servers, 2 workers, the old generation and 2 more, 2 leases each | section 1's list for source snapshots, with a death at any point and deletions that fail |
| `snapshots` | 2 processes, 2 signatures, 2 generations, no room in the budget, 2 upstream generations | section 1's list for node snapshots, with a death or a failure between any two files |
| `pins` | 2 processes, 2 signatures, 3 generations | a disagreement between code and comment: section 5 |
| `hosted` | 3 containers of one app, 2 at once, 2 saves or retries, 1 failed call, 3 generations, 1 retained | section 1's list for hosted storage, with creates that land late or are sent again |

Why these bounds. Each hazard of `PROJECT.json` needs at most three actors: who
holds something, who takes it away and who comes after. Three jobs let a build be
superseded again while its successor still waits for it. Three flights make an
abandoned one, its successor and a waiter that is replaced. Three inodes are the
file somebody holds, the one that replaced it and the one that replaces that;
two attempts make the loop repeat and end (the code's 5 repeats it further). In
the job store a TTL of 3 and a retention of 2 are the least that let a touch move
an expiry; the clock starts to move when a timer is armed and runs until the TTL has
passed; the second timer is the one a touch installs while the first fires.
A job stops with "error" there: the other reasons differ only in their
precedence. One resource means that a job's solver process is never replaced by
a second one in the run. A sample of 4 holds two requests of 2 and a sample
of 1 none, and a grant may take 1 or 2 of what is left; the run leaves out "plain"
requests, which differ from "short" ones only in that waiting calls do not name
them, as they do not name a "patient" or "growth" holder.
One client suffices for builds: every
request holds `_slot_lock` for all it does, except cancel, which is an action of
its own. In the source cache one server reads and re-encodes, the other publishes, clears or
settles for a worker; two new generations are any two of a build in process, a copy
and a worker's build that meet, while the old one is current or leased. Two
workers are one that builds and one that reads, or two that build at once. In a slot one process publishes while the other leases,
pins, clears or evicts; a budget without room makes every automatic capture a
candidate for eviction, and two upstream generations make a result stale between
its check and its commit. Three containers are the one that published, one that
overlaps it and one that comes up on what either left; retention of 1 prunes at
every publication, where the code's larger number prunes later. All three belong to
one app; what another app at the same location changes (whose binding a boot
finds, whose disk it comes up on) is left to the theorems of section 6, which
hold for any `AppOf`. The three storage runs have between four hundred thousand
and three million states.

`MaxJobs`, `MaxFlights`, `MaxRequests`, `MaxKeys`, `MaxTime`, `LockWait`,
`MaxDepth`, `MaxSweeps`, `MaxExits`, `MaxLeases`, `MaxUpstream`, `MaxLive`,
`MaxFaults`, `MaxGenerations` are bounds of the models; the theorems of section 6
hold for each of their values.

Symmetry is used in runs without liveness only. Deadlock is checked except where
a bounded number of flights, requests or generations is used up, the server has
shut down, or all processes may have died, and the model is done.

## 4. Fairness

- `JobStore`: time passes, started timers fire, run and finish, threads finish what they
  began after the lock, and a reader leaves its lease after finitely many store
  operations inside it (`Unlease`, strongly fair because those operations disable
  it for a while). For threads `AfterLock` is strongly fair because the model's pool of timers
  may be empty now and then, while the code just creates a timer. Nobody need make
  a further call: no operation that sweeps the store is fair.
- `NodeDataBuilds`: threads and requests go on, a worker that was asked to stop
  ends (the supervisor kills it after a grace period), and the shutdown's loop
  takes its next step, once it has begun; nothing is owed after it has returned.
  Of the passes, that one which can cancel does so in the end (`CancellingPass`,
  strongly fair): what holds the registry's lock holds it for a moment, so of
  passes that repeat some find it free. Without it `ShutdownEnds` fails on passes
  that always find the lock held. The timeout owes nothing.
  Nothing is assumed of a worker nobody asked to stop; the supervisor's time
  limit is not relied on.
- `SharedFlights`, `LatestWinsQueue`: callers that leave carry out what they
  decided, ended runs call `_finished`, and a run that was cancelled returns
  (its token is polled). Runs of their own accord need not return; that they do is
  the antecedent of `WaitersAreAnswered` and of nothing else.
- `Supersession`: the event loop runs what is ready. That work ends, and work
  left behind too, is the antecedent of `RequestsEnd` only;
  `SupersededIsAnswered` holds for work that never ends. The limiter is taken as
  weakly fair, no order of grants is assumed.
- `ExecutionAdmission`: requests go on, a sleeping wait wakes (its slice is a
  quarter of a second), admitted work ends and is released, and a dropped context
  is finalized. Deadlines owe nothing: `WaitsSettle` holds without them. It is
  claimed for budgets that brought a sample and for growth grants; a limit that is
  sampled anew at every look may be low whenever it matters, and then only the
  deadline ends the wait.
- `FileLock`: a thread inside acquire, release or sweep goes on, a holder
  releases or its process exits, and of those who poll for a free lock somebody
  gets it (not each of them: the polling in `_acquire_file_lock` is not fair).
- The storage models claim safety only and assume no fairness: a process may
  stop anywhere for good, and everything they say must hold then too.

## 5. Findings

`jobstore_ttl` checks `CompletedKeptForTTL`: a completed job stays for the TTL. It
is violated. The class docstring of `JobStore` says "Completed jobs keep their
lightweight status/result metadata for ``ttl_seconds``" and the constructor's
says a job's metadata is kept "from its last activity while running", but
`_job_eviction_timestamp_locked` returns `created_at` for a job that is not
running. A job that ran longer than the TTL is therefore gone at the first sweep
after it completes. `specs/background-jobs/high-level.md` describes what the code
does, so code and docstring disagree and one of them should change.

`pins` checks `PinProtectsUntilCommit`: a slot the user pinned stays pinned for as
long as the data it protected is current. It is violated. The comment in
`publish_node_output` says of a crash before the pointer moves that "Clear can
still find it, and the slot's pin protects the previous current data until the
pointer commits". But the pin has already been moved to the candidate's
identity. When the process dies there, the next budget pass or release retires
the unpointed generation, `_prune_identity_locked` takes its identity out of the
index, and `_write_slot_index_locked` then drops the pin that names it. The kept
data is current and no longer pinned, so the budget may evict it.

Noted while modelling, without a property that calls it wrong: a request may join
a build that was already asked to stop and is answered with a cancelled build; a
cleaner that raises is logged and not tried again; in `run_latest` the second
wait for an idle key can never wait (a request that is not stale is the newest,
and only a newer one could have made the key active), so it is a guard in
`Activate`; a thread of a build that cannot start leaves its job running in every
table. `stop_background_jobs` says that "a job registered or a thread started
while this waits is cancelled and waited for too"; it is not when the last pass
sampled before the thread was alive, or found the registry's lock held on that
pass: a request under way at shutdown may then start a build that nobody
cancels. `ShutdownEnds` is about the threads the last sample saw.

In hosted storage: a boot on a kept disk starts the queue with nothing pending
although the clone may hold saves the dead container never published, so
"synced" is shown over them until the next save (`SyncedSavesArePublished` is
about the saves of the process itself); when `hold_claim` fails to take its claim
again the heartbeat stops and publishing goes on without a claim, which is safe
only because of the fence; a fork and a bind of one process share the writer id
and therefore the names of their bundles.

In hosted storage, a writer can make its own newest generation impossible to
restore. `volume_create` says of an ambiguous failure that "the request may have
landed" and that "the next attempt reads the location and reconciles", and
`_publish_to_uc` says of a refusal that "another writer committed this generation
between our read and our create" and that its own bundle "is an orphan". Both
miss the case in which the pointer that exists is the writer's own: the client
library sends an unanswered create again, or a create lands after the next attempt
has read the head. The writer then deletes the bundle that the newest pointer
names. The shortest trace in the model is `BootFresh`, `StartBind`, `BindHead`,
`PublishHead`, `Pack`, `CreateUnanswered`, `LandsLate`, `CreateRefused`. A bound
container is healed by the user's retry, which publishes the next generation over
its own; a bind that failed this way, and a writer that dies before the retry,
leave the location as it is. `HeadStaysRestorable` says that this is the only way, and
that a push which ends so still owes its saves and waits for the user. To see the
trace, add `HeadRestorable` to the `INVARIANTS` of `MCHostedStorage.cfg`.

## 6. Proofs

TLAPS checks these for every value of the constants, given the named assumptions
of the modules: times are naturals, null values are not members of the sets they
stand beside, there is at least one attempt, slot, identity, size and sample, the
samples of memory are finitely many (they are bytes below the machine's memory),
and a process may lease a generation twice. None bounds a number from above.
Every safety and action property of a passing run is stated by a theorem.

| theorem | says | for |
|---|---|---|
| `JobStoreProofs!TypeCorrect` | `[]TypeOK` | job store |
| `JobStoreProofs!LeaseSafety` | `[]LeasedArtifactIntact` | |
| `JobStoreProofs!DeferredNotOrphaned` | `[]DeferredHasReader` | |
| `JobStoreProofs!ArtifactsHaveOneCustodian` | `[]HandleHasOneCustodian` | |
| `JobStoreProofs!ResourcesHaveOneCustodian` | `[]ResourceHasOneCustodian` | |
| `AdmissionProofs!SpecIInv` | `[]IInv` | node data builds |
| `AdmissionProofs!SpecOneAdmissionPerSlot` | `[]OneAdmissionPerSlot` | |
| `AdmissionProofs!SpecReplacedEndsSuperseded` | `[]ReplacedEndsSuperseded` | |
| `AdmissionProofs!SpecCancelledNeverCompletes` | `CancelledNeverCompletes` | |
| `AdmissionProofs!SpecSnapshotsMoveForward` | `SnapshotsMoveForward` | |
| `AdmissionProofs!ReservationsAreOwned` | `[]ReservationIsOwned` | memory admission |
| `AdmissionProofs!InFlightIsWithinMemory` | `[]InFlightWithinMemory` | |
| `AdmissionProofs!RefusalsStand` | `[]ShortHoldersNeverRefuse` | |
| `FlightsProofs!SpecIInv` | `[]IInv` | latest-wins queue |
| `FlightsProofs!SpecOneRun` | `[]OneRun` | |
| `FlightsProofs!SpecGivenUpHasNoWaiter` | `[]GivenUpHasNoWaiter` | |
| `FlightsProofs!SpecWaitersShareOneRun` | `[]WaitersShareOneRun` | shared flights |
| `SupersessionProofs!SpecIInv` | `[]IInv` | supersession |
| `SupersessionProofs!SpecOneWorkPerKey` | `[]OneWorkPerKey` | |
| `SupersessionProofs!SpecPermitsConserved` | `[]PermitsConserved` | |
| `SupersessionProofs!SpecNewestIsServed` | `NewestIsServed` | |
| `FileLockProofs!TypeCorrect` | `[]TypeOK` | file lock |
| `FileLockProofs!Exclusion` | `[]MutualExclusion` | |
| `FileLockProofs!Implements` | `IsExclusiveLock` | |
| `SourceCacheStoreProofs!SpecIInv` | `[]IInv` | source snapshots |
| `SourceCacheStoreProofs!SpecPointerNamesWhole` | `[]PointerNamesWhole` | |
| `SourceCacheStoreProofs!SpecLeasedIsWhole` | `[]LeasedIsWhole` | |
| `SourceCacheStoreProofs!SpecFailedBuildIsSettled` | `[]FailedBuildIsSettled` | |
| `SourceCacheStoreProofs!SpecCopyReplacesItsSource` | `CopyReplacesItsSource` | |
| `NodeSnapshotStoreProofs!SpecIInv` | `[]IInv` | node snapshots |
| `NodeSnapshotStoreProofs!SpecLeasedSnapshotStays` | `[]LeasedSnapshotStays` | |
| `NodeSnapshotStoreProofs!SpecNothingIsStranded` | `[]NothingIsStranded` | |
| `NodeSnapshotStoreProofs!SpecOneDatasetPerSlot` | `[]OneDatasetPerSlot` | |
| `NodeSnapshotStoreProofs!SpecReplacementIsNoWorse` | `ReplacementIsNoWorse` | |
| `NodeSnapshotStoreProofs!SpecPinnedIsNotEvicted` | `PinnedIsNotEvicted` | |
| `HostedStorageProofs!HistorySafe` | `[]HistoryIsKept` | hosted storage |
| `HostedStorageProofs!HeadSafe` | `HeadStaysRestorable` | |
| `HostedStorageProofs!SyncedSafe` | `[]SyncedSavesArePublished` | |

Each has the form `Spec => P`, with `Mem!Spec` for memory admission and `Shared!Spec`
for the shared flights. The argument is the same throughout: the property
is not inductive, because it says what may not be seen and not why, so an
invariant says what each process knows at each place it can be at; one lemma for
each action shows that the step keeps it. What the invariants say:

Job store, leases. A new lease may be taken at any time on an artifact some
record owns, so such an artifact must not already be on its way to a cleaner.
`LeaseInv` is `TypeOK`, `OneOwner` (no two records own one artifact),
`OwnedNotConsumed` (what a record owns is not detached, deferred, doomed or
cleaned, and everything that is has been adopted once, so it is not adopted
again), `NoneReadWhileCleaned` and `DeferredHasReader`. Most operations do one
thing to artifacts, stated once as `SectionEffect`: they move handles out of
records into the agent's queue and put new ones into at most one record.
`SectionStep` proves that any such step keeps `LeaseInv`; `OperationLease` shows
that each operation is one, `AfterLockLease` and `TimerLease` do the rest.

Job store, custody. That something is dealt with exactly once is two statements:
it is never forgotten, and never decided on twice. `CustodyInv` adds to
`LeaseInv`, for artifacts, `HandleKept` (what was adopted is owned or its cleanup
is decided or over) and `ConsumedOnce` (a cleanup is at one stage of one agent,
and a cleaner has run at most once); for resources `ResourceKept` and `GivenOnce`;
and two facts that make a section's effect exclusive: `TimersIdle` (a timer's
agent has nothing left to do until its callback's block is over) and `UnbornBare`.
A section is again one kind of step (`Block`), and each action after the lock
moves one thing by one stage.

Node data builds. One admission per slot rests on a chain: a job waits only for
the thread of the job it superseded, so that this thread's end has to mean that
everything older is gone too. `Turn` says so: while a job waits, whatever is not
gone of its slot is the job it waits for or older; past that, nothing older is left.
For this the tables must name the newest job of the slot (`Names`), which is what
a new request waits for, and a table without an entry must mean that all are gone.
`LockIsHeld` and `NewJob` cover the request in between, `Cleared` and `Clearing`
what a clear has seen: no job that existed then can still write. `Written` and
`Turn` give `SnapshotsMoveForward`. `IsReplaced` says that a superseded job is
nobody's latest, so it cannot complete, and reads superseded or is about to.

Memory admission. `AdmissionProofs` shares the state, the constants' assumption and
the properties with `ExecutionAdmission` through `MemoryInFlight`, and takes the
actions from the instance `Mem`. `MemoryInv` is `TypeOK`, `ReservationIsOwned` and `Sized` (a
request that arrived needs some memory): without the last a reservation of nothing
could not be told from none. Every action but `Arrive` and `Deadline` moves one
request and sets its reservation to match its place (`MovesOnly`), so one lemma,
`MovesOnlyKeeps`, serves them all. A refusal stands because what it rests on,
`Excuse`, does not go away: only an arrival sets what a request is. For
`InFlightWithinMemory` the sum over the requests, which the specification folds
over their set, has to be shown to exist and to change by what one request's
reservation changes. `Sums` gives the sums over all subsets at once; that they
exist for subsets of any size is an induction on the size, made as a statement
about a set of numbers (`NumbersByInduction`, from the library's theorem that a
nonempty set has a least element in a well-founded order), which needs no operator
as a parameter. `SumsChange` is the lemma the steps use.

Flights. In the queue, `OneStarter` says that a flight is started once, by the
caller that created it or by the thread that promoted it, and until then has no
thread; with `RunHasLane` that is `OneRun`. `CancelledIsMarked` and `DroppedIsGone`
keep what is given up apart from what may still be joined. In the shared flights
`WaitedIsNamed` says that what somebody waits for is the flight of its key until
it has an outcome, so two waiters of one key wait for the same.

Supersession. `Counted` and `Registered` keep the state of a key alive while work
or a response needs it, so that two states of one key never guard work at once;
`Guarded` says that a state guards one piece of work. `Ordered` relates the
generation the code compares, which starts anew with each state of a key, to the
order in which a key's requests took theirs, which the model records: a request is as far behind in
one as in the other, so that newest of its state is newest of its key. The permits
held are counted as a set of requests.

File lock. Exclusion needs to know which thread has locked which inode and that
the path of a holder still names it. `LockInv` is `TypeOK`, `HandleIsOpen`,
`FileIsLocked` (past the system call, the inode of the handle is locked by that
thread), `HeldFileIsNamed` (a holder, and a sweep about to unlink, hold the inode
the path names), `TriesLeft` and `HolderHasDepth`. `OneHolder` derives exclusion:
two holders' inodes are both the path's, so one, and it is locked by one thread.
`Implements` maps the holder to the abstract lock's owner and shows for each action
which abstract step it is, an acquisition by `Verify` for instance, or that it is a stutter.

Source snapshots. What dies leaves its files behind, so what `IInv` says of
directories rests on the processes that live: `LockIsHeld` (who is
between two file operations of a section has the lock), `LeaseIsMarked` (a lease
has its marker where a retirement looks), `BuildIsPrivate` (a build's generation is
its own until the pointer moves), `RenamedIsReady` (what is about to be named is
whole, and a copy's source is still current), `CopyHolds`, and `SettledIsStill`:
nobody builds what a server settles or has settled, as failed or as unremovable.
Retirements, of
which there are several, are one kind of step (`Tidies`).

Node snapshots. `ApprovalStands` is the heart: the rule was applied before the
lease lock, and what it was applied to is still what the artifact would replace, or
something no better. It holds because every publication of an identity has the
publication lock, and what others do under the lease lock alone only takes pointers
away or ages data (`Dated`: freshness is lost, not regained). `OwnGeneration`,
`LocksAreHeld`, `Unexposed`, `PointerIsOwn` and `Marked` say what is on disk at each
step of a publication, `Singled` that only the step after a commit can show two
datasets.

Hosted storage. A new pointer keeps the history when the clone it was packed from
held the head it was packed against, and when that head is still the newest at
the create. The invariant therefore says, for each container, what its knowledge
is worth: `CloneKeeps` (its clone holds everything of the generation its record
names, of the one it last saw, and of every one it wrote while up),
`Unpublished` (a container that is not serving yet has sent no create, so no
pointer names it as writer), `Fenced` (what a publication under way relies
on: the head it read, the tip it packed, the bundle it uploaded) and `Sent` (a
create in transit holds its writer's clone as it was over the head it was
sent against, so landing late is as good as landing in time). With the types and
`HistoryIsKept` that is `IInv`. A step of one container that leaves the
volume and other clones alone is covered by `QuietKeeps` and `LocalStep`; `Lands`
is what a create does to the volume, in time or late, and `DropStep` the removal
of bundles by pruning or by a refused writer. The fence is used once, in
`LandsFacts`: a create succeeds only when the newest generation is the one before
it. `HeadStaysRestorable` is an action property, so each action is looked at once
from a state of `IInv`: those that write nothing (`HeadUnmoved`), `Pack`, whose
bundle is for a generation nobody has committed or is packed again under its
own name, a landing, which brings a bundle that `Fenced` or `Sent` vouches for,
a refusal, which removes a bundle of the refused writer only, and
a pruning, which spares the head. That a session shown as synced is published is a
second invariant on top of the first, `SyncInv`: `Counted` (with no save between its
commit and its count, an unpublished save is pending, and one the publication under
way did not pack is pending beyond its batch), `Batched`, `CommittedTip`, and
`Unnamed` (nobody else can make a commit of a container's name).

Only model-checked: the ten liveness properties of section 3 (`HeavyValuesAreShed`,
`DetachedIsReclaimed`, `RequestsAreAnswered`, `ShutdownEnds`, `AbandonedRunsEnd`,
`WaitersAreAnswered`, `LockIsPassedOn`, `SupersededIsAnswered`, `RequestsEnd`,
`WaitsSettle`), since the prover has no rules for fairness and ENABLED; and the two
properties of section 5, which do not hold.

## 7. Limits and plan

Abstracted inside modelled parts: the contents of records, results and
snapshots; metrics, messages and status texts; node profiles and points of
`NodeDataService`; the Windows branch and the link checks of `_file_lock.py`, and
file systems without inode numbers; a thread that cannot start; a second
cancellation of the same request while the first is being cleaned up. How a
memory limit is read from settings, environment and host, the cleanups a lease
runs before it releases, and `preview_growth_grant_bytes`, which changes nothing,
are outside `ExecutionAdmission`. A finalizer
that the garbage collector runs inside a critical section of the same thread
(the lock is re-entrant, and the sums iterate over the dictionary it removes
from) is not modelled either: sections are atomic. What
`stop_background_jobs` returns is not modelled, only what it does.

Source snapshots: what validation of parts reads, the sweeps of stale staging
directories and token files, the status views, single-flight joining and progress
of input builds and the API-input variant. Node snapshots: inventories, the sweep
of lock files, clearing by digest, sizes (each is one) and the order of use, which
is left open. Hosted storage: the claim lease beyond its refusals, forks,
comparison with an upstream, the git transport and the branch a restart resumes,
an upload of a bundle that lands after it was reported failed, and what an
interrupted operation leaves in its own container (staging files and their sweep).

Next, in this order:

1. `InputCacheBuilds` (`routes/input_cache.py`, `SingleFlightCoordinator`,
   `IsolatedJobSupervisor`): single flight by source on top of
   `SourceCacheStore`'s supervised build.
2. Worker pools and their protocol (`_interactive_workers.py`,
   `_worker_protocol.py`, `_parent_watch.py`).
3. Optimiser sessions and frontier on top of `JobStore` and `LatestWinsQueue`;
   training lifecycle.
4. Saves and git transactions with crashes.
5. The claim lease of hosted storage, with its clock; event bus and in-memory
   caches.

Proofs: the properties that passing runs check are proved, except liveness. Next come
the promises behind them, as abstract specifications that the modules implement
by a refinement mapping, as `FileLock` does: a snapshot store whose reader sees
one complete dataset from lease to release, which `SourceCacheStore` and
`NodeSnapshotStore` share; a history that only grows, for `HostedStorage`; a lane
that runs one of its newest requests at a time, for `LatestWinsQueue` and
`Supersession`. Then action properties of the job store: a record's lifecycle, and
that a completed artifact is detached by an eviction, a deletion or a successor only.

## 8. Running

In this directory: `tlc -workers 2 -config MCFileLock.cfg MCFileLock` for a run
(each takes a few minutes at most), `tlapm JobStoreProofs.tla` for proofs.
