--------------------------- MODULE HostedStorage ---------------------------
(***************************************************************************)
(* Durable storage of a hosted project on one Unity Catalog location: the  *)
(* publication fence and the restore of _uc_transport.py, with the push    *)
(* queue, the bind and the boot of _project_storage.py that drive them.    *)
(*                                                                         *)
(* A container is one process life, and so one writer id; it ends in Die,  *)
(* between any two of its steps. A later container of the same app starts  *)
(* on a wiped disk or on the disk a dead one left. Every call to the       *)
(* volume is one step, and any of them may fail, with no effect then or    *)
(* later, except the pointer's create: one that is not answered may land   *)
(* at any later time or never, and the client library sends it again or    *)
(* reports the failure.                                                    *)
(*                                                                         *)
(* The claim lease is advisory ("the per-write fence remains the           *)
(* correctness layer underneath it"): a container that asks for it may     *)
(* hold it or be refused at any time, whoever else holds it too.           *)
(*                                                                         *)
(* Data is abstracted to the set of commits a history holds. A pointer     *)
(* file is never deleted or rewritten, so the pointers form a sequence     *)
(* indexed by generation, and a clone's generation record is the           *)
(* generation's number. The volume's create-only upload is external and    *)
(* admits one create per path.                                             *)
(***************************************************************************)
EXTENDS Integers, Sequences, FiniteSets

CONSTANTS
  Containers,   \* the processes, each used once
  Apps,         \* the apps the platform runs them for
  AppOf,        \* the app of each container
  MaxLive,      \* bound on the containers that overlap
  MaxRequests,  \* bound on the saves and manual retries
  MaxFaults,    \* bound on the calls that fail
  MaxGenerations, \* bound on the generations published
  Retain,       \* _UC_BUNDLE_RETAIN
  None

\* Commit 0 of a container is the project it was seeded with.
Commits == Containers \X (0 .. MaxRequests)
Generation == 1 .. MaxGenerations

\* The operations, and the call each of them makes next.
Kinds == {"boot", "present", "bind", "adopt", "push"}
Steps == {"head", "fetch", "pack", "create", "prune", "bindrecord"}

ASSUME StorageAssumption ==
  /\ AppOf \in [Containers -> Apps]
  /\ {MaxLive, MaxRequests, MaxFaults, MaxGenerations} \subseteq Nat
  /\ Retain \in Nat \ {0}
  /\ None \notin Kinds \cup Steps
  /\ \A commits \in SUBSET Commits : None # commits

VARIABLES
  \* The volume.
  pointers,   \* pointers/NNNNNN.json, by generation
  bundles,    \* bundles/NNNNNN-<writer>.bundle: its commits, or None
  binding,    \* the apps whose state volume records this location
  transit,    \* the unanswered creates, any of which may still land
  \* Each container.
  life,       \* "new", "up" or "dead"
  local,      \* the commits of its clone
  record,     \* the clone's uc-generation.json, 0 when there is none
  origin,     \* the clone's origin names the location
  bound,      \* _session.binding is set and the queue runs
  seen,       \* _writer.last_seen_generation, 0 when there is none
  op,         \* the boot, bind or publish under way
  saving,     \* a save between its commit and its count
  queue,      \* PushQueue
  requests,   \* how many saves and retries were made
  faults      \* how many calls failed

volume == <<pointers, bundles, binding, transit>>
clone == <<local, record, origin>>
vars == <<pointers, bundles, binding, transit, life, local, record, origin,
          bound, seen, op, saving, queue, requests, faults>>
counters == <<requests, faults>>

Idle == [kind |-> None, at |-> None, head |-> 0, tip |-> {}]
FreshQueue ==
  [pending |-> 0, batch |-> 0, blocked |-> FALSE, terminal |-> FALSE]

Begin(kind) == [Idle EXCEPT !.kind = kind, !.at = "head"]

Newest == Len(pointers)
Alive(c) == life[c] = "up"
At(c, step) == Alive(c) /\ op[c].at = step
Publishing(c) == op[c].kind \in {"adopt", "push"}
Go(c, step) == op' = [op EXCEPT ![c].at = step]

Requested == requests < MaxRequests /\ requests' = requests + 1
Faulted == faults < MaxFaults /\ faults' = faults + 1

Pointers == [writer : Containers, tip : SUBSET Commits]

TypeOK ==
  /\ pointers \in Seq(Pointers)
  /\ Newest <= MaxGenerations
  /\ bundles \in [Generation -> [Containers -> (SUBSET Commits) \cup {None}]]
  /\ binding \subseteq Apps
  /\ transit \subseteq [head : 0 .. MaxGenerations - 1, pointer : Pointers]
  /\ life \in [Containers -> {"new", "up", "dead"}]
  /\ local \in [Containers -> SUBSET Commits]
  /\ record \in [Containers -> 0 .. MaxGenerations]
  /\ seen \in [Containers -> 0 .. MaxGenerations]
  /\ origin \in [Containers -> BOOLEAN]
  /\ bound \in [Containers -> BOOLEAN]
  /\ saving \in [Containers -> {"no", "check", "count"}]
  /\ op \in [Containers -> [kind : Kinds \cup {None}, at : Steps \cup {None},
                            head : 0 .. MaxGenerations, tip : SUBSET Commits]]
  /\ queue \in [Containers -> [pending : Nat, batch : Nat,
                               blocked : BOOLEAN, terminal : BOOLEAN]]
  /\ requests \in 0 .. MaxRequests /\ faults \in 0 .. MaxFaults

Init ==
  /\ pointers = <<>>
  /\ bundles = [g \in Generation |-> [c \in Containers |-> None]]
  /\ binding = {} /\ transit = {}
  /\ life = [c \in Containers |-> "new"]
  /\ local = [c \in Containers |-> {}]
  /\ record = [c \in Containers |-> 0]
  /\ seen = [c \in Containers |-> 0]
  /\ origin = [c \in Containers |-> FALSE]
  /\ bound = [c \in Containers |-> FALSE]
  /\ op = [c \in Containers |-> Idle]
  /\ saving = [c \in Containers |-> "no"]
  /\ queue = [c \in Containers |-> FreshQueue]
  /\ requests = 0 /\ faults = 0

-----------------------------------------------------------------------------
(* What ends an operation. *)

\* disarm: a bind that starts no queue drops the count with it.
Disarmed(c, q) == [q EXCEPT !.pending = IF bound[c] THEN @ ELSE 0]

\* _attempt after a failure: no attempt until something changes.
Blocked(q, terminal) ==
  [q EXCEPT !.batch = 0, !.blocked = TRUE, !.terminal = terminal]

\* _attempt after a success: only the batch it began with is published.
Pushed(q) ==
  [q EXCEPT !.pending = IF @ > q.batch THEN @ - q.batch ELSE 0, !.batch = 0]

\* An operation raises: a boot gates its container, a bind leaves the session
\* unbound, a push blocks the queue.
Fail(c, terminal) ==
  /\ op' = [op EXCEPT ![c] = Idle]
  /\ life' = IF op[c].kind \in {"boot", "present"}
             THEN [life EXCEPT ![c] = "dead"] ELSE life
  /\ queue' = [queue EXCEPT ![c] =
       CASE op[c].kind = "push" -> Blocked(@, terminal)
         [] op[c].kind \in {"bind", "adopt"} -> Disarmed(c, @)
         [] OTHER -> @]

\* A call to the volume or to git fails before it has any effect; pruning
\* swallows its failures, and a create that fails has a step of its own. A live
\* foreign lease (before the head is read) and a refusal of git's (packing) are
\* terminal.
Unavailable(c) ==
  /\ Alive(c)
  /\ op[c].at \in Steps \ {"create", "prune"}
  /\ Faulted
  /\ \/ Fail(c, FALSE)
     \/ op[c].at \in {"head", "pack"} /\ Fail(c, TRUE)
  /\ UNCHANGED <<volume, clone, bound, seen, saving, requests>>

-----------------------------------------------------------------------------
(* Boot: restore_if_bound. *)

MayStart(c) ==
  life[c] = "new" /\ Cardinality({d \in Containers : Alive(d)}) < MaxLive

\* A container comes up on a wiped disk: it restores the bound project, or
\* seeds one of its own.
BootFresh(c) ==
  /\ MayStart(c)
  /\ life' = [life EXCEPT ![c] = "up"]
  /\ IF AppOf[c] \in binding
     THEN /\ op' = [op EXCEPT ![c] = Begin("boot")]
          /\ UNCHANGED local
     ELSE /\ local' = [local EXCEPT ![c] = {<<c, 0>>}]
          /\ UNCHANGED op
  /\ UNCHANGED <<volume, record, origin, bound, seen, saving, queue, counters>>

\* A container comes up on the disk a dead one of its app left. A clone of
\* another repository than the bound one gates it.
BootPresent(c, d) ==
  /\ MayStart(c) /\ life[d] = "dead" /\ AppOf[d] = AppOf[c]
  /\ local[d] # {}
  /\ life' = [life EXCEPT ![c] = IF AppOf[c] \in binding /\ ~origin[d]
                                 THEN "dead" ELSE "up"]
  /\ op' = IF AppOf[c] \in binding /\ origin[d]
           THEN [op EXCEPT ![c] = Begin("present")]
           ELSE op
  /\ local' = [local EXCEPT ![c] = local[d], ![d] = {}]
  /\ record' = [record EXCEPT ![c] = record[d], ![d] = 0]
  /\ origin' = [origin EXCEPT ![c] = origin[d]]
  /\ UNCHANGED <<volume, bound, seen, saving, queue, counters>>

\* restore_from_uc reads the head...
RestoreHead(c) ==
  /\ At(c, "head") /\ op[c].kind = "boot"
  /\ \/ /\ Newest > 0
        /\ op' = [op EXCEPT ![c].head = Newest, ![c].at = "fetch"]
        /\ UNCHANGED <<life, queue>>
     \/ Newest = 0 /\ Fail(c, FALSE)
  /\ UNCHANGED <<volume, clone, bound, seen, saving, counters>>

\* ... and clones its bundle, which retention may have dropped meanwhile. The
\* clone's record is best-effort.
RestoreFetch(c) ==
  LET h == op[c].head
      stored == bundles[h][pointers[h].writer]
      whole == stored # None /\ pointers[h].tip \subseteq stored
  IN  /\ At(c, "fetch")
      /\ \/ /\ whole
            /\ local' = [local EXCEPT ![c] = stored]
            /\ origin' = [origin EXCEPT ![c] = TRUE]
            /\ seen' = [seen EXCEPT ![c] = h]
            /\ \/ record' = [record EXCEPT ![c] = h] /\ UNCHANGED faults
               \/ record' = [record EXCEPT ![c] = 0] /\ Faulted
            /\ bound' = [bound EXCEPT ![c] = TRUE]
            /\ op' = [op EXCEPT ![c] = Idle]
            /\ UNCHANGED <<life, queue>>
         \/ /\ ~whole
            /\ Fail(c, FALSE)
            /\ UNCHANGED <<clone, bound, seen, faults>>
      /\ UNCHANGED <<volume, saving, requests>>

\* clone_matches_head: a generation's pointer never changes, so its number
\* stands for its tip and its writer.
Matches(c) == record[c] = Newest

\* The present path teaches the fence the clone's generation on an exact match.
PresentHead(c) ==
  /\ At(c, "head") /\ op[c].kind = "present"
  /\ seen' = [seen EXCEPT ![c] = IF Newest > 0 /\ Matches(c) THEN Newest ELSE @]
  /\ bound' = [bound EXCEPT ![c] = TRUE]
  /\ op' = [op EXCEPT ![c] = Idle]
  /\ UNCHANGED <<volume, clone, life, saving, queue, counters>>

-----------------------------------------------------------------------------
(* Bind: BindTask and bind_remote. *)

Serving(c) == Alive(c) /\ op[c].kind \notin {"boot", "present"}

StartBind(c) ==
  /\ Serving(c) /\ op[c] = Idle /\ ~bound[c]
  /\ op' = [op EXCEPT ![c] = Begin("bind")]
  /\ UNCHANGED <<volume, clone, life, bound, seen, saving, queue, counters>>

\* A populated location is only recorded, for the restart to restore; an empty
\* one adopts this project, whose origin is set before it publishes.
BindHead(c) ==
  /\ At(c, "head") /\ op[c].kind = "bind"
  /\ \/ Newest > 0 /\ Go(c, "bindrecord") /\ UNCHANGED origin
     \/ /\ Newest = 0
        /\ op' = [op EXCEPT ![c].kind = "adopt", ![c].at = "head"]
        /\ origin' = [origin EXCEPT ![c] = TRUE]
  /\ UNCHANGED <<volume, local, record, life, bound, seen, saving, queue,
                 counters>>

\* write_binding: the end of a bind, and of a push, where it writes only a
\* restart target that moved (the branch is not modelled). An adopting bind
\* starts the queue, whose worker finds what was counted while armed.
RecordBinding(c) ==
  /\ At(c, "bindrecord")
  /\ binding' = binding \cup {AppOf[c]}
  /\ bound' = [bound EXCEPT ![c] = @ \/ op[c].kind = "adopt"]
  /\ queue' = [queue EXCEPT ![c] =
       CASE op[c].kind = "bind" -> Disarmed(c, @)
         [] op[c].kind = "push" -> Pushed(@)
         [] OTHER -> @]
  /\ op' = [op EXCEPT ![c] = Idle]
  /\ UNCHANGED <<pointers, bundles, transit, clone, life, seen, saving,
                 counters>>

-----------------------------------------------------------------------------
(* Saves and the push queue. *)

SavesOf(c) == {x \in local[c] : x[1] = c}

\* A save's commit lands in the clone.
Save(c) ==
  /\ Serving(c) /\ saving[c] = "no"
  /\ Requested
  /\ local' = [local EXCEPT ![c] = @ \cup {<<c, requests + 1>>}]
  /\ saving' = [saving EXCEPT ![c] = "check"]
  /\ UNCHANGED <<volume, record, origin, life, bound, seen, op, queue, faults>>

\* Fault: a save made while a bind publishes is not counted.
MutCounts(c) == bound[c]

\* enqueue counts for a running queue, or one armed for the length of a bind.
Counts(c) == bound[c] \/ op[c].kind \in {"bind", "adopt"}

\* enqueue looks at the queue before it takes its lock...
EnqueueCheck(c) ==
  /\ Alive(c) /\ saving[c] = "check"
  /\ saving' = [saving EXCEPT ![c] = IF Counts(c) THEN "count" ELSE "no"]
  /\ UNCHANGED <<volume, clone, life, bound, seen, op, queue, counters>>

\* ... and counts under it; only a terminal failure stays blocked.
EnqueueCount(c) ==
  /\ Alive(c) /\ saving[c] = "count"
  /\ saving' = [saving EXCEPT ![c] = "no"]
  /\ queue' = [queue EXCEPT ![c].pending = @ + 1,
                            ![c].blocked = @ /\ queue[c].terminal]
  /\ UNCHANGED <<volume, clone, life, bound, seen, op, counters>>

RetryNow(c) ==
  /\ Serving(c) /\ bound[c]
  /\ Requested
  /\ queue' = [queue EXCEPT ![c].blocked = FALSE, ![c].terminal = FALSE,
                            ![c].pending = IF @ = 0 THEN 1 ELSE @]
  /\ UNCHANGED <<volume, clone, life, bound, seen, op, saving, faults>>

\* The worker takes the whole count as its batch.
StartPush(c) ==
  /\ Serving(c) /\ bound[c] /\ op[c] = Idle
  /\ queue[c].pending > 0 /\ ~queue[c].blocked
  /\ queue' = [queue EXCEPT ![c].batch = queue[c].pending]
  /\ op' = [op EXCEPT ![c] = Begin("push")]
  /\ UNCHANGED <<volume, clone, life, bound, seen, saving, counters>>

-----------------------------------------------------------------------------
(* Publication: _publish_to_uc. *)

\* Fault: any head may be built upon.
MutSuperseded(c) == FALSE

\* The head was written by someone else since this writer last looked.
Superseded(c) ==
  Newest > 0 /\ pointers[Newest].writer # c /\ Newest # seen[c]

PublishHead(c) ==
  /\ At(c, "head") /\ Publishing(c)
  /\ \/ /\ ~Superseded(c) /\ Newest < MaxGenerations
        /\ op' = [op EXCEPT ![c].head = Newest, ![c].at = "pack"]
        /\ UNCHANGED <<life, queue>>
     \/ Superseded(c) /\ Fail(c, TRUE)
  /\ UNCHANGED <<volume, clone, bound, seen, saving, counters>>

\* The bundle is created under the repository's mutation lock, verified and
\* uploaded under a name only this writer uses.
Pack(c) ==
  /\ At(c, "pack")
  /\ op' = [op EXCEPT ![c].tip = local[c], ![c].at = "create"]
  /\ bundles' = [bundles EXCEPT ![op[c].head + 1][c] = local[c]]
  /\ UNCHANGED <<pointers, binding, transit, clone, life, bound, seen, saving,
                 queue, counters>>

Pointer(c) == [writer |-> c, tip |-> op[c].tip]
Request(c) == [head |-> op[c].head, pointer |-> Pointer(c)]

\* The pointer of the next generation does not exist yet.
Creatable(head) == Newest = head

\* volume_create commits the generation; the clone's record is best-effort.
CreatePointer(c) ==
  /\ At(c, "create") /\ Creatable(op[c].head)
  /\ pointers' = Append(pointers, Pointer(c))
  /\ seen' = [seen EXCEPT ![c] = op[c].head + 1]
  /\ \/ /\ record' = [record EXCEPT ![c] = op[c].head + 1]
        /\ UNCHANGED faults
     \/ Faulted /\ UNCHANGED record
  /\ Go(c, "prune")
  /\ UNCHANGED <<bundles, binding, transit, local, origin, life, bound, saving,
                 queue, requests>>

\* A create is not answered. The client library sends it again, or gives up and
\* the operation fails; what was sent may be on its way still.
CreateUnanswered(c) ==
  /\ At(c, "create")
  /\ Faulted
  /\ transit' = transit \cup {Request(c)}
  /\ \/ UNCHANGED <<op, life, queue>>
     \/ Fail(c, FALSE)
  /\ UNCHANGED <<pointers, bundles, binding, clone, bound, seen, saving,
                 requests>>

\* The create is refused because the path exists. The caller takes that for a
\* race lost to another writer, though it may be its own earlier create that
\* landed: the bundle is dropped, best-effort.
CreateRefused(c) ==
  /\ At(c, "create") /\ ~Creatable(op[c].head)
  /\ \/ /\ bundles' = [bundles EXCEPT ![op[c].head + 1][c] = None]
        /\ UNCHANGED faults
     \/ Faulted /\ UNCHANGED bundles
  /\ Fail(c, TRUE)
  /\ UNCHANGED <<pointers, binding, transit, clone, bound, seen, saving,
                 requests>>

\* An unanswered create lands, whatever has become of its sender; once the path
\* exists it never does.
LandsLate(r) ==
  /\ r \in transit /\ Creatable(r.head)
  /\ pointers' = Append(pointers, r.pointer)
  /\ transit' = transit \ {r}
  /\ UNCHANGED <<bundles, binding, clone, life, bound, seen, op, saving, queue,
                 counters>>

\* Fault: retention counts the newest generation among the old ones.
MutPrunable(g, newest) == g <= newest - Retain + 1

Prunable(g, newest) == g <= newest - Retain

Without(gone) ==
  [g \in Generation |-> IF g \in gone THEN [w \in Containers |-> None]
                        ELSE bundles[g]]

\* _prune_uc_bundles deletes the older bundles, or what it can of them.
Prune(c) ==
  LET old == {g \in Generation : Prunable(g, op[c].head + 1)}
  IN  /\ At(c, "prune")
      /\ \/ bundles' = Without(old) /\ UNCHANGED faults
         \/ Faulted /\ \E gone \in SUBSET old : bundles' = Without(gone)
      /\ Go(c, "bindrecord")
      /\ UNCHANGED <<pointers, binding, transit, clone, life, bound, seen,
                     saving, queue, requests>>

-----------------------------------------------------------------------------
\* The platform ends a container between any two of its steps; only its disk
\* may outlive it.
Die(c) ==
  /\ Alive(c)
  /\ life' = [life EXCEPT ![c] = "dead"]
  /\ op' = [op EXCEPT ![c] = Idle]
  /\ bound' = [bound EXCEPT ![c] = FALSE]
  /\ seen' = [seen EXCEPT ![c] = 0]
  /\ saving' = [saving EXCEPT ![c] = "no"]
  /\ queue' = [queue EXCEPT ![c] = FreshQueue]
  /\ UNCHANGED <<volume, clone, counters>>

Publish(c) ==
  \/ PublishHead(c) \/ Pack(c) \/ CreatePointer(c)
  \/ CreateUnanswered(c) \/ CreateRefused(c) \/ Prune(c)
  \/ RecordBinding(c)

Session(c) ==
  \/ StartBind(c) \/ BindHead(c) \/ RestoreHead(c) \/ RestoreFetch(c)
  \/ PresentHead(c) \/ Save(c) \/ EnqueueCheck(c) \/ EnqueueCount(c)
  \/ RetryNow(c) \/ StartPush(c) \/ Unavailable(c) \/ Die(c)

Next ==
  \/ \E c \in Containers :
       \/ BootFresh(c) \/ \E d \in Containers : BootPresent(c, d)
       \/ Session(c) \/ Publish(c)
  \/ \E r \in transit : LandsLate(r)

Spec == Init /\ [][Next]_vars

-----------------------------------------------------------------------------
(* Properties. *)

\* The newest pointer names a bundle that is still there and holds the history
\* the pointer describes. This is no invariant: see below.
HeadRestorable ==
  Newest > 0 =>
    /\ bundles[Newest][pointers[Newest].writer] # None
    /\ pointers[Newest].tip \subseteq bundles[Newest][pointers[Newest].writer]

\* A publish of w ends because the create of the newest generation, its own, is
\* refused. A push does not count as done: it still owes its saves, and waits for
\* the user.
RefusedItsOwn(w) ==
  /\ At(w, "create") /\ op[w].head + 1 = Newest /\ op'[w] = Idle
  /\ op[w].kind = "push" =>
       queue'[w].blocked /\ queue'[w].terminal /\ queue'[w].pending > 0

\* The stored project stays restorable, whichever writers race for the head,
\* discard, prune, land late or die, except in one step: the head's own writer
\* is told "exists" of the very generation it committed.
HeadStaysRestorable ==
  [][HeadRestorable =>
       HeadRestorable' \/ RefusedItsOwn(pointers[Newest].writer)]_vars

\* Nothing published is lost: each generation, whoever publishes it and from
\* whichever disk, keeps every commit of the one before.
HistoryIsKept ==
  \A g \in 1 .. Newest - 1 : pointers[g].tip \subseteq pointers[g + 1].tip

\* A bound session that shows "synced" has published every save it made.
SyncedSavesArePublished ==
  \A c \in Containers :
    /\ Alive(c) /\ bound[c] /\ saving[c] = "no"
    /\ queue[c].pending = 0
    => \A x \in SavesOf(c) : \E g \in 1 .. Newest : x \in pointers[g].tip
=============================================================================
