--------------------------- MODULE SourceCacheStore ---------------------------
(***************************************************************************)
(* The input snapshots of one identity: _source_cache.SourceCacheStore and *)
(* the supervised builds of _input_preparation that publish into it.       *)
(*                                                                         *)
(* A snapshot is a generation: a directory that is built under a staging   *)
(* name, renamed into place, and then named by the pointer current.json.   *)
(* Readers lease a generation; their process leaves a marker in it, named  *)
(* by a token that stays locked until the process ends.  A generation that *)
(* is neither pointed at nor leased by a live process is retired.  All of  *)
(* that happens under one lock that every process shares (the module       *)
(* FileLock), which the operating system frees when its holder dies.       *)
(*                                                                         *)
(* Within a process the identity lock lets one operation of the store run  *)
(* at a time, except that the body of a lease runs outside it.  A process  *)
(* that dies does not come back: a restart is another member of Servers.   *)
(* A retired directory has a name no reader can select, so it is no longer *)
(* part of the state; deleting it is left out.                             *)
(***************************************************************************)
EXTENDS Naturals, FiniteSets

CONSTANTS
    Servers,        \* processes that lease, build, clear and supervise builds
    Workers,        \* processes spawned by a server, to build or to read
    Generations,    \* generation ids; each is chosen once (uuid4)
    OldGeneration,  \* the published snapshot whose parts must be re-encoded
    MaxLeases,      \* bound on the leases one process holds on one generation
    None            \* no generation, no process

Process == Servers \cup Workers

ASSUME StoreAssumption ==
    /\ Servers \cap Workers = {}
    /\ None \notin Generations \cup Process
    /\ OldGeneration \in Generations
    /\ MaxLeases \in Nat \ {0, 1}

VARIABLES
    pointer,    \* current.json: the current generation, or None
    dir,        \* what the disk holds of each generation
    markers,    \* .lease-<token> files: the processes that left one in it
    leases,     \* _leases: each process's count for each generation
    alive,      \* the processes that run, whose token file is locked
    lock,       \* the holder of leases.lock across several steps, or None
    op,         \* each process's operation under the identity lock
    sup,        \* each server's supervised worker
    published   \* history: the generations the pointer has named

vars == <<pointer, dir, markers, leases, alive, lock, op, sup, published>>

\* Nothing on disk; a staging directory; a published one; one that an
\* interrupted removal left half deleted.
DirState == {"none", "staged", "whole", "partial"}

OpState == {"idle", "selected", "reencode", "start", "pinning", "building",
            "renamed", "undo", "retire", "answer", "unlease", "removing", "ok", "failed"}

\* A failed build whose reconciliation could not remove what it left is settled
\* as failed like any other; the model keeps the two apart.
SupState == {"idle", "waiting", "reading", "ok", "failed", "unremovable"}

Idle == [pc |-> "idle", gen |-> None, src |-> None, n |-> 0]

Op == [pc : OpState, gen : Generations \cup {None},
       src : Generations \cup {None}, n : 0..2]

Unsupervised == [pc |-> "idle", gen |-> None, worker |-> None]

Sup == [pc : SupState, gen : Generations \cup {None}, worker : Workers \cup {None}]

TypeOK ==
    /\ pointer \in Generations \cup {None}
    /\ dir \in [Generations -> DirState]
    /\ markers \in [Generations -> SUBSET Process]
    /\ leases \in [Process -> [Generations -> Nat]]
    /\ alive \subseteq Process
    /\ lock \in Process \cup {None}
    /\ op \in [Process -> Op]
    /\ sup \in [Servers -> Sup]
    /\ published \subseteq Generations

Init ==
    /\ pointer = OldGeneration
    /\ dir = [g \in Generations |-> IF g = OldGeneration THEN "whole" ELSE "none"]
    /\ markers = [g \in Generations |-> {}]
    /\ leases = [p \in Process |-> [g \in Generations |-> 0]]
    /\ alive = Servers
    /\ lock = None
    /\ op = [p \in Process |-> Idle]
    /\ sup = [s \in Servers |-> Unsupervised]
    /\ published = {OldGeneration}

-----------------------------------------------------------------------------
(* Retirement.                                                             *)

\* A generation's directory is listed under generations/.
Listed(g) == dir[g] \in {"whole", "partial"}

\* Fault: only the leases of this process count.
MutLives(p, q, g, ls) == q = p /\ ls[g] > 0

\* _has_live_holders_locked, as process p judges the marker of q in g: its own
\* counts while its table does (ls), another's while that token is locked.
Lives(p, q, g, ls) == IF q = p THEN ls[g] > 0 ELSE q \in alive

\* _retire_unleased_locked by p, whose own counts are ls, with the pointer at
\* cur and the markers mk: every listed generation that is not current goes,
\* unless a live process leases it; in those that stay, the markers of the dead
\* are removed.  A retired directory takes its markers along.
Candidate(g, cur, due) == due /\ Listed(g) /\ g # cur

LiveMarkers(p, g, mk, ls) == {q \in mk[g] : Lives(p, q, g, ls)}

DirAfter(p, cur, mk, ls, due) ==
    [g \in Generations |->
        IF Candidate(g, cur, due) /\ LiveMarkers(p, g, mk, ls) = {}
        THEN "none" ELSE dir[g]]

MarkersAfter(p, cur, mk, ls, due) ==
    [g \in Generations |->
        IF Candidate(g, cur, due) THEN LiveMarkers(p, g, mk, ls) ELSE mk[g]]

Retire(p, cur, mk, ls, due) ==
    /\ dir' = DirAfter(p, cur, mk, ls, due)
    /\ markers' = MarkersAfter(p, cur, mk, ls, due)

\* _retire_grace_elapsed: a matter of time, except that without a pointer there
\* is nothing to wait for.
GraceElapsed == IF pointer = None THEN {TRUE} ELSE BOOLEAN

Running(p) == p \in alive

\* p runs, holds its identity lock for nothing else, and may take leases.lock.
Free(p) == Running(p) /\ op[p].pc = "idle"

At(p, pc) == Running(p) /\ op[p].pc = pc

SetOp(p, o) == op' = [op EXCEPT ![p] = o]

-----------------------------------------------------------------------------
(* Leases.                                                                 *)

\* lease: reads the pointer before it takes leases.lock.
SelectCurrent(p) ==
    /\ Free(p)
    /\ p \in Servers
    /\ pointer # None
    /\ leases[p][pointer] < MaxLeases
    /\ SetOp(p, [Idle EXCEPT !.pc = "selected", !.gen = pointer])
    /\ UNCHANGED <<pointer, dir, markers, leases, alive, lock, sup, published>>

\* _acquire_input_lease's effect: the count, and the marker of a first lease.
TakeLease(p, g) ==
    /\ leases' = [leases EXCEPT ![p][g] = @ + 1]
    /\ markers' = [markers EXCEPT ![g] = @ \cup {p}]

\* lease: the lease is taken only while the generation is still current, then
\* validated.  A pointer that moved makes the loop select again (the model lets
\* the caller ask again); a pointer or a directory that is gone is an error.
LeaseSelected(p) ==
    LET g == op[p].gen
    IN  /\ At(p, "selected")
        /\ lock = None
        /\ IF pointer = g /\ dir[g] # "none"
           THEN /\ TakeLease(p, g)
                /\ SetOp(p, IF g = OldGeneration
                            THEN [Idle EXCEPT !.pc = "reencode", !.src = g, !.n = 1]
                            ELSE Idle)
           ELSE SetOp(p, Idle) /\ UNCHANGED <<leases, markers>>
        /\ UNCHANGED <<pointer, dir, alive, lock, sup, published>>

\* open_generation: finds, without a lease, that the snapshot needs re-encoding.
OpenOld(p) ==
    /\ Free(p)
    /\ p \in Servers
    /\ pointer = OldGeneration
    /\ leases[p][OldGeneration] < MaxLeases
    /\ SetOp(p, [Idle EXCEPT !.pc = "reencode", !.src = OldGeneration])
    /\ UNCHANGED <<pointer, dir, markers, leases, alive, lock, sup, published>>

\* _release_input_lease, for the n leases an operation or a body ends: the last
\* one removes the marker and retires what it can.
EndLease(p, g, n) ==
    LET left == leases[p][g] - n
    IN  /\ leases' = [leases EXCEPT ![p][g] = left]
        /\ IF left > 0
           THEN UNCHANGED <<dir, markers>>
           ELSE \E due \in GraceElapsed :
                   Retire(p, pointer, [markers EXCEPT ![g] = @ \ {p}],
                          [leases[p] EXCEPT ![g] = 0], due)

\* The end of a lease's body.  A server keeps the lease it handed to a worker
\* for as long as that worker runs.
Release(p, g) ==
    /\ Free(p)
    /\ lock = None
    /\ leases[p][g] > 0
    /\ p \in Servers =>
          ~(sup[p].pc = "reading" /\ sup[p].gen = g /\ leases[p][g] = 1)
    /\ EndLease(p, g, 1)
    /\ UNCHANGED <<pointer, alive, lock, op, sup, published>>

\* lease_generation: a worker pins exactly the generation its server leases, and
\* validates it.  A directory that is gone, or that an interrupted removal left
\* half deleted, is an error; in the second case the lease had been recorded, and
\* giving it back retires what it can.
PinGeneration(w) ==
    LET g == op[w].gen
    IN  /\ At(w, "pinning")
        /\ lock = None
        /\ IF dir[g] = "whole"
           THEN TakeLease(w, g) /\ SetOp(w, Idle) /\ UNCHANGED dir
           ELSE /\ \E due \in IF dir[g] = "partial" THEN GraceElapsed ELSE {FALSE} :
                      Retire(w, pointer, markers, leases[w], due)
                /\ SetOp(w, [Idle EXCEPT !.pc = "failed"])
                /\ UNCHANGED leases
        /\ UNCHANGED <<pointer, alive, lock, sup, published>>

-----------------------------------------------------------------------------
(* Building and publishing.                                                *)

\* A generation id no build has used (uuid4).
Fresh(g) ==
    /\ g \notin published
    /\ dir[g] = "none"
    /\ \A p \in Process : op[p].gen # g
    /\ \A s \in Servers : sup[s].gen # g

Building(g, src, n) == [pc |-> "building", gen |-> g, src |-> src, n |-> n]

\* build: an in-process build creates its staging directory and fills it.
BuildInput(p, g) ==
    /\ Free(p)
    /\ p \in Servers
    /\ Fresh(g)
    /\ dir' = [dir EXCEPT ![g] = "staged"]
    /\ SetOp(p, Building(g, None, 0))
    /\ UNCHANGED <<pointer, markers, leases, alive, lock, sup, published>>

\* _reencoded: leases the old generation while it is current and stages a copy
\* of it; otherwise there is nothing to copy.
StartCopy(p, g) ==
    LET src == op[p].src
    IN  /\ At(p, "reencode")
        /\ lock = None
        /\ pointer = src
        /\ dir[src] # "none"
        /\ Fresh(g)
        /\ TakeLease(p, src)
        /\ dir' = [dir EXCEPT ![g] = "staged"]
        /\ SetOp(p, Building(g, src, op[p].n + 1))
        /\ UNCHANGED <<pointer, alive, lock, sup, published>>

SkipCopy(p) ==
    /\ At(p, "reencode")
    /\ lock = None
    /\ pointer # op[p].src \/ dir[op[p].src] = "none"
    /\ SetOp(p, IF op[p].n = 0 THEN Idle ELSE [op[p] EXCEPT !.pc = "unlease"])
    /\ UNCHANGED <<pointer, dir, markers, leases, alive, lock, sup, published>>

\* What follows a build: a copy releases its leases, a worker exits.
AfterBuild(p, outcome) ==
    CASE p \in Workers -> [Idle EXCEPT !.pc = outcome]
      [] p \notin Workers /\ op[p].n > 0 -> [op[p] EXCEPT !.pc = "unlease", !.gen = None]
      [] OTHER -> Idle

Exit(p) == alive' = IF p \in Workers THEN alive \ {p} ELSE alive

\* shutil.rmtree with its errors ignored: a directory may survive. "partial" is a
\* generation a deletion has begun with, whatever it left of it.
Remnants(d) == {"none", IF d = "whole" THEN "partial" ELSE d}

Remove(g) == \E d \in Remnants(dir[g]) : dir' = [dir EXCEPT ![g] = d]

\* The builder raises, validation fails, or a checkpoint finds the build
\* cancelled: the staging directory is removed.
BuildFails(p) ==
    /\ At(p, "building")
    /\ Remove(op[p].gen)
    /\ SetOp(p, AfterBuild(p, "failed"))
    /\ Exit(p)
    /\ UNCHANGED <<pointer, markers, leases, lock, sup, published>>

\* build, under leases.lock: a copy whose source is no longer current publishes
\* nothing.
Superseded(p) ==
    /\ At(p, "building")
    /\ lock = None
    /\ op[p].src # None
    /\ pointer # op[p].src
    /\ Remove(op[p].gen)
    /\ SetOp(p, AfterBuild(p, "failed"))
    /\ UNCHANGED <<pointer, markers, leases, alive, lock, sup, published>>

\* Fault: a copy is published whatever the pointer names by then.
MutStillReplaces(p) == TRUE

\* replacing: a copy is published only while its source is current.
StillReplaces(p) == op[p].src # None => pointer = op[p].src

\* build, under leases.lock: retires what it can unless a parent does (a
\* worker's build), then renames the staging directory into place.
RenameIntoPlace(p) ==
    LET g == op[p].gen
    IN  /\ At(p, "building")
        /\ lock = None
        /\ dir[g] = "staged"
        /\ StillReplaces(p)
        /\ \E due \in IF p \in Workers THEN {FALSE} ELSE GraceElapsed :
              /\ dir' = [DirAfter(p, pointer, markers, leases[p], due) EXCEPT ![g] = "whole"]
              /\ markers' = MarkersAfter(p, pointer, markers, leases[p], due)
        /\ lock' = p
        /\ SetOp(p, [op[p] EXCEPT !.pc = "renamed"])
        /\ UNCHANGED <<pointer, leases, alive, sup, published>>

\* build: the pointer is written, in one rename of its own.
MovePointer(p) ==
    /\ At(p, "renamed")
    /\ pointer' = op[p].gen
    /\ published' = published \cup {op[p].gen}
    /\ lock' = None
    /\ SetOp(p, [op[p] EXCEPT !.pc = IF p \in Workers THEN "answer" ELSE "retire"])
    /\ UNCHANGED <<dir, markers, leases, alive, sup>>

\* The worker sends its outcome and ends.
Answer(p) ==
    /\ At(p, "answer")
    /\ SetOp(p, AfterBuild(p, "ok"))
    /\ Exit(p)
    /\ UNCHANGED <<pointer, dir, markers, leases, lock, sup, published>>

\* retire_unleased, after the publication.
RetireAfterBuild(p) ==
    /\ At(p, "retire")
    /\ lock = None
    /\ \E due \in GraceElapsed : Retire(p, pointer, markers, leases[p], due)
    /\ SetOp(p, AfterBuild(p, "ok"))
    /\ UNCHANGED <<pointer, leases, alive, lock, sup, published>>

\* The pointer cannot be written: the lock is released, then taken again to
\* remove the generation nothing names.
PointerWriteFails(p) ==
    /\ At(p, "renamed")
    /\ lock' = None
    /\ SetOp(p, [op[p] EXCEPT !.pc = "undo"])
    /\ UNCHANGED <<pointer, dir, markers, leases, alive, sup, published>>

UndoRename(p) ==
    LET g == op[p].gen
        live == LiveMarkers(p, g, markers, leases[p])
    IN  /\ At(p, "undo")
        /\ lock = None
        /\ IF live = {} THEN Remove(g) ELSE UNCHANGED dir
        /\ markers' = [markers EXCEPT ![g] = live]
        /\ SetOp(p, AfterBuild(p, "failed"))
        /\ Exit(p)
        /\ UNCHANGED <<pointer, leases, lock, sup, published>>

\* _reencoded and lease end the leases they took on the copied generation.
EndCopy(p) ==
    /\ At(p, "unlease")
    /\ lock = None
    /\ EndLease(p, op[p].src, op[p].n)
    /\ SetOp(p, Idle)
    /\ UNCHANGED <<pointer, alive, lock, sup, published>>

\* clear: the pointer goes, and every generation no live process leases.
Clear(p) ==
    /\ Free(p)
    /\ p \in Servers
    /\ lock = None
    /\ pointer # None
    /\ pointer' = None
    /\ Retire(p, None, markers, leases[p], TRUE)
    /\ UNCHANGED <<leases, alive, lock, op, sup, published>>

-----------------------------------------------------------------------------
(* Supervised workers.                                                     *)

\* run_supervised_data_input_build: the server chooses the id, then spawns.
SpawnBuild(s, w, g) ==
    /\ Running(s)
    /\ sup[s].pc = "idle"
    /\ w \notin alive
    /\ op[w] = Idle
    /\ Fresh(g)
    /\ sup' = [sup EXCEPT ![s] = [pc |-> "waiting", gen |-> g, worker |-> w]]
    /\ alive' = alive \cup {w}
    /\ SetOp(w, [Idle EXCEPT !.pc = "start", !.gen = g])
    /\ UNCHANGED <<pointer, dir, markers, leases, lock, published>>

\* A server hands the id of a generation it leases to a worker that reads it.
SpawnReader(s, w, g) ==
    /\ Free(s)
    /\ sup[s].pc = "idle"
    /\ leases[s][g] > 0
    /\ w \notin alive
    /\ op[w] = Idle
    /\ sup' = [sup EXCEPT ![s] = [pc |-> "reading", gen |-> g, worker |-> w]]
    /\ alive' = alive \cup {w}
    /\ SetOp(w, [Idle EXCEPT !.pc = "pinning", !.gen = g])
    /\ UNCHANGED <<pointer, dir, markers, leases, lock, published>>

\* The worker's build creates the staging directory its parent named.
StartStaging(w) ==
    /\ At(w, "start")
    /\ dir' = [dir EXCEPT ![op[w].gen] = "staged"]
    /\ SetOp(w, Building(op[w].gen, None, 0))
    /\ UNCHANGED <<pointer, markers, leases, alive, lock, sup, published>>

\* The worker's build does not refresh and finds a snapshot it can open.  (One
\* that needs re-encoding is copied, as OpenOld does; the model leaves that to
\* the servers.)
ReuseCurrent(w) ==
    /\ At(w, "start")
    /\ pointer \notin {None, OldGeneration}
    /\ SetOp(w, [Idle EXCEPT !.pc = "ok"])
    /\ Exit(w)
    /\ UNCHANGED <<pointer, dir, markers, leases, lock, sup, published>>

Ended(s) == sup[s].worker \notin alive

\* The reader's process has ended, and with it the need for the server's lease.
ReaderEnds(s) ==
    /\ Running(s)
    /\ sup[s].pc = "reading"
    /\ Ended(s)
    /\ sup' = [sup EXCEPT ![s] = Unsupervised]
    /\ UNCHANGED <<pointer, dir, markers, leases, alive, lock, op, published>>

\* published_data_input: the worker answered, or died after it had published
\* (reconcile_unpublished finds the pointer at its generation); the server
\* retires what the worker left to it.
SettlePublished(s) ==
    /\ Free(s)
    /\ sup[s].pc = "waiting"
    /\ Ended(s)
    /\ lock = None
    /\ op[sup[s].worker].pc = "ok" \/ pointer = sup[s].gen
    /\ \E due \in GraceElapsed : Retire(s, pointer, markers, leases[s], due)
    /\ sup' = [sup EXCEPT ![s].pc = "ok"]
    /\ UNCHANGED <<pointer, leases, alive, lock, op, published>>

\* Fault: a worker that died is taken for one that published nothing.
MutUnpublished(s) == TRUE

\* reconcile_unpublished reads the pointer before it removes anything.
Unpublished(s) == pointer # sup[s].gen

\* reconcile_unpublished, under leases.lock, for a worker that failed or died:
\* the generation nobody leases is deleted in place (it is half gone until the
\* deletion ends), and so is the staging directory.
Reconcile(s) ==
    LET g == sup[s].gen
        live == LiveMarkers(s, g, markers, leases[s])
    IN  /\ Free(s)
        /\ sup[s].pc = "waiting"
        /\ Ended(s)
        /\ lock = None
        /\ op[sup[s].worker].pc # "ok"
        /\ Unpublished(s)
        /\ dir' = [dir EXCEPT ![g] = IF @ = "whole" /\ live = {} THEN "partial" ELSE @]
        /\ markers' = [markers EXCEPT ![g] = live]
        /\ lock' = s
        /\ SetOp(s, [Idle EXCEPT !.pc = "removing", !.gen = g])
        /\ UNCHANGED <<pointer, leases, alive, sup, published>>

\* Fault: the staging directory is left to the age sweep.
MutRemoved(d) == IF d = "partial" THEN "none" ELSE d

\* What the deletion leaves of the generation and of the staging directory.
Removed(d) == IF d \in {"partial", "staged"} THEN "none" ELSE d

EndReconcile(s) ==
    LET g == op[s].gen
    IN  /\ At(s, "removing")
        /\ \/ /\ dir' = [dir EXCEPT ![g] = Removed(@)]
              /\ sup' = [sup EXCEPT ![s].pc = "failed"]
           \/ \* The deletion left its directory behind: "unremovable".
              /\ dir[g] \in {"partial", "staged"}
              /\ UNCHANGED dir
              /\ sup' = [sup EXCEPT ![s].pc = "unremovable"]
        /\ lock' = None
        /\ SetOp(s, Idle)
        /\ UNCHANGED <<pointer, markers, leases, alive, published>>

-----------------------------------------------------------------------------
\* A process dies, is killed, or (a reading worker) ends: the system frees its
\* locks, its memory goes, and what it left on disk stays.
Die(p) ==
    /\ Running(p)
    /\ alive' = alive \ {p}
    /\ leases' = [leases EXCEPT ![p] = [g \in Generations |-> 0]]
    /\ lock' = IF lock = p THEN None ELSE lock
    /\ SetOp(p, [Idle EXCEPT !.pc = "failed"])
    /\ UNCHANGED <<pointer, dir, markers, sup, published>>

Leasing(p) ==
    \/ SelectCurrent(p) \/ LeaseSelected(p) \/ OpenOld(p) \/ PinGeneration(p)
    \/ \E g \in Generations : Release(p, g)

Publishing(p) ==
    \/ \E g \in Generations : BuildInput(p, g) \/ StartCopy(p, g)
    \/ SkipCopy(p) \/ BuildFails(p) \/ Superseded(p) \/ RenameIntoPlace(p)
    \/ MovePointer(p) \/ Answer(p) \/ RetireAfterBuild(p) \/ PointerWriteFails(p)
    \/ UndoRename(p) \/ EndCopy(p) \/ Clear(p)
    \/ StartStaging(p) \/ ReuseCurrent(p)

Supervising(s) ==
    \/ \E w \in Workers, g \in Generations : SpawnBuild(s, w, g) \/ SpawnReader(s, w, g)
    \/ ReaderEnds(s) \/ SettlePublished(s) \/ Reconcile(s) \/ EndReconcile(s)

Next ==
    \/ \E p \in Process : Leasing(p) \/ Publishing(p) \/ Die(p)
    \/ \E s \in Servers : Supervising(s)

Spec == Init /\ [][Next]_vars

-----------------------------------------------------------------------------
(* Properties.                                                             *)

\* In every state, those a crash leaves included, the pointer names a complete
\* generation: build renames the directory into place before it writes the
\* pointer, and no removal ever takes the generation it names.
PointerNamesWhole == pointer # None => dir[pointer] = "whole"

\* What a running process leases stays complete until it is released, whatever
\* other processes publish, clear, retire or reconcile.
LeasedIsWhole ==
    \A p \in alive, g \in Generations : leases[p][g] > 0 => dir[g] = "whole"

\* A re-encoded copy never replaces data published after it was taken.
CopyReplacesItsSource ==
    [][\A p \in Process :
          (MovePointer(p) /\ op[p].src # None) => pointer = op[p].src]_vars

\* A supervised build that failed, however its worker died, leaves nothing it had
\* not published: no generation, no staging directory. One whose removal did not
\* succeed is told apart: it ends as "unremovable".
FailedBuildIsSettled ==
    \A s \in Servers :
        sup[s].pc = "failed" /\ sup[s].gen \notin published =>
            dir[sup[s].gen] = "none"
=============================================================================
