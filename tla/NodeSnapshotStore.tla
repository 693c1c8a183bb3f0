-------------------------- MODULE NodeSnapshotStore --------------------------
(***************************************************************************)
(* The node-output snapshots of one slot: _node_snapshots.NodeSnapshotStore. *)
(*                                                                         *)
(* A slot (a node of a pipeline, under one source) holds one dataset.  Each *)
(* signature of the node is an identity with generations and a pointer of  *)
(* its own; the slot's index lists the identities that may hold anything   *)
(* and names the pinned one.  Publishing writes the index, renames the     *)
(* staged artifact into place, moves the pointer and retires what the slot *)
(* held before, under the lease lock all processes share; every one of     *)
(* those files is a step of its own here, because a process can die        *)
(* between them.  Leases and markers are those of SourceCacheStore.        *)
(*                                                                         *)
(* An upstream snapshot that the node was computed from is represented by  *)
(* the number of its current generation, 0 without one.  Every generation  *)
(* has size one, and which of the unpinned ones was used least recently is *)
(* left open.                                                              *)
(***************************************************************************)
EXTENDS Integers, FiniteSets

CONSTANTS
    Process,      \* processes; a restart is another member
    Identities,   \* the signatures of the slot's node
    Generations,  \* generation ids, each chosen once
    Budget,       \* automatic captures the budget admits
    MaxUpstream,  \* bound on the generations published upstream
    MaxLeases,    \* bound on one process's leases on one generation
    None          \* no generation, no identity, no process

ASSUME SlotAssumption ==
    /\ None \notin Process \cup Identities \cup Generations
    /\ Budget \in Nat
    /\ MaxUpstream \in Nat
    /\ MaxLeases \in Nat \ {0}

VARIABLES
    pointer,     \* current.json of each identity
    dir,         \* what the disk holds of each generation
    info,        \* meta.json: its identity, its upstream generation, its columns
    index,       \* the slot index's identities
    pinned,      \* the slot index's pinned_identity
    markers,     \* .lease-<token> files in each generation
    leases,      \* _leases of each process
    alive,       \* the running processes
    lock,        \* holder of the lease lock across several steps
    publishing,  \* holder of each identity's publication lock
    budgeting,   \* holder of the automatic-budget lock
    op,          \* what each process is publishing or evicting
    upstream,    \* the upstream identity's current generation
    torn         \* history: a publication broke off before it had retired the rest

disk == <<pointer, dir, info, index, pinned, markers>>
locks == <<lock, publishing, budgeting>>
vars == <<disk, leases, alive, locks, op, upstream, torn>>

DirState == {"none", "staged", "whole"}

\* Fewer columns, or all of them.
Columns == {1, 2}

Upstream == 0..MaxUpstream

OpState == {"idle", "staged", "approved", "indexed", "installed", "committed",
            "superseding", "budget", "scanned"}

Idle == [pc |-> "idle", gen |-> None, explicit |-> FALSE, refresh |-> FALSE,
         prev |-> None, seen |-> {}]

Op == [pc : OpState, gen : Generations \cup {None}, explicit : BOOLEAN,
       refresh : BOOLEAN, prev : Identities \cup {None}, seen : SUBSET Generations]

TypeOK ==
    /\ pointer \in [Identities -> Generations \cup {None}]
    /\ dir \in [Generations -> DirState]
    /\ info \in [Generations -> [id : Identities \cup {None}, dep : Upstream, cols : Columns]]
    /\ index \subseteq Identities
    /\ pinned \in Identities \cup {None}
    /\ markers \in [Generations -> SUBSET Process]
    /\ leases \in [Process -> [Generations -> Nat]]
    /\ alive \subseteq Process
    /\ lock \in Process \cup {None}
    /\ publishing \in [Identities -> Process \cup {None}]
    /\ budgeting \in Process \cup {None}
    /\ op \in [Process -> Op]
    /\ upstream \in [cur : Upstream, last : Upstream]
    /\ torn \in BOOLEAN

Init ==
    /\ pointer = [i \in Identities |-> None]
    /\ dir = [g \in Generations |-> "none"]
    /\ info = [g \in Generations |-> [id |-> None, dep |-> 0, cols |-> 1]]
    /\ index = {}
    /\ pinned = None
    /\ markers = [g \in Generations |-> {}]
    /\ leases = [p \in Process |-> [g \in Generations |-> 0]]
    /\ alive = Process
    /\ lock = None
    /\ publishing = [i \in Identities |-> None]
    /\ budgeting = None
    /\ op = [p \in Process |-> Idle]
    /\ upstream = [cur |-> 0, last |-> 0]
    /\ torn = FALSE

-----------------------------------------------------------------------------
(* Reading the disk.                                                       *)

Id(g) == info[g].id

Current(g) == pointer[Id(g)] = g

\* _generations_remaining_locked, when the disk holds d.
Remaining(i, d) == \E g \in Generations : d[g] = "whole" /\ Id(g) = i

\* _dependencies_current_or_cleared
FreshDep(dep) == dep = 0 \/ upstream.cur = 0 \/ upstream.cur = dep

\* latest_generation: None when its directory is gone.
Latest(i) ==
    IF pointer[i] # None /\ dir[pointer[i]] = "whole" THEN pointer[i] ELSE None

\* Fault: only the leases of this process count.
MutLives(p, q, g, ls) == q = p /\ ls[g] > 0

\* _has_live_holders_locked, as process p judges the marker of q in g.
Lives(p, q, g, ls) == IF q = p THEN ls[g] > 0 ELSE q \in alive

LiveMarkers(p, g, mk, ls) == {q \in mk[g] : Lives(p, q, g, ls)}

\* _write_slot_index_locked: a pin on an identity that is not listed is dropped.
WriteIndex(ids, pin) ==
    /\ index' = ids
    /\ pinned' = IF pin \in ids THEN pin ELSE None

\* _retire_non_current_locked, by p, of the identities ids whose pointers are
\* ptr: what no live process leases is renamed away, and the markers of the
\* dead are removed from what stays.
Candidate(g, ids, ptr) == dir[g] = "whole" /\ Id(g) \in ids /\ ptr[Id(g)] # g

DirAfter(p, ids, ptr) ==
    [g \in Generations |->
        IF Candidate(g, ids, ptr) /\ LiveMarkers(p, g, markers, leases[p]) = {}
        THEN "none" ELSE dir[g]]

MarkersAfter(p, ids, ptr) ==
    [g \in Generations |->
        IF Candidate(g, ids, ptr) THEN LiveMarkers(p, g, markers, leases[p])
        ELSE markers[g]]

Unpoint(ids) == [i \in Identities |-> IF i \in ids THEN None ELSE pointer[i]]

Running(p) == p \in alive

At(p, pc) == p \in alive /\ op[p].pc = pc

SetOp(p, o) == op' = [op EXCEPT ![p] = o]

-----------------------------------------------------------------------------
(* Leases.                                                                 *)

\* _acquire_node_lease with require_current, inside lease.
Lease(p, i) ==
    LET g == pointer[i]
    IN  /\ Running(p)
        /\ lock = None
        /\ g # None
        /\ dir[g] = "whole"
        /\ leases[p][g] < MaxLeases
        /\ leases' = [leases EXCEPT ![p][g] = @ + 1]
        /\ markers' = [markers EXCEPT ![g] = @ \cup {p}]
        /\ UNCHANGED <<pointer, dir, info, index, pinned, alive, locks, op, upstream, torn>>

\* The publisher's own lease, until its handle is closed.
Own(p, g) ==
    IF op[p].gen = g /\ op[p].pc \in {"installed", "committed", "superseding",
                                      "budget", "scanned"} THEN 1 ELSE 0

\* _release_node_lease: the last lease of the process removes its marker, and a
\* generation that is no longer current and that nobody else leases is retired;
\* an identity left with nothing leaves the index.
Release(p, g) ==
    LET others == LiveMarkers(p, g, [markers EXCEPT ![g] = @ \ {p}], leases[p])
        goes == dir[g] = "whole" /\ ~Current(g) /\ others = {}
    IN  /\ Running(p)
        /\ lock = None
        /\ leases[p][g] > Own(p, g)
        /\ leases' = [leases EXCEPT ![p][g] = @ - 1]
        /\ IF leases[p][g] > 1
           THEN UNCHANGED <<dir, markers, index, pinned>>
           ELSE /\ dir' = [dir EXCEPT ![g] = IF goes THEN "none" ELSE @]
                /\ markers' = [markers EXCEPT ![g] = IF Current(g) THEN @ \ {p} ELSE others]
                /\ IF goes /\ ~Remaining(Id(g), dir')
                   THEN WriteIndex(index \ {Id(g)}, pinned)
                   ELSE UNCHANGED <<index, pinned>>
        /\ UNCHANGED <<pointer, info, alive, locks, op, upstream, torn>>

-----------------------------------------------------------------------------
(* Publication.                                                            *)

\* stage_node_output: the request writes the node's output under a staging name,
\* computed from the upstream snapshot that is current (or from none).
Stage(p, g, i, cols, explicit, refresh) ==
    /\ At(p, "idle")
    /\ Id(g) = None
    /\ refresh => explicit
    /\ dir' = [dir EXCEPT ![g] = "staged"]
    /\ info' = [info EXCEPT ![g] = [id |-> i, dep |-> upstream.cur, cols |-> cols]]
    /\ SetOp(p, [Idle EXCEPT !.pc = "staged", !.gen = g, !.explicit = explicit,
                             !.refresh = refresh])
    /\ UNCHANGED <<pointer, index, pinned, markers, leases, alive, locks, upstream, torn>>

\* _should_publish_locked: the artifact's own dependencies are current, it holds
\* every column of the latest generation, and it is wanted: that one is stale,
\* narrower, or to be refreshed.
ShouldPublish(g, refresh) ==
    LET latest == Latest(Id(g))
    IN  /\ FreshDep(info[g].dep)
        /\ \/ latest = None
           \/ /\ info[g].cols >= info[latest].cols
              /\ \/ ~FreshDep(info[latest].dep)
                 \/ info[g].cols > info[latest].cols
                 \/ refresh

\* Fault: the publication lock is not taken.
MutMayRecheck(i) == TRUE

\* The publication lock of the identity is free.
MayRecheck(i) == publishing[i] = None

\* publish_node_output takes the identity's publication lock and applies the
\* rule; a superseded artifact stays the request's, which removes it.
Recheck(p) ==
    LET g == op[p].gen
    IN  /\ At(p, "staged")
        /\ MayRecheck(Id(g))
        /\ IF ShouldPublish(g, op[p].refresh)
           THEN /\ publishing' = [publishing EXCEPT ![Id(g)] = p]
                /\ SetOp(p, [op[p] EXCEPT !.pc = "approved"])
                /\ UNCHANGED dir
           ELSE /\ dir' = [dir EXCEPT ![g] = "none"]
                /\ SetOp(p, Idle)
                /\ UNCHANGED publishing
        /\ UNCHANGED <<pointer, info, index, pinned, markers, leases, alive,
                       lock, budgeting, upstream, torn>>

\* The candidate and its retention are registered before anything is exposed.
RegisterCandidate(p) ==
    LET i == Id(op[p].gen)
    IN  /\ At(p, "approved")
        /\ lock = None
        /\ lock' = p
        /\ WriteIndex(index \cup {i},
                      IF op[p].explicit \/ pinned # None THEN i ELSE None)
        /\ SetOp(p, [op[p] EXCEPT !.pc = "indexed", !.prev = pinned])
        /\ UNCHANGED <<pointer, dir, info, markers, leases, alive,
                       publishing, budgeting, upstream, torn>>

\* The artifact is renamed into place, with the publisher's lease in it.
Install(p) ==
    LET g == op[p].gen
    IN  /\ At(p, "indexed")
        /\ dir' = [dir EXCEPT ![g] = "whole"]
        /\ markers' = [markers EXCEPT ![g] = @ \cup {p}]
        /\ leases' = [leases EXCEPT ![p][g] = @ + 1]
        /\ SetOp(p, [op[p] EXCEPT !.pc = "installed"])
        /\ UNCHANGED <<pointer, info, index, pinned, alive, locks, upstream, torn>>

\* _write_pointer_locked
Commit(p) ==
    LET g == op[p].gen
    IN  /\ At(p, "installed")
        /\ pointer' = [pointer EXCEPT ![Id(g)] = g]
        /\ SetOp(p, [op[p] EXCEPT !.pc = "committed"])
        /\ UNCHANGED <<dir, info, index, pinned, markers, leases, alive, locks, upstream, torn>>

\* A file operation before the commit fails: the generation is removed and the
\* previous pin is written back (restored), or that fails too; the candidate
\* stays listed.
PublishFails(p) ==
    LET g == op[p].gen
    IN  /\ Running(p)
        /\ op[p].pc \in {"indexed", "installed"}
        /\ dir' = [dir EXCEPT ![g] = "none"]
        /\ markers' = [markers EXCEPT ![g] = {}]
        /\ leases' = [leases EXCEPT ![p][g] = 0]
        /\ WriteIndex(index, op[p].prev) \/ UNCHANGED <<index, pinned>>
        /\ lock' = None
        /\ publishing' = [publishing EXCEPT ![Id(g)] = None]
        /\ SetOp(p, Idle)
        /\ UNCHANGED <<pointer, info, alive, budgeting, upstream, torn>>

\* Fault: an identity whose data somebody still leases is left as it is.
MutSuperseded(i) ==
    {j \in index \ {i} : \A g \in Generations : Id(g) = j => markers[g] \cap alive = {}}

\* The identities a publication of i takes the slot from.
Superseded(i) == index \ {i}

\* _retire_superseded_signatures_locked: every other listed identity is unpointed
\* and its unleased generations are retired.
RetireOthers(p) ==
    LET others == Superseded(Id(op[p].gen))
    IN  /\ At(p, "committed")
        /\ pointer' = Unpoint(others)
        /\ dir' = DirAfter(p, others, Unpoint(others))
        /\ markers' = MarkersAfter(p, others, Unpoint(others))
        /\ SetOp(p, [op[p] EXCEPT !.pc = "superseding"])
        /\ UNCHANGED <<info, index, pinned, leases, alive, locks, upstream, torn>>

\* Fault: an identity leaves the index although a reader holds its generation.
MutListed(i, d) == FALSE

\* _retire_identities_locked: an identity stays listed while it holds anything.
Listed(i, d) == Remaining(i, d)

\* The index forgets the identities that were emptied, and the generations this
\* publication replaced are retired.  A capture then enforces the budget; an
\* explicit build leaves the publisher with its lease.
FinishPublish(p) ==
    LET i == Id(op[p].gen)
    IN  /\ At(p, "superseding")
        /\ WriteIndex({j \in index : j = i \/ Listed(j, dir)}, pinned)
        /\ dir' = DirAfter(p, {i}, pointer)
        /\ markers' = MarkersAfter(p, {i}, pointer)
        /\ lock' = None
        /\ publishing' = [publishing EXCEPT ![i] = None]
        /\ SetOp(p, IF op[p].explicit THEN Idle ELSE [op[p] EXCEPT !.pc = "budget"])
        /\ torn' = FALSE
        /\ UNCHANGED <<pointer, info, leases, alive, budgeting, upstream>>

\* Retiring fails after the commit: the publisher's lease is released and the
\* error surfaces; the new generation is current.
RetirementFails(p) ==
    LET g == op[p].gen
    IN  /\ Running(p)
        /\ op[p].pc \in {"committed", "superseding"}
        /\ leases' = [leases EXCEPT ![p][g] = @ - 1]
        /\ markers' = [markers EXCEPT ![g] = @ \ {p}]
        /\ lock' = None
        /\ publishing' = [publishing EXCEPT ![Id(g)] = None]
        /\ SetOp(p, Idle)
        /\ torn' = TRUE
        /\ UNCHANGED <<pointer, dir, info, index, pinned, alive, budgeting, upstream>>

-----------------------------------------------------------------------------
(* Clearing, pinning and the automatic budget.                             *)

\* clear (ids is one identity) and clear_slot (every listed one).
ClearIdentities(p, ids, pin) ==
    /\ Running(p)
    /\ lock = None
    /\ pointer' = Unpoint(ids)
    /\ dir' = DirAfter(p, ids, Unpoint(ids))
    /\ markers' = MarkersAfter(p, ids, Unpoint(ids))
    /\ WriteIndex({j \in index : j \in ids => Listed(j, dir')}, pin)
    /\ UNCHANGED <<info, leases, alive, locks, op, upstream>>

Clear(p, i) ==
    /\ ClearIdentities(p, {i}, IF pinned = i THEN None ELSE pinned)
    /\ UNCHANGED torn

ClearSlot(p) ==
    /\ index # {}
    /\ ClearIdentities(p, index, None)
    /\ torn' = FALSE

Pin(p, i) ==
    /\ Running(p)
    /\ lock = None
    /\ pointer[i] # None
    /\ WriteIndex(index \cup {i}, i)
    /\ UNCHANGED <<pointer, dir, info, markers, leases, alive, locks, op, upstream, torn>>

\* A generation no pin protects: any but the current one of a pinned slot.
Automatic(g) == dir[g] = "whole" /\ ~(Current(g) /\ pinned # None)

\* _scan_usage, which takes no lease lock.
ScanUsage(p) ==
    /\ At(p, "budget")
    /\ budgeting = None
    /\ budgeting' = p
    /\ SetOp(p, [op[p] EXCEPT !.pc = "scanned", !.seen = {g \in Generations : Automatic(g)}])
    /\ UNCHANGED <<disk, leases, alive, lock, publishing, upstream, torn>>

\* Fault: what was automatic when it was scanned still is.
MutStillAutomatic(seen) == {g \in seen : dir[g] = "whole"}

\* _still_automatic_locked
StillAutomatic(seen) == {g \in seen : Automatic(g)}

\* The evictions of one pass: unleased captures, as many as exceed the budget.
Evictions(p) ==
    LET automatic == StillAutomatic(op[p].seen)
        unleased == {g \in automatic : LiveMarkers(p, g, markers, leases[p]) = {}}
        excess == Cardinality(automatic) - Budget
    IN  {ev \in SUBSET unleased :
            \/ Cardinality(ev) = excess
            \/ Cardinality(ev) < excess /\ ev = unleased
            \/ excess <= 0 /\ ev = {}}

\* enforce_automatic_budget, under the lease lock: evicting a current generation
\* clears its pointer, and an identity left with nothing leaves the index.
EvictCaptures(p) ==
    /\ At(p, "scanned")
    /\ lock = None
    /\ \E ev \in Evictions(p) :
          /\ pointer' = [i \in Identities |-> IF pointer[i] \in ev THEN None ELSE pointer[i]]
          /\ dir' = [g \in Generations |-> IF g \in ev THEN "none" ELSE dir[g]]
          /\ markers' = [g \in Generations |-> IF g \in ev THEN {} ELSE markers[g]]
          /\ WriteIndex({j \in index : (\E g \in ev : Id(g) = j) => Remaining(j, dir')}, pinned)
    /\ budgeting' = None
    /\ SetOp(p, Idle)
    /\ UNCHANGED <<info, leases, alive, lock, publishing, upstream, torn>>

-----------------------------------------------------------------------------
\* The upstream node is published again, or cleared.
PublishUpstream ==
    /\ upstream.last < MaxUpstream
    /\ upstream' = [cur |-> upstream.last + 1, last |-> upstream.last + 1]
    /\ UNCHANGED <<disk, leases, alive, locks, op, torn>>

ClearUpstream ==
    /\ upstream.cur # 0
    /\ upstream' = [upstream EXCEPT !.cur = 0]
    /\ UNCHANGED <<disk, leases, alive, locks, op, torn>>

\* A process dies: its locks and memory go, its files stay.
Die(p) ==
    /\ Running(p)
    /\ alive' = alive \ {p}
    /\ leases' = [leases EXCEPT ![p] = [g \in Generations |-> 0]]
    /\ lock' = IF lock = p THEN None ELSE lock
    /\ publishing' = [i \in Identities |-> IF publishing[i] = p THEN None ELSE publishing[i]]
    /\ budgeting' = IF budgeting = p THEN None ELSE budgeting
    /\ torn' = (torn \/ op[p].pc \in {"committed", "superseding"})
    /\ SetOp(p, Idle)
    /\ UNCHANGED <<disk, upstream>>

Publishing(p) ==
    \/ \E g \in Generations, i \in Identities, cols \in Columns, ex, re \in BOOLEAN :
          Stage(p, g, i, cols, ex, re)
    \/ Recheck(p) \/ RegisterCandidate(p) \/ Install(p) \/ Commit(p) \/ PublishFails(p)
    \/ RetireOthers(p) \/ FinishPublish(p) \/ RetirementFails(p)
    \/ ScanUsage(p) \/ EvictCaptures(p)

Using(p) ==
    \/ \E i \in Identities : Lease(p, i) \/ Pin(p, i)
    \/ \E g \in Generations : Release(p, g)

Clearing(p) == ClearSlot(p) \/ \E i \in Identities : Clear(p, i)

Next ==
    \/ \E p \in Process : Publishing(p) \/ Using(p) \/ Clearing(p) \/ Die(p)
    \/ PublishUpstream \/ ClearUpstream

Spec == Init /\ [][Next]_vars

-----------------------------------------------------------------------------
(* Properties.                                                             *)

\* What a running process leases stays on disk until it is released, whatever
\* is published, cleared or evicted meanwhile, and whoever dies.
LeasedSnapshotStays ==
    \A p \in alive, g \in Generations : leases[p][g] > 0 => dir[g] = "whole"

\* Every generation on disk belongs to an identity its slot's index lists, in
\* every state a crash can leave: otherwise no Clear could ever find it.
NothingIsStranded ==
    \A g \in Generations : dir[g] = "whole" => Id(g) \in index

\* A publication moves a pointer only to data with every column of what it
\* replaces, and never from a generation computed from the current upstream
\* snapshot to one computed from another, although the rule is applied before
\* the lease lock is taken.
ReplacementIsNoWorse ==
    [][\A i \in Identities :
          LET old == pointer[i]
              new == pointer'[i]
          IN  old # None /\ new # None /\ new # old =>
                /\ info[new].cols >= info[old].cols
                /\ info[old].dep # 0 /\ FreshDep(info[old].dep) => FreshDep(info[new].dep)]_vars

\* The budget never evicts the current generation of a slot that is pinned when
\* the eviction happens, however the slot looked to the scan.
PinnedIsNotEvicted ==
    [][\A p \in Process, i \in Identities :
          EvictCaptures(p) /\ pinned # None => pointer'[i] = pointer[i]]_vars

\* A slot shows one dataset, except while a publication is under way or after
\* one broke off between the commit and the retirement of the rest.
OneDatasetPerSlot ==
    \/ Cardinality({i \in Identities : pointer[i] # None}) <= 1
    \/ lock # None
    \/ torn

=============================================================================
