----------------------- MODULE NodeSnapshotStoreProofs ------------------------
(***************************************************************************)
(* Proofs about NodeSnapshotStore, for any number of processes, signatures *)
(* and generations and for any budget: what is leased stays, what is on    *)
(* disk is listed, a pointer moves only to data that is no worse, the      *)
(* budget spares a pinned slot, and a slot shows one dataset.              *)
(***************************************************************************)
EXTENDS NodeSnapshotStore, FiniteSetTheorems, TLAPS

\* The steps of a publication: before its generation is in place, before the
\* pointer names it, under the lease lock, under the publication lock.
StagedPC == {"staged", "approved", "indexed"}
LockedPC == {"indexed", "installed", "committed", "superseding"}
PublishingPC == LockedPC \cup {"approved"}

\* Process p lives and its operation is at one of the places pcs.
InState(p, pcs) == p \in alive /\ op[p].pc \in pcs

\* A process that is not idle works on a generation of its own.
OwnGeneration ==
    /\ \A p \in alive : op[p].pc # "idle" => op[p].gen \in Generations /\ Id(op[p].gen) # None
    /\ \A p, q \in alive :
          op[p].pc # "idle" /\ op[q].pc # "idle" /\ op[p].gen = op[q].gen => p = q

\* Each lock is held by the process whose publication it protects.
LocksAreHeld ==
    /\ \A p \in Process : lock = p <=> InState(p, LockedPC)
    /\ \A p \in alive : op[p].pc \in PublishingPC => publishing[Id(op[p].gen)] = p

\* What the disk holds of a generation that no pointer has named yet, and of the
\* publisher's lease.
Unexposed ==
    \A p \in alive :
        /\ op[p].pc \in StagedPC => dir[op[p].gen] = "staged"
        /\ op[p].pc = "installed" => markers[op[p].gen] = {p}
        /\ op[p].pc \in StagedPC \cup {"installed"} =>
              \A i \in Identities : pointer[i] # op[p].gen
        /\ op[p].pc \in {"installed", "committed", "superseding"} =>
              leases[p][op[p].gen] = 1
        /\ op[p].pc \in LockedPC => Id(op[p].gen) \in index

\* A pointer names a generation of its own identity, which is on disk.
PointerIsOwn ==
    \A i \in Identities :
        pointer[i] # None => Id(pointer[i]) = i /\ dir[pointer[i]] = "whole"

\* Markers are left in what is on disk, by every process that leases it; an id
\* that nobody has staged has no directory.
Marked ==
    /\ \A g \in Generations : markers[g] # {} => dir[g] = "whole"
    /\ \A p \in alive, g \in Generations : leases[p][g] > 0 => p \in markers[g]
    /\ \A g \in Generations : Id(g) = None => dir[g] = "none"

\* Upstream generations are numbered in the order they are published.
Dated ==
    /\ upstream.cur <= upstream.last
    /\ \A g \in Generations : info[g].dep <= upstream.last

\* The data that new may replace: it has no more columns, and is not fresher.
NoWorse(new, old) ==
    /\ info[new].cols >= info[old].cols
    /\ info[old].dep # 0 /\ FreshDep(info[old].dep) => FreshDep(info[new].dep)

\* What the rule was applied to is still what an approved artifact would replace.
ApprovalStands ==
    \A p \in alive :
        op[p].pc \in {"approved", "indexed", "installed"} =>
            LET old == pointer[Id(op[p].gen)]
            IN  old # None => NoWorse(op[p].gen, old)

\* The identities a slot shows.
Shown == {i \in Identities : pointer[i] # None}

\* One generation is shown.
AtMostOne == \A i, j \in Shown : i = j

\* A slot shows two datasets only between a commit and the retirement of the rest.
Singled ==
    /\ torn \/ AtMostOne \/ \E p \in alive : op[p].pc = "committed"
    /\ \A p \in alive : op[p].pc = "superseding" => Shown \subseteq {Id(op[p].gen)}

\* The inductive invariant.
IInv ==
    /\ TypeOK
    /\ OwnGeneration
    /\ LocksAreHeld
    /\ Unexposed
    /\ PointerIsOwn
    /\ Marked
    /\ Dated
    /\ ApprovalStands
    /\ Singled
    /\ LeasedSnapshotStays
    /\ NothingIsStranded

-----------------------------------------------------------------------------
(* What a retirement, a release, a clear and an eviction have in common.   *)

\* Pointers, leases and markers only go.  A directory goes only if no pointer names
\* it any more, with every marker in it; and neither goes that a running process
\* still leases.
Keeps ==
    /\ info' = info /\ alive' = alive
    /\ pointer' \in [Identities -> Generations \cup {None}]
    /\ \A i \in Identities : pointer'[i] \in {pointer[i], None}
    /\ leases' \in [Process -> [Generations -> Nat]]
    /\ \A q \in Process, g \in Generations : leases'[q][g] > 0 => leases[q][g] > 0
    /\ dir' \in [Generations -> DirState]
    /\ markers' \in [Generations -> SUBSET Process]
    /\ \A g \in Generations :
          /\ markers'[g] \subseteq markers[g]
          /\ \/ dir'[g] = dir[g]
             \/ /\ dir[g] = "whole" /\ dir'[g] = "none" /\ markers'[g] = {}
                /\ \A i \in Identities : pointer'[i] # g
          /\ \A q \in alive :
                q \in markers[g] /\ leases'[q][g] > 0
                    => q \in markers'[g] /\ dir'[g] = dir[g]

\* Retiring the superseded generations takes only what nobody reads or points to.
LEMMA RetireOthersKeeps ==
    ASSUME TypeOK, PointerIsOwn, NEW p \in Process, RetireOthers(p)
    PROVE  Keeps
<1>1. /\ dir' \in [Generations -> DirState]
      /\ markers' \in [Generations -> SUBSET Process]
  BY DEF RetireOthers, DirAfter, MarkersAfter, LiveMarkers, TypeOK, DirState
<1>2. ASSUME NEW g \in Generations
      PROVE  /\ markers'[g] \subseteq markers[g]
             /\ \A q \in alive :
                   q \in markers[g] /\ leases[q][g] > 0
                       => q \in markers'[g] /\ dir'[g] = dir[g]
  BY DEF RetireOthers, DirAfter, MarkersAfter, Candidate, LiveMarkers, Lives, TypeOK
<1>3. ASSUME NEW g \in Generations, dir'[g] # dir[g]
      PROVE  /\ dir[g] = "whole" /\ dir'[g] = "none" /\ markers'[g] = {}
             /\ \A i \in Identities : pointer'[i] # g
  BY <1>3, SlotAssumption DEF RetireOthers, DirAfter, MarkersAfter, Candidate, Unpoint, 
     PointerIsOwn, TypeOK, Id
<1>4. leases' = leases /\ info' = info /\ alive' = alive
  BY DEF RetireOthers
<1>5. /\ pointer' \in [Identities -> Generations \cup {None}]
      /\ \A i \in Identities : pointer'[i] \in {pointer[i], None}
  BY DEF RetireOthers, Unpoint, TypeOK
<1> QED
  BY <1>1, <1>2, <1>3, <1>4, <1>5 DEF Keeps, TypeOK

\* So does the end of a publication.
LEMMA FinishPublishKeeps ==
    ASSUME TypeOK, PointerIsOwn, NEW p \in Process, FinishPublish(p)
    PROVE  Keeps
<1>1. /\ dir' \in [Generations -> DirState]
      /\ markers' \in [Generations -> SUBSET Process]
  BY DEF FinishPublish, DirAfter, MarkersAfter, LiveMarkers, TypeOK, DirState
<1>2. ASSUME NEW g \in Generations
      PROVE  /\ markers'[g] \subseteq markers[g]
             /\ \A q \in alive :
                   q \in markers[g] /\ leases[q][g] > 0
                       => q \in markers'[g] /\ dir'[g] = dir[g]
  BY DEF FinishPublish, DirAfter, MarkersAfter, Candidate, LiveMarkers, Lives, TypeOK
<1>3. ASSUME NEW g \in Generations, dir'[g] # dir[g]
      PROVE  /\ dir[g] = "whole" /\ dir'[g] = "none" /\ markers'[g] = {}
             /\ \A i \in Identities : pointer'[i] # g
  <2>1. pointer' = pointer
    BY DEF FinishPublish
  <2>2. /\ Candidate(g, {Id(op[p].gen)}, pointer)
        /\ LiveMarkers(p, g, markers, leases[p]) = {}
        /\ dir'[g] = "none"
    BY <1>3 DEF FinishPublish, DirAfter, TypeOK
  <2>3. markers'[g] = {}
    BY <2>2 DEF FinishPublish, MarkersAfter, TypeOK
  <2> QED
    BY <2>1, <2>2, <2>3, SlotAssumption DEF Candidate, PointerIsOwn, Id
<1>4. leases' = leases /\ info' = info /\ alive' = alive
  BY DEF FinishPublish
<1>5. /\ pointer' \in [Identities -> Generations \cup {None}]
      /\ \A i \in Identities : pointer'[i] \in {pointer[i], None}
  BY DEF FinishPublish, TypeOK
<1> QED
  BY <1>1, <1>2, <1>3, <1>4, <1>5 DEF Keeps, TypeOK

\* So does the clearing of any identities.
LEMMA ClearIdentitiesKeeps ==
    ASSUME TypeOK, PointerIsOwn, NEW p \in Process, NEW ids, NEW pin,
           ClearIdentities(p, ids, pin)
    PROVE  Keeps
<1>1. /\ dir' \in [Generations -> DirState]
      /\ markers' \in [Generations -> SUBSET Process]
  BY DEF ClearIdentities, DirAfter, MarkersAfter, LiveMarkers, TypeOK, DirState
<1>2. ASSUME NEW g \in Generations
      PROVE  /\ markers'[g] \subseteq markers[g]
             /\ \A q \in alive :
                   q \in markers[g] /\ leases[q][g] > 0
                       => q \in markers'[g] /\ dir'[g] = dir[g]
  BY DEF ClearIdentities, DirAfter, MarkersAfter, Candidate, LiveMarkers, Lives, TypeOK
<1>3. ASSUME NEW g \in Generations, dir'[g] # dir[g]
      PROVE  /\ dir[g] = "whole" /\ dir'[g] = "none" /\ markers'[g] = {}
             /\ \A i \in Identities : pointer'[i] # g
  BY <1>3, SlotAssumption DEF ClearIdentities, DirAfter, MarkersAfter, Candidate, Unpoint,
     PointerIsOwn, TypeOK, Id
<1>4. leases' = leases /\ info' = info /\ alive' = alive
  BY DEF ClearIdentities
<1>5. /\ pointer' \in [Identities -> Generations \cup {None}]
      /\ \A i \in Identities : pointer'[i] \in {pointer[i], None}
  BY DEF ClearIdentities, Unpoint, TypeOK
<1> QED
  BY <1>1, <1>2, <1>3, <1>4, <1>5 DEF Keeps, TypeOK

\* So does clearing one identity.
LEMMA ClearKeeps ==
    ASSUME TypeOK, PointerIsOwn, NEW p \in Process, NEW i \in Identities, Clear(p, i)
    PROVE  Keeps
<1>1. PICK pin : ClearIdentities(p, {i}, pin)
  BY DEF Clear
<1> QED
  BY <1>1, ClearIdentitiesKeeps

\* So does clearing the slot.
LEMMA ClearSlotKeeps ==
    ASSUME TypeOK, PointerIsOwn, NEW p \in Process, ClearSlot(p)
    PROVE  Keeps
<1>1. PICK ids : ids = index
  OBVIOUS
<1>2. ClearIdentities(p, ids, None)
  BY <1>1 DEF ClearSlot, ClearIdentities
<1> QED
  BY <1>2, ClearIdentitiesKeeps

\* So does the budget's eviction.
LEMMA EvictCapturesKeeps ==
    ASSUME TypeOK, NEW p \in Process, EvictCaptures(p)
    PROVE  Keeps
<1>1. PICK ev \in Evictions(p) :
        /\ pointer' = [i \in Identities |-> IF pointer[i] \in ev THEN None ELSE pointer[i]]
        /\ dir' = [g \in Generations |-> IF g \in ev THEN "none" ELSE dir[g]]
        /\ markers' = [g \in Generations |-> IF g \in ev THEN {} ELSE markers[g]]
  BY DEF EvictCaptures
<1>2. \A g \in ev : dir[g] = "whole" /\ LiveMarkers(p, g, markers, leases[p]) = {}
  BY DEF Evictions, StillAutomatic, Automatic
<1>3. leases' = leases /\ info' = info /\ alive' = alive
  BY DEF EvictCaptures
<1>4. None \notin ev
  BY SlotAssumption DEF Evictions, StillAutomatic, TypeOK, Op
<1> QED
  BY <1>1, <1>2, <1>3, <1>4 DEF Keeps, LiveMarkers, Lives, TypeOK, DirState

\* So does the last release of a lease.
LEMMA ReleaseKeeps ==
    ASSUME TypeOK, PointerIsOwn, NEW p \in Process, NEW g \in Generations, Release(p, g)
    PROVE  Keeps
<1>1. leases' = [leases EXCEPT ![p][g] = leases[p][g] - 1]
  BY DEF Release
<1>2. CASE leases[p][g] > 1
  <2>1. /\ leases' \in [Process -> [Generations -> Nat]]
        /\ \A q \in Process, h \in Generations : leases'[q][h] > 0 => leases[q][h] > 0
    BY <1>1, <1>2 DEF TypeOK
  <2> QED
    BY <1>2, <2>1 DEF Release, Keeps, TypeOK
<1>3. CASE ~(leases[p][g] > 1)
  <2>1. ~(leases'[p][g] > 0)
    BY <1>1, <1>3 DEF TypeOK
  <2>2. /\ dir' = [dir EXCEPT ![g] = IF dir[g] = "whole" /\ ~Current(g)
                        /\ LiveMarkers(p, g, [markers EXCEPT ![g] = @ \ {p}], leases[p]) = {}
                                     THEN "none" ELSE @]
        /\ markers' = [markers EXCEPT ![g] = IF Current(g) THEN @ \ {p}
                         ELSE LiveMarkers(p, g, [markers EXCEPT ![g] = @ \ {p}], leases[p])]
        /\ pointer' = pointer /\ info' = info /\ alive' = alive
    BY <1>3 DEF Release
  <2>3. \A h \in Generations \ {g}, q \in alive : dir'[h] = dir[h] /\ markers'[h] = markers[h]
    BY <2>2 DEF TypeOK
  <2>4. /\ dir' \in [Generations -> DirState]
        /\ markers' \in [Generations -> SUBSET Process]
    BY <2>2 DEF TypeOK, DirState, LiveMarkers
  <2>5. /\ markers'[g] \subseteq markers[g]
        /\ \/ dir'[g] = dir[g]
           \/ /\ dir[g] = "whole" /\ dir'[g] = "none" /\ markers'[g] = {}
              /\ \A i \in Identities : pointer'[i] # g
    <3>1. CASE dir'[g] = dir[g]
      BY <2>2, <3>1 DEF TypeOK, LiveMarkers
    <3>2. CASE dir'[g] # dir[g]
      <4>1. /\ dir[g] = "whole" /\ ~Current(g) /\ dir'[g] = "none"
            /\ LiveMarkers(p, g, [markers EXCEPT ![g] = @ \ {p}], leases[p]) = {}
        BY <2>2, <3>2 DEF TypeOK
      <4>2. markers'[g] = {}
        BY <2>2, <4>1 DEF TypeOK
      <4> QED
        BY <2>2, <4>1, <4>2, SlotAssumption DEF Current, PointerIsOwn, Id
    <3> QED
      BY <3>1, <3>2
  <2>6. \A q \in alive :
            q \in markers[g] /\ leases'[q][g] > 0 => q \in markers'[g] /\ dir'[g] = dir[g]
    BY <2>1, <2>2 DEF TypeOK, LiveMarkers, Lives
  <2>7. leases[p][g] = 1
    BY <1>3 DEF Release, Own, TypeOK
  <2>8. /\ leases' \in [Process -> [Generations -> Nat]]
        /\ \A q \in Process, h \in Generations : leases'[q][h] > 0 => leases[q][h] > 0
    BY <1>1, <2>7 DEF TypeOK
  <2> QED
    BY <2>2, <2>3, <2>4, <2>5, <2>6, <2>8 DEF Keeps, TypeOK
<1> QED
  BY <1>2, <1>3

\* A step that keeps, keeps these.
LEMMA KeepsPointers ==
    ASSUME TypeOK, PointerIsOwn, Keeps
    PROVE  PointerIsOwn'
  BY SlotAssumption DEF PointerIsOwn, Keeps, TypeOK, Id

\* A step that keeps what is read or pointed to keeps a marker for every lease.
LEMMA KeepsMarked ==
    ASSUME TypeOK, Marked, Keeps
    PROVE  Marked'
  BY DEF Marked, Keeps, TypeOK, Id

\* It keeps every leased generation in place.
LEMMA KeepsLeased ==
    ASSUME TypeOK, Marked, LeasedSnapshotStays, Keeps
    PROVE  LeasedSnapshotStays'
  BY DEF Marked, LeasedSnapshotStays, Keeps, TypeOK

\* How the rule's application ends, with p at o: approved, or given up.
RecheckEnds(p, o) ==
    /\ op' = [op EXCEPT ![p] = o]
    /\ \/ /\ o.pc = "approved" /\ o.gen = op[p].gen
          /\ ShouldPublish(op[p].gen, op[p].refresh)
          /\ publishing' = [publishing EXCEPT ![Id(op[p].gen)] = p]
          /\ dir' = dir
       \/ /\ o.pc = "idle"
          /\ dir' = [dir EXCEPT ![op[p].gen] = "none"]
          /\ publishing' = publishing

\* The replacement rule under the lock approves the artifact or gives it up.
LEMMA RecheckIs ==
    ASSUME TypeOK, NEW p \in Process, Recheck(p)
    PROVE  \E o \in Op : RecheckEnds(p, o)
<1>1. op[p] \in Op
  BY DEF TypeOK
<1>2. CASE ShouldPublish(op[p].gen, op[p].refresh)
  <2> DEFINE o == [op[p] EXCEPT !.pc = "approved"]
  <2>1. o \in Op /\ o.pc = "approved" /\ o.gen = op[p].gen
    BY <1>1 DEF Op, OpState
  <2>2. /\ op' = [op EXCEPT ![p] = o]
        /\ publishing' = [publishing EXCEPT ![Id(op[p].gen)] = p]
        /\ dir' = dir
    BY <1>2 DEF Recheck, SetOp
  <2> HIDE DEF o
  <2> QED
    BY <1>2, <2>1, <2>2 DEF RecheckEnds
<1>3. CASE ~ShouldPublish(op[p].gen, op[p].refresh)
  <2>1. Idle \in Op /\ Idle.pc = "idle"
    BY DEF Idle, Op, OpState
  <2>2. /\ op' = [op EXCEPT ![p] = Idle]
        /\ dir' = [dir EXCEPT ![op[p].gen] = "none"]
        /\ publishing' = publishing
    BY <1>3 DEF Recheck, SetOp
  <2> QED
    BY <2>1, <2>2 DEF RecheckEnds
<1> QED
  BY <1>2, <1>3

\* It shows no generation that a publication has staged.
LEMMA KeepsUnexposed ==
    ASSUME TypeOK, OwnGeneration, Unexposed, Keeps,
           \A q \in alive : op[q].pc \notin LockedPC,
           \A q \in alive : op'[q] = op[q] \/ op'[q].pc = "idle"
    PROVE  Unexposed'
<1>1. ASSUME NEW q \in alive, op'[q].pc \in StagedPC
      PROVE  /\ op'[q] = op[q]
             /\ dir'[op[q].gen] = "staged"
             /\ \A i \in Identities : pointer'[i] # op[q].gen
  BY <1>1, SlotAssumption DEF Keeps, Unexposed, OwnGeneration, StagedPC
<1> QED
  BY <1>1 DEF Unexposed, Keeps, StagedPC, LockedPC

\* A step that keeps, keeps what is staged.
LEMMA KeepsStaged ==
    ASSUME OwnGeneration, Unexposed, Keeps, NEW q \in alive, op[q].pc \in StagedPC
    PROVE  dir'[op[q].gen] = "staged" /\ \A i \in Identities : pointer'[i] # op[q].gen
<1>1. op[q].gen \in Generations /\ dir[op[q].gen] = "staged"
  BY DEF OwnGeneration, Unexposed, StagedPC
<1>2. \A i \in Identities : pointer[i] # op[q].gen
  BY DEF Unexposed
<1>3. dir'[op[q].gen] = "staged"
  BY <1>1 DEF Keeps
<1>4. \A i \in Identities : pointer'[i] # op[q].gen
  BY <1>1, <1>2, SlotAssumption DEF Keeps
<1> QED
  BY <1>3, <1>4

\* What remains of the others' staged artifacts when p holds the lease lock, and of
\* p's own generation, is all there is to show.
LEMMA OthersUnexposed ==
    ASSUME NEW p \in alive, alive' = alive, info' = info,
           \A q \in alive \ {p} : op[q].pc \notin LockedPC /\ op'[q] = op[q],
           \A q \in alive \ {p} : op[q].pc \in StagedPC =>
               dir'[op[q].gen] = "staged" /\ \A i \in Identities : pointer'[i] # op[q].gen,
           op'[p].pc \notin StagedPC \cup {"installed"},
           op'[p].pc \in LockedPC =>
               leases'[p][op'[p].gen] = 1 /\ Id(op'[p].gen) \in index'
    PROVE  Unexposed'
<1>1. ASSUME NEW q \in alive, q # p
      PROVE  /\ op'[q].pc \in StagedPC =>
                   /\ dir'[op'[q].gen] = "staged"
                   /\ \A i \in Identities : pointer'[i] # op'[q].gen
             /\ op'[q].pc \notin LockedPC
  BY <1>1
<1>2. ASSUME NEW q \in alive
      PROVE  (/\ op[q].pc \in StagedPC => dir[op[q].gen] = "staged"
              /\ op[q].pc = "installed" => markers[op[q].gen] = {q}
              /\ op[q].pc \in StagedPC \cup {"installed"} =>
                    \A i \in Identities : pointer[i] # op[q].gen
              /\ op[q].pc \in {"installed", "committed", "superseding"} =>
                    leases[q][op[q].gen] = 1
              /\ op[q].pc \in LockedPC => Id(op[q].gen) \in index)'
  <2>1. CASE q = p
    BY <2>1 DEF LockedPC, Id
  <2>2. CASE q # p
    BY <1>1, <2>2 DEF LockedPC
  <2> QED
    BY <2>1, <2>2
<1> QED
  BY <1>2 DEF Unexposed

\* An approval stands if the artifact is no worse than what the pointer then names.
LEMMA ApprovalHolds ==
    ASSUME upstream' = upstream, alive' \subseteq alive,
           \A q \in alive : op'[q].pc \in {"approved", "indexed", "installed"} =>
               LET old == pointer'[Id(op'[q].gen)]
               IN  /\ info'[op'[q].gen] = info[op'[q].gen]
                   /\ old # None => info'[old] = info[old] /\ NoWorse(op'[q].gen, old)
    PROVE  ApprovalStands'
<1>1. ASSUME NEW q \in alive', op'[q].pc \in {"approved", "indexed", "installed"}
      PROVE  (pointer[Id(op[q].gen)] # None
                 => NoWorse(op[q].gen, pointer[Id(op[q].gen)]))'
  BY <1>1 DEF Id, NoWorse, FreshDep
<1> QED
  BY <1>1 DEF ApprovalStands

\* A step that approves nothing, names nothing new and leaves the upstream alone
\* leaves every approval standing.
LEMMA KeepsApproval ==
    ASSUME TypeOK, OwnGeneration, ApprovalStands,
           info' = info, upstream' = upstream, alive' \subseteq alive,
           \A i \in Identities : pointer'[i] \in {pointer[i], None},
           \A q \in alive :
               op'[q].pc \in {"approved", "indexed", "installed"} =>
                   /\ op[q].pc \in {"approved", "indexed", "installed"}
                   /\ op'[q].gen = op[q].gen
    PROVE  ApprovalStands'
<1>1. ASSUME NEW q \in alive, op'[q].pc \in {"approved", "indexed", "installed"},
             pointer'[Id(op[q].gen)] # None
      PROVE  /\ pointer'[Id(op[q].gen)] = pointer[Id(op[q].gen)]
             /\ NoWorse(op[q].gen, pointer[Id(op[q].gen)])
  <2>1. Id(op[q].gen) \in Identities
    <3>1. op[q].gen \in Generations /\ Id(op[q].gen) # None
      BY <1>1 DEF OwnGeneration
    <3> QED
      BY <3>1 DEF TypeOK, Id
  <2>2. pointer'[Id(op[q].gen)] = pointer[Id(op[q].gen)]
    BY <1>1, <2>1
  <2> QED
    BY <1>1, <2>2 DEF ApprovalStands
<1> QED
  BY <1>1, ApprovalHolds

\* A step that names nothing new and commits nothing leaves a slot that shows one
\* dataset with at most one.
LEMMA KeepsSingled ==
    ASSUME Singled,
           \A i \in Identities : pointer'[i] \in {pointer[i], None},
           torn => torn',
           \A q \in alive : op[q].pc = "committed" =>
               torn' \/ (q \in alive' /\ op'[q].pc = "committed"),
           \A q \in alive' : op'[q].pc = "superseding" =>
               q \in alive /\ op[q].pc = "superseding" /\ Id(op[q].gen)' = Id(op[q].gen)
    PROVE  Singled'
<1>1. Shown' \subseteq Shown
  BY DEF Shown
<1>2. AtMostOne => AtMostOne'
  BY <1>1 DEF AtMostOne
<1> QED
  BY <1>1, <1>2 DEF Singled

\* The operations a step can leave a process in, and the index it can write.
LEMMA OpValues ==
    ASSUME TypeOK, NEW p \in Process, NEW pc \in OpState
    PROVE  /\ [op[p] EXCEPT !.pc = pc] \in Op
           /\ Idle \in Op
           /\ \A i \in Identities \cup {None} :
                 [op[p] EXCEPT !.pc = pc, !.prev = i] \in Op
           /\ \A s \in SUBSET Generations : [op[p] EXCEPT !.pc = pc, !.seen = s] \in Op
           /\ \A g \in Generations, ex, re \in BOOLEAN :
                 [Idle EXCEPT !.pc = pc, !.gen = g, !.explicit = ex, !.refresh = re] \in Op
<1>1. op[p] \in Op
  BY DEF TypeOK
<1>2. Idle \in Op
  BY DEF Idle, Op, OpState
<1>3. [op[p] EXCEPT !.pc = pc] \in Op
  BY <1>1 DEF Op
<1>4. ASSUME NEW i \in Identities \cup {None}
      PROVE  [op[p] EXCEPT !.pc = pc, !.prev = i] \in Op
  BY <1>1 DEF Op
<1>5. ASSUME NEW s \in SUBSET Generations
      PROVE  [op[p] EXCEPT !.pc = pc, !.seen = s] \in Op
  BY <1>1 DEF Op
<1>6. ASSUME NEW g \in Generations, NEW ex \in BOOLEAN, NEW re \in BOOLEAN
      PROVE  [Idle EXCEPT !.pc = pc, !.gen = g, !.explicit = ex, !.refresh = re] \in Op
  BY <1>2 DEF Op
<1> QED
  BY <1>2, <1>3, <1>4, <1>5, <1>6

\* A generation id is staged once.
LEMMA OwnStep ==
    ASSUME TypeOK, OwnGeneration, Next
    PROVE  OwnGeneration'
<1>1. ASSUME NEW p \in Process, NEW g \in Generations, NEW i \in Identities, NEW
   cols \in Columns, NEW ex \in BOOLEAN, NEW re \in BOOLEAN, Stage(p, g, i,
   cols, ex, re)
      PROVE  OwnGeneration'
  BY <1>1, SlotAssumption DEF Stage, At, SetOp, Idle, OwnGeneration, TypeOK, Op,
     Id
<1>2. ASSUME NEW p \in Process, Recheck(p)
      PROVE  OwnGeneration'
  <2>1. PICK o \in Op : RecheckEnds(p, o)
    BY <1>2, RecheckIs
  <2> QED
    BY <1>2, <2>1, SlotAssumption DEF RecheckEnds, Recheck, MayRecheck, At,
       OwnGeneration, TypeOK, Op, Id
<1>3. ASSUME NEW p \in Process, RegisterCandidate(p)
      PROVE  OwnGeneration'
  BY <1>3, SlotAssumption DEF RegisterCandidate, At, SetOp, WriteIndex,
     OwnGeneration, TypeOK, Op, Id
<1>4. ASSUME NEW p \in Process, Install(p)
      PROVE  OwnGeneration'
  BY <1>4, SlotAssumption DEF Install, At, SetOp, locks, OwnGeneration, TypeOK,
     Op, Id
<1>5. ASSUME NEW p \in Process, Commit(p)
      PROVE  OwnGeneration'
  BY <1>5, SlotAssumption DEF Commit, At, SetOp, locks, OwnGeneration, TypeOK,
     Op, Id
<1>6. ASSUME NEW p \in Process, PublishFails(p)
      PROVE  OwnGeneration'
  BY <1>6, SlotAssumption DEF PublishFails, Running, SetOp, Idle, WriteIndex,
     OwnGeneration, TypeOK, Op, Id
<1>7. ASSUME NEW p \in Process, RetireOthers(p)
      PROVE  OwnGeneration'
  BY <1>7, SlotAssumption DEF RetireOthers, At, SetOp, locks, OwnGeneration,
     TypeOK, Op, Id
<1>8. ASSUME NEW p \in Process, FinishPublish(p)
      PROVE  OwnGeneration'
  BY <1>8, SlotAssumption DEF FinishPublish, At, SetOp, Idle, WriteIndex,
     OwnGeneration, TypeOK, Op, Id
<1>9. ASSUME NEW p \in Process, RetirementFails(p)
      PROVE  OwnGeneration'
  BY <1>9, SlotAssumption DEF RetirementFails, Running, SetOp, Idle,
     OwnGeneration, TypeOK, Op, Id
<1>10. ASSUME NEW p \in Process, ScanUsage(p)
      PROVE  OwnGeneration'
  BY <1>10, SlotAssumption DEF ScanUsage, At, SetOp, disk, OwnGeneration,
     TypeOK, Op, Id
<1>11. ASSUME NEW p \in Process, EvictCaptures(p)
      PROVE  OwnGeneration'
  BY <1>11, SlotAssumption DEF EvictCaptures, At, SetOp, Idle, WriteIndex,
     OwnGeneration, TypeOK, Op, Id
<1>12. ASSUME NEW p \in Process, NEW i \in Identities, Lease(p, i)
      PROVE  OwnGeneration'
  BY <1>12, SlotAssumption DEF Lease, Running, locks, OwnGeneration, TypeOK, Op,
     Id
<1>13. ASSUME NEW p \in Process, NEW i \in Identities, Pin(p, i)
      PROVE  OwnGeneration'
  BY <1>13, SlotAssumption DEF Pin, Running, locks, WriteIndex, OwnGeneration,
     TypeOK, Op, Id
<1>14. ASSUME NEW p \in Process, NEW g \in Generations, Release(p, g)
      PROVE  OwnGeneration'
  BY <1>14, SlotAssumption DEF Release, Running, locks, WriteIndex,
     OwnGeneration, TypeOK, Op, Id
<1>15. ASSUME NEW p \in Process, NEW i \in Identities, Clear(p, i)
      PROVE  OwnGeneration'
  BY <1>15, SlotAssumption DEF Clear, ClearIdentities, Running, locks,
     WriteIndex, OwnGeneration, TypeOK, Op, Id
<1>16. ASSUME NEW p \in Process, ClearSlot(p)
      PROVE  OwnGeneration'
  BY <1>16, SlotAssumption DEF ClearSlot, ClearIdentities, Running, locks,
     WriteIndex, OwnGeneration, TypeOK, Op, Id
<1>17. ASSUME NEW p \in Process, Die(p)
      PROVE  OwnGeneration'
  BY <1>17, SlotAssumption DEF Die, Running, SetOp, Idle, disk, OwnGeneration,
     TypeOK, Op, Id
<1>18. ASSUME PublishUpstream
      PROVE  OwnGeneration'
  BY <1>18, SlotAssumption DEF PublishUpstream, disk, locks, OwnGeneration,
     TypeOK, Op, Id
<1>19. ASSUME ClearUpstream
      PROVE  OwnGeneration'
  BY <1>19, SlotAssumption DEF ClearUpstream, disk, locks, OwnGeneration,
     TypeOK, Op, Id
<1> QED
  BY <1>1, <1>2, <1>3, <1>4, <1>5, <1>6, <1>7, <1>8, <1>9, <1>10, <1>11, <1>12,
     <1>13, <1>14, <1>15, <1>16, <1>17, <1>18, <1>19 DEF Next, Publishing,
     Using, Clearing

\* The locks and the publications that hold them change together.
LEMMA LockStep ==
    ASSUME TypeOK, OwnGeneration, LocksAreHeld, Next
    PROVE  LocksAreHeld'
<1>1. ASSUME NEW p \in Process, NEW g \in Generations, NEW i \in Identities, NEW
   cols \in Columns, NEW ex \in BOOLEAN, NEW re \in BOOLEAN, Stage(p, g, i,
   cols, ex, re)
      PROVE  LocksAreHeld'
  <2>1. \A q \in alive : op'[q].pc \in PublishingPC =>
            /\ q # p /\ op'[q] = op[q] /\ op[q].gen \in Generations \ {g}
            /\ op[q].pc \in PublishingPC
    BY <1>1 DEF Stage, At, SetOp, Idle, OwnGeneration, PublishingPC, LockedPC, TypeOK
  <2>2. \A h \in Generations \ {g} : info'[h] = info[h]
    BY <1>1 DEF Stage, TypeOK
  <2>3. alive' = alive /\ lock' = lock /\ publishing' = publishing
    BY <1>1 DEF Stage, locks
  <2>4. \A q \in Process : InState(q, LockedPC)' <=> InState(q, LockedPC)
    BY <1>1 DEF Stage, At, SetOp, Idle, InState, LockedPC, TypeOK
  <2> QED
    BY <2>1, <2>2, <2>3, <2>4 DEF LocksAreHeld, Id
<1>2. ASSUME NEW p \in Process, Recheck(p)
      PROVE  LocksAreHeld'
  <2>1. PICK o \in Op : RecheckEnds(p, o)
    BY <1>2, RecheckIs
  <2> QED
    BY <1>2, <2>1, SlotAssumption DEF RecheckEnds, Recheck, MayRecheck, At,
       LocksAreHeld, OwnGeneration, InState, LockedPC, PublishingPC, TypeOK, Op,
       Id
<1>3. ASSUME NEW p \in Process, RegisterCandidate(p)
      PROVE  LocksAreHeld'
  BY <1>3, SlotAssumption DEF RegisterCandidate, At, SetOp, WriteIndex,
     LocksAreHeld, OwnGeneration, InState, StagedPC, LockedPC, PublishingPC,
     TypeOK, Op, Id
<1>4. ASSUME NEW p \in Process, Install(p)
      PROVE  LocksAreHeld'
  BY <1>4, SlotAssumption DEF Install, At, SetOp, locks, LocksAreHeld,
     OwnGeneration, InState, StagedPC, LockedPC, PublishingPC, TypeOK, Op, Id
<1>5. ASSUME NEW p \in Process, Commit(p)
      PROVE  LocksAreHeld'
  BY <1>5, SlotAssumption DEF Commit, At, SetOp, locks, LocksAreHeld,
     OwnGeneration, InState, StagedPC, LockedPC, PublishingPC, TypeOK, Op, Id
<1>6. ASSUME NEW p \in Process, PublishFails(p)
      PROVE  LocksAreHeld'
  BY <1>6, SlotAssumption DEF PublishFails, Running, SetOp, Idle, WriteIndex,
     LocksAreHeld, OwnGeneration, InState, StagedPC, LockedPC, PublishingPC,
     TypeOK, Op, Id
<1>7. ASSUME NEW p \in Process, RetireOthers(p)
      PROVE  LocksAreHeld'
  BY <1>7, SlotAssumption DEF RetireOthers, At, SetOp, locks, LocksAreHeld,
     OwnGeneration, InState, StagedPC, LockedPC, PublishingPC, TypeOK, Op, Id
<1>8. ASSUME NEW p \in Process, FinishPublish(p)
      PROVE  LocksAreHeld'
  BY <1>8, SlotAssumption DEF FinishPublish, At, SetOp, Idle, WriteIndex,
     LocksAreHeld, OwnGeneration, InState, StagedPC, LockedPC, PublishingPC,
     TypeOK, Op, Id
<1>9. ASSUME NEW p \in Process, RetirementFails(p)
      PROVE  LocksAreHeld'
  BY <1>9, SlotAssumption DEF RetirementFails, Running, SetOp, Idle,
     LocksAreHeld, OwnGeneration, InState, StagedPC, LockedPC, PublishingPC,
     TypeOK, Op, Id
<1>10. ASSUME NEW p \in Process, ScanUsage(p)
      PROVE  LocksAreHeld'
  BY <1>10, SlotAssumption DEF ScanUsage, At, SetOp, disk, LocksAreHeld,
     OwnGeneration, InState, StagedPC, LockedPC, PublishingPC, TypeOK, Op, Id
<1>11. ASSUME NEW p \in Process, EvictCaptures(p)
      PROVE  LocksAreHeld'
  BY <1>11, SlotAssumption DEF EvictCaptures, At, SetOp, Idle, WriteIndex,
     LocksAreHeld, OwnGeneration, InState, StagedPC, LockedPC, PublishingPC,
     TypeOK, Op, Id
<1>12. ASSUME NEW p \in Process, NEW i \in Identities, Lease(p, i)
      PROVE  LocksAreHeld'
  BY <1>12, SlotAssumption DEF Lease, Running, locks, LocksAreHeld,
     OwnGeneration, InState, StagedPC, LockedPC, PublishingPC, TypeOK, Op, Id
<1>13. ASSUME NEW p \in Process, NEW i \in Identities, Pin(p, i)
      PROVE  LocksAreHeld'
  BY <1>13, SlotAssumption DEF Pin, Running, locks, WriteIndex, LocksAreHeld,
     OwnGeneration, InState, StagedPC, LockedPC, PublishingPC, TypeOK, Op, Id
<1>14. ASSUME NEW p \in Process, NEW g \in Generations, Release(p, g)
      PROVE  LocksAreHeld'
  BY <1>14, SlotAssumption DEF Release, Running, locks, WriteIndex,
     LocksAreHeld, OwnGeneration, InState, StagedPC, LockedPC, PublishingPC,
     TypeOK, Op, Id
<1>15. ASSUME NEW p \in Process, NEW i \in Identities, Clear(p, i)
      PROVE  LocksAreHeld'
  BY <1>15, SlotAssumption DEF Clear, ClearIdentities, Running, locks,
     WriteIndex, LocksAreHeld, OwnGeneration, InState, StagedPC, LockedPC,
     PublishingPC, TypeOK, Op, Id
<1>16. ASSUME NEW p \in Process, ClearSlot(p)
      PROVE  LocksAreHeld'
  BY <1>16, SlotAssumption DEF ClearSlot, ClearIdentities, Running, locks,
     WriteIndex, LocksAreHeld, OwnGeneration, InState, StagedPC, LockedPC,
     PublishingPC, TypeOK, Op, Id
<1>17. ASSUME NEW p \in Process, Die(p)
      PROVE  LocksAreHeld'
  BY <1>17, SlotAssumption DEF Die, Running, SetOp, Idle, disk, LocksAreHeld,
     OwnGeneration, InState, StagedPC, LockedPC, PublishingPC, TypeOK, Op, Id
<1>18. ASSUME PublishUpstream
      PROVE  LocksAreHeld'
  BY <1>18, SlotAssumption DEF PublishUpstream, disk, locks, LocksAreHeld,
     OwnGeneration, InState, StagedPC, LockedPC, PublishingPC, TypeOK, Op, Id
<1>19. ASSUME ClearUpstream
      PROVE  LocksAreHeld'
  BY <1>19, SlotAssumption DEF ClearUpstream, disk, locks, LocksAreHeld,
     OwnGeneration, InState, StagedPC, LockedPC, PublishingPC, TypeOK, Op, Id
<1> QED
  BY <1>1, <1>2, <1>3, <1>4, <1>5, <1>6, <1>7, <1>8, <1>9, <1>10, <1>11, <1>12,
     <1>13, <1>14, <1>15, <1>16, <1>17, <1>18, <1>19 DEF Next, Publishing,
     Using, Clearing

\* Upstream generations only grow.
LEMMA DatedStep ==
    ASSUME TypeOK, OwnGeneration, Dated, Next
    PROVE  Dated'
<1>1. ASSUME NEW p \in Process, NEW g \in Generations, NEW i \in Identities, NEW
   cols \in Columns, NEW ex \in BOOLEAN, NEW re \in BOOLEAN, Stage(p, g, i,
   cols, ex, re)
      PROVE  Dated'
  BY <1>1, SlotAssumption DEF Stage, At, SetOp, Idle, Dated, Upstream, TypeOK,
     Op, Id
<1>2. ASSUME NEW p \in Process, Recheck(p)
      PROVE  Dated'
  BY <1>2, SlotAssumption DEF Recheck, At, SetOp, Idle, MayRecheck, Dated,
     Upstream, TypeOK, Op, Id
<1>3. ASSUME NEW p \in Process, RegisterCandidate(p)
      PROVE  Dated'
  BY <1>3, SlotAssumption DEF RegisterCandidate, At, SetOp, WriteIndex, Dated,
     Upstream, TypeOK, Op, Id
<1>4. ASSUME NEW p \in Process, Install(p)
      PROVE  Dated'
  BY <1>4, SlotAssumption DEF Install, At, SetOp, locks, Dated, Upstream,
     TypeOK, Op, Id
<1>5. ASSUME NEW p \in Process, Commit(p)
      PROVE  Dated'
  BY <1>5, SlotAssumption DEF Commit, At, SetOp, locks, Dated, Upstream, TypeOK,
     Op, Id
<1>6. ASSUME NEW p \in Process, PublishFails(p)
      PROVE  Dated'
  BY <1>6, SlotAssumption DEF PublishFails, Running, SetOp, Idle, WriteIndex,
     Dated, Upstream, TypeOK, Op, Id
<1>7. ASSUME NEW p \in Process, RetireOthers(p)
      PROVE  Dated'
  BY <1>7, SlotAssumption DEF RetireOthers, At, SetOp, locks, Dated, Upstream,
     TypeOK, Op, Id
<1>8. ASSUME NEW p \in Process, FinishPublish(p)
      PROVE  Dated'
  BY <1>8, SlotAssumption DEF FinishPublish, At, SetOp, Idle, WriteIndex, Dated,
     Upstream, TypeOK, Op, Id
<1>9. ASSUME NEW p \in Process, RetirementFails(p)
      PROVE  Dated'
  BY <1>9, SlotAssumption DEF RetirementFails, Running, SetOp, Idle, Dated,
     Upstream, TypeOK, Op, Id
<1>10. ASSUME NEW p \in Process, ScanUsage(p)
      PROVE  Dated'
  BY <1>10, SlotAssumption DEF ScanUsage, At, SetOp, disk, Dated, Upstream,
     TypeOK, Op, Id
<1>11. ASSUME NEW p \in Process, EvictCaptures(p)
      PROVE  Dated'
  BY <1>11, SlotAssumption DEF EvictCaptures, At, SetOp, Idle, WriteIndex,
     Dated, Upstream, TypeOK, Op, Id
<1>12. ASSUME NEW p \in Process, NEW i \in Identities, Lease(p, i)
      PROVE  Dated'
  BY <1>12, SlotAssumption DEF Lease, Running, locks, Dated, Upstream, TypeOK,
     Op, Id
<1>13. ASSUME NEW p \in Process, NEW i \in Identities, Pin(p, i)
      PROVE  Dated'
  BY <1>13, SlotAssumption DEF Pin, Running, locks, WriteIndex, Dated, Upstream,
     TypeOK, Op, Id
<1>14. ASSUME NEW p \in Process, NEW g \in Generations, Release(p, g)
      PROVE  Dated'
  BY <1>14, SlotAssumption DEF Release, Running, locks, WriteIndex, Dated,
     Upstream, TypeOK, Op, Id
<1>15. ASSUME NEW p \in Process, NEW i \in Identities, Clear(p, i)
      PROVE  Dated'
  BY <1>15, SlotAssumption DEF Clear, ClearIdentities, Running, locks,
     WriteIndex, Dated, Upstream, TypeOK, Op, Id
<1>16. ASSUME NEW p \in Process, ClearSlot(p)
      PROVE  Dated'
  BY <1>16, SlotAssumption DEF ClearSlot, ClearIdentities, Running, locks,
     WriteIndex, Dated, Upstream, TypeOK, Op, Id
<1>17. ASSUME NEW p \in Process, Die(p)
      PROVE  Dated'
  BY <1>17, SlotAssumption DEF Die, Running, SetOp, Idle, disk, Dated, Upstream,
     TypeOK, Op, Id
<1>18. ASSUME PublishUpstream
      PROVE  Dated'
  BY <1>18, SlotAssumption DEF PublishUpstream, disk, locks, Dated, Upstream,
     TypeOK, Op, Id
<1>19. ASSUME ClearUpstream
      PROVE  Dated'
  BY <1>19, SlotAssumption DEF ClearUpstream, disk, locks, Dated, Upstream,
     TypeOK, Op, Id
<1> QED
  BY <1>1, <1>2, <1>3, <1>4, <1>5, <1>6, <1>7, <1>8, <1>9, <1>10, <1>11, <1>12,
     <1>13, <1>14, <1>15, <1>16, <1>17, <1>18, <1>19 DEF Next, Publishing,
     Using, Clearing

\* Only a commit sets a pointer, and nothing removes what one names.
LEMMA PointerStep ==
    ASSUME TypeOK, OwnGeneration, LocksAreHeld, Unexposed, Marked, PointerIsOwn,
       Next
    PROVE  PointerIsOwn'
<1>1. ASSUME NEW p \in Process, NEW g \in Generations, NEW i \in Identities, NEW
   cols \in Columns, NEW ex \in BOOLEAN, NEW re \in BOOLEAN, Stage(p, g, i,
   cols, ex, re)
      PROVE  PointerIsOwn'
  BY <1>1, SlotAssumption DEF Stage, At, SetOp, Idle, PointerIsOwn,
     OwnGeneration, Unexposed, Marked, Unpoint, InState, StagedPC, LockedPC,
     PublishingPC, TypeOK, Op, Id
<1>2. ASSUME NEW p \in Process, Recheck(p)
      PROVE  PointerIsOwn'
  BY <1>2, SlotAssumption DEF Recheck, At, SetOp, Idle, MayRecheck,
     PointerIsOwn, OwnGeneration, Unexposed, Marked, Unpoint, InState, StagedPC,
     LockedPC, PublishingPC, TypeOK, Op, Id
<1>3. ASSUME NEW p \in Process, RegisterCandidate(p)
      PROVE  PointerIsOwn'
  BY <1>3, SlotAssumption DEF RegisterCandidate, At, SetOp, WriteIndex,
     PointerIsOwn, OwnGeneration, Unexposed, Marked, Unpoint, InState, StagedPC,
     LockedPC, PublishingPC, TypeOK, Op, Id
<1>4. ASSUME NEW p \in Process, Install(p)
      PROVE  PointerIsOwn'
  BY <1>4, SlotAssumption DEF Install, At, SetOp, locks, PointerIsOwn,
     OwnGeneration, Unexposed, Marked, Unpoint, InState, StagedPC, LockedPC,
     PublishingPC, TypeOK, Op, Id
<1>5. ASSUME NEW p \in Process, Commit(p)
      PROVE  PointerIsOwn'
  <2>1. PICK g : g = op[p].gen
    OBVIOUS
  <2>2. g \in Generations /\ Id(g) \in Identities /\ dir[g] = "whole"
    BY <1>5, <2>1 DEF Commit, At, OwnGeneration, Unexposed, Marked, TypeOK, Id
  <2>3. pointer' = [pointer EXCEPT ![Id(g)] = g] /\ dir' = dir /\ info' = info
    BY <1>5, <2>1 DEF Commit
  <2> QED
    BY <2>2, <2>3 DEF PointerIsOwn, TypeOK, Id
<1>6. ASSUME NEW p \in Process, PublishFails(p)
      PROVE  PointerIsOwn'
  BY <1>6, SlotAssumption DEF PublishFails, Running, SetOp, Idle, WriteIndex,
     PointerIsOwn, OwnGeneration, Unexposed, Marked, Unpoint, InState, StagedPC,
     LockedPC, PublishingPC, TypeOK, Op, Id
<1>7. ASSUME NEW p \in Process, RetireOthers(p)
      PROVE  PointerIsOwn'
  <2>1. Keeps
    BY <1>7, RetireOthersKeeps
  <2> QED
    BY <2>1, KeepsPointers
<1>8. ASSUME NEW p \in Process, FinishPublish(p)
      PROVE  PointerIsOwn'
  <2>1. Keeps
    BY <1>8, FinishPublishKeeps
  <2> QED
    BY <2>1, KeepsPointers
<1>9. ASSUME NEW p \in Process, RetirementFails(p)
      PROVE  PointerIsOwn'
  BY <1>9, SlotAssumption DEF RetirementFails, Running, SetOp, Idle,
     PointerIsOwn, OwnGeneration, Unexposed, Marked, Unpoint, InState, StagedPC,
     LockedPC, PublishingPC, TypeOK, Op, Id
<1>10. ASSUME NEW p \in Process, ScanUsage(p)
      PROVE  PointerIsOwn'
  BY <1>10, SlotAssumption DEF ScanUsage, At, SetOp, disk, PointerIsOwn,
     OwnGeneration, Unexposed, Marked, Unpoint, InState, StagedPC, LockedPC,
     PublishingPC, TypeOK, Op, Id
<1>11. ASSUME NEW p \in Process, EvictCaptures(p)
      PROVE  PointerIsOwn'
  <2>1. Keeps
    BY <1>11, EvictCapturesKeeps
  <2> QED
    BY <2>1, KeepsPointers
<1>12. ASSUME NEW p \in Process, NEW i \in Identities, Lease(p, i)
      PROVE  PointerIsOwn'
  BY <1>12, SlotAssumption DEF Lease, Running, locks, PointerIsOwn,
     OwnGeneration, Unexposed, Marked, Unpoint, InState, StagedPC, LockedPC,
     PublishingPC, TypeOK, Op, Id
<1>13. ASSUME NEW p \in Process, NEW i \in Identities, Pin(p, i)
      PROVE  PointerIsOwn'
  BY <1>13, SlotAssumption DEF Pin, Running, locks, WriteIndex, PointerIsOwn,
     OwnGeneration, Unexposed, Marked, Unpoint, InState, StagedPC, LockedPC,
     PublishingPC, TypeOK, Op, Id
<1>14. ASSUME NEW p \in Process, NEW g \in Generations, Release(p, g)
      PROVE  PointerIsOwn'
  <2>1. Keeps
    BY <1>14, ReleaseKeeps
  <2> QED
    BY <2>1, KeepsPointers
<1>15. ASSUME NEW p \in Process, NEW i \in Identities, Clear(p, i)
      PROVE  PointerIsOwn'
  <2>1. Keeps
    BY <1>15, ClearKeeps
  <2> QED
    BY <2>1, KeepsPointers
<1>16. ASSUME NEW p \in Process, ClearSlot(p)
      PROVE  PointerIsOwn'
  <2>1. Keeps
    BY <1>16, ClearSlotKeeps
  <2> QED
    BY <2>1, KeepsPointers
<1>17. ASSUME NEW p \in Process, Die(p)
      PROVE  PointerIsOwn'
  BY <1>17, SlotAssumption DEF Die, Running, SetOp, Idle, disk, PointerIsOwn,
     OwnGeneration, Unexposed, Marked, Unpoint, InState, StagedPC, LockedPC,
     PublishingPC, TypeOK, Op, Id
<1>18. ASSUME PublishUpstream
      PROVE  PointerIsOwn'
  BY <1>18, SlotAssumption DEF PublishUpstream, disk, locks, PointerIsOwn,
     OwnGeneration, Unexposed, Marked, Unpoint, InState, StagedPC, LockedPC,
     PublishingPC, TypeOK, Op, Id
<1>19. ASSUME ClearUpstream
      PROVE  PointerIsOwn'
  BY <1>19, SlotAssumption DEF ClearUpstream, disk, locks, PointerIsOwn,
     OwnGeneration, Unexposed, Marked, Unpoint, InState, StagedPC, LockedPC,
     PublishingPC, TypeOK, Op, Id
<1> QED
  BY <1>1, <1>2, <1>3, <1>4, <1>5, <1>6, <1>7, <1>8, <1>9, <1>10, <1>11, <1>12,
     <1>13, <1>14, <1>15, <1>16, <1>17, <1>18, <1>19 DEF Next, Publishing,
     Using, Clearing

\* A lease has its marker, and a marker its directory.
LEMMA MarkedStep ==
    ASSUME TypeOK, OwnGeneration, Unexposed, PointerIsOwn, Marked,
       LeasedSnapshotStays, NothingIsStranded, Next
    PROVE  Marked'
<1>1. ASSUME NEW p \in Process, NEW g \in Generations, NEW i \in Identities, NEW
   cols \in Columns, NEW ex \in BOOLEAN, NEW re \in BOOLEAN, Stage(p, g, i,
   cols, ex, re)
      PROVE  Marked'
  BY <1>1, SlotAssumption DEF Stage, At, SetOp, Idle, Marked, OwnGeneration,
     Unexposed, LeasedSnapshotStays, NothingIsStranded, InState, StagedPC,
     LockedPC, PublishingPC, TypeOK, Op, Id
<1>2. ASSUME NEW p \in Process, Recheck(p)
      PROVE  Marked'
  BY <1>2, SlotAssumption DEF Recheck, At, SetOp, Idle, MayRecheck, Marked,
     OwnGeneration, Unexposed, LeasedSnapshotStays, NothingIsStranded, InState,
     StagedPC, LockedPC, PublishingPC, TypeOK, Op, Id
<1>3. ASSUME NEW p \in Process, RegisterCandidate(p)
      PROVE  Marked'
  BY <1>3, SlotAssumption DEF RegisterCandidate, At, SetOp, WriteIndex, Marked,
     OwnGeneration, Unexposed, LeasedSnapshotStays, NothingIsStranded, InState,
     StagedPC, LockedPC, PublishingPC, TypeOK, Op, Id
<1>4. ASSUME NEW p \in Process, Install(p)
      PROVE  Marked'
  BY <1>4, SlotAssumption DEF Install, At, SetOp, locks, Marked, OwnGeneration,
     Unexposed, LeasedSnapshotStays, NothingIsStranded, InState, StagedPC,
     LockedPC, PublishingPC, TypeOK, Op, Id
<1>5. ASSUME NEW p \in Process, Commit(p)
      PROVE  Marked'
  BY <1>5, SlotAssumption DEF Commit, At, SetOp, locks, Marked, OwnGeneration,
     Unexposed, LeasedSnapshotStays, NothingIsStranded, InState, StagedPC,
     LockedPC, PublishingPC, TypeOK, Op, Id
<1>6. ASSUME NEW p \in Process, PublishFails(p)
      PROVE  Marked'
  BY <1>6, SlotAssumption DEF PublishFails, Running, SetOp, Idle, WriteIndex,
     Marked, OwnGeneration, Unexposed, LeasedSnapshotStays, NothingIsStranded,
     InState, StagedPC, LockedPC, PublishingPC, TypeOK, Op, Id
<1>7. ASSUME NEW p \in Process, RetireOthers(p)
      PROVE  Marked'
  <2>1. Keeps
    BY <1>7, RetireOthersKeeps
  <2> QED
    BY <2>1, KeepsMarked
<1>8. ASSUME NEW p \in Process, FinishPublish(p)
      PROVE  Marked'
  <2>1. Keeps
    BY <1>8, FinishPublishKeeps
  <2> QED
    BY <2>1, KeepsMarked
<1>9. ASSUME NEW p \in Process, RetirementFails(p)
      PROVE  Marked'
  BY <1>9, SlotAssumption DEF RetirementFails, Running, SetOp, Idle, Marked,
     OwnGeneration, Unexposed, LeasedSnapshotStays, NothingIsStranded, InState,
     StagedPC, LockedPC, PublishingPC, TypeOK, Op, Id
<1>10. ASSUME NEW p \in Process, ScanUsage(p)
      PROVE  Marked'
  BY <1>10, SlotAssumption DEF ScanUsage, At, SetOp, disk, Marked,
     OwnGeneration, Unexposed, LeasedSnapshotStays, NothingIsStranded, InState,
     StagedPC, LockedPC, PublishingPC, TypeOK, Op, Id
<1>11. ASSUME NEW p \in Process, EvictCaptures(p)
      PROVE  Marked'
  <2>1. Keeps
    BY <1>11, EvictCapturesKeeps
  <2> QED
    BY <2>1, KeepsMarked
<1>12. ASSUME NEW p \in Process, NEW i \in Identities, Lease(p, i)
      PROVE  Marked'
  BY <1>12, SlotAssumption DEF Lease, Running, locks, Marked, OwnGeneration,
     Unexposed, LeasedSnapshotStays, NothingIsStranded, InState, StagedPC,
     LockedPC, PublishingPC, TypeOK, Op, Id
<1>13. ASSUME NEW p \in Process, NEW i \in Identities, Pin(p, i)
      PROVE  Marked'
  BY <1>13, SlotAssumption DEF Pin, Running, locks, WriteIndex, Marked,
     OwnGeneration, Unexposed, LeasedSnapshotStays, NothingIsStranded, InState,
     StagedPC, LockedPC, PublishingPC, TypeOK, Op, Id
<1>14. ASSUME NEW p \in Process, NEW g \in Generations, Release(p, g)
      PROVE  Marked'
  <2>1. Keeps
    BY <1>14, ReleaseKeeps
  <2> QED
    BY <2>1, KeepsMarked
<1>15. ASSUME NEW p \in Process, NEW i \in Identities, Clear(p, i)
      PROVE  Marked'
  <2>1. Keeps
    BY <1>15, ClearKeeps
  <2> QED
    BY <2>1, KeepsMarked
<1>16. ASSUME NEW p \in Process, ClearSlot(p)
      PROVE  Marked'
  <2>1. Keeps
    BY <1>16, ClearSlotKeeps
  <2> QED
    BY <2>1, KeepsMarked
<1>17. ASSUME NEW p \in Process, Die(p)
      PROVE  Marked'
  BY <1>17, SlotAssumption DEF Die, Running, SetOp, Idle, disk, Marked,
     OwnGeneration, Unexposed, LeasedSnapshotStays, NothingIsStranded, InState,
     StagedPC, LockedPC, PublishingPC, TypeOK, Op, Id
<1>18. ASSUME PublishUpstream
      PROVE  Marked'
  BY <1>18, SlotAssumption DEF PublishUpstream, disk, locks, Marked,
     OwnGeneration, Unexposed, LeasedSnapshotStays, NothingIsStranded, InState,
     StagedPC, LockedPC, PublishingPC, TypeOK, Op, Id
<1>19. ASSUME ClearUpstream
      PROVE  Marked'
  BY <1>19, SlotAssumption DEF ClearUpstream, disk, locks, Marked,
     OwnGeneration, Unexposed, LeasedSnapshotStays, NothingIsStranded, InState,
     StagedPC, LockedPC, PublishingPC, TypeOK, Op, Id
<1> QED
  BY <1>1, <1>2, <1>3, <1>4, <1>5, <1>6, <1>7, <1>8, <1>9, <1>10, <1>11, <1>12,
     <1>13, <1>14, <1>15, <1>16, <1>17, <1>18, <1>19 DEF Next, Publishing,
     Using, Clearing

\* No removal takes what a running process leases.
LEMMA LeasedStep ==
    ASSUME TypeOK, OwnGeneration, LocksAreHeld, Unexposed, PointerIsOwn, Marked,
       NothingIsStranded, LeasedSnapshotStays, Next
    PROVE  LeasedSnapshotStays'
<1>1. ASSUME NEW p \in Process, NEW g \in Generations, NEW i \in Identities, NEW
   cols \in Columns, NEW ex \in BOOLEAN, NEW re \in BOOLEAN, Stage(p, g, i,
   cols, ex, re)
      PROVE  LeasedSnapshotStays'
  BY <1>1, SlotAssumption DEF Stage, At, SetOp, Idle, LeasedSnapshotStays,
     OwnGeneration, Unexposed, Marked, InState, StagedPC, LockedPC,
     PublishingPC, TypeOK, Op, Id
<1>2. ASSUME NEW p \in Process, Recheck(p)
      PROVE  LeasedSnapshotStays'
  BY <1>2, SlotAssumption DEF Recheck, At, SetOp, Idle, MayRecheck,
     LeasedSnapshotStays, OwnGeneration, Unexposed, Marked, InState, StagedPC,
     LockedPC, PublishingPC, TypeOK, Op, Id
<1>3. ASSUME NEW p \in Process, RegisterCandidate(p)
      PROVE  LeasedSnapshotStays'
  BY <1>3, SlotAssumption DEF RegisterCandidate, At, SetOp, WriteIndex,
     LeasedSnapshotStays, OwnGeneration, Unexposed, Marked, InState, StagedPC,
     LockedPC, PublishingPC, TypeOK, Op, Id
<1>4. ASSUME NEW p \in Process, Install(p)
      PROVE  LeasedSnapshotStays'
  BY <1>4, SlotAssumption DEF Install, At, SetOp, locks, LeasedSnapshotStays,
     OwnGeneration, Unexposed, Marked, InState, StagedPC, LockedPC,
     PublishingPC, TypeOK, Op, Id
<1>5. ASSUME NEW p \in Process, Commit(p)
      PROVE  LeasedSnapshotStays'
  BY <1>5, SlotAssumption DEF Commit, At, SetOp, locks, LeasedSnapshotStays,
     OwnGeneration, Unexposed, Marked, InState, StagedPC, LockedPC,
     PublishingPC, TypeOK, Op, Id
<1>6. ASSUME NEW p \in Process, PublishFails(p)
      PROVE  LeasedSnapshotStays'
  BY <1>6, SlotAssumption DEF PublishFails, Running, SetOp, Idle, WriteIndex,
     LeasedSnapshotStays, OwnGeneration, Unexposed, Marked, InState, StagedPC,
     LockedPC, PublishingPC, TypeOK, Op, Id
<1>7. ASSUME NEW p \in Process, RetireOthers(p)
      PROVE  LeasedSnapshotStays'
  <2>1. Keeps
    BY <1>7, RetireOthersKeeps
  <2> QED
    BY <2>1, KeepsLeased
<1>8. ASSUME NEW p \in Process, FinishPublish(p)
      PROVE  LeasedSnapshotStays'
  <2>1. Keeps
    BY <1>8, FinishPublishKeeps
  <2> QED
    BY <2>1, KeepsLeased
<1>9. ASSUME NEW p \in Process, RetirementFails(p)
      PROVE  LeasedSnapshotStays'
  BY <1>9, SlotAssumption DEF RetirementFails, Running, SetOp, Idle,
     LeasedSnapshotStays, OwnGeneration, Unexposed, Marked, InState, StagedPC,
     LockedPC, PublishingPC, TypeOK, Op, Id
<1>10. ASSUME NEW p \in Process, ScanUsage(p)
      PROVE  LeasedSnapshotStays'
  BY <1>10, SlotAssumption DEF ScanUsage, At, SetOp, disk, LeasedSnapshotStays,
     OwnGeneration, Unexposed, Marked, InState, StagedPC, LockedPC,
     PublishingPC, TypeOK, Op, Id
<1>11. ASSUME NEW p \in Process, EvictCaptures(p)
      PROVE  LeasedSnapshotStays'
  <2>1. Keeps
    BY <1>11, EvictCapturesKeeps
  <2> QED
    BY <2>1, KeepsLeased
<1>12. ASSUME NEW p \in Process, NEW i \in Identities, Lease(p, i)
      PROVE  LeasedSnapshotStays'
  BY <1>12, SlotAssumption DEF Lease, Running, locks, LeasedSnapshotStays,
     OwnGeneration, Unexposed, Marked, InState, StagedPC, LockedPC,
     PublishingPC, TypeOK, Op, Id
<1>13. ASSUME NEW p \in Process, NEW i \in Identities, Pin(p, i)
      PROVE  LeasedSnapshotStays'
  BY <1>13, SlotAssumption DEF Pin, Running, locks, WriteIndex,
     LeasedSnapshotStays, OwnGeneration, Unexposed, Marked, InState, StagedPC,
     LockedPC, PublishingPC, TypeOK, Op, Id
<1>14. ASSUME NEW p \in Process, NEW g \in Generations, Release(p, g)
      PROVE  LeasedSnapshotStays'
  <2>1. Keeps
    BY <1>14, ReleaseKeeps
  <2> QED
    BY <2>1, KeepsLeased
<1>15. ASSUME NEW p \in Process, NEW i \in Identities, Clear(p, i)
      PROVE  LeasedSnapshotStays'
  <2>1. Keeps
    BY <1>15, ClearKeeps
  <2> QED
    BY <2>1, KeepsLeased
<1>16. ASSUME NEW p \in Process, ClearSlot(p)
      PROVE  LeasedSnapshotStays'
  <2>1. Keeps
    BY <1>16, ClearSlotKeeps
  <2> QED
    BY <2>1, KeepsLeased
<1>17. ASSUME NEW p \in Process, Die(p)
      PROVE  LeasedSnapshotStays'
  BY <1>17, SlotAssumption DEF Die, Running, SetOp, Idle, disk,
     LeasedSnapshotStays, OwnGeneration, Unexposed, Marked, InState, StagedPC,
     LockedPC, PublishingPC, TypeOK, Op, Id
<1>18. ASSUME PublishUpstream
      PROVE  LeasedSnapshotStays'
  BY <1>18, SlotAssumption DEF PublishUpstream, disk, locks,
     LeasedSnapshotStays, OwnGeneration, Unexposed, Marked, InState, StagedPC,
     LockedPC, PublishingPC, TypeOK, Op, Id
<1>19. ASSUME ClearUpstream
      PROVE  LeasedSnapshotStays'
  BY <1>19, SlotAssumption DEF ClearUpstream, disk, locks, LeasedSnapshotStays,
     OwnGeneration, Unexposed, Marked, InState, StagedPC, LockedPC,
     PublishingPC, TypeOK, Op, Id
<1> QED
  BY <1>1, <1>2, <1>3, <1>4, <1>5, <1>6, <1>7, <1>8, <1>9, <1>10, <1>11, <1>12,
     <1>13, <1>14, <1>15, <1>16, <1>17, <1>18, <1>19 DEF Next, Publishing,
     Using, Clearing

\* An identity leaves the index only with its last generation.
LEMMA StrandedStep ==
    ASSUME TypeOK, OwnGeneration, LocksAreHeld, Unexposed, PointerIsOwn, Marked,
       NothingIsStranded, Next
    PROVE  NothingIsStranded'
<1>1. ASSUME NEW p \in Process, NEW g \in Generations, NEW i \in Identities, NEW
   cols \in Columns, NEW ex \in BOOLEAN, NEW re \in BOOLEAN, Stage(p, g, i,
   cols, ex, re)
      PROVE  NothingIsStranded'
  BY <1>1, SlotAssumption DEF Stage, At, SetOp, Idle, NothingIsStranded,
     OwnGeneration, Unexposed, Remaining, Listed, InState, StagedPC, LockedPC,
     PublishingPC, TypeOK, Op, Id
<1>2. ASSUME NEW p \in Process, Recheck(p)
      PROVE  NothingIsStranded'
  BY <1>2, SlotAssumption DEF Recheck, At, SetOp, Idle, MayRecheck,
     NothingIsStranded, OwnGeneration, Unexposed, Remaining, Listed, InState,
     StagedPC, LockedPC, PublishingPC, TypeOK, Op, Id
<1>3. ASSUME NEW p \in Process, RegisterCandidate(p)
      PROVE  NothingIsStranded'
  BY <1>3, SlotAssumption DEF RegisterCandidate, At, SetOp, WriteIndex,
     NothingIsStranded, OwnGeneration, Unexposed, Remaining, Listed, InState,
     StagedPC, LockedPC, PublishingPC, TypeOK, Op, Id
<1>4. ASSUME NEW p \in Process, Install(p)
      PROVE  NothingIsStranded'
  BY <1>4, SlotAssumption DEF Install, At, SetOp, locks, NothingIsStranded,
     OwnGeneration, Unexposed, Remaining, Listed, InState, StagedPC, LockedPC,
     PublishingPC, TypeOK, Op, Id
<1>5. ASSUME NEW p \in Process, Commit(p)
      PROVE  NothingIsStranded'
  BY <1>5, SlotAssumption DEF Commit, At, SetOp, locks, NothingIsStranded,
     OwnGeneration, Unexposed, Remaining, Listed, InState, StagedPC, LockedPC,
     PublishingPC, TypeOK, Op, Id
<1>6. ASSUME NEW p \in Process, PublishFails(p)
      PROVE  NothingIsStranded'
  BY <1>6, SlotAssumption DEF PublishFails, Running, SetOp, Idle, WriteIndex,
     NothingIsStranded, OwnGeneration, Unexposed, Remaining, Listed, InState,
     StagedPC, LockedPC, PublishingPC, TypeOK, Op, Id
<1>7. ASSUME NEW p \in Process, RetireOthers(p)
      PROVE  NothingIsStranded'
  <2>1. Keeps
    BY <1>7, RetireOthersKeeps
  <2>2. index' = index
    BY <1>7 DEF RetireOthers
  <2> QED
    BY <2>1, <2>2 DEF NothingIsStranded, Keeps, Id
<1>8. ASSUME NEW p \in Process, FinishPublish(p)
      PROVE  NothingIsStranded'
  <2>1. Keeps
    BY <1>8, FinishPublishKeeps
  <2>2. index' = {j \in index : j = Id(op[p].gen) \/ Listed(j, dir)}
    BY <1>8 DEF FinishPublish, WriteIndex
  <2>3. ASSUME NEW g \in Generations, dir'[g] = "whole"
        PROVE  Id(g)' \in index'
    <3>1. dir[g] = "whole" /\ Id(g)' = Id(g)
      BY <2>1, <2>3 DEF Keeps, Id
    <3>2. Id(g) \in index /\ Remaining(Id(g), dir)
      BY <3>1 DEF NothingIsStranded, Remaining
    <3> QED
      BY <2>2, <3>1, <3>2 DEF Listed
  <2> QED
    BY <2>3 DEF NothingIsStranded
<1>9. ASSUME NEW p \in Process, RetirementFails(p)
      PROVE  NothingIsStranded'
  BY <1>9, SlotAssumption DEF RetirementFails, Running, SetOp, Idle,
     NothingIsStranded, OwnGeneration, Unexposed, Remaining, Listed, InState,
     StagedPC, LockedPC, PublishingPC, TypeOK, Op, Id
<1>10. ASSUME NEW p \in Process, ScanUsage(p)
      PROVE  NothingIsStranded'
  BY <1>10, SlotAssumption DEF ScanUsage, At, SetOp, disk, NothingIsStranded,
     OwnGeneration, Unexposed, Remaining, Listed, InState, StagedPC, LockedPC,
     PublishingPC, TypeOK, Op, Id
<1>11. ASSUME NEW p \in Process, EvictCaptures(p)
      PROVE  NothingIsStranded'
  <2>1. Keeps
    BY <1>11, EvictCapturesKeeps
  <2> QED
    BY <1>11, <2>1, SlotAssumption DEF EvictCaptures, At, SetOp, Idle,
       WriteIndex, NothingIsStranded, OwnGeneration, Unexposed, Remaining,
       Listed, InState, StagedPC, LockedPC, PublishingPC, TypeOK, Op, Id, Keeps
<1>12. ASSUME NEW p \in Process, NEW i \in Identities, Lease(p, i)
      PROVE  NothingIsStranded'
  BY <1>12, SlotAssumption DEF Lease, Running, locks, NothingIsStranded,
     OwnGeneration, Unexposed, Remaining, Listed, InState, StagedPC, LockedPC,
     PublishingPC, TypeOK, Op, Id
<1>13. ASSUME NEW p \in Process, NEW i \in Identities, Pin(p, i)
      PROVE  NothingIsStranded'
  BY <1>13, SlotAssumption DEF Pin, Running, locks, WriteIndex,
     NothingIsStranded, OwnGeneration, Unexposed, Remaining, Listed, InState,
     StagedPC, LockedPC, PublishingPC, TypeOK, Op, Id
<1>14. ASSUME NEW p \in Process, NEW g \in Generations, Release(p, g)
      PROVE  NothingIsStranded'
  <2>1. Keeps
    BY <1>14, ReleaseKeeps
  <2> QED
    BY <1>14, <2>1, SlotAssumption DEF Release, Running, locks, WriteIndex,
       NothingIsStranded, OwnGeneration, Unexposed, Remaining, Listed, InState,
       StagedPC, LockedPC, PublishingPC, TypeOK, Op, Id, Keeps
<1>15. ASSUME NEW p \in Process, NEW i \in Identities, Clear(p, i)
      PROVE  NothingIsStranded'
  <2>1. Keeps
    BY <1>15, ClearKeeps
  <2> QED
    BY <1>15, <2>1, SlotAssumption DEF Clear, ClearIdentities, Running, locks,
       WriteIndex, NothingIsStranded, OwnGeneration, Unexposed, Remaining,
       Listed, InState, StagedPC, LockedPC, PublishingPC, TypeOK, Op, Id, Keeps
<1>16. ASSUME NEW p \in Process, ClearSlot(p)
      PROVE  NothingIsStranded'
  <2>1. Keeps
    BY <1>16, ClearSlotKeeps
  <2> QED
    BY <1>16, <2>1, SlotAssumption DEF ClearSlot, ClearIdentities, Running,
       locks, WriteIndex, NothingIsStranded, OwnGeneration, Unexposed,
       Remaining, Listed, InState, StagedPC, LockedPC, PublishingPC, TypeOK, Op,
       Id, Keeps
<1>17. ASSUME NEW p \in Process, Die(p)
      PROVE  NothingIsStranded'
  BY <1>17, SlotAssumption DEF Die, Running, SetOp, Idle, disk,
     NothingIsStranded, OwnGeneration, Unexposed, Remaining, Listed, InState,
     StagedPC, LockedPC, PublishingPC, TypeOK, Op, Id
<1>18. ASSUME PublishUpstream
      PROVE  NothingIsStranded'
  BY <1>18, SlotAssumption DEF PublishUpstream, disk, locks, NothingIsStranded,
     OwnGeneration, Unexposed, Remaining, Listed, InState, StagedPC, LockedPC,
     PublishingPC, TypeOK, Op, Id
<1>19. ASSUME ClearUpstream
      PROVE  NothingIsStranded'
  BY <1>19, SlotAssumption DEF ClearUpstream, disk, locks, NothingIsStranded,
     OwnGeneration, Unexposed, Remaining, Listed, InState, StagedPC, LockedPC,
     PublishingPC, TypeOK, Op, Id
<1> QED
  BY <1>1, <1>2, <1>3, <1>4, <1>5, <1>6, <1>7, <1>8, <1>9, <1>10, <1>11, <1>12,
     <1>13, <1>14, <1>15, <1>16, <1>17, <1>18, <1>19 DEF Next, Publishing,
     Using, Clearing

\* What a publication staged or installed is nobody else's to change.
LEMMA UnexposedStep ==
    ASSUME TypeOK, OwnGeneration, LocksAreHeld, Unexposed, PointerIsOwn, Marked,
       Next
    PROVE  Unexposed'
<1>1. ASSUME NEW p \in Process, NEW g \in Generations, NEW i \in Identities, NEW
   cols \in Columns, NEW ex \in BOOLEAN, NEW re \in BOOLEAN, Stage(p, g, i,
   cols, ex, re)
      PROVE  Unexposed'
  BY <1>1, SlotAssumption DEF Stage, At, SetOp, Idle, Unexposed, OwnGeneration,
     LocksAreHeld, PointerIsOwn, Marked, Unpoint, InState, StagedPC, LockedPC,
     PublishingPC, TypeOK, Op, Id
<1>2. ASSUME NEW p \in Process, Recheck(p)
      PROVE  Unexposed'
  <2>1. PICK o \in Op : RecheckEnds(p, o)
    BY <1>2, RecheckIs
  <2> QED
    BY <1>2, <2>1, SlotAssumption DEF RecheckEnds, Recheck, MayRecheck, At,
       Unexposed, OwnGeneration, LocksAreHeld, PointerIsOwn, Marked, Unpoint,
       InState, StagedPC, LockedPC, PublishingPC, TypeOK, Op, Id
<1>3. ASSUME NEW p \in Process, RegisterCandidate(p)
      PROVE  Unexposed'
  BY <1>3, SlotAssumption DEF RegisterCandidate, At, SetOp, WriteIndex,
     Unexposed, OwnGeneration, LocksAreHeld, PointerIsOwn, Marked, Unpoint,
     InState, StagedPC, LockedPC, PublishingPC, TypeOK, Op, Id
<1>4. ASSUME NEW p \in Process, Install(p)
      PROVE  Unexposed'
  <2>1. PICK g : g = op[p].gen
    OBVIOUS
  <2>2. g \in Generations /\ dir[g] = "staged" /\ p \in alive /\ op[p].pc = "indexed"
    BY <1>4, <2>1 DEF Install, At, OwnGeneration, Unexposed, StagedPC
  <2>3. markers[g] = {} /\ leases[p][g] = 0
    BY <2>2 DEF Marked, TypeOK
  <2>4. /\ dir' = [dir EXCEPT ![g] = "whole"]
        /\ markers' = [markers EXCEPT ![g] = @ \cup {p}]
        /\ leases' = [leases EXCEPT ![p][g] = @ + 1]
        /\ op' = [op EXCEPT ![p] = [op[p] EXCEPT !.pc = "installed"]]
        /\ UNCHANGED <<pointer, info, index, alive>>
    BY <1>4, <2>1 DEF Install, SetOp
  <2>5. markers'[g] = {p} /\ leases'[p][g] = 1
    BY <2>2, <2>3, <2>4 DEF TypeOK
  <2>6. /\ op'[p].gen = g /\ op'[p].pc = "installed"
        /\ \A q \in alive \ {p} : op'[q] = op[q]
        /\ \A q \in alive \ {p} : op[q].pc # "idle" => op[q].gen # g
    BY <2>1, <2>2, <2>4 DEF TypeOK, Op, OwnGeneration
  <2>7. \A q \in alive \ {p} : op[q].pc \notin LockedPC
    BY <2>2 DEF LocksAreHeld, InState, LockedPC, TypeOK
  <2>8. (\A i \in Identities : pointer[i] # g) /\ Id(g) \in index
    BY <2>1, <2>2 DEF Unexposed, StagedPC, LockedPC
  <2> QED
    BY <2>2, <2>4, <2>5, <2>6, <2>7, <2>8
    DEF Unexposed, StagedPC, LockedPC, OwnGeneration, TypeOK, Id
<1>5. ASSUME NEW p \in Process, Commit(p)
      PROVE  Unexposed'
  BY <1>5, SlotAssumption DEF Commit, At, SetOp, locks, Unexposed,
     OwnGeneration, LocksAreHeld, PointerIsOwn, Marked, Unpoint, InState,
     StagedPC, LockedPC, PublishingPC, TypeOK, Op, Id
<1>6. ASSUME NEW p \in Process, PublishFails(p)
      PROVE  Unexposed'
  BY <1>6, SlotAssumption DEF PublishFails, Running, SetOp, Idle, WriteIndex,
     Unexposed, OwnGeneration, LocksAreHeld, PointerIsOwn, Marked, Unpoint,
     InState, StagedPC, LockedPC, PublishingPC, TypeOK, Op, Id
<1>7. ASSUME NEW p \in Process, RetireOthers(p)
      PROVE  Unexposed'
  <2>1. Keeps
    BY <1>7, RetireOthersKeeps
  <2>2. /\ op[p].pc = "committed" /\ p \in alive
        /\ \A q \in alive \ {p} : op[q].pc \notin LockedPC /\ op'[q] = op[q]
    BY <1>7 DEF RetireOthers, At, SetOp, LocksAreHeld, InState, LockedPC, TypeOK
  <2>3. /\ op'[p].gen = op[p].gen /\ op'[p].pc = "superseding"
        /\ leases' = leases /\ index' = index
    BY <1>7 DEF RetireOthers, SetOp, TypeOK, Op
  <2>4. leases[p][op[p].gen] = 1 /\ Id(op[p].gen) \in index
    BY <2>2 DEF Unexposed, LockedPC
  <2>5. alive' = alive /\ info' = info
    BY <2>1 DEF Keeps
  <2>6. ASSUME NEW q \in alive \ {p}, op[q].pc \in StagedPC
        PROVE  dir'[op[q].gen] = "staged" /\ \A i \in Identities : pointer'[i] # op[q].gen
    BY <2>1, <2>6, KeepsStaged
  <2> QED
    BY <2>2, <2>3, <2>4, <2>5, <2>6, OthersUnexposed DEF StagedPC
<1>8. ASSUME NEW p \in Process, FinishPublish(p)
      PROVE  Unexposed'
  <2>1. Keeps
    BY <1>8, FinishPublishKeeps
  <2>2. /\ op[p].pc = "superseding" /\ p \in alive
        /\ \A q \in alive \ {p} : op[q].pc \notin LockedPC /\ op'[q] = op[q]
    BY <1>8 DEF FinishPublish, At, SetOp, LocksAreHeld, InState, LockedPC, TypeOK
  <2>3. op'[p].pc \in {"idle", "budget"}
    BY <1>8 DEF FinishPublish, SetOp, Idle, TypeOK, Op
  <2>4. alive' = alive /\ info' = info
    BY <2>1 DEF Keeps
  <2>5. ASSUME NEW q \in alive \ {p}, op[q].pc \in StagedPC
        PROVE  dir'[op[q].gen] = "staged" /\ \A i \in Identities : pointer'[i] # op[q].gen
    BY <2>1, <2>5, KeepsStaged
  <2> QED
    BY <2>2, <2>3, <2>4, <2>5, OthersUnexposed DEF StagedPC, LockedPC
<1>9. ASSUME NEW p \in Process, RetirementFails(p)
      PROVE  Unexposed'
  BY <1>9, SlotAssumption DEF RetirementFails, Running, SetOp, Idle, Unexposed,
     OwnGeneration, LocksAreHeld, PointerIsOwn, Marked, Unpoint, InState,
     StagedPC, LockedPC, PublishingPC, TypeOK, Op, Id
<1>10. ASSUME NEW p \in Process, ScanUsage(p)
      PROVE  Unexposed'
  BY <1>10, SlotAssumption DEF ScanUsage, At, SetOp, disk, Unexposed,
     OwnGeneration, LocksAreHeld, PointerIsOwn, Marked, Unpoint, InState,
     StagedPC, LockedPC, PublishingPC, TypeOK, Op, Id
<1>11. ASSUME NEW p \in Process, EvictCaptures(p)
      PROVE  Unexposed'
  <2>1. Keeps
    BY <1>11, EvictCapturesKeeps
  <2>2. \A q \in alive : op[q].pc \notin LockedPC
    BY <1>11, SlotAssumption DEF EvictCaptures, LocksAreHeld, InState, TypeOK
  <2>3. \A q \in alive : op'[q] = op[q] \/ op'[q].pc = "idle"
    BY <1>11 DEF EvictCaptures, SetOp, Idle, TypeOK
  <2> QED
    BY <2>1, <2>2, <2>3, KeepsUnexposed
<1>12. ASSUME NEW p \in Process, NEW i \in Identities, Lease(p, i)
      PROVE  Unexposed'
  BY <1>12, SlotAssumption DEF Lease, Running, locks, Unexposed, OwnGeneration,
     LocksAreHeld, PointerIsOwn, Marked, Unpoint, InState, StagedPC, LockedPC,
     PublishingPC, TypeOK, Op, Id
<1>13. ASSUME NEW p \in Process, NEW i \in Identities, Pin(p, i)
      PROVE  Unexposed'
  BY <1>13, SlotAssumption DEF Pin, Running, locks, WriteIndex, Unexposed,
     OwnGeneration, LocksAreHeld, PointerIsOwn, Marked, Unpoint, InState,
     StagedPC, LockedPC, PublishingPC, TypeOK, Op, Id
<1>14. ASSUME NEW p \in Process, NEW g \in Generations, Release(p, g)
      PROVE  Unexposed'
  <2>1. Keeps
    BY <1>14, ReleaseKeeps
  <2>2. \A q \in alive : op[q].pc \notin LockedPC
    BY <1>14, SlotAssumption DEF Release, LocksAreHeld, InState, TypeOK
  <2>3. \A q \in alive : op'[q] = op[q] \/ op'[q].pc = "idle"
    BY <1>14 DEF Release, SetOp, Idle, TypeOK
  <2> QED
    BY <2>1, <2>2, <2>3, KeepsUnexposed
<1>15. ASSUME NEW p \in Process, NEW i \in Identities, Clear(p, i)
      PROVE  Unexposed'
  <2>1. Keeps
    BY <1>15, ClearKeeps
  <2>2. \A q \in alive : op[q].pc \notin LockedPC
    BY <1>15, SlotAssumption DEF Clear, ClearIdentities, LocksAreHeld, InState, TypeOK
  <2>3. \A q \in alive : op'[q] = op[q] \/ op'[q].pc = "idle"
    BY <1>15 DEF Clear, ClearIdentities
  <2> QED
    BY <2>1, <2>2, <2>3, KeepsUnexposed
<1>16. ASSUME NEW p \in Process, ClearSlot(p)
      PROVE  Unexposed'
  <2>1. Keeps
    BY <1>16, ClearSlotKeeps
  <2>2. \A q \in alive : op[q].pc \notin LockedPC
    BY <1>16, SlotAssumption DEF ClearSlot, ClearIdentities, LocksAreHeld, InState, TypeOK
  <2>3. \A q \in alive : op'[q] = op[q] \/ op'[q].pc = "idle"
    BY <1>16 DEF ClearSlot, ClearIdentities
  <2> QED
    BY <2>1, <2>2, <2>3, KeepsUnexposed
<1>17. ASSUME NEW p \in Process, Die(p)
      PROVE  Unexposed'
  BY <1>17, SlotAssumption DEF Die, Running, SetOp, Idle, disk, Unexposed,
     OwnGeneration, LocksAreHeld, PointerIsOwn, Marked, Unpoint, InState,
     StagedPC, LockedPC, PublishingPC, TypeOK, Op, Id
<1>18. ASSUME PublishUpstream
      PROVE  Unexposed'
  BY <1>18, SlotAssumption DEF PublishUpstream, disk, locks, Unexposed,
     OwnGeneration, LocksAreHeld, PointerIsOwn, Marked, Unpoint, InState,
     StagedPC, LockedPC, PublishingPC, TypeOK, Op, Id
<1>19. ASSUME ClearUpstream
      PROVE  Unexposed'
  BY <1>19, SlotAssumption DEF ClearUpstream, disk, locks, Unexposed,
     OwnGeneration, LocksAreHeld, PointerIsOwn, Marked, Unpoint, InState,
     StagedPC, LockedPC, PublishingPC, TypeOK, Op, Id
<1> QED
  BY <1>1, <1>2, <1>3, <1>4, <1>5, <1>6, <1>7, <1>8, <1>9, <1>10, <1>11, <1>12,
     <1>13, <1>14, <1>15, <1>16, <1>17, <1>18, <1>19 DEF Next, Publishing,
     Using, Clearing

\* What the rule approved still replaces nothing better: the publication lock keeps
\* other commits out, and an upstream that moves on makes both stale.
LEMMA ApprovalStep ==
    ASSUME TypeOK, OwnGeneration, LocksAreHeld, PointerIsOwn, Dated,
       ApprovalStands, Next
    PROVE  ApprovalStands'
<1>1. ASSUME NEW p \in Process, NEW g \in Generations, NEW i \in Identities, NEW
   cols \in Columns, NEW ex \in BOOLEAN, NEW re \in BOOLEAN, Stage(p, g, i,
   cols, ex, re)
      PROVE  ApprovalStands'
  <2>1. \A q \in alive :
            op'[q].pc \in {"approved", "indexed", "installed"} =>
                /\ op'[q] = op[q] /\ op[q].gen \in Generations \ {g}
    BY <1>1 DEF Stage, At, SetOp, Idle, OwnGeneration, TypeOK
  <2>2. \A h \in Generations \ {g} : info'[h] = info[h]
    BY <1>1 DEF Stage, TypeOK
  <2>3. \A j \in Identities : pointer[j] # None => pointer[j] \in Generations \ {g}
    BY <1>1, SlotAssumption DEF Stage, PointerIsOwn, TypeOK, Id
  <2>4. pointer' = pointer /\ upstream' = upstream /\ alive' = alive
    BY <1>1 DEF Stage
  <2>5. \A q \in alive : op[q].pc # "idle" => Id(op[q].gen) \in Identities
    BY DEF OwnGeneration, TypeOK, Id
  <2> QED
    <3>1. ASSUME NEW q \in alive, op'[q].pc \in {"approved", "indexed", "installed"}
          PROVE  LET old == pointer'[Id(op'[q].gen)]
                 IN  /\ info'[op'[q].gen] = info[op'[q].gen]
                     /\ old # None => info'[old] = info[old] /\ NoWorse(op'[q].gen, old)
      <4>1. op'[q] = op[q] /\ op[q].gen \in Generations \ {g} /\ Id(op[q].gen) \in Identities
        BY <2>1, <2>5, <3>1
      <4> QED
        BY <2>2, <2>3, <2>4, <3>1, <4>1 DEF ApprovalStands
    <3> QED
      BY <2>4, <3>1, ApprovalHolds
<1>2. ASSUME NEW p \in Process, Recheck(p)
      PROVE  ApprovalStands'
  <2>1. PICK o \in Op : RecheckEnds(p, o)
    BY <1>2, RecheckIs
  <2>2. info' = info /\ upstream' = upstream /\ alive' = alive /\ pointer' = pointer
    BY <1>2 DEF Recheck
  <2>3. CASE o.pc = "idle"
    <3>1. \A q \in alive : op'[q].pc = "idle" \/ op'[q] = op[q]
      BY <2>1, <2>3 DEF RecheckEnds, TypeOK
    <3> QED
      BY <2>2, <3>1, KeepsApproval
  <2>4. CASE o.pc = "approved"
    <3>1. PICK g : g = op[p].gen
      OBVIOUS
    <3>2. g \in Generations /\ Id(g) \in Identities /\ ShouldPublish(g, op[p].refresh)
      BY <1>2, <2>1, <2>4, <3>1 DEF RecheckEnds, Recheck, At, OwnGeneration, TypeOK, Id
    <3>3. ASSUME pointer[Id(g)] # None
          PROVE  NoWorse(g, pointer[Id(g)])
      <4>1. Latest(Id(g)) = pointer[Id(g)] /\ pointer[Id(g)] \in Generations
        BY <3>2, <3>3 DEF Latest, PointerIsOwn, TypeOK
      <4>2. FreshDep(info[g].dep) /\ info[g].cols >= info[pointer[Id(g)]].cols
        BY <3>2, <3>3, <4>1 DEF ShouldPublish
      <4> QED
        BY <4>2 DEF NoWorse
    <3>4. op'[p].gen = g /\ \A q \in alive \ {p} : op'[q] = op[q]
      BY <2>1, <2>4, <3>1 DEF RecheckEnds, TypeOK
    <3>5. \A q \in alive \ {p} : op[q].pc \in {"approved", "indexed", "installed"} =>
              (pointer[Id(op[q].gen)] # None => NoWorse(op[q].gen, pointer[Id(op[q].gen)]))
      BY DEF ApprovalStands
    <3> QED
      BY <2>2, <3>3, <3>4, <3>5, ApprovalHolds
  <2> QED
    BY <2>1, <2>3, <2>4 DEF RecheckEnds
<1>3. ASSUME NEW p \in Process, RegisterCandidate(p)
      PROVE  ApprovalStands'
  <2>1. info' = info /\ upstream' = upstream /\ alive' \subseteq alive
    BY <1>3 DEF RegisterCandidate, disk, locks
  <2>2. \A j \in Identities : pointer'[j] \in {pointer[j], None}
    BY <1>3 DEF RegisterCandidate, Unpoint, disk, TypeOK
  <2>3. \A q \in alive :
            op'[q].pc \in {"approved", "indexed", "installed"} =>
                /\ op[q].pc \in {"approved", "indexed", "installed"}
                /\ op'[q].gen = op[q].gen
    BY <1>3 DEF RegisterCandidate, At, Running, SetOp, Idle, TypeOK, Op
  <2> QED
    BY <2>1, <2>2, <2>3, KeepsApproval
<1>4. ASSUME NEW p \in Process, Install(p)
      PROVE  ApprovalStands'
  <2>1. info' = info /\ upstream' = upstream /\ alive' \subseteq alive
    BY <1>4 DEF Install, disk, locks
  <2>2. \A j \in Identities : pointer'[j] \in {pointer[j], None}
    BY <1>4 DEF Install, Unpoint, disk, TypeOK
  <2>3. \A q \in alive :
            op'[q].pc \in {"approved", "indexed", "installed"} =>
                /\ op[q].pc \in {"approved", "indexed", "installed"}
                /\ op'[q].gen = op[q].gen
    BY <1>4 DEF Install, At, Running, SetOp, Idle, TypeOK, Op
  <2> QED
    BY <2>1, <2>2, <2>3, KeepsApproval
<1>5. ASSUME NEW p \in Process, Commit(p)
      PROVE  ApprovalStands'
  <2>1. PICK g : g = op[p].gen
    OBVIOUS
  <2>2. /\ info' = info /\ upstream' = upstream /\ alive' = alive
        /\ pointer' = [pointer EXCEPT ![Id(g)] = g]
        /\ op' = [op EXCEPT ![p] = [op[p] EXCEPT !.pc = "committed"]]
        /\ p \in alive /\ op[p].pc = "installed"
    BY <1>5, <2>1 DEF Commit, At, SetOp
  <2>3. ASSUME NEW q \in alive, op'[q].pc \in {"approved", "indexed", "installed"}
        PROVE  /\ op'[q] = op[q] /\ Id(op[q].gen) \in Identities
               /\ Id(op[q].gen) # Id(g)
    <3>1. q # p
      BY <2>2, <2>3 DEF TypeOK, Op
    <3>2. op'[q] = op[q]
      BY <2>2, <3>1 DEF TypeOK
    <3>3. Id(op[q].gen) \in Identities
      BY <2>3, <3>2 DEF OwnGeneration, TypeOK, Id
    <3>4. publishing[Id(op[q].gen)] = q /\ publishing[Id(g)] = p
      BY <2>1, <2>2, <2>3, <3>2 DEF LocksAreHeld, PublishingPC, LockedPC
    <3> QED
      BY <3>1, <3>2, <3>3, <3>4
  <2>4. \A j \in Identities : j # Id(g) => pointer'[j] = pointer[j]
    <3>1. Id(g) \in Identities
      BY <2>1, <2>2 DEF OwnGeneration, TypeOK, Id
    <3> QED
      BY <2>2, <3>1 DEF TypeOK
  <2>5. \A q \in alive : op'[q].pc \in {"approved", "indexed", "installed"} =>
            op'[q].gen = op[q].gen
    BY <2>3
  <2>6. ASSUME NEW q \in alive, op'[q].pc \in {"approved", "indexed", "installed"},
               pointer'[Id(op[q].gen)] # None
        PROVE  /\ pointer'[Id(op[q].gen)] = pointer[Id(op[q].gen)]
               /\ NoWorse(op[q].gen, pointer[Id(op[q].gen)])
    BY <2>3, <2>4, <2>6 DEF ApprovalStands
  <2>7. info' = info /\ upstream' = upstream /\ alive' = alive
    BY <2>2
  <2> QED
    BY <2>5, <2>6, <2>7, ApprovalHolds
<1>6. ASSUME NEW p \in Process, PublishFails(p)
      PROVE  ApprovalStands'
  <2>1. info' = info /\ upstream' = upstream /\ alive' \subseteq alive
    BY <1>6 DEF PublishFails, disk, locks
  <2>2. \A j \in Identities : pointer'[j] \in {pointer[j], None}
    BY <1>6 DEF PublishFails, Unpoint, disk, TypeOK
  <2>3. \A q \in alive :
            op'[q].pc \in {"approved", "indexed", "installed"} =>
                /\ op[q].pc \in {"approved", "indexed", "installed"}
                /\ op'[q].gen = op[q].gen
    BY <1>6 DEF PublishFails, At, Running, SetOp, Idle, TypeOK, Op
  <2> QED
    BY <2>1, <2>2, <2>3, KeepsApproval
<1>7. ASSUME NEW p \in Process, RetireOthers(p)
      PROVE  ApprovalStands'
  <2>1. info' = info /\ upstream' = upstream /\ alive' \subseteq alive
    BY <1>7 DEF RetireOthers, disk, locks
  <2>2. \A j \in Identities : pointer'[j] \in {pointer[j], None}
    BY <1>7 DEF RetireOthers, Unpoint, disk, TypeOK
  <2>3. \A q \in alive :
            op'[q].pc \in {"approved", "indexed", "installed"} =>
                /\ op[q].pc \in {"approved", "indexed", "installed"}
                /\ op'[q].gen = op[q].gen
    BY <1>7 DEF RetireOthers, At, Running, SetOp, Idle, TypeOK, Op
  <2> QED
    BY <2>1, <2>2, <2>3, KeepsApproval
<1>8. ASSUME NEW p \in Process, FinishPublish(p)
      PROVE  ApprovalStands'
  <2>1. info' = info /\ upstream' = upstream /\ alive' \subseteq alive
    BY <1>8 DEF FinishPublish, disk, locks
  <2>2. \A j \in Identities : pointer'[j] \in {pointer[j], None}
    BY <1>8 DEF FinishPublish, Unpoint, disk, TypeOK
  <2>3. \A q \in alive :
            op'[q].pc \in {"approved", "indexed", "installed"} =>
                /\ op[q].pc \in {"approved", "indexed", "installed"}
                /\ op'[q].gen = op[q].gen
    BY <1>8 DEF FinishPublish, At, Running, SetOp, Idle, TypeOK, Op
  <2> QED
    BY <2>1, <2>2, <2>3, KeepsApproval
<1>9. ASSUME NEW p \in Process, RetirementFails(p)
      PROVE  ApprovalStands'
  <2>1. info' = info /\ upstream' = upstream /\ alive' \subseteq alive
    BY <1>9 DEF RetirementFails, disk, locks
  <2>2. \A j \in Identities : pointer'[j] \in {pointer[j], None}
    BY <1>9 DEF RetirementFails, Unpoint, disk, TypeOK
  <2>3. \A q \in alive :
            op'[q].pc \in {"approved", "indexed", "installed"} =>
                /\ op[q].pc \in {"approved", "indexed", "installed"}
                /\ op'[q].gen = op[q].gen
    BY <1>9 DEF RetirementFails, At, Running, SetOp, Idle, TypeOK, Op
  <2> QED
    BY <2>1, <2>2, <2>3, KeepsApproval
<1>10. ASSUME NEW p \in Process, ScanUsage(p)
      PROVE  ApprovalStands'
  <2>1. info' = info /\ upstream' = upstream /\ alive' \subseteq alive
    BY <1>10 DEF ScanUsage, disk, locks
  <2>2. \A j \in Identities : pointer'[j] \in {pointer[j], None}
    BY <1>10 DEF ScanUsage, Unpoint, disk, TypeOK
  <2>3. \A q \in alive :
            op'[q].pc \in {"approved", "indexed", "installed"} =>
                /\ op[q].pc \in {"approved", "indexed", "installed"}
                /\ op'[q].gen = op[q].gen
    BY <1>10 DEF ScanUsage, At, Running, SetOp, Idle, TypeOK, Op
  <2> QED
    BY <2>1, <2>2, <2>3, KeepsApproval
<1>11. ASSUME NEW p \in Process, EvictCaptures(p)
      PROVE  ApprovalStands'
  <2>1. info' = info /\ upstream' = upstream /\ alive' \subseteq alive
    BY <1>11 DEF EvictCaptures, disk, locks
  <2>2. \A j \in Identities : pointer'[j] \in {pointer[j], None}
    BY <1>11 DEF EvictCaptures, Unpoint, disk, TypeOK
  <2>3. \A q \in alive :
            op'[q].pc \in {"approved", "indexed", "installed"} =>
                /\ op[q].pc \in {"approved", "indexed", "installed"}
                /\ op'[q].gen = op[q].gen
    BY <1>11 DEF EvictCaptures, At, Running, SetOp, Idle, TypeOK, Op
  <2> QED
    BY <2>1, <2>2, <2>3, KeepsApproval
<1>12. ASSUME NEW p \in Process, NEW i \in Identities, Lease(p, i)
      PROVE  ApprovalStands'
  <2>1. info' = info /\ upstream' = upstream /\ alive' \subseteq alive
    BY <1>12 DEF Lease, disk, locks
  <2>2. \A j \in Identities : pointer'[j] \in {pointer[j], None}
    BY <1>12 DEF Lease, Unpoint, disk, TypeOK
  <2>3. \A q \in alive :
            op'[q].pc \in {"approved", "indexed", "installed"} =>
                /\ op[q].pc \in {"approved", "indexed", "installed"}
                /\ op'[q].gen = op[q].gen
    BY <1>12 DEF Lease, At, Running, SetOp, Idle, TypeOK, Op
  <2> QED
    BY <2>1, <2>2, <2>3, KeepsApproval
<1>13. ASSUME NEW p \in Process, NEW i \in Identities, Pin(p, i)
      PROVE  ApprovalStands'
  <2>1. info' = info /\ upstream' = upstream /\ alive' \subseteq alive
    BY <1>13 DEF Pin, disk, locks
  <2>2. \A j \in Identities : pointer'[j] \in {pointer[j], None}
    BY <1>13 DEF Pin, Unpoint, disk, TypeOK
  <2>3. \A q \in alive :
            op'[q].pc \in {"approved", "indexed", "installed"} =>
                /\ op[q].pc \in {"approved", "indexed", "installed"}
                /\ op'[q].gen = op[q].gen
    BY <1>13 DEF Pin, At, Running, SetOp, Idle, TypeOK, Op
  <2> QED
    BY <2>1, <2>2, <2>3, KeepsApproval
<1>14. ASSUME NEW p \in Process, NEW g \in Generations, Release(p, g)
      PROVE  ApprovalStands'
  <2>1. info' = info /\ upstream' = upstream /\ alive' \subseteq alive
    BY <1>14 DEF Release, disk, locks
  <2>2. \A j \in Identities : pointer'[j] \in {pointer[j], None}
    BY <1>14 DEF Release, Unpoint, disk, TypeOK
  <2>3. \A q \in alive :
            op'[q].pc \in {"approved", "indexed", "installed"} =>
                /\ op[q].pc \in {"approved", "indexed", "installed"}
                /\ op'[q].gen = op[q].gen
    BY <1>14 DEF Release, At, Running, SetOp, Idle, TypeOK, Op
  <2> QED
    BY <2>1, <2>2, <2>3, KeepsApproval
<1>15. ASSUME NEW p \in Process, NEW i \in Identities, Clear(p, i)
      PROVE  ApprovalStands'
  <2>1. info' = info /\ upstream' = upstream /\ alive' \subseteq alive
    BY <1>15 DEF Clear, ClearIdentities, disk, locks
  <2>2. \A j \in Identities : pointer'[j] \in {pointer[j], None}
    BY <1>15 DEF Clear, ClearIdentities, Unpoint, disk, TypeOK
  <2>3. \A q \in alive :
            op'[q].pc \in {"approved", "indexed", "installed"} =>
                /\ op[q].pc \in {"approved", "indexed", "installed"}
                /\ op'[q].gen = op[q].gen
    BY <1>15 DEF Clear, ClearIdentities, At, Running, SetOp, Idle, TypeOK, Op
  <2> QED
    BY <2>1, <2>2, <2>3, KeepsApproval
<1>16. ASSUME NEW p \in Process, ClearSlot(p)
      PROVE  ApprovalStands'
  <2>1. info' = info /\ upstream' = upstream /\ alive' \subseteq alive
    BY <1>16 DEF ClearSlot, ClearIdentities, disk, locks
  <2>2. \A j \in Identities : pointer'[j] \in {pointer[j], None}
    BY <1>16 DEF ClearSlot, ClearIdentities, Unpoint, disk, TypeOK
  <2>3. \A q \in alive :
            op'[q].pc \in {"approved", "indexed", "installed"} =>
                /\ op[q].pc \in {"approved", "indexed", "installed"}
                /\ op'[q].gen = op[q].gen
    BY <1>16 DEF ClearSlot, ClearIdentities, At, Running, SetOp, Idle, TypeOK, Op
  <2> QED
    BY <2>1, <2>2, <2>3, KeepsApproval
<1>17. ASSUME NEW p \in Process, Die(p)
      PROVE  ApprovalStands'
  <2>1. info' = info /\ upstream' = upstream /\ alive' \subseteq alive
    BY <1>17 DEF Die, disk, locks
  <2>2. \A j \in Identities : pointer'[j] \in {pointer[j], None}
    BY <1>17 DEF Die, Unpoint, disk, TypeOK
  <2>3. \A q \in alive :
            op'[q].pc \in {"approved", "indexed", "installed"} =>
                /\ op[q].pc \in {"approved", "indexed", "installed"}
                /\ op'[q].gen = op[q].gen
    BY <1>17 DEF Die, At, Running, SetOp, Idle, TypeOK, Op
  <2> QED
    BY <2>1, <2>2, <2>3, KeepsApproval
<1>18. ASSUME PublishUpstream
      PROVE  ApprovalStands'
  <2>1. op' = op /\ info' = info /\ pointer' = pointer /\ alive' = alive
    BY <1>18 DEF PublishUpstream, disk
  <2>2. \A h \in Generations : info[h].dep \in Nat /\ (info[h].dep = 0 \/ ~FreshDep(info[h].dep)')
    <3>1. upstream.last \in Nat /\ upstream'.cur = upstream.last + 1
      BY <1>18 DEF PublishUpstream, TypeOK, Upstream
    <3>2. \A h \in Generations : info[h].dep \in Nat /\ info[h].dep <= upstream.last
      BY DEF Dated, TypeOK, Upstream
    <3>3. ASSUME NEW h \in Generations, info[h].dep # 0
          PROVE  upstream'.cur # 0 /\ upstream'.cur # info[h].dep
      BY <3>1, <3>2
    <3>4. info' = info
      BY <1>18 DEF PublishUpstream, disk
    <3> QED
      BY <3>2, <3>3, <3>4 DEF FreshDep
  <2>3. ASSUME NEW q \in alive, op[q].pc \in {"approved", "indexed", "installed"},
               pointer[Id(op[q].gen)] # None
        PROVE  pointer[Id(op[q].gen)] \in Generations /\ NoWorse(op[q].gen, pointer[Id(op[q].gen)])
    BY <2>3 DEF ApprovalStands, OwnGeneration, TypeOK, Id
  <2> QED
    BY <2>1, <2>2, <2>3 DEF ApprovalStands, NoWorse, FreshDep, Id
<1>19. ASSUME ClearUpstream
      PROVE  ApprovalStands'
  <2>1. op' = op /\ info' = info /\ pointer' = pointer /\ alive' = alive /\ upstream'.cur = 0
    BY <1>19 DEF ClearUpstream, disk, TypeOK
  <2> QED
    BY <2>1 DEF ApprovalStands, NoWorse, FreshDep, Id
<1> QED
  BY <1>1, <1>2, <1>3, <1>4, <1>5, <1>6, <1>7, <1>8, <1>9, <1>10, <1>11, <1>12,
     <1>13, <1>14, <1>15, <1>16, <1>17, <1>18, <1>19 DEF Next, Publishing,
     Using, Clearing

\* A second dataset shows only from a commit until the rest is retired.
LEMMA SingledStep ==
    ASSUME TypeOK, OwnGeneration, LocksAreHeld, PointerIsOwn, NothingIsStranded,
       Singled, Next
    PROVE  Singled'
<1>1. ASSUME NEW p \in Process, NEW g \in Generations, NEW i \in Identities, NEW
   cols \in Columns, NEW ex \in BOOLEAN, NEW re \in BOOLEAN, Stage(p, g, i,
   cols, ex, re)
      PROVE  Singled'
  <2>1. \A q \in alive : op'[q].pc = "superseding" =>
            op'[q] = op[q] /\ op[q].gen \in Generations \ {g}
    BY <1>1 DEF Stage, At, SetOp, Idle, OwnGeneration, TypeOK
  <2>2. \A h \in Generations \ {g} : info'[h] = info[h]
    BY <1>1 DEF Stage, TypeOK
  <2>3. \A q \in alive : op[q].pc = "committed" => op'[q].pc = "committed"
    BY <1>1 DEF Stage, At, SetOp, TypeOK
  <2>4. pointer' = pointer /\ torn' = torn /\ alive' = alive
    BY <1>1 DEF Stage
  <2>5. \A q \in alive' : op'[q].pc = "superseding" =>
               q \in alive /\ op[q].pc = "superseding" /\ Id(op[q].gen)' = Id(op[q].gen)
    <3>1. ASSUME NEW q \in alive, op'[q].pc = "superseding"
          PROVE  op'[q] = op[q] /\ Id(op[q].gen)' = Id(op[q].gen)
      BY <2>1, <2>2, <3>1 DEF Id
    <3> QED
      BY <2>4, <3>1
  <2> QED
    BY <2>3, <2>4, <2>5, KeepsSingled
<1>2. ASSUME NEW p \in Process, Recheck(p)
      PROVE  Singled'
  <2>0. PICK o \in Op : RecheckEnds(p, o)
    BY <1>2, RecheckIs
  <2>1. \A j \in Identities : pointer'[j] \in {pointer[j], None}
    BY <1>2 DEF Recheck, Unpoint, disk, TypeOK
  <2>2. /\ torn => torn'
        /\ \A q \in alive : op[q].pc = "committed" =>
               torn' \/ (q \in alive' /\ op'[q].pc = "committed")
    BY <1>2, <2>0 DEF Recheck, RecheckEnds, At, Running, SetOp, Idle, TypeOK, Op
  <2>3. \A q \in alive' : op'[q].pc = "superseding" =>
               q \in alive /\ op[q].pc = "superseding" /\ Id(op[q].gen)' = Id(op[q].gen)
    BY <1>2, <2>0 DEF Recheck, RecheckEnds, At, Running, SetOp, Idle, disk, Id,
       TypeOK, Op
  <2> QED
    BY <2>1, <2>2, <2>3, KeepsSingled
<1>3. ASSUME NEW p \in Process, RegisterCandidate(p)
      PROVE  Singled'
  <2>1. \A j \in Identities : pointer'[j] \in {pointer[j], None}
    BY <1>3 DEF RegisterCandidate, Unpoint, disk, TypeOK
  <2>2. /\ torn => torn'
        /\ \A q \in alive : op[q].pc = "committed" =>
               torn' \/ (q \in alive' /\ op'[q].pc = "committed")
    BY <1>3 DEF RegisterCandidate, At, Running, SetOp, Idle, TypeOK, Op
  <2>3. \A q \in alive' : op'[q].pc = "superseding" =>
               q \in alive /\ op[q].pc = "superseding" /\ Id(op[q].gen)' = Id(op[q].gen)
    BY <1>3 DEF RegisterCandidate, At, Running, SetOp, Idle, disk, Id, TypeOK,
       Op
  <2> QED
    BY <2>1, <2>2, <2>3, KeepsSingled
<1>4. ASSUME NEW p \in Process, Install(p)
      PROVE  Singled'
  <2>1. \A j \in Identities : pointer'[j] \in {pointer[j], None}
    BY <1>4 DEF Install, Unpoint, disk, TypeOK
  <2>2. /\ torn => torn'
        /\ \A q \in alive : op[q].pc = "committed" =>
               torn' \/ (q \in alive' /\ op'[q].pc = "committed")
    BY <1>4 DEF Install, At, Running, SetOp, Idle, TypeOK, Op
  <2>3. \A q \in alive' : op'[q].pc = "superseding" =>
               q \in alive /\ op[q].pc = "superseding" /\ Id(op[q].gen)' = Id(op[q].gen)
    BY <1>4 DEF Install, At, Running, SetOp, Idle, disk, Id, TypeOK, Op
  <2> QED
    BY <2>1, <2>2, <2>3, KeepsSingled
<1>5. ASSUME NEW p \in Process, Commit(p)
      PROVE  Singled'
  <2>1. /\ p \in alive /\ lock = p /\ op'[p].pc = "committed" /\ alive' = alive
        /\ \A q \in alive \ {p} : op'[q] = op[q]
    BY <1>5 DEF Commit, At, SetOp, LocksAreHeld, InState, LockedPC, TypeOK, Op
  <2>2. \A q \in alive : op'[q].pc # "superseding"
    BY <2>1 DEF LocksAreHeld, InState, LockedPC, TypeOK
  <2> QED
    BY <2>1, <2>2 DEF Singled
<1>6. ASSUME NEW p \in Process, PublishFails(p)
      PROVE  Singled'
  <2>1. \A j \in Identities : pointer'[j] \in {pointer[j], None}
    BY <1>6 DEF PublishFails, Unpoint, disk, TypeOK
  <2>2. /\ torn => torn'
        /\ \A q \in alive : op[q].pc = "committed" =>
               torn' \/ (q \in alive' /\ op'[q].pc = "committed")
    BY <1>6 DEF PublishFails, At, Running, SetOp, Idle, TypeOK, Op
  <2>3. \A q \in alive' : op'[q].pc = "superseding" =>
               q \in alive /\ op[q].pc = "superseding" /\ Id(op[q].gen)' = Id(op[q].gen)
    BY <1>6 DEF PublishFails, At, Running, SetOp, Idle, disk, Id, TypeOK, Op
  <2> QED
    BY <2>1, <2>2, <2>3, KeepsSingled
<1>7. ASSUME NEW p \in Process, RetireOthers(p)
      PROVE  Singled'
  <2>1. PICK i \in Identities : i = Id(op[p].gen)
    BY <1>7 DEF RetireOthers, At, OwnGeneration, TypeOK, Id
  <2>2. \A j \in Identities : pointer[j] # None => j \in index
    BY SlotAssumption DEF PointerIsOwn, NothingIsStranded, TypeOK
  <2>3. pointer' = Unpoint(index \ {i})
    BY <1>7, <2>1 DEF RetireOthers, Superseded
  <2>4. Shown' \subseteq {i}
    BY <2>2, <2>3 DEF Shown, Unpoint
  <2>5. /\ p \in alive /\ lock = p /\ op'[p].gen = op[p].gen /\ info' = info
        /\ alive' = alive /\ \A q \in alive \ {p} : op'[q] = op[q]
    BY <1>7 DEF RetireOthers, At, SetOp, LocksAreHeld, InState, LockedPC, TypeOK, Op
  <2>6. \A q \in alive : op'[q].pc = "superseding" => q = p
    BY <2>5 DEF LocksAreHeld, InState, LockedPC, TypeOK
  <2>7. Id(op[p].gen)' = i
    BY <2>1, <2>5 DEF Id
  <2> QED
    BY <2>4, <2>5, <2>6, <2>7 DEF Singled, AtMostOne
<1>8. ASSUME NEW p \in Process, FinishPublish(p)
      PROVE  Singled'
  <2>1. /\ p \in alive /\ lock = p /\ op[p].pc = "superseding" /\ pointer' = pointer
        /\ alive' = alive /\ op'[p].pc \in {"idle", "budget"}
        /\ \A q \in alive \ {p} : op'[q] = op[q]
    BY <1>8 DEF FinishPublish, At, SetOp, Idle, LocksAreHeld, InState, LockedPC, TypeOK, Op
  <2>2. Shown' = Shown /\ Shown \subseteq {Id(op[p].gen)}
    BY <2>1 DEF Shown, Singled
  <2>3. \A q \in alive : op'[q].pc # "superseding"
    BY <2>1 DEF LocksAreHeld, InState, LockedPC, TypeOK
  <2> QED
    BY <2>1, <2>2, <2>3 DEF Singled, AtMostOne
<1>9. ASSUME NEW p \in Process, RetirementFails(p)
      PROVE  Singled'
  <2>1. \A j \in Identities : pointer'[j] \in {pointer[j], None}
    BY <1>9 DEF RetirementFails, Unpoint, disk, TypeOK
  <2>2. /\ torn => torn'
        /\ \A q \in alive : op[q].pc = "committed" =>
               torn' \/ (q \in alive' /\ op'[q].pc = "committed")
    BY <1>9 DEF RetirementFails, At, Running, SetOp, Idle, TypeOK, Op
  <2>3. \A q \in alive' : op'[q].pc = "superseding" =>
               q \in alive /\ op[q].pc = "superseding" /\ Id(op[q].gen)' = Id(op[q].gen)
    BY <1>9 DEF RetirementFails, At, Running, SetOp, Idle, disk, Id, TypeOK, Op
  <2> QED
    BY <2>1, <2>2, <2>3, KeepsSingled
<1>10. ASSUME NEW p \in Process, ScanUsage(p)
      PROVE  Singled'
  <2>1. \A j \in Identities : pointer'[j] \in {pointer[j], None}
    BY <1>10 DEF ScanUsage, Unpoint, disk, TypeOK
  <2>2. /\ torn => torn'
        /\ \A q \in alive : op[q].pc = "committed" =>
               torn' \/ (q \in alive' /\ op'[q].pc = "committed")
    BY <1>10 DEF ScanUsage, At, Running, SetOp, Idle, TypeOK, Op
  <2>3. \A q \in alive' : op'[q].pc = "superseding" =>
               q \in alive /\ op[q].pc = "superseding" /\ Id(op[q].gen)' = Id(op[q].gen)
    BY <1>10 DEF ScanUsage, At, Running, SetOp, Idle, disk, Id, TypeOK, Op
  <2> QED
    BY <2>1, <2>2, <2>3, KeepsSingled
<1>11. ASSUME NEW p \in Process, EvictCaptures(p)
      PROVE  Singled'
  <2>1. \A j \in Identities : pointer'[j] \in {pointer[j], None}
    BY <1>11 DEF EvictCaptures, Unpoint, disk, TypeOK
  <2>2. /\ torn => torn'
        /\ \A q \in alive : op[q].pc = "committed" =>
               torn' \/ (q \in alive' /\ op'[q].pc = "committed")
    BY <1>11 DEF EvictCaptures, At, Running, SetOp, Idle, TypeOK, Op
  <2>3. \A q \in alive' : op'[q].pc = "superseding" =>
               q \in alive /\ op[q].pc = "superseding" /\ Id(op[q].gen)' = Id(op[q].gen)
    BY <1>11 DEF EvictCaptures, At, Running, SetOp, Idle, disk, Id, TypeOK, Op
  <2> QED
    BY <2>1, <2>2, <2>3, KeepsSingled
<1>12. ASSUME NEW p \in Process, NEW i \in Identities, Lease(p, i)
      PROVE  Singled'
  <2>1. \A j \in Identities : pointer'[j] \in {pointer[j], None}
    BY <1>12 DEF Lease, Unpoint, disk, TypeOK
  <2>2. /\ torn => torn'
        /\ \A q \in alive : op[q].pc = "committed" =>
               torn' \/ (q \in alive' /\ op'[q].pc = "committed")
    BY <1>12 DEF Lease, At, Running, SetOp, Idle, TypeOK, Op
  <2>3. \A q \in alive' : op'[q].pc = "superseding" =>
               q \in alive /\ op[q].pc = "superseding" /\ Id(op[q].gen)' = Id(op[q].gen)
    BY <1>12 DEF Lease, At, Running, SetOp, Idle, disk, Id, TypeOK, Op
  <2> QED
    BY <2>1, <2>2, <2>3, KeepsSingled
<1>13. ASSUME NEW p \in Process, NEW i \in Identities, Pin(p, i)
      PROVE  Singled'
  <2>1. \A j \in Identities : pointer'[j] \in {pointer[j], None}
    BY <1>13 DEF Pin, Unpoint, disk, TypeOK
  <2>2. /\ torn => torn'
        /\ \A q \in alive : op[q].pc = "committed" =>
               torn' \/ (q \in alive' /\ op'[q].pc = "committed")
    BY <1>13 DEF Pin, At, Running, SetOp, Idle, TypeOK, Op
  <2>3. \A q \in alive' : op'[q].pc = "superseding" =>
               q \in alive /\ op[q].pc = "superseding" /\ Id(op[q].gen)' = Id(op[q].gen)
    BY <1>13 DEF Pin, At, Running, SetOp, Idle, disk, Id, TypeOK, Op
  <2> QED
    BY <2>1, <2>2, <2>3, KeepsSingled
<1>14. ASSUME NEW p \in Process, NEW g \in Generations, Release(p, g)
      PROVE  Singled'
  <2>1. \A j \in Identities : pointer'[j] \in {pointer[j], None}
    BY <1>14 DEF Release, Unpoint, disk, TypeOK
  <2>2. /\ torn => torn'
        /\ \A q \in alive : op[q].pc = "committed" =>
               torn' \/ (q \in alive' /\ op'[q].pc = "committed")
    BY <1>14 DEF Release, At, Running, SetOp, Idle, TypeOK, Op
  <2>3. \A q \in alive' : op'[q].pc = "superseding" =>
               q \in alive /\ op[q].pc = "superseding" /\ Id(op[q].gen)' = Id(op[q].gen)
    BY <1>14 DEF Release, At, Running, SetOp, Idle, disk, Id, TypeOK, Op
  <2> QED
    BY <2>1, <2>2, <2>3, KeepsSingled
<1>15. ASSUME NEW p \in Process, NEW i \in Identities, Clear(p, i)
      PROVE  Singled'
  <2>1. \A j \in Identities : pointer'[j] \in {pointer[j], None}
    BY <1>15 DEF Clear, ClearIdentities, Unpoint, disk, TypeOK
  <2>2. /\ torn => torn'
        /\ \A q \in alive : op[q].pc = "committed" =>
               torn' \/ (q \in alive' /\ op'[q].pc = "committed")
    BY <1>15 DEF Clear, ClearIdentities, At, Running, SetOp, Idle, TypeOK, Op
  <2>3. \A q \in alive' : op'[q].pc = "superseding" =>
               q \in alive /\ op[q].pc = "superseding" /\ Id(op[q].gen)' = Id(op[q].gen)
    BY <1>15 DEF Clear, ClearIdentities, At, Running, SetOp, Idle, disk, Id,
       TypeOK, Op
  <2> QED
    BY <2>1, <2>2, <2>3, KeepsSingled
<1>16. ASSUME NEW p \in Process, ClearSlot(p)
      PROVE  Singled'
  <2>1. \A j \in Identities : pointer[j] # None => j \in index
    BY SlotAssumption DEF PointerIsOwn, NothingIsStranded, TypeOK
  <2>2. pointer' = Unpoint(index) /\ op' = op /\ info' = info /\ alive' = alive
    BY <1>16 DEF ClearSlot, ClearIdentities
  <2>3. Shown' = {}
    BY <2>1, <2>2 DEF Shown, Unpoint
  <2> QED
    BY <2>3 DEF Singled, AtMostOne
<1>17. ASSUME NEW p \in Process, Die(p)
      PROVE  Singled'
  <2>1. \A j \in Identities : pointer'[j] \in {pointer[j], None}
    BY <1>17 DEF Die, Unpoint, disk, TypeOK
  <2>2. /\ torn => torn'
        /\ \A q \in alive : op[q].pc = "committed" =>
               torn' \/ (q \in alive' /\ op'[q].pc = "committed")
    BY <1>17 DEF Die, At, Running, SetOp, Idle, TypeOK, Op
  <2>3. \A q \in alive' : op'[q].pc = "superseding" =>
               q \in alive /\ op[q].pc = "superseding" /\ Id(op[q].gen)' = Id(op[q].gen)
    BY <1>17 DEF Die, At, Running, SetOp, Idle, disk, Id, TypeOK, Op
  <2> QED
    BY <2>1, <2>2, <2>3, KeepsSingled
<1>18. ASSUME PublishUpstream
      PROVE  Singled'
  <2>1. \A j \in Identities : pointer'[j] \in {pointer[j], None}
    BY <1>18 DEF PublishUpstream, Unpoint, disk, TypeOK
  <2>2. /\ torn => torn'
        /\ \A q \in alive : op[q].pc = "committed" =>
               torn' \/ (q \in alive' /\ op'[q].pc = "committed")
    BY <1>18 DEF PublishUpstream, At, Running, SetOp, Idle, TypeOK, Op
  <2>3. \A q \in alive' : op'[q].pc = "superseding" =>
               q \in alive /\ op[q].pc = "superseding" /\ Id(op[q].gen)' = Id(op[q].gen)
    BY <1>18 DEF PublishUpstream, At, Running, SetOp, Idle, disk, Id, TypeOK, Op
  <2> QED
    BY <2>1, <2>2, <2>3, KeepsSingled
<1>19. ASSUME ClearUpstream
      PROVE  Singled'
  <2>1. \A j \in Identities : pointer'[j] \in {pointer[j], None}
    BY <1>19 DEF ClearUpstream, ClearIdentities, Unpoint, disk, TypeOK
  <2>2. /\ torn => torn'
        /\ \A q \in alive : op[q].pc = "committed" =>
               torn' \/ (q \in alive' /\ op'[q].pc = "committed")
    BY <1>19 DEF ClearUpstream, ClearIdentities, At, Running, SetOp, Idle,
       TypeOK, Op
  <2>3. \A q \in alive' : op'[q].pc = "superseding" =>
               q \in alive /\ op[q].pc = "superseding" /\ Id(op[q].gen)' = Id(op[q].gen)
    BY <1>19 DEF ClearUpstream, ClearIdentities, At, Running, SetOp, Idle, disk,
       Id, TypeOK, Op
  <2> QED
    BY <2>1, <2>2, <2>3, KeepsSingled
<1> QED
  BY <1>1, <1>2, <1>3, <1>4, <1>5, <1>6, <1>7, <1>8, <1>9, <1>10, <1>11, <1>12,
     <1>13, <1>14, <1>15, <1>16, <1>17, <1>18, <1>19 DEF Next, Publishing,
     Using, Clearing

\* The types.
LEMMA TypeStep ==
    ASSUME TypeOK, OwnGeneration, Unexposed, PointerIsOwn, Next
    PROVE  TypeOK'
<1>1. ASSUME NEW p \in Process, NEW g \in Generations, NEW i \in Identities, NEW
   cols \in Columns, NEW ex \in BOOLEAN, NEW re \in BOOLEAN, Stage(p, g, i,
   cols, ex, re)
      PROVE  TypeOK'
  <2>1. op' \in [Process -> Op]
    <3>1. [Idle EXCEPT !.pc = "staged", !.gen = g, !.explicit = ex,
                             !.refresh = re] \in Op
      BY OpValues DEF OpState
    <3> QED
      BY <1>1, <3>1 DEF Stage, SetOp, TypeOK
  <2>2. info' \in [Generations -> [id : Identities \cup {None}, dep : Upstream, cols : Columns]]
    BY <1>1 DEF Stage, TypeOK
  <2>3. dir' \in [Generations -> DirState]
    BY <1>1 DEF Stage, TypeOK, DirState
  <2> QED
    BY <1>1, <2>1, <2>2, <2>3 DEF Stage, locks, TypeOK
<1>2. ASSUME NEW p \in Process, Recheck(p)
      PROVE  TypeOK'
  <2>1. PICK o \in Op : RecheckEnds(p, o)
    BY <1>2, RecheckIs
  <2>2. op' \in [Process -> Op] /\ dir' \in [Generations -> DirState]
    BY <2>1 DEF RecheckEnds, TypeOK, DirState
  <2>3. publishing' \in [Identities -> Process \cup {None}]
    BY <2>1 DEF RecheckEnds, TypeOK
  <2> QED
    BY <1>2, <2>2, <2>3 DEF Recheck, TypeOK
<1>3. ASSUME NEW p \in Process, RegisterCandidate(p)
      PROVE  TypeOK'
  <2>1. op' \in [Process -> Op]
    <3>1. [op[p] EXCEPT !.pc = "indexed", !.prev = pinned] \in Op
      BY OpValues DEF OpState, TypeOK
    <3> QED
      BY <1>3, <3>1 DEF RegisterCandidate, SetOp, TypeOK
  <2>2. index' \subseteq Identities /\ pinned' \in Identities \cup {None}
    BY <1>3 DEF RegisterCandidate, At, WriteIndex, OwnGeneration, TypeOK, Id
  <2> QED
    BY <1>3, <2>1, <2>2 DEF RegisterCandidate, TypeOK
<1>4. ASSUME NEW p \in Process, Install(p)
      PROVE  TypeOK'
  <2>1. op' \in [Process -> Op]
    <3>1. [op[p] EXCEPT !.pc = "installed"] \in Op
      BY OpValues DEF OpState
    <3> QED
      BY <1>4, <3>1 DEF Install, SetOp, TypeOK
  <2>2. op[p].gen \in Generations
    BY <1>4 DEF Install, At, OwnGeneration
  <2>3. leases' \in [Process -> [Generations -> Nat]]
    <3>1. \A g \in Generations : [leases[p] EXCEPT ![g] = @ + 1] \in [Generations -> Nat]
      BY DEF TypeOK
    <3> QED
      BY <1>4, <2>2, <3>1 DEF Install, TypeOK
  <2>4. markers' \in [Generations -> SUBSET Process] /\ dir' \in [Generations -> DirState]
    BY <1>4, <2>2 DEF Install, TypeOK, DirState
  <2> QED
    BY <1>4, <2>1, <2>3, <2>4 DEF Install, locks, TypeOK
<1>5. ASSUME NEW p \in Process, Commit(p)
      PROVE  TypeOK'
  <2>1. op' \in [Process -> Op]
    <3>1. [op[p] EXCEPT !.pc = "committed"] \in Op
      BY OpValues DEF OpState
    <3> QED
      BY <1>5, <3>1 DEF Commit, SetOp, TypeOK
  <2>2. pointer' \in [Identities -> Generations \cup {None}]
    BY <1>5 DEF Commit, At, OwnGeneration, TypeOK
  <2> QED
    BY <1>5, <2>1, <2>2 DEF Commit, locks, TypeOK
<1>6. ASSUME NEW p \in Process, PublishFails(p)
      PROVE  TypeOK'
  BY <1>6, SlotAssumption DEF PublishFails, Running, SetOp, Idle, WriteIndex,
     TypeOK, Op, OpState, DirState, OwnGeneration, Unexposed, StagedPC,
     LockedPC, Id
<1>7. ASSUME NEW p \in Process, RetireOthers(p)
      PROVE  TypeOK'
  <2>1. op' \in [Process -> Op]
    <3>1. [op[p] EXCEPT !.pc = "superseding"] \in Op
      BY OpValues DEF OpState
    <3> QED
      BY <1>7, <3>1 DEF RetireOthers, SetOp, TypeOK
  <2>2. Keeps
    BY <1>7, RetireOthersKeeps
  <2> QED
    BY <1>7, <2>1, <2>2 DEF RetireOthers, locks, Keeps, TypeOK
<1>8. ASSUME NEW p \in Process, FinishPublish(p)
      PROVE  TypeOK'
  <2>1. op' \in [Process -> Op]
    <3>1. Idle \in Op /\ [op[p] EXCEPT !.pc = "budget"] \in Op
      BY OpValues DEF OpState
    <3> QED
      BY <1>8, <3>1 DEF FinishPublish, SetOp, TypeOK
  <2>2. Keeps
    BY <1>8, FinishPublishKeeps
  <2>3. index' \subseteq Identities /\ pinned' \in Identities \cup {None}
    BY <1>8 DEF FinishPublish, WriteIndex, TypeOK
  <2>4. publishing' \in [Identities -> Process \cup {None}] /\ lock' = None /\ torn' = FALSE
    BY <1>8 DEF FinishPublish, TypeOK
  <2>5. budgeting' = budgeting /\ upstream' = upstream
    BY <1>8 DEF FinishPublish
  <2> QED
    BY <2>1, <2>2, <2>3, <2>4, <2>5 DEF Keeps, TypeOK
<1>9. ASSUME NEW p \in Process, RetirementFails(p)
      PROVE  TypeOK'
  BY <1>9, SlotAssumption DEF RetirementFails, Running, SetOp, Idle, TypeOK, Op,
     OpState, DirState, OwnGeneration, Unexposed, StagedPC, LockedPC, Id
<1>10. ASSUME NEW p \in Process, ScanUsage(p)
      PROVE  TypeOK'
  <2>1. op' \in [Process -> Op]
    <3>1. [op[p] EXCEPT !.pc = "scanned", !.seen = {g \in Generations : Automatic(g)}] \in Op
      BY OpValues DEF OpState
    <3> QED
      BY <1>10, <3>1 DEF ScanUsage, SetOp, TypeOK
  <2> QED
    BY <1>10, <2>1 DEF ScanUsage, disk, TypeOK
<1>11. ASSUME NEW p \in Process, EvictCaptures(p)
      PROVE  TypeOK'
  <2>1. Keeps
    BY <1>11, EvictCapturesKeeps
  <2> QED
    BY <1>11, <2>1, SlotAssumption DEF EvictCaptures, At, SetOp, Idle,
       WriteIndex, TypeOK, Op, OpState, DirState, OwnGeneration, Unexposed,
       StagedPC, LockedPC, Id, Keeps
<1>12. ASSUME NEW p \in Process, NEW i \in Identities, Lease(p, i)
      PROVE  TypeOK'
  BY <1>12, SlotAssumption DEF Lease, Running, locks, TypeOK, Op, OpState,
     DirState, OwnGeneration, Unexposed, StagedPC, LockedPC, Id
<1>13. ASSUME NEW p \in Process, NEW i \in Identities, Pin(p, i)
      PROVE  TypeOK'
  BY <1>13, SlotAssumption DEF Pin, Running, locks, WriteIndex, TypeOK, Op,
     OpState, DirState, OwnGeneration, Unexposed, StagedPC, LockedPC, Id
<1>14. ASSUME NEW p \in Process, NEW g \in Generations, Release(p, g)
      PROVE  TypeOK'
  <2>1. Keeps
    BY <1>14, ReleaseKeeps
  <2> QED
    BY <1>14, <2>1, SlotAssumption DEF Release, Running, locks, WriteIndex,
       TypeOK, Op, OpState, DirState, OwnGeneration, Unexposed, StagedPC,
       LockedPC, Id, Keeps
<1>15. ASSUME NEW p \in Process, NEW i \in Identities, Clear(p, i)
      PROVE  TypeOK'
  <2>1. Keeps
    BY <1>15, ClearKeeps
  <2>2. index' \subseteq Identities /\ pinned' \in Identities \cup {None}
    BY <1>15 DEF Clear, ClearIdentities, WriteIndex, TypeOK
  <2>3. /\ torn' \in BOOLEAN
        /\ UNCHANGED <<lock, publishing, budgeting, op, upstream>>
    BY <1>15 DEF Clear, ClearIdentities, locks, TypeOK
  <2> QED
    BY <2>1, <2>2, <2>3 DEF Keeps, TypeOK
<1>16. ASSUME NEW p \in Process, ClearSlot(p)
      PROVE  TypeOK'
  <2>1. Keeps
    BY <1>16, ClearSlotKeeps
  <2>2. index' \subseteq Identities /\ pinned' \in Identities \cup {None}
    BY <1>16 DEF ClearSlot, ClearIdentities, WriteIndex, TypeOK
  <2>3. /\ torn' \in BOOLEAN
        /\ UNCHANGED <<lock, publishing, budgeting, op, upstream>>
    BY <1>16 DEF ClearSlot, ClearIdentities, locks, TypeOK
  <2> QED
    BY <2>1, <2>2, <2>3 DEF Keeps, TypeOK
<1>17. ASSUME NEW p \in Process, Die(p)
      PROVE  TypeOK'
  BY <1>17, SlotAssumption DEF Die, Running, SetOp, Idle, disk, TypeOK, Op,
     OpState, DirState, OwnGeneration, Unexposed, StagedPC, LockedPC, Id
<1>18. ASSUME PublishUpstream
      PROVE  TypeOK'
  <2>1. upstream' \in [cur : Upstream, last : Upstream]
    BY <1>18, SlotAssumption DEF PublishUpstream, TypeOK, Upstream
  <2> QED
    BY <1>18, <2>1 DEF PublishUpstream, disk, locks, TypeOK
<1>19. ASSUME ClearUpstream
      PROVE  TypeOK'
  <2>1. [upstream EXCEPT !.cur = 0] \in [cur : Upstream, last : Upstream]
    BY SlotAssumption DEF TypeOK, Upstream
  <2> QED
    BY <1>19, <2>1 DEF ClearUpstream, disk, locks, TypeOK
<1> QED
  BY <1>1, <1>2, <1>3, <1>4, <1>5, <1>6, <1>7, <1>8, <1>9, <1>10, <1>11, <1>12,
     <1>13, <1>14, <1>15, <1>16, <1>17, <1>18, <1>19 DEF Next, Publishing,
     Using, Clearing

-----------------------------------------------------------------------------
(* The theorems.                                                           *)

\* The first states satisfy the inductive invariant.
LEMMA InitIInv == Init => IInv
<1> SUFFICES ASSUME Init PROVE IInv
  OBVIOUS
<1> USE SlotAssumption DEF Init
<1>1. TypeOK
  <2>1. Idle \in Op
    BY DEF Op, OpState, Idle
  <2>2. [id |-> None, dep |-> 0, cols |-> 1]
            \in [id : Identities \cup {None}, dep : Upstream, cols : Columns]
    BY DEF Columns, Upstream
  <2>3. [cur |-> 0, last |-> 0] \in [cur : Upstream, last : Upstream]
    BY DEF Upstream
  <2> QED
    BY <2>1, <2>2, <2>3 DEF TypeOK, DirState
<1>2. OwnGeneration /\ LocksAreHeld /\ Unexposed /\ ApprovalStands
  BY DEF OwnGeneration, LocksAreHeld, Unexposed, ApprovalStands, InState, StagedPC,
     LockedPC, PublishingPC, Idle
<1>3. PointerIsOwn /\ Marked /\ Dated
  BY DEF PointerIsOwn, Marked, Dated
<1>4. Singled
  BY DEF Singled, AtMostOne, Shown, Idle
<1>5. LeasedSnapshotStays /\ NothingIsStranded
  BY DEF LeasedSnapshotStays, NothingIsStranded
<1> QED
  BY <1>1, <1>2, <1>3, <1>4, <1>5 DEF IInv

\* Every step preserves the inductive invariant.
LEMMA NextIInv == IInv /\ [Next]_vars => IInv'
<1> SUFFICES ASSUME IInv, [Next]_vars PROVE IInv'
  OBVIOUS
<1>1. CASE Next
  <2> USE <1>1 DEF IInv
  <2>1. TypeOK' /\ OwnGeneration' /\ LocksAreHeld' /\ Unexposed'
    BY TypeStep, OwnStep, LockStep, UnexposedStep
  <2>2. PointerIsOwn' /\ Marked' /\ Dated'
    BY PointerStep, MarkedStep, DatedStep
  <2>3. ApprovalStands' /\ Singled'
    BY ApprovalStep, SingledStep
  <2>4. LeasedSnapshotStays' /\ NothingIsStranded'
    BY LeasedStep, StrandedStep
  <2> QED
    BY <2>1, <2>2, <2>3, <2>4
<1>2. CASE UNCHANGED vars
  <2> USE <1>2 DEF vars, disk, locks, IInv
  <2>1. TypeOK' /\ OwnGeneration' /\ LocksAreHeld' /\ Unexposed'
    BY DEF TypeOK, OwnGeneration, LocksAreHeld, InState, Unexposed, Id
  <2>2. PointerIsOwn' /\ Marked' /\ Dated'
    BY DEF PointerIsOwn, Marked, Dated, Id
  <2>3. ApprovalStands' /\ Singled'
    BY DEF ApprovalStands, NoWorse, FreshDep, Singled, AtMostOne, Shown, Id
  <2>4. LeasedSnapshotStays' /\ NothingIsStranded'
    BY DEF LeasedSnapshotStays, NothingIsStranded, Id
  <2> QED
    BY <2>1, <2>2, <2>3, <2>4
<1> QED
  BY <1>1, <1>2

\* The invariant: what a publication owns, what the pointers name and what was approved.
THEOREM SpecIInv == Spec => []IInv
  BY InitIInv, NextIInv, PTL DEF Spec

\* What a running process leases is spared by every publication, release, clear and
\* eviction (_retire_non_current_locked, _release_node_lease, enforce_automatic_budget).
THEOREM SpecLeasedSnapshotStays == Spec => []LeasedSnapshotStays
  BY SpecIInv, PTL DEF IInv

\* publish_node_output lists an identity before it puts anything of it on disk, and
\* whatever takes an identity off the index has removed its last generation.
THEOREM SpecNothingIsStranded == Spec => []NothingIsStranded
  BY SpecIInv, PTL DEF IInv

\* A slot shows one dataset, but between a commit and the retirement of the rest, or
\* where a process died or failed there.
THEOREM SpecOneDatasetPerSlot == Spec => []OneDatasetPerSlot
<1>1. ASSUME IInv PROVE OneDatasetPerSlot
  <2> SUFFICES ASSUME lock = None, ~torn
               PROVE  Cardinality(Shown) <= 1
    BY DEF OneDatasetPerSlot, Shown
  <2>1. \A p \in alive : op[p].pc # "committed"
    BY <1>1, SlotAssumption DEF IInv, TypeOK, LocksAreHeld, InState, LockedPC
  <2>2. AtMostOne
    BY <1>1, <2>1 DEF IInv, Singled
  <2>3. CASE Shown = {}
    BY <2>3, FS_EmptySet
  <2>4. CASE Shown # {}
    <3>1. PICK i : i \in Shown
      BY <2>4
    <3>2. Shown = {i}
      BY <2>2, <3>1 DEF AtMostOne
    <3> QED
      <4>1. Cardinality({i}) = 1
        BY FS_Singleton
      <4> QED
        BY <3>2, <4>1
  <2> QED
    BY <2>3, <2>4
<1> QED
  BY <1>1, SpecIInv, PTL

\* Only a commit makes a pointer name something else.
LEMMA OnlyCommitNames ==
    ASSUME TypeOK, PointerIsOwn, Next, NEW i \in Identities
    PROVE  \/ pointer'[i] \in {pointer[i], None}
           \/ \E p \in Process : Commit(p) /\ i = Id(op[p].gen) /\ pointer'[i] = op[p].gen
<1>1. ASSUME NEW p \in Process, Publishing(p)
      PROVE  \/ pointer'[i] \in {pointer[i], None}
             \/ Commit(p) /\ i = Id(op[p].gen) /\ pointer'[i] = op[p].gen
  <2>1. CASE Commit(p)
    BY <2>1 DEF Commit, TypeOK
  <2>2. CASE RetireOthers(p) \/ FinishPublish(p) \/ EvictCaptures(p)
    BY <2>2, RetireOthersKeeps, FinishPublishKeeps, EvictCapturesKeeps DEF Keeps
  <2>3. CASE ~Commit(p) /\ ~(RetireOthers(p) \/ FinishPublish(p) \/ EvictCaptures(p))
    BY <1>1, <2>3 DEF Publishing, Stage, Recheck, RegisterCandidate, Install, PublishFails,
       RetirementFails, ScanUsage, disk
  <2> QED
    BY <2>1, <2>2, <2>3
<1>2. ASSUME NEW p \in Process, Using(p) \/ Clearing(p) \/ Die(p)
      PROVE  pointer'[i] \in {pointer[i], None}
  BY <1>2, ClearKeeps, ClearSlotKeeps, ReleaseKeeps
  DEF Using, Clearing, Lease, Pin, Release, Die, disk, Keeps
<1>3. ASSUME PublishUpstream \/ ClearUpstream
      PROVE  pointer' = pointer
  BY <1>3 DEF PublishUpstream, ClearUpstream, disk
<1> QED
  BY <1>1, <1>2, <1>3 DEF Next

\* _should_publish_locked is applied before the lease lock is taken, and what it
\* approved still holds when the pointer is written.
THEOREM SpecReplacementIsNoWorse == Spec => ReplacementIsNoWorse
<1> DEFINE Replaces(i) ==
             pointer[i] # None /\ pointer'[i] # None /\ pointer'[i] # pointer[i]
<1>1. ASSUME IInv, Next, NEW i \in Identities, Replaces(i)
      PROVE  NoWorse(pointer'[i], pointer[i])
  <2>1. PICK p \in Process : Commit(p) /\ i = Id(op[p].gen) /\ pointer'[i] = op[p].gen
    BY <1>1, OnlyCommitNames DEF IInv
  <2>2. NoWorse(op[p].gen, pointer[i])
    BY <1>1, <2>1 DEF IInv, ApprovalStands, Commit, At
  <2> QED
    BY <2>1, <2>2 DEF NoWorse
<1>2. IInv /\ [Next]_vars =>
          [\A i \in Identities :
             LET old == pointer[i]
                 new == pointer'[i]
             IN  old # None /\ new # None /\ new # old =>
                   /\ info[new].cols >= info[old].cols
                   /\ info[old].dep # 0 /\ FreshDep(info[old].dep)
                         => FreshDep(info[new].dep)]_vars
  BY <1>1 DEF NoWorse
<1> QED
  BY <1>2, SpecIInv, PTL DEF ReplacementIsNoWorse, Spec

\* enforce_automatic_budget re-checks under the lease lock what it scanned without.
THEOREM SpecPinnedIsNotEvicted == Spec => PinnedIsNotEvicted
<1>1. ASSUME IInv, NEW p \in Process, NEW i \in Identities,
             EvictCaptures(p) /\ pinned # None
      PROVE  pointer'[i] = pointer[i]
  <2>1. PICK ev \in Evictions(p) :
          pointer' = [j \in Identities |-> IF pointer[j] \in ev THEN None ELSE pointer[j]]
    BY <1>1 DEF EvictCaptures
  <2>2. \A g \in ev : ~Current(g) /\ g # None
    BY <1>1, SlotAssumption DEF Evictions, StillAutomatic, Automatic, IInv, TypeOK, Op
  <2>3. pointer[i] \notin ev
    BY <1>1, <2>2 DEF IInv, PointerIsOwn, Current, Id
  <2> QED
    BY <2>1, <2>3
<1>2. ASSUME IInv
      PROVE  \A p \in Process, i \in Identities :
                EvictCaptures(p) /\ pinned # None => pointer'[i] = pointer[i]
  BY <1>1, <1>2
<1> QED
  BY <1>2, SpecIInv, PTL DEF PinnedIsNotEvicted
=============================================================================
