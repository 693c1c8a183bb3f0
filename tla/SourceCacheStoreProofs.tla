------------------------ MODULE SourceCacheStoreProofs ------------------------
(***************************************************************************)
(* Proofs about SourceCacheStore, for any number of servers, workers and   *)
(* generations: what the pointer names and what a process leases is whole, *)
(* a copy replaces only its source, and a failed build never becomes one.  *)
(***************************************************************************)
EXTENDS SourceCacheStore, TLAPS

\* A build that has not published yet, and the operations that hold leases.lock
\* across several steps.
BuildPC == {"start", "building", "renamed", "undo"}
LockPC == {"renamed", "removing"}

\* Live process p builds generation g.
Builds(p, g) == p \in alive /\ op[p].pc \in BuildPC /\ op[p].gen = g

\* Workers only build or read; servers do neither through a worker's entry points.
Roles ==
    /\ \A p \in Workers :
          /\ op[p].pc \notin {"selected", "reencode", "retire", "unlease", "removing"}
          /\ op[p].src = None
    /\ \A p \in Servers : op[p].pc \notin {"start", "pinning", "answer"}

\* leases.lock is held by the process whose operation it protects.
LockIsHeld ==
    \A p \in Process : lock = p <=> p \in alive /\ op[p].pc \in LockPC

\* Only published generations are pointed at, selected or marked.
NamedIsPublished ==
    /\ pointer # None => pointer \in published
    /\ \A g \in Generations : markers[g] # {} => g \in published
    /\ \A p \in alive : op[p].pc \in {"selected", "pinning"} => op[p].gen \in published

\* A process that leases a generation has its marker in it; one that does not run
\* leases nothing, and neither does a worker that is in an operation.
LeaseIsMarked ==
    /\ \A p \in alive, g \in Generations : leases[p][g] > 0 => p \in markers[g]
    /\ \A p \in Process, g \in Generations :
          p \notin alive \/ (p \in Workers /\ op[p].pc # "idle") => leases[p][g] = 0

\* The leases an operation took on the generation it copies.
CopyHolds ==
    \A p \in alive :
        /\ op[p].pc = "idle" => op[p].n = 0
        /\ op[p].pc = "reencode" => op[p].src # None /\ op[p].n < 2
        /\ op[p].pc = "unlease" => op[p].n > 0
        /\ op[p].n > 0 => op[p].src # None
        /\ op[p].src # None => leases[p][op[p].src] >= op[p].n

\* A build's generation is its own and unpublished until it moves the pointer.
BuildIsPrivate ==
    /\ \A p \in alive : op[p].pc \in BuildPC => op[p].gen \in Generations \ published
    /\ \A p, q \in alive, g \in Generations : Builds(p, g) /\ Builds(q, g) => p = q

\* Between the rename and the pointer, under the lock.
RenamedIsReady ==
    \A p \in alive :
        op[p].pc = "renamed" =>
            /\ dir[op[p].gen] = "whole"
            /\ op[p].src # None => pointer = op[p].src

\* Nobody else builds the generation a server waits for, and nobody builds the
\* one it is settling or has settled as failed.
SettledIsStill ==
    \A s \in Servers :
        /\ sup[s].pc = "waiting" =>
              /\ sup[s].gen # None
              /\ \A p \in Process : Builds(p, sup[s].gen) => p = sup[s].worker
        /\ sup[s].pc \in {"failed", "unremovable"} =>
              /\ sup[s].gen # None
              /\ \A p \in Process : ~Builds(p, sup[s].gen)
        /\ s \in alive /\ op[s].pc = "removing" =>
              /\ sup[s].pc = "waiting" /\ op[s].gen = sup[s].gen
              /\ \A p \in Process : ~Builds(p, sup[s].gen)
              /\ sup[s].gen \in published \/ dir[sup[s].gen] # "whole"

\* The inductive invariant.
IInv ==
    /\ TypeOK
    /\ Roles
    /\ LockIsHeld
    /\ NamedIsPublished
    /\ LeaseIsMarked
    /\ CopyHolds
    /\ BuildIsPrivate
    /\ RenamedIsReady
    /\ SettledIsStill
    /\ PointerNamesWhole
    /\ LeasedIsWhole
    /\ FailedBuildIsSettled
-----------------------------------------------------------------------------
(* What the operators compute.                                             *)

\* A retirement by p: a directory goes only if the pointer does not name it and
\* no running process leases it, and of such a lease the marker stays.
Tidies(p) ==
    /\ dir' \in [Generations -> DirState]
    /\ markers' \in [Generations -> SUBSET Process]
    /\ \A g \in Generations :
          /\ markers'[g] \subseteq markers[g]
          /\ dir'[g] = dir[g] \/ (dir'[g] = "none" /\ g # pointer' /\ Listed(g))
          /\ \A q \in alive :
                q \in markers[g] /\ leases'[q][g] > 0
                    => q \in markers'[g] /\ dir'[g] = dir[g]

\* _retire_unleased_locked, with p's own counts as the step leaves them (ls) and
\* every marker there was but one that p no longer needs (mk).
LEMMA RetireTidies ==
    ASSUME TypeOK, NEW p \in Process, NEW ls, NEW due \in BOOLEAN,
           NEW mk \in [Generations -> SUBSET Process],
           dir' = [g \in Generations |->
                     IF (due /\ Listed(g) /\ g # pointer')
                          /\ {q \in mk[g] : Lives(p, q, g, ls)} = {}
                     THEN "none" ELSE dir[g]],
           markers' = [g \in Generations |->
                         IF due /\ Listed(g) /\ g # pointer'
                         THEN {q \in mk[g] : Lives(p, q, g, ls)} ELSE mk[g]],
           \A g \in Generations : ls[g] > 0 <=> leases'[p][g] > 0,
           \A g \in Generations :
               /\ mk[g] \subseteq markers[g]
               /\ \A q \in markers[g] : q \in mk[g] \/ (q = p /\ ~(leases'[p][g] > 0))
    PROVE  Tidies(p)
<1>1. /\ dir' \in [Generations -> DirState]
      /\ markers' \in [Generations -> SUBSET Process]
  BY DEF TypeOK, DirState
<1>2. ASSUME NEW g \in Generations
      PROVE  /\ markers'[g] \subseteq markers[g]
             /\ dir'[g] = dir[g] \/ (dir'[g] = "none" /\ g # pointer' /\ Listed(g))
  OBVIOUS
<1>3. ASSUME NEW g \in Generations, NEW q \in alive,
             q \in markers[g], leases'[q][g] > 0
      PROVE  q \in markers'[g] /\ dir'[g] = dir[g]
  <2>1. q \in mk[g] /\ Lives(p, q, g, ls)
    BY <1>3 DEF Lives
  <2> QED
    BY <2>1
<1> QED
  BY <1>1, <1>2, <1>3, Zenon DEF Tidies

\* The retirements: after a build, by clear, after a worker's build, at the end
\* of a lease and when a worker cannot pin.
LEMMA RetireAfterBuildTidies ==
    ASSUME TypeOK, NEW p \in Process, RetireAfterBuild(p)
    PROVE  Tidies(p)
  BY DEF RetireAfterBuild, Tidies, Retire, DirAfter, MarkersAfter, Candidate, LiveMarkers, Lives, TypeOK, DirState,
     GraceElapsed, Process

\* Clearing an input only tidies: it removes what nobody reads.
LEMMA ClearTidies ==
    ASSUME TypeOK, NEW p \in Process, Clear(p)
    PROVE  Tidies(p)
  BY DEF Clear, Tidies, Retire, DirAfter, MarkersAfter, Candidate, LiveMarkers, Lives, TypeOK, DirState,
     GraceElapsed, Process

\* Settling a build that published only tidies.
LEMMA SettlePublishedTidies ==
    ASSUME TypeOK, NEW s \in Servers, SettlePublished(s)
    PROVE  Tidies(s)
  BY DEF SettlePublished, Tidies, Retire, DirAfter, MarkersAfter, Candidate, LiveMarkers, Lives, TypeOK, DirState,
     GraceElapsed, Process

\* Giving back leases only tidies.
LEMMA EndLeaseTidies ==
    ASSUME TypeOK, NEW p \in Process, NEW g \in Generations, NEW n \in Nat,
           n <= leases[p][g], EndLease(p, g, n), pointer' = pointer
    PROVE  Tidies(p)
<1>1. CASE leases[p][g] - n > 0
  BY <1>1 DEF EndLease, Tidies, TypeOK, Process
<1>2. CASE ~(leases[p][g] - n > 0)
  <2>1. PICK due \in GraceElapsed :
          Retire(p, pointer, [markers EXCEPT ![g] = @ \ {p}],
                 [leases[p] EXCEPT ![g] = 0], due)
    BY <1>2 DEF EndLease
  <2>2. PICK mk, ls : /\ mk = [markers EXCEPT ![g] = @ \ {p}]
                      /\ ls = [leases[p] EXCEPT ![g] = 0]
    OBVIOUS
  <2>3. due \in BOOLEAN /\ mk \in [Generations -> SUBSET Process]
    BY <2>2 DEF GraceElapsed, TypeOK
  <2>4. leases[p] \in [Generations -> Nat] /\ leases[p][g] - n = 0
    <3>1. leases[p] \in [Generations -> Nat]
      BY DEF TypeOK
    <3>2. leases[p][g] \in Nat
      BY <3>1
    <3> QED
      BY <1>2, <3>1, <3>2
  <2>5. leases'[p] = [leases[p] EXCEPT ![g] = 0]
    BY <2>4 DEF EndLease, TypeOK
  <2>6. \A h \in Generations : ls[h] > 0 <=> leases'[p][h] > 0
    BY <2>2, <2>5
  <2>7. \A h \in Generations :
          /\ mk[h] \subseteq markers[h]
          /\ \A q \in markers[h] : q \in mk[h] \/ (q = p /\ ~(leases'[p][h] > 0))
    BY <2>2, <2>4, <2>5 DEF TypeOK
  <2>8. /\ dir' = [h \in Generations |->
                     IF (due /\ Listed(h) /\ h # pointer')
                          /\ {q \in mk[h] : Lives(p, q, h, ls)} = {}
                     THEN "none" ELSE dir[h]]
        /\ markers' = [h \in Generations |->
                         IF due /\ Listed(h) /\ h # pointer'
                         THEN {q \in mk[h] : Lives(p, q, h, ls)} ELSE mk[h]]
    BY <2>1, <2>2, <2>3, Zenon DEF Retire, DirAfter, MarkersAfter, Candidate, LiveMarkers, Lives
  <2> QED
    BY <2>3, <2>6, <2>7, <2>8, RetireTidies
<1> QED
  BY <1>1, <1>2

\* Releasing a lease only tidies.
LEMMA ReleaseTidies ==
    ASSUME TypeOK, NEW p \in Process, NEW g \in Generations, Release(p, g)
    PROVE  Tidies(p)
<1>1. 1 <= leases[p][g] /\ EndLease(p, g, 1) /\ pointer' = pointer
  BY DEF Release, TypeOK
<1> QED
  BY <1>1, EndLeaseTidies

\* The end of a re-encoding only tidies.
LEMMA EndCopyTidies ==
    ASSUME TypeOK, CopyHolds, NEW p \in Process, EndCopy(p)
    PROVE  Tidies(p)
<1>1. PICK g, n : g = op[p].src /\ n = op[p].n
  OBVIOUS
<1>2. g \in Generations /\ n \in Nat /\ n <= leases[p][g]
  BY <1>1 DEF EndCopy, At, Running, CopyHolds, TypeOK, Op
<1>3. EndLease(p, g, n) /\ pointer' = pointer
  BY <1>1 DEF EndCopy, EndLease
<1> QED
  BY <1>2, <1>3, EndLeaseTidies

\* lease_generation that finds no data gives its lease back, which only tidies.
LEMMA PinFailureTidies ==
    ASSUME TypeOK, NEW p \in Process, PinGeneration(p), dir[op[p].gen] # "whole"
    PROVE  Tidies(p)
<1>1. PICK due \in BOOLEAN : Retire(p, pointer, markers, leases[p], due)
  BY DEF PinGeneration, GraceElapsed
<1>2. pointer' = pointer /\ leases' = leases
  BY DEF PinGeneration
<1> QED
  BY <1>1, <1>2 DEF Tidies, Retire, DirAfter, MarkersAfter, Candidate, LiveMarkers, Lives,
     TypeOK, DirState, Process

\* What every step that removes directories or markers preserves: the types, and
\* the directory and the marker of a lease that a running process still has.
Keeps ==
    /\ dir' \in [Generations -> DirState]
    /\ markers' \in [Generations -> SUBSET Process]
    /\ \A g \in Generations :
          /\ markers'[g] \subseteq markers[g]
          /\ \A q \in alive :
                q \in markers[g] /\ leases'[q][g] > 0
                    => q \in markers'[g] /\ (dir[g] = "whole" => dir'[g] = "whole")

\* A step that only tidies keeps every generation that is read or pointed to.
LEMMA TidiesKeeps ==
    ASSUME NEW p, Tidies(p)
    PROVE  Keeps
  BY DEF Tidies, Keeps

\* A rename retires too, and makes its own generation whole.
Renames(p) ==
    /\ dir'[op[p].gen] = "whole"
    /\ \A g \in Generations \ {op[p].gen} :
          dir'[g] = dir[g] \/ (dir'[g] = "none" /\ g # pointer)

\* A rename into place keeps those too, and makes its own generation whole.
LEMMA RenameTidies ==
    ASSUME TypeOK, BuildIsPrivate, NEW p \in Process, RenameIntoPlace(p)
    PROVE  Keeps /\ Renames(p)
<1>0. op[p].gen \in Generations
  BY DEF RenameIntoPlace, At, Running, BuildIsPrivate, BuildPC
<1>1. PICK due \in BOOLEAN :
         /\ dir' = [DirAfter(p, pointer, markers, leases[p], due)
                      EXCEPT ![op[p].gen] = "whole"]
         /\ markers' = MarkersAfter(p, pointer, markers, leases[p], due)
  BY DEF RenameIntoPlace, GraceElapsed
<1>2. /\ dir' \in [Generations -> DirState]
      /\ markers' \in [Generations -> SUBSET Process]
      /\ dir'[op[p].gen] = "whole"
  BY <1>0, <1>1 DEF DirAfter, MarkersAfter, LiveMarkers, TypeOK, DirState
<1>3. ASSUME NEW g \in Generations
      PROVE  /\ markers'[g] \subseteq markers[g]
             /\ g # op[p].gen =>
                   dir'[g] = dir[g] \/ (dir'[g] = "none" /\ g # pointer)
  BY <1>0, <1>1 DEF DirAfter, MarkersAfter, LiveMarkers, Candidate, TypeOK
<1>4. ASSUME NEW g \in Generations, NEW q \in alive,
             q \in markers[g], leases[q][g] > 0
      PROVE  q \in markers'[g] /\ dir'[g] \in {dir[g], "whole"}
  BY <1>0, <1>1, <1>4 DEF DirAfter, MarkersAfter, LiveMarkers, Lives, Candidate, TypeOK
<1>5. leases' = leases
  BY DEF RenameIntoPlace
<1> QED
  BY <1>2, <1>3, <1>4, <1>5 DEF Keeps, Renames

\* The two removals of one generation: of a rename that is undone, and of what a
\* worker that failed or died left.
LEMMA UndoKeeps ==
    ASSUME TypeOK, NEW p \in Process, UndoRename(p)
    PROVE  Keeps
<1>1. /\ dir' \in [Generations -> DirState]
      /\ markers' \in [Generations -> SUBSET Process]
  BY DEF UndoRename, Remove, Remnants, TypeOK, DirState, LiveMarkers
<1>2. ASSUME NEW g \in Generations
      PROVE  /\ markers'[g] \subseteq markers[g]
             /\ \A q \in alive :
                   q \in markers[g] /\ leases[q][g] > 0
                       => q \in markers'[g] /\ dir'[g] = dir[g]
  BY DEF UndoRename, Remove, Remnants, TypeOK, LiveMarkers, Lives
<1>3. leases' = leases
  BY DEF UndoRename
<1> QED
  BY <1>1, <1>2, <1>3 DEF Keeps

\* Reconciliation at a server's start keeps every generation that is read or pointed to.
LEMMA ReconcileKeeps ==
    ASSUME TypeOK, NEW s \in Servers, Reconcile(s)
    PROVE  Keeps
<1>1. /\ dir' \in [Generations -> DirState]
      /\ markers' \in [Generations -> SUBSET Process]
  BY DEF Reconcile, TypeOK, DirState, LiveMarkers
<1>2. ASSUME NEW g \in Generations
      PROVE  /\ markers'[g] \subseteq markers[g]
             /\ \A q \in alive :
                   q \in markers[g] /\ leases[q][g] > 0
                       => q \in markers'[g] /\ dir'[g] = dir[g]
  BY DEF Reconcile, TypeOK, LiveMarkers, Lives
<1>3. leases' = leases
  BY DEF Reconcile
<1> QED
  BY <1>1, <1>2, <1>3 DEF Keeps

\* The operations a step can leave a process in.
LEMMA OpValues ==
    ASSUME TypeOK, NEW p \in Process, NEW pc \in OpState
    PROVE  /\ [op[p] EXCEPT !.pc = pc] \in Op
           /\ Idle \in Op
           /\ [Idle EXCEPT !.pc = pc] \in Op
           /\ \A g \in Generations : [Idle EXCEPT !.pc = pc, !.gen = g] \in Op
<1>1. op[p] \in Op
  BY DEF TypeOK
<1>2. [op[p] EXCEPT !.pc = pc] \in Op
  BY <1>1 DEF Op
<1>3. Idle \in Op
  BY DEF Op, Idle, OpState
<1>4. [Idle EXCEPT !.pc = pc] \in Op
  BY <1>3 DEF Op
<1>5. ASSUME NEW g \in Generations
      PROVE  [Idle EXCEPT !.pc = pc, !.gen = g] \in Op
  BY <1>3 DEF Op
<1> QED
  BY <1>2, <1>3, <1>4, <1>5

\* What follows a build: a worker ends with its outcome; a server's copy goes on
\* to end its leases.
LEMMA AfterBuildIs ==
    ASSUME TypeOK, NEW p \in Process, NEW out \in {"ok", "failed"}
    PROVE  /\ AfterBuild(p, out) \in Op
           /\ AfterBuild(p, out).gen = None
           /\ p \in Workers =>
                 AfterBuild(p, out).pc = out /\ AfterBuild(p, out).src = None
                   /\ AfterBuild(p, out).n = 0
           /\ p \notin Workers /\ op[p].n > 0 =>
                 /\ AfterBuild(p, out).pc = "unlease"
                 /\ AfterBuild(p, out).src = op[p].src
                 /\ AfterBuild(p, out).n = op[p].n
           /\ p \notin Workers /\ ~(op[p].n > 0) =>
                 AfterBuild(p, out).pc = "idle" /\ AfterBuild(p, out).src = None
                   /\ AfterBuild(p, out).n = 0
<1>1. op[p] \in Op
  BY DEF TypeOK
<1>2. CASE p \in Workers
  BY <1>1, <1>2 DEF AfterBuild, Idle, Op, OpState
<1>3. CASE p \notin Workers /\ op[p].n > 0
  BY <1>1, <1>3 DEF AfterBuild, Idle, Op, OpState
<1>4. CASE p \notin Workers /\ ~(op[p].n > 0)
  BY <1>1, <1>4 DEF AfterBuild, Idle, Op, OpState
<1> QED
  BY <1>2, <1>3, <1>4

\* How a selected lease ends, with p at o: taken, and then perhaps re-encoded, or
\* not taken.
SelectedEnds(p, o) ==
    /\ op' = [op EXCEPT ![p] = o]
    /\ o.gen = None
    /\ \/ o.pc = "idle" /\ o.src = None /\ o.n = 0
       \/ /\ o.pc = "reencode" /\ o.src = op[p].gen /\ o.n = 1
          /\ pointer = op[p].gen
    /\ \/ o.pc = "idle" /\ leases' = leases /\ markers' = markers
       \/ /\ pointer = op[p].gen
          /\ leases' = [leases EXCEPT ![p][pointer] = @ + 1]
          /\ markers' = [markers EXCEPT ![pointer] = @ \cup {p}]

\* How a worker's pin ends: with a lease, or as a failure that may have tidied.
PinEnds(p, o) ==
    /\ op' = [op EXCEPT ![p] = o]
    /\ o.gen = None /\ o.src = None /\ o.n = 0
    /\ \/ /\ o.pc = "idle"
          /\ dir[op[p].gen] = "whole"
          /\ dir' = dir
          /\ leases' = [leases EXCEPT ![p][op[p].gen] = @ + 1]
          /\ markers' = [markers EXCEPT ![op[p].gen] = @ \cup {p}]
       \/ o.pc = "failed" /\ leases' = leases /\ Keeps /\ Tidies(p)

\* lease ends in one of those ways.
LEMMA LeaseSelectedIs ==
    ASSUME TypeOK, NEW p \in Process, LeaseSelected(p)
    PROVE  \E o \in Op : SelectedEnds(p, o)
<1> DEFINE Copying == [pc |-> "reencode", gen |-> None, src |-> op[p].gen, n |-> 1]
<1>1. op[p].gen \in Generations \cup {None}
  BY DEF TypeOK, Op
<1>2. Idle \in Op /\ Copying \in Op
  BY <1>1 DEF Idle, Op, OpState
<1>3. CASE pointer = op[p].gen /\ dir[op[p].gen] # "none" /\ op[p].gen = OldGeneration
  <2>1. op' = [op EXCEPT ![p] = Copying]
    BY <1>3 DEF LeaseSelected, SetOp, Idle
  <2>2. SelectedEnds(p, Copying)
    BY <1>3, <2>1 DEF LeaseSelected, TakeLease, SelectedEnds
  <2> QED
    BY <1>2, <2>2
<1>4. CASE pointer = op[p].gen /\ dir[op[p].gen] # "none" /\ op[p].gen # OldGeneration
  <2>1. SelectedEnds(p, Idle)
    BY <1>4 DEF LeaseSelected, SetOp, TakeLease, SelectedEnds, Idle
  <2> QED
    BY <1>2, <2>1
<1>5. CASE ~(pointer = op[p].gen /\ dir[op[p].gen] # "none")
  <2>1. SelectedEnds(p, Idle)
    BY <1>5 DEF LeaseSelected, SetOp, SelectedEnds, Idle
  <2> QED
    BY <1>2, <2>1
<1> QED
  BY <1>3, <1>4, <1>5

\* lease_generation ends in one of those ways.
LEMMA PinGenerationIs ==
    ASSUME TypeOK, NEW p \in Process, PinGeneration(p)
    PROVE  \E o \in Op : PinEnds(p, o)
<1> DEFINE Failed == [Idle EXCEPT !.pc = "failed"]
<1>1. Idle \in Op /\ Failed \in Op
  BY DEF Idle, Op, OpState
<1>2. CASE dir[op[p].gen] = "whole"
  <2>1. PinEnds(p, Idle)
    BY <1>2 DEF PinGeneration, SetOp, TakeLease, PinEnds, Idle
  <2> QED
    BY <1>1, <2>1
<1>3. CASE dir[op[p].gen] # "whole"
  <2>1. Tidies(p) /\ Keeps
    BY <1>3, PinFailureTidies, TidiesKeeps
  <2>2. PinEnds(p, Failed)
    BY <1>3, <2>1 DEF PinGeneration, SetOp, PinEnds, Idle
  <2> QED
    BY <1>1, <2>2
<1> QED
  BY <1>2, <1>3

\* A step that keeps and leases nothing new leaves what is leased whole.
LEMMA KeepsLeased ==
    ASSUME LeaseIsMarked, LeasedIsWhole, Keeps, alive' \subseteq alive,
           \A q \in alive, g \in Generations : leases'[q][g] > 0 => leases[q][g] > 0
    PROVE  LeasedIsWhole'
  BY DEF LeaseIsMarked, LeasedIsWhole, Keeps

\* A lease that ends leaves its process with no more leases.
LEMMA EndLeaseCounts ==
    ASSUME TypeOK, NEW p \in Process, NEW g \in Generations, NEW n \in Nat,
           EndLease(p, g, n), NEW q \in Process, NEW h \in Generations,
           leases'[q][h] > 0
    PROVE  leases[q][h] > 0
<1>1. leases' = [leases EXCEPT ![p][g] = leases[p][g] - n]
  BY DEF EndLease
<1>2. leases[p][g] \in Nat
  BY DEF TypeOK
<1> QED
  BY <1>1, <1>2 DEF TypeOK

\* Workers stay workers.
LEMMA RolesStep ==
    ASSUME TypeOK, Roles, Next
    PROVE  Roles'
<1>1. ASSUME NEW p \in Process, SelectCurrent(p)
      PROVE  Roles'
  BY <1>1, StoreAssumption DEF SelectCurrent, Free, Running, SetOp, Idle, Roles,
     TypeOK, Op, Process
<1>2. ASSUME NEW p \in Process, LeaseSelected(p)
      PROVE  Roles'
  <2>1. PICK o \in Op : SelectedEnds(p, o)
    BY <1>2, LeaseSelectedIs
  <2> QED
    BY <1>2, <2>1, StoreAssumption DEF SelectedEnds, LeaseSelected, At, Running,
       Roles, TypeOK, Op, Process
<1>3. ASSUME NEW p \in Process, OpenOld(p)
      PROVE  Roles'
  BY <1>3, StoreAssumption DEF OpenOld, Free, Running, SetOp, Idle, Roles,
     TypeOK, Op, Process
<1>4. ASSUME NEW p \in Process, PinGeneration(p)
      PROVE  Roles'
  <2>1. PICK o \in Op : PinEnds(p, o)
    BY <1>4, PinGenerationIs
  <2> QED
    BY <1>4, <2>1, StoreAssumption DEF PinEnds, PinGeneration, At, Running,
       Roles, TypeOK, Op, Process
<1>5. ASSUME NEW p \in Process, NEW g \in Generations, Release(p, g)
      PROVE  Roles'
  BY <1>5, StoreAssumption DEF Release, Free, Running, Roles, TypeOK, Op,
     Process
<1>6. ASSUME NEW p \in Process, NEW g \in Generations, BuildInput(p, g)
      PROVE  Roles'
  BY <1>6, StoreAssumption DEF BuildInput, Free, Building, Fresh, Running,
     SetOp, Idle, Roles, TypeOK, Op, Process
<1>7. ASSUME NEW p \in Process, NEW g \in Generations, StartCopy(p, g)
      PROVE  Roles'
  BY <1>7, StoreAssumption DEF StartCopy, At, TakeLease, Building, Fresh,
     Running, SetOp, Idle, Roles, TypeOK, Op, Process
<1>8. ASSUME NEW p \in Process, SkipCopy(p)
      PROVE  Roles'
  BY <1>8, StoreAssumption DEF SkipCopy, At, Running, SetOp, Idle, Roles,
     TypeOK, Op, Process
<1>9. ASSUME NEW p \in Process, BuildFails(p)
      PROVE  Roles'
  BY <1>9, StoreAssumption, AfterBuildIs DEF BuildFails, Remove, Remnants, At, Exit, Running,
     SetOp, Idle, Roles, TypeOK, Op, Process
<1>10. ASSUME NEW p \in Process, Superseded(p)
      PROVE  Roles'
  BY <1>10, StoreAssumption, AfterBuildIs DEF Superseded, Remove, Remnants, At, Running, SetOp,
     Idle, Roles, TypeOK, Op, Process
<1>11. ASSUME NEW p \in Process, RenameIntoPlace(p)
      PROVE  Roles'
  BY <1>11, StoreAssumption DEF RenameIntoPlace, At, StillReplaces, Running,
     SetOp, Idle, Roles, TypeOK, Op, Process
<1>12. ASSUME NEW p \in Process, MovePointer(p)
      PROVE  Roles'
  BY <1>12, StoreAssumption DEF MovePointer, At, Running, SetOp, Idle, Roles,
     TypeOK, Op, Process
<1>13. ASSUME NEW p \in Process, Answer(p)
      PROVE  Roles'
  BY <1>13, StoreAssumption, AfterBuildIs DEF Answer, At, Exit, Running, SetOp,
     Idle, Roles, TypeOK, Op, Process
<1>14. ASSUME NEW p \in Process, RetireAfterBuild(p)
      PROVE  Roles'
  BY <1>14, StoreAssumption, AfterBuildIs DEF RetireAfterBuild, At, Running,
     SetOp, Idle, Roles, TypeOK, Op, Process
<1>15. ASSUME NEW p \in Process, PointerWriteFails(p)
      PROVE  Roles'
  BY <1>15, StoreAssumption DEF PointerWriteFails, At, Running, SetOp, Idle,
     Roles, TypeOK, Op, Process
<1>16. ASSUME NEW p \in Process, UndoRename(p)
      PROVE  Roles'
  BY <1>16, StoreAssumption, AfterBuildIs DEF UndoRename, Remove, Remnants, At, Exit, Running,
     SetOp, Idle, Roles, TypeOK, Op, Process
<1>17. ASSUME NEW p \in Process, EndCopy(p)
      PROVE  Roles'
  BY <1>17, StoreAssumption DEF EndCopy, At, Running, SetOp, Idle, Roles,
     TypeOK, Op, Process
<1>18. ASSUME NEW p \in Process, Clear(p)
      PROVE  Roles'
  BY <1>18, StoreAssumption DEF Clear, Free, Running, Roles, TypeOK, Op, Process
<1>19. ASSUME NEW p \in Process, StartStaging(p)
      PROVE  Roles'
  BY <1>19, StoreAssumption DEF StartStaging, At, Building, Running, SetOp,
     Idle, Roles, TypeOK, Op, Process
<1>20. ASSUME NEW p \in Process, ReuseCurrent(p)
      PROVE  Roles'
  BY <1>20, StoreAssumption DEF ReuseCurrent, At, Exit, Running, SetOp, Idle,
     Roles, TypeOK, Op, Process
<1>21. ASSUME NEW p \in Process, Die(p)
      PROVE  Roles'
  BY <1>21, StoreAssumption DEF Die, Running, SetOp, Idle, Roles, TypeOK, Op,
     Process
<1>22. ASSUME NEW s \in Servers, NEW w \in Workers, NEW g \in Generations,
   SpawnBuild(s, w, g)
      PROVE  Roles'
  BY <1>22, StoreAssumption DEF SpawnBuild, Fresh, Running, SetOp, Idle, Roles,
     TypeOK, Op, Process
<1>23. ASSUME NEW s \in Servers, NEW w \in Workers, NEW g \in Generations,
   SpawnReader(s, w, g)
      PROVE  Roles'
  BY <1>23, StoreAssumption DEF SpawnReader, Free, Running, SetOp, Idle, Roles,
     TypeOK, Op, Process
<1>24. ASSUME NEW s \in Servers, ReaderEnds(s)
      PROVE  Roles'
  BY <1>24, StoreAssumption DEF ReaderEnds, Running, Roles, TypeOK, Op, Process
<1>25. ASSUME NEW s \in Servers, SettlePublished(s)
      PROVE  Roles'
  BY <1>25, StoreAssumption DEF SettlePublished, Free, Ended, Running, Roles,
     TypeOK, Op, Process
<1>26. ASSUME NEW s \in Servers, Reconcile(s)
      PROVE  Roles'
  BY <1>26, StoreAssumption DEF Reconcile, Free, Ended, Unpublished, Running,
     SetOp, Idle, Roles, TypeOK, Op, Process
<1>27. ASSUME NEW s \in Servers, EndReconcile(s)
      PROVE  Roles'
  BY <1>27, StoreAssumption DEF EndReconcile, At, Running, SetOp, Idle, Roles,
     TypeOK, Op, Process
<1> QED
  BY <1>1, <1>2, <1>3, <1>4, <1>5, <1>6, <1>7, <1>8, <1>9, <1>10, <1>11, <1>12,
     <1>13, <1>14, <1>15, <1>16, <1>17, <1>18, <1>19, <1>20, <1>21, <1>22,
     <1>23, <1>24, <1>25, <1>26, <1>27 DEF Next, Leasing, Publishing,
     Supervising

\* The lock and the operation that holds it change together.
LEMMA LockStep ==
    ASSUME TypeOK, LockIsHeld, Next
    PROVE  LockIsHeld'
<1>1. ASSUME NEW p \in Process, SelectCurrent(p)
      PROVE  LockIsHeld'
  BY <1>1, StoreAssumption DEF SelectCurrent, Free, Running, SetOp, Idle,
     LockIsHeld, LockPC, TypeOK, Op, Process
<1>2. ASSUME NEW p \in Process, LeaseSelected(p)
      PROVE  LockIsHeld'
  <2>1. PICK o \in Op : SelectedEnds(p, o)
    BY <1>2, LeaseSelectedIs
  <2> QED
    BY <1>2, <2>1, StoreAssumption DEF SelectedEnds, LeaseSelected, At, Running,
       LockIsHeld, LockPC, TypeOK, Op, Process
<1>3. ASSUME NEW p \in Process, OpenOld(p)
      PROVE  LockIsHeld'
  BY <1>3, StoreAssumption DEF OpenOld, Free, Running, SetOp, Idle, LockIsHeld,
     LockPC, TypeOK, Op, Process
<1>4. ASSUME NEW p \in Process, PinGeneration(p)
      PROVE  LockIsHeld'
  <2>1. PICK o \in Op : PinEnds(p, o)
    BY <1>4, PinGenerationIs
  <2> QED
    BY <1>4, <2>1, StoreAssumption DEF PinEnds, PinGeneration, At, Running,
       LockIsHeld, LockPC, TypeOK, Op, Process
<1>5. ASSUME NEW p \in Process, NEW g \in Generations, Release(p, g)
      PROVE  LockIsHeld'
  BY <1>5, StoreAssumption DEF Release, Free, Running, LockIsHeld, LockPC,
     TypeOK, Op, Process
<1>6. ASSUME NEW p \in Process, NEW g \in Generations, BuildInput(p, g)
      PROVE  LockIsHeld'
  BY <1>6, StoreAssumption DEF BuildInput, Free, Building, Fresh, Running,
     SetOp, Idle, LockIsHeld, LockPC, TypeOK, Op, Process
<1>7. ASSUME NEW p \in Process, NEW g \in Generations, StartCopy(p, g)
      PROVE  LockIsHeld'
  BY <1>7, StoreAssumption DEF StartCopy, At, TakeLease, Building, Fresh,
     Running, SetOp, Idle, LockIsHeld, LockPC, TypeOK, Op, Process
<1>8. ASSUME NEW p \in Process, SkipCopy(p)
      PROVE  LockIsHeld'
  BY <1>8, StoreAssumption DEF SkipCopy, At, Running, SetOp, Idle, LockIsHeld,
     LockPC, TypeOK, Op, Process
<1>9. ASSUME NEW p \in Process, BuildFails(p)
      PROVE  LockIsHeld'
  BY <1>9, StoreAssumption, AfterBuildIs DEF BuildFails, Remove, Remnants, At, Exit, Running,
     SetOp, Idle, LockIsHeld, LockPC, TypeOK, Op, Process
<1>10. ASSUME NEW p \in Process, Superseded(p)
      PROVE  LockIsHeld'
  BY <1>10, StoreAssumption, AfterBuildIs DEF Superseded, Remove, Remnants, At, Running, SetOp,
     Idle, LockIsHeld, LockPC, TypeOK, Op, Process
<1>11. ASSUME NEW p \in Process, RenameIntoPlace(p)
      PROVE  LockIsHeld'
  BY <1>11, StoreAssumption DEF RenameIntoPlace, At, StillReplaces, Running,
     SetOp, Idle, LockIsHeld, LockPC, TypeOK, Op, Process
<1>12. ASSUME NEW p \in Process, MovePointer(p)
      PROVE  LockIsHeld'
  BY <1>12, StoreAssumption DEF MovePointer, At, Running, SetOp, Idle,
     LockIsHeld, LockPC, TypeOK, Op, Process
<1>13. ASSUME NEW p \in Process, Answer(p)
      PROVE  LockIsHeld'
  BY <1>13, StoreAssumption, AfterBuildIs DEF Answer, At, Exit, Running, SetOp,
     Idle, LockIsHeld, LockPC, TypeOK, Op, Process
<1>14. ASSUME NEW p \in Process, RetireAfterBuild(p)
      PROVE  LockIsHeld'
  BY <1>14, StoreAssumption, AfterBuildIs DEF RetireAfterBuild, At, Running,
     SetOp, Idle, LockIsHeld, LockPC, TypeOK, Op, Process
<1>15. ASSUME NEW p \in Process, PointerWriteFails(p)
      PROVE  LockIsHeld'
  BY <1>15, StoreAssumption DEF PointerWriteFails, At, Running, SetOp, Idle,
     LockIsHeld, LockPC, TypeOK, Op, Process
<1>16. ASSUME NEW p \in Process, UndoRename(p)
      PROVE  LockIsHeld'
  BY <1>16, StoreAssumption, AfterBuildIs DEF UndoRename, Remove, Remnants, At, Exit, Running,
     SetOp, Idle, LockIsHeld, LockPC, TypeOK, Op, Process
<1>17. ASSUME NEW p \in Process, EndCopy(p)
      PROVE  LockIsHeld'
  BY <1>17, StoreAssumption DEF EndCopy, At, Running, SetOp, Idle, LockIsHeld,
     LockPC, TypeOK, Op, Process
<1>18. ASSUME NEW p \in Process, Clear(p)
      PROVE  LockIsHeld'
  BY <1>18, StoreAssumption DEF Clear, Free, Running, LockIsHeld, LockPC,
     TypeOK, Op, Process
<1>19. ASSUME NEW p \in Process, StartStaging(p)
      PROVE  LockIsHeld'
  BY <1>19, StoreAssumption DEF StartStaging, At, Building, Running, SetOp,
     Idle, LockIsHeld, LockPC, TypeOK, Op, Process
<1>20. ASSUME NEW p \in Process, ReuseCurrent(p)
      PROVE  LockIsHeld'
  BY <1>20, StoreAssumption DEF ReuseCurrent, At, Exit, Running, SetOp, Idle,
     LockIsHeld, LockPC, TypeOK, Op, Process
<1>21. ASSUME NEW p \in Process, Die(p)
      PROVE  LockIsHeld'
  BY <1>21, StoreAssumption DEF Die, Running, SetOp, Idle, LockIsHeld, LockPC,
     TypeOK, Op, Process
<1>22. ASSUME NEW s \in Servers, NEW w \in Workers, NEW g \in Generations,
   SpawnBuild(s, w, g)
      PROVE  LockIsHeld'
  BY <1>22, StoreAssumption DEF SpawnBuild, Fresh, Running, SetOp, Idle,
     LockIsHeld, LockPC, TypeOK, Op, Process
<1>23. ASSUME NEW s \in Servers, NEW w \in Workers, NEW g \in Generations,
   SpawnReader(s, w, g)
      PROVE  LockIsHeld'
  BY <1>23, StoreAssumption DEF SpawnReader, Free, Running, SetOp, Idle,
     LockIsHeld, LockPC, TypeOK, Op, Process
<1>24. ASSUME NEW s \in Servers, ReaderEnds(s)
      PROVE  LockIsHeld'
  BY <1>24, StoreAssumption DEF ReaderEnds, Running, LockIsHeld, LockPC, TypeOK,
     Op, Process
<1>25. ASSUME NEW s \in Servers, SettlePublished(s)
      PROVE  LockIsHeld'
  BY <1>25, StoreAssumption DEF SettlePublished, Free, Ended, Running,
     LockIsHeld, LockPC, TypeOK, Op, Process
<1>26. ASSUME NEW s \in Servers, Reconcile(s)
      PROVE  LockIsHeld'
  BY <1>26, StoreAssumption DEF Reconcile, Free, Ended, Unpublished, Running,
     SetOp, Idle, LockIsHeld, LockPC, TypeOK, Op, Process
<1>27. ASSUME NEW s \in Servers, EndReconcile(s)
      PROVE  LockIsHeld'
  BY <1>27, StoreAssumption DEF EndReconcile, At, Running, SetOp, Idle,
     LockIsHeld, LockPC, TypeOK, Op, Process
<1> QED
  BY <1>1, <1>2, <1>3, <1>4, <1>5, <1>6, <1>7, <1>8, <1>9, <1>10, <1>11, <1>12,
     <1>13, <1>14, <1>15, <1>16, <1>17, <1>18, <1>19, <1>20, <1>21, <1>22,
     <1>23, <1>24, <1>25, <1>26, <1>27 DEF Next, Leasing, Publishing,
     Supervising

\* The types.
LEMMA TypeStep ==
    ASSUME TypeOK, Roles, CopyHolds, BuildIsPrivate, NamedIsPublished,
       SettledIsStill, Next
    PROVE  TypeOK'
<1>1. ASSUME NEW p \in Process, SelectCurrent(p)
      PROVE  TypeOK'
  BY <1>1, StoreAssumption DEF SelectCurrent, Free, Running, SetOp, Idle,
     TypeOK, Op, OpState, DirState, Sup, SupState, Process, CopyHolds,
     NamedIsPublished
<1>2. ASSUME NEW p \in Process, LeaseSelected(p)
      PROVE  TypeOK'
  <2>1. PICK o \in Op : SelectedEnds(p, o)
    BY <1>2, LeaseSelectedIs
  <2>2. op' \in [Process -> Op]
    BY <2>1 DEF SelectedEnds, TypeOK
  <2>3. op[p].gen \in Generations
    BY <1>2 DEF LeaseSelected, At, Running, NamedIsPublished, TypeOK
  <2>4. leases' \in [Process -> [Generations -> Nat]]
    <3>1. \A g \in Generations :
            [leases[p] EXCEPT ![g] = @ + 1] \in [Generations -> Nat]
      BY DEF TypeOK
    <3> QED
      BY <2>1, <2>3, <3>1 DEF SelectedEnds, TypeOK
  <2>5. markers' \in [Generations -> SUBSET Process]
    BY <2>1, <2>3 DEF SelectedEnds, TypeOK
  <2> QED
    BY <1>2, <2>2, <2>4, <2>5 DEF LeaseSelected, TypeOK
<1>3. ASSUME NEW p \in Process, OpenOld(p)
      PROVE  TypeOK'
  BY <1>3, StoreAssumption DEF OpenOld, Free, Running, SetOp, Idle, TypeOK, Op,
     OpState, DirState, Sup, SupState, Process, CopyHolds, NamedIsPublished
<1>4. ASSUME NEW p \in Process, PinGeneration(p)
      PROVE  TypeOK'
  <2>1. PICK o \in Op : PinEnds(p, o)
    BY <1>4, PinGenerationIs
  <2>2. op' \in [Process -> Op]
    BY <2>1 DEF PinEnds, TypeOK
  <2>3. op[p].gen \in Generations
    BY <1>4 DEF PinGeneration, At, Running, NamedIsPublished, TypeOK
  <2>4. leases' \in [Process -> [Generations -> Nat]]
    BY <2>1, <2>3 DEF PinEnds, TypeOK
  <2>5. /\ dir' \in [Generations -> DirState]
        /\ markers' \in [Generations -> SUBSET Process]
    BY <2>1, <2>3 DEF PinEnds, Keeps, TypeOK
  <2> QED
    BY <1>4, <2>2, <2>4, <2>5 DEF PinGeneration, TypeOK
<1>5. ASSUME NEW p \in Process, NEW g \in Generations, Release(p, g)
      PROVE  TypeOK'
  <2>1. Keeps
    BY <1>5, ReleaseTidies, TidiesKeeps
  <2>2. op' \in [Process -> Op]
    BY <1>5 DEF Release, Free, Running, SetOp, Idle, TypeOK, Op, OpState,
       CopyHolds, Process
  <2>3. leases' \in [Process -> [Generations -> Nat]] /\ sup' \in [Servers -> Sup]
    BY <1>5 DEF Release, Free, Running, EndLease, CopyHolds, TypeOK, Op, Sup,
       SupState, Unsupervised
  <2> QED
    BY <1>5, <2>1, <2>2, <2>3 DEF Release, Free, Running, Keeps, TypeOK, Process
<1>6. ASSUME NEW p \in Process, NEW g \in Generations, BuildInput(p, g)
      PROVE  TypeOK'
  BY <1>6, StoreAssumption DEF BuildInput, Free, Building, Fresh, Running,
     SetOp, Idle, TypeOK, Op, OpState, DirState, Sup, SupState, Process,
     CopyHolds, NamedIsPublished
<1>7. ASSUME NEW p \in Process, NEW g \in Generations, StartCopy(p, g)
      PROVE  TypeOK'
  <2>1. dir' \in [Generations -> DirState] /\ markers' \in [Generations -> SUBSET Process]
    BY <1>7 DEF StartCopy, At, TakeLease, Building, Fresh, Running, TypeOK,
       DirState, Process
  <2>2. op' \in [Process -> Op]
    BY <1>7 DEF StartCopy, At, TakeLease, Building, Fresh, Running, SetOp, Idle,
       TypeOK, Op, OpState, CopyHolds, Process
  <2>3. leases' \in [Process -> [Generations -> Nat]] /\ sup' \in [Servers -> Sup]
    BY <1>7 DEF StartCopy, At, TakeLease, Building, Fresh, Running, EndLease,
       CopyHolds, TypeOK, Op, Sup, SupState, Unsupervised
  <2> QED
    BY <1>7, <2>1, <2>2, <2>3 DEF StartCopy, At, TakeLease, Building, Fresh,
       Running, Keeps, TypeOK, Process
<1>8. ASSUME NEW p \in Process, SkipCopy(p)
      PROVE  TypeOK'
  <2>1. dir' \in [Generations -> DirState] /\ markers' \in [Generations -> SUBSET Process]
    BY <1>8 DEF SkipCopy, At, Running, TypeOK, DirState, Process
  <2>2. op' \in [Process -> Op]
    <3>1. Idle \in Op /\ [op[p] EXCEPT !.pc = "unlease"] \in Op
      BY OpValues DEF OpState
    <3> QED
      BY <1>8, <3>1 DEF SkipCopy, SetOp, TypeOK
  <2>3. leases' \in [Process -> [Generations -> Nat]] /\ sup' \in [Servers -> Sup]
    BY <1>8 DEF SkipCopy, At, Running, EndLease, CopyHolds, TypeOK, Op, Sup,
       SupState, Unsupervised
  <2> QED
    BY <1>8, <2>1, <2>2, <2>3 DEF SkipCopy, At, Running, Keeps, TypeOK, Process
<1>9. ASSUME NEW p \in Process, BuildFails(p)
      PROVE  TypeOK'
  <2>1. dir' \in [Generations -> DirState]
    BY <1>9 DEF BuildFails, Remove, Remnants, TypeOK, DirState
  <2> QED
    BY <1>9, <2>1, StoreAssumption, AfterBuildIs DEF BuildFails, At, Exit, Running,
       SetOp, Idle, TypeOK, Op, OpState, Sup, SupState, Process, CopyHolds,
       NamedIsPublished
<1>10. ASSUME NEW p \in Process, Superseded(p)
      PROVE  TypeOK'
  <2>1. dir' \in [Generations -> DirState]
    BY <1>10 DEF Superseded, Remove, Remnants, TypeOK, DirState
  <2> QED
    BY <1>10, <2>1, StoreAssumption, AfterBuildIs DEF Superseded, At, Running, SetOp,
       Idle, TypeOK, Op, OpState, Sup, SupState, Process, CopyHolds,
       NamedIsPublished
<1>11. ASSUME NEW p \in Process, RenameIntoPlace(p)
      PROVE  TypeOK'
  <2>1. Keeps
    BY <1>11, RenameTidies
  <2>2. op' \in [Process -> Op]
    <3>1. [op[p] EXCEPT !.pc = "renamed"] \in Op
      BY OpValues DEF OpState
    <3> QED
      BY <1>11, <3>1 DEF RenameIntoPlace, SetOp, TypeOK
  <2>3. leases' \in [Process -> [Generations -> Nat]] /\ sup' \in [Servers -> Sup]
    BY <1>11 DEF RenameIntoPlace, At, StillReplaces, Running, EndLease,
       CopyHolds, TypeOK, Op, Sup, SupState, Unsupervised
  <2> QED
    BY <1>11, <2>1, <2>2, <2>3 DEF RenameIntoPlace, At, StillReplaces, Running,
       Keeps, TypeOK, Process
<1>12. ASSUME NEW p \in Process, MovePointer(p)
      PROVE  TypeOK'
  <2>1. dir' \in [Generations -> DirState] /\ markers' \in [Generations -> SUBSET Process]
    BY <1>12 DEF MovePointer, At, Running, BuildIsPrivate, BuildPC, TypeOK,
       DirState, Process
  <2>2. op' \in [Process -> Op]
    <3>1. [op[p] EXCEPT !.pc = "answer"] \in Op /\ [op[p] EXCEPT !.pc = "retire"] \in Op
      BY OpValues DEF OpState
    <3> QED
      BY <1>12, <3>1 DEF MovePointer, SetOp, TypeOK
  <2>3. leases' \in [Process -> [Generations -> Nat]] /\ sup' \in [Servers -> Sup]
    BY <1>12 DEF MovePointer, At, Running, BuildIsPrivate, BuildPC, EndLease,
       CopyHolds, TypeOK, Op, Sup, SupState, Unsupervised
  <2> QED
    BY <1>12, <2>1, <2>2, <2>3 DEF MovePointer, At, Running, BuildIsPrivate,
       BuildPC, Keeps, TypeOK, Process
<1>13. ASSUME NEW p \in Process, Answer(p)
      PROVE  TypeOK'
  BY <1>13, StoreAssumption, AfterBuildIs DEF Answer, At, Exit, Running, SetOp,
     Idle, TypeOK, Op, OpState, DirState, Sup, SupState, Process, CopyHolds,
     NamedIsPublished
<1>14. ASSUME NEW p \in Process, RetireAfterBuild(p)
      PROVE  TypeOK'
  <2>1. Keeps
    BY <1>14, RetireAfterBuildTidies, TidiesKeeps
  <2> QED
    BY <1>14, <2>1, StoreAssumption, AfterBuildIs DEF RetireAfterBuild, At,
       Running, SetOp, Idle, TypeOK, Op, OpState, DirState, Sup, SupState,
       Process, CopyHolds, NamedIsPublished, Keeps
<1>15. ASSUME NEW p \in Process, PointerWriteFails(p)
      PROVE  TypeOK'
  <2>1. dir' \in [Generations -> DirState] /\ markers' \in [Generations -> SUBSET Process]
    BY <1>15 DEF PointerWriteFails, At, Running, TypeOK, DirState, Process
  <2>2. op' \in [Process -> Op]
    <3>1. [op[p] EXCEPT !.pc = "undo"] \in Op
      BY OpValues DEF OpState
    <3> QED
      BY <1>15, <3>1 DEF PointerWriteFails, SetOp, TypeOK
  <2>3. leases' \in [Process -> [Generations -> Nat]] /\ sup' \in [Servers -> Sup]
    BY <1>15 DEF PointerWriteFails, At, Running, EndLease, CopyHolds, TypeOK, Op,
       Sup, SupState, Unsupervised
  <2> QED
    BY <1>15, <2>1, <2>2, <2>3 DEF PointerWriteFails, At, Running, Keeps, TypeOK,
       Process
<1>16. ASSUME NEW p \in Process, UndoRename(p)
      PROVE  TypeOK'
  <2>1. Keeps
    BY <1>16, UndoKeeps
  <2>2. op' \in [Process -> Op]
    BY <1>16, AfterBuildIs DEF UndoRename, Remove, Remnants, At, Exit, Running, SetOp, Idle,
       TypeOK, Op, OpState, CopyHolds, Process
  <2>3. leases' \in [Process -> [Generations -> Nat]] /\ sup' \in [Servers -> Sup]
    BY <1>16 DEF UndoRename, Remove, Remnants, At, Exit, Running, EndLease, CopyHolds, TypeOK, Op,
       Sup, SupState, Unsupervised
  <2> QED
    BY <1>16, <2>1, <2>2, <2>3 DEF UndoRename, Remove, Remnants, At, Exit, Running, Keeps, TypeOK,
       Process
<1>17. ASSUME NEW p \in Process, EndCopy(p)
      PROVE  TypeOK'
  <2>1. Keeps
    BY <1>17, EndCopyTidies, TidiesKeeps
  <2>2. op' \in [Process -> Op]
    BY <1>17 DEF EndCopy, At, Running, SetOp, Idle, TypeOK, Op, OpState,
       CopyHolds, Process
  <2>3. leases' \in [Process -> [Generations -> Nat]] /\ sup' \in [Servers -> Sup]
    BY <1>17 DEF EndCopy, At, Running, EndLease, CopyHolds, TypeOK, Op, Sup,
       SupState, Unsupervised
  <2> QED
    BY <1>17, <2>1, <2>2, <2>3 DEF EndCopy, At, Running, Keeps, TypeOK, Process
<1>18. ASSUME NEW p \in Process, Clear(p)
      PROVE  TypeOK'
  <2>1. Keeps
    BY <1>18, ClearTidies, TidiesKeeps
  <2> QED
    BY <1>18, <2>1, StoreAssumption DEF Clear, Free, Running, TypeOK, Op,
       OpState, DirState, Sup, SupState, Process, CopyHolds, NamedIsPublished,
       Keeps
<1>19. ASSUME NEW p \in Process, StartStaging(p)
      PROVE  TypeOK'
  <2>1. dir' \in [Generations -> DirState] /\ markers' \in [Generations -> SUBSET Process]
    BY <1>19 DEF StartStaging, At, Building, Running, TypeOK, DirState, Process
  <2>2. op' \in [Process -> Op]
    BY <1>19 DEF StartStaging, At, Building, Running, SetOp, Idle, TypeOK, Op,
       OpState, CopyHolds, Process
  <2>3. leases' \in [Process -> [Generations -> Nat]] /\ sup' \in [Servers -> Sup]
    BY <1>19 DEF StartStaging, At, Building, Running, EndLease, CopyHolds,
       TypeOK, Op, Sup, SupState, Unsupervised
  <2> QED
    BY <1>19, <2>1, <2>2, <2>3 DEF StartStaging, At, Building, Running, Keeps,
       TypeOK, Process
<1>20. ASSUME NEW p \in Process, ReuseCurrent(p)
      PROVE  TypeOK'
  BY <1>20, StoreAssumption DEF ReuseCurrent, At, Exit, Running, SetOp, Idle,
     TypeOK, Op, OpState, DirState, Sup, SupState, Process, CopyHolds,
     NamedIsPublished
<1>21. ASSUME NEW p \in Process, Die(p)
      PROVE  TypeOK'
  BY <1>21, StoreAssumption DEF Die, Running, SetOp, Idle, TypeOK, Op, OpState,
     DirState, Sup, SupState, Process, CopyHolds, NamedIsPublished
<1>22. ASSUME NEW s \in Servers, NEW w \in Workers, NEW g \in Generations,
   SpawnBuild(s, w, g)
      PROVE  TypeOK'
  BY <1>22, StoreAssumption DEF SpawnBuild, Fresh, Running, SetOp, Idle, TypeOK,
     Op, OpState, DirState, Sup, SupState, Process, CopyHolds, NamedIsPublished
<1>23. ASSUME NEW s \in Servers, NEW w \in Workers, NEW g \in Generations,
   SpawnReader(s, w, g)
      PROVE  TypeOK'
  BY <1>23, StoreAssumption DEF SpawnReader, Free, Running, SetOp, Idle, TypeOK,
     Op, OpState, DirState, Sup, SupState, Process, CopyHolds, NamedIsPublished
<1>24. ASSUME NEW s \in Servers, ReaderEnds(s)
      PROVE  TypeOK'
  <2>1. dir' \in [Generations -> DirState] /\ markers' \in [Generations -> SUBSET Process]
    BY <1>24 DEF ReaderEnds, Running, TypeOK, DirState, Process
  <2>2. op' \in [Process -> Op]
    BY <1>24 DEF ReaderEnds, Running, SetOp, Idle, TypeOK, Op, OpState,
       CopyHolds, Process
  <2>3. leases' \in [Process -> [Generations -> Nat]] /\ sup' \in [Servers -> Sup]
    BY <1>24 DEF ReaderEnds, Running, EndLease, CopyHolds, TypeOK, Op, Sup,
       SupState, Unsupervised
  <2> QED
    BY <1>24, <2>1, <2>2, <2>3 DEF ReaderEnds, Running, Keeps, TypeOK, Process
<1>25. ASSUME NEW s \in Servers, SettlePublished(s)
      PROVE  TypeOK'
  <2>1. Keeps
    BY <1>25, SettlePublishedTidies, TidiesKeeps
  <2>2. op' \in [Process -> Op]
    BY <1>25 DEF SettlePublished, Free, Ended, Running, SetOp, Idle, TypeOK, Op,
       OpState, CopyHolds, Process
  <2>3. leases' \in [Process -> [Generations -> Nat]] /\ sup' \in [Servers -> Sup]
    BY <1>25 DEF SettlePublished, Free, Ended, Running, EndLease, CopyHolds,
       TypeOK, Op, Sup, SupState, Unsupervised
  <2> QED
    BY <1>25, <2>1, <2>2, <2>3 DEF SettlePublished, Free, Ended, Running, Keeps,
       TypeOK, Process
<1>26. ASSUME NEW s \in Servers, Reconcile(s)
      PROVE  TypeOK'
  <2>1. Keeps
    BY <1>26, ReconcileKeeps
  <2>2. op' \in [Process -> Op]
    <3>1. sup[s].gen \in Generations
      BY <1>26 DEF Reconcile, SettledIsStill, TypeOK, Sup
    <3>2. [Idle EXCEPT !.pc = "removing", !.gen = sup[s].gen] \in Op
      BY <3>1, OpValues DEF OpState, Process
    <3> QED
      BY <1>26, <3>2 DEF Reconcile, SetOp, TypeOK, Process
  <2>3. leases' \in [Process -> [Generations -> Nat]] /\ sup' \in [Servers -> Sup]
    BY <1>26 DEF Reconcile, Free, Ended, Unpublished, Running, EndLease,
       CopyHolds, TypeOK, Op, Sup, SupState, Unsupervised
  <2> QED
    BY <1>26, <2>1, <2>2, <2>3 DEF Reconcile, Free, Ended, Unpublished, Running,
       Keeps, TypeOK, Process
<1>27. ASSUME NEW s \in Servers, EndReconcile(s)
      PROVE  TypeOK'
  <2>1. dir' \in [Generations -> DirState] /\ lock' \in Process \cup {None}
    BY <1>27 DEF EndReconcile, Removed, TypeOK, DirState
  <2>2. op' \in [Process -> Op]
    BY <1>27, OpValues DEF EndReconcile, SetOp, TypeOK, Process, OpState
  <2>3. [sup[s] EXCEPT !.pc = "failed"] \in Sup /\ [sup[s] EXCEPT !.pc = "unremovable"] \in Sup
    BY DEF TypeOK, Sup, SupState
  <2>4. sup' \in [Servers -> Sup]
    BY <1>27, <2>3 DEF EndReconcile, TypeOK
  <2> QED
    BY <1>27, <2>1, <2>2, <2>4 DEF EndReconcile, TypeOK
<1> QED
  BY <1>1, <1>2, <1>3, <1>4, <1>5, <1>6, <1>7, <1>8, <1>9, <1>10, <1>11, <1>12,
     <1>13, <1>14, <1>15, <1>16, <1>17, <1>18, <1>19, <1>20, <1>21, <1>22,
     <1>23, <1>24, <1>25, <1>26, <1>27 DEF Next, Leasing, Publishing,
     Supervising

\* Only what the pointer has named is selected, pinned or marked.
LEMMA NamedStep ==
    ASSUME TypeOK, Roles, LeaseIsMarked, BuildIsPrivate, CopyHolds,
       NamedIsPublished, Next
    PROVE  NamedIsPublished'
<1>1. ASSUME NEW p \in Process, SelectCurrent(p)
      PROVE  NamedIsPublished'
  BY <1>1, StoreAssumption DEF SelectCurrent, Free, Running, SetOp, Idle,
     NamedIsPublished, LeaseIsMarked, TypeOK, Op, Process
<1>2. ASSUME NEW p \in Process, LeaseSelected(p)
      PROVE  NamedIsPublished'
  <2>1. PICK o \in Op : SelectedEnds(p, o)
    BY <1>2, LeaseSelectedIs
  <2>2. op[p].gen \in Generations /\ op[p].gen \in published
    BY <1>2 DEF LeaseSelected, At, Running, NamedIsPublished, TypeOK
  <2>3. \A g \in Generations : markers'[g] # {} => g \in published
    BY <2>1, <2>2 DEF SelectedEnds, NamedIsPublished, TypeOK
  <2>4. \A q \in alive : op'[q].pc \in {"selected", "pinning"} => op'[q].gen \in published
    BY <2>1 DEF SelectedEnds, NamedIsPublished, TypeOK
  <2> QED
    BY <1>2, <2>3, <2>4 DEF LeaseSelected, NamedIsPublished
<1>3. ASSUME NEW p \in Process, OpenOld(p)
      PROVE  NamedIsPublished'
  BY <1>3, StoreAssumption DEF OpenOld, Free, Running, SetOp, Idle,
     NamedIsPublished, LeaseIsMarked, TypeOK, Op, Process
<1>4. ASSUME NEW p \in Process, PinGeneration(p)
      PROVE  NamedIsPublished'
  <2>1. PICK o \in Op : PinEnds(p, o)
    BY <1>4, PinGenerationIs
  <2> QED
    BY <1>4, <2>1, StoreAssumption DEF PinEnds, PinGeneration, At, Running,
       Keeps, NamedIsPublished, LeaseIsMarked, TypeOK, Op, Process
<1>5. ASSUME NEW p \in Process, NEW g \in Generations, Release(p, g)
      PROVE  NamedIsPublished'
  <2>1. Keeps
    BY <1>5, ReleaseTidies, TidiesKeeps
  <2> QED
    BY <1>5, <2>1, StoreAssumption DEF Release, Free, Running, NamedIsPublished,
       LeaseIsMarked, TypeOK, Op, Process, Keeps
<1>6. ASSUME NEW p \in Process, NEW g \in Generations, BuildInput(p, g)
      PROVE  NamedIsPublished'
  BY <1>6, StoreAssumption DEF BuildInput, Free, Building, Fresh, Running,
     SetOp, Idle, NamedIsPublished, LeaseIsMarked, TypeOK, Op, Process
<1>7. ASSUME NEW p \in Process, NEW g \in Generations, StartCopy(p, g)
      PROVE  NamedIsPublished'
  BY <1>7, StoreAssumption DEF StartCopy, At, TakeLease, Building, Fresh,
     Running, SetOp, Idle, NamedIsPublished, LeaseIsMarked, TypeOK, Op, Process
<1>8. ASSUME NEW p \in Process, SkipCopy(p)
      PROVE  NamedIsPublished'
  BY <1>8, StoreAssumption DEF SkipCopy, At, Running, SetOp, Idle,
     NamedIsPublished, LeaseIsMarked, TypeOK, Op, Process
<1>9. ASSUME NEW p \in Process, BuildFails(p)
      PROVE  NamedIsPublished'
  BY <1>9, StoreAssumption, AfterBuildIs DEF BuildFails, Remove, Remnants, At, Exit, Running,
     SetOp, Idle, NamedIsPublished, LeaseIsMarked, TypeOK, Op, Process
<1>10. ASSUME NEW p \in Process, Superseded(p)
      PROVE  NamedIsPublished'
  BY <1>10, StoreAssumption, AfterBuildIs DEF Superseded, Remove, Remnants, At, Running, SetOp,
     Idle, NamedIsPublished, LeaseIsMarked, TypeOK, Op, Process
<1>11. ASSUME NEW p \in Process, RenameIntoPlace(p)
      PROVE  NamedIsPublished'
  <2>1. Keeps
    BY <1>11, RenameTidies
  <2> QED
    BY <1>11, <2>1, StoreAssumption DEF RenameIntoPlace, At, StillReplaces,
       Running, SetOp, Idle, NamedIsPublished, LeaseIsMarked, TypeOK, Op,
       Process, Keeps
<1>12. ASSUME NEW p \in Process, MovePointer(p)
      PROVE  NamedIsPublished'
  BY <1>12, StoreAssumption DEF MovePointer, At, Running, SetOp, Idle,
     NamedIsPublished, LeaseIsMarked, TypeOK, Op, Process
<1>13. ASSUME NEW p \in Process, Answer(p)
      PROVE  NamedIsPublished'
  BY <1>13, StoreAssumption, AfterBuildIs DEF Answer, At, Exit, Running, SetOp,
     Idle, NamedIsPublished, LeaseIsMarked, TypeOK, Op, Process
<1>14. ASSUME NEW p \in Process, RetireAfterBuild(p)
      PROVE  NamedIsPublished'
  <2>1. Keeps
    BY <1>14, RetireAfterBuildTidies, TidiesKeeps
  <2> QED
    BY <1>14, <2>1, StoreAssumption, AfterBuildIs DEF RetireAfterBuild, At,
       Running, SetOp, Idle, NamedIsPublished, LeaseIsMarked, TypeOK, Op,
       Process, Keeps
<1>15. ASSUME NEW p \in Process, PointerWriteFails(p)
      PROVE  NamedIsPublished'
  BY <1>15, StoreAssumption DEF PointerWriteFails, At, Running, SetOp, Idle,
     NamedIsPublished, LeaseIsMarked, TypeOK, Op, Process
<1>16. ASSUME NEW p \in Process, UndoRename(p)
      PROVE  NamedIsPublished'
  <2>1. Keeps
    BY <1>16, UndoKeeps
  <2> QED
    BY <1>16, <2>1, StoreAssumption, AfterBuildIs DEF UndoRename, Remove, Remnants, At, Exit,
       Running, SetOp, Idle, NamedIsPublished, LeaseIsMarked, TypeOK, Op,
       Process, Keeps
<1>17. ASSUME NEW p \in Process, EndCopy(p)
      PROVE  NamedIsPublished'
  <2>1. Keeps
    BY <1>17, EndCopyTidies, TidiesKeeps
  <2> QED
    BY <1>17, <2>1, StoreAssumption DEF EndCopy, At, Running, SetOp, Idle,
       NamedIsPublished, LeaseIsMarked, TypeOK, Op, Process, Keeps
<1>18. ASSUME NEW p \in Process, Clear(p)
      PROVE  NamedIsPublished'
  <2>1. Keeps
    BY <1>18, ClearTidies, TidiesKeeps
  <2> QED
    BY <1>18, <2>1, StoreAssumption DEF Clear, Free, Running, NamedIsPublished,
       LeaseIsMarked, TypeOK, Op, Process, Keeps
<1>19. ASSUME NEW p \in Process, StartStaging(p)
      PROVE  NamedIsPublished'
  BY <1>19, StoreAssumption DEF StartStaging, At, Building, Running, SetOp,
     Idle, NamedIsPublished, LeaseIsMarked, TypeOK, Op, Process
<1>20. ASSUME NEW p \in Process, ReuseCurrent(p)
      PROVE  NamedIsPublished'
  BY <1>20, StoreAssumption DEF ReuseCurrent, At, Exit, Running, SetOp, Idle,
     NamedIsPublished, LeaseIsMarked, TypeOK, Op, Process
<1>21. ASSUME NEW p \in Process, Die(p)
      PROVE  NamedIsPublished'
  BY <1>21, StoreAssumption DEF Die, Running, SetOp, Idle, NamedIsPublished,
     LeaseIsMarked, TypeOK, Op, Process
<1>22. ASSUME NEW s \in Servers, NEW w \in Workers, NEW g \in Generations,
   SpawnBuild(s, w, g)
      PROVE  NamedIsPublished'
  BY <1>22, StoreAssumption DEF SpawnBuild, Fresh, Running, SetOp, Idle,
     NamedIsPublished, LeaseIsMarked, TypeOK, Op, Process
<1>23. ASSUME NEW s \in Servers, NEW w \in Workers, NEW g \in Generations,
   SpawnReader(s, w, g)
      PROVE  NamedIsPublished'
  BY <1>23, StoreAssumption DEF SpawnReader, Free, Running, SetOp, Idle,
     NamedIsPublished, LeaseIsMarked, TypeOK, Op, Process
<1>24. ASSUME NEW s \in Servers, ReaderEnds(s)
      PROVE  NamedIsPublished'
  BY <1>24, StoreAssumption DEF ReaderEnds, Running, NamedIsPublished,
     LeaseIsMarked, TypeOK, Op, Process
<1>25. ASSUME NEW s \in Servers, SettlePublished(s)
      PROVE  NamedIsPublished'
  <2>1. Keeps
    BY <1>25, SettlePublishedTidies, TidiesKeeps
  <2> QED
    BY <1>25, <2>1, StoreAssumption DEF SettlePublished, Free, Ended, Running,
       NamedIsPublished, LeaseIsMarked, TypeOK, Op, Process, Keeps
<1>26. ASSUME NEW s \in Servers, Reconcile(s)
      PROVE  NamedIsPublished'
  <2>1. Keeps
    BY <1>26, ReconcileKeeps
  <2> QED
    BY <1>26, <2>1, StoreAssumption DEF Reconcile, Free, Ended, Unpublished,
       Running, SetOp, Idle, NamedIsPublished, LeaseIsMarked, TypeOK, Op,
       Process, Keeps
<1>27. ASSUME NEW s \in Servers, EndReconcile(s)
      PROVE  NamedIsPublished'
  BY <1>27, StoreAssumption DEF EndReconcile, At, Running, SetOp, Idle,
     NamedIsPublished, LeaseIsMarked, TypeOK, Op, Process
<1> QED
  BY <1>1, <1>2, <1>3, <1>4, <1>5, <1>6, <1>7, <1>8, <1>9, <1>10, <1>11, <1>12,
     <1>13, <1>14, <1>15, <1>16, <1>17, <1>18, <1>19, <1>20, <1>21, <1>22,
     <1>23, <1>24, <1>25, <1>26, <1>27 DEF Next, Leasing, Publishing,
     Supervising

\* A retirement keeps the markers of leases; only processes that lease nothing end
\* by themselves.
LEMMA MarkedStep ==
    ASSUME TypeOK, Roles, CopyHolds, BuildIsPrivate, NamedIsPublished,
       LeaseIsMarked, Next
    PROVE  LeaseIsMarked'
<1>1. ASSUME NEW p \in Process, SelectCurrent(p)
      PROVE  LeaseIsMarked'
  BY <1>1, StoreAssumption DEF SelectCurrent, Free, Running, SetOp, Idle,
     NamedIsPublished, LeaseIsMarked, Roles, CopyHolds, TypeOK, Op, Process
<1>2. ASSUME NEW p \in Process, LeaseSelected(p)
      PROVE  LeaseIsMarked'
  <2>1. PICK o \in Op : SelectedEnds(p, o)
    BY <1>2, LeaseSelectedIs
  <2> QED
    BY <1>2, <2>1, StoreAssumption DEF SelectedEnds, LeaseSelected, At, Running,
       NamedIsPublished, LeaseIsMarked, Roles, CopyHolds, EndLease, TypeOK, Op,
       Process
<1>3. ASSUME NEW p \in Process, OpenOld(p)
      PROVE  LeaseIsMarked'
  BY <1>3, StoreAssumption DEF OpenOld, Free, Running, SetOp, Idle,
     NamedIsPublished, LeaseIsMarked, Roles, CopyHolds, TypeOK, Op, Process
<1>4. ASSUME NEW p \in Process, PinGeneration(p)
      PROVE  LeaseIsMarked'
  <2>1. PICK o \in Op : PinEnds(p, o)
    BY <1>4, PinGenerationIs
  <2>2. op[p].gen \in Generations /\ p \in alive
    BY <1>4 DEF PinGeneration, At, Running, NamedIsPublished, TypeOK
  <2>3. \A q \in alive, g \in Generations : leases'[q][g] > 0 => q \in markers'[g]
    BY <2>1, <2>2 DEF PinEnds, Keeps, LeaseIsMarked, TypeOK
  <2>4. \A q \in Process, g \in Generations :
          q \notin alive \/ (q \in Workers /\ op'[q].pc # "idle") => leases'[q][g] = 0
    BY <1>4, <2>1, <2>2 DEF PinEnds, PinGeneration, At, LeaseIsMarked, Roles, TypeOK, Process
  <2> QED
    BY <1>4, <2>3, <2>4 DEF PinGeneration, LeaseIsMarked
<1>5. ASSUME NEW p \in Process, NEW g \in Generations, Release(p, g)
      PROVE  LeaseIsMarked'
  <2>1. Keeps
    BY <1>5, ReleaseTidies, TidiesKeeps
  <2> QED
    BY <1>5, <2>1, StoreAssumption DEF Release, Free, Running, NamedIsPublished,
       LeaseIsMarked, Roles, CopyHolds, EndLease, TypeOK, Op, Process, Keeps
<1>6. ASSUME NEW p \in Process, NEW g \in Generations, BuildInput(p, g)
      PROVE  LeaseIsMarked'
  BY <1>6, StoreAssumption DEF BuildInput, Free, Building, Fresh, Running,
     SetOp, Idle, NamedIsPublished, LeaseIsMarked, Roles, CopyHolds, TypeOK, Op,
     Process
<1>7. ASSUME NEW p \in Process, NEW g \in Generations, StartCopy(p, g)
      PROVE  LeaseIsMarked'
  BY <1>7, StoreAssumption DEF StartCopy, At, TakeLease, Building, Fresh,
     Running, SetOp, Idle, NamedIsPublished, LeaseIsMarked, Roles, CopyHolds,
     TypeOK, Op, Process
<1>8. ASSUME NEW p \in Process, SkipCopy(p)
      PROVE  LeaseIsMarked'
  BY <1>8, StoreAssumption DEF SkipCopy, At, Running, SetOp, Idle,
     NamedIsPublished, LeaseIsMarked, Roles, CopyHolds, TypeOK, Op, Process
<1>9. ASSUME NEW p \in Process, BuildFails(p)
      PROVE  LeaseIsMarked'
  BY <1>9, StoreAssumption, AfterBuildIs DEF BuildFails, Remove, Remnants, At, Exit, Running,
     SetOp, Idle, NamedIsPublished, LeaseIsMarked, Roles, CopyHolds, TypeOK, Op,
     Process
<1>10. ASSUME NEW p \in Process, Superseded(p)
      PROVE  LeaseIsMarked'
  BY <1>10, StoreAssumption, AfterBuildIs DEF Superseded, Remove, Remnants, At, Running, SetOp,
     Idle, NamedIsPublished, LeaseIsMarked, Roles, CopyHolds, TypeOK, Op,
     Process
<1>11. ASSUME NEW p \in Process, RenameIntoPlace(p)
      PROVE  LeaseIsMarked'
  <2>1. Keeps
    BY <1>11, RenameTidies
  <2> QED
    BY <1>11, <2>1, StoreAssumption DEF RenameIntoPlace, At, StillReplaces,
       Running, SetOp, Idle, NamedIsPublished, LeaseIsMarked, Roles, CopyHolds,
       TypeOK, Op, Process, Keeps
<1>12. ASSUME NEW p \in Process, MovePointer(p)
      PROVE  LeaseIsMarked'
  BY <1>12, StoreAssumption DEF MovePointer, At, Running, SetOp, Idle,
     NamedIsPublished, LeaseIsMarked, Roles, CopyHolds, TypeOK, Op, Process
<1>13. ASSUME NEW p \in Process, Answer(p)
      PROVE  LeaseIsMarked'
  BY <1>13, StoreAssumption, AfterBuildIs DEF Answer, At, Exit, Running, SetOp,
     Idle, NamedIsPublished, LeaseIsMarked, Roles, CopyHolds, TypeOK, Op,
     Process
<1>14. ASSUME NEW p \in Process, RetireAfterBuild(p)
      PROVE  LeaseIsMarked'
  <2>1. Keeps
    BY <1>14, RetireAfterBuildTidies, TidiesKeeps
  <2> QED
    BY <1>14, <2>1, StoreAssumption, AfterBuildIs DEF RetireAfterBuild, At,
       Running, SetOp, Idle, NamedIsPublished, LeaseIsMarked, Roles, CopyHolds,
       TypeOK, Op, Process, Keeps
<1>15. ASSUME NEW p \in Process, PointerWriteFails(p)
      PROVE  LeaseIsMarked'
  BY <1>15, StoreAssumption DEF PointerWriteFails, At, Running, SetOp, Idle,
     NamedIsPublished, LeaseIsMarked, Roles, CopyHolds, TypeOK, Op, Process
<1>16. ASSUME NEW p \in Process, UndoRename(p)
      PROVE  LeaseIsMarked'
  <2>1. Keeps
    BY <1>16, UndoKeeps
  <2> QED
    BY <1>16, <2>1, StoreAssumption, AfterBuildIs DEF UndoRename, Remove, Remnants, At, Exit,
       Running, SetOp, Idle, NamedIsPublished, LeaseIsMarked, Roles, CopyHolds,
       TypeOK, Op, Process, Keeps
<1>17. ASSUME NEW p \in Process, EndCopy(p)
      PROVE  LeaseIsMarked'
  <2>1. Keeps
    BY <1>17, EndCopyTidies, TidiesKeeps
  <2>2. PICK g, n : g = op[p].src /\ n = op[p].n
    OBVIOUS
  <2>3. g \in Generations /\ n \in Nat /\ p \in alive /\ p \notin Workers
    BY <1>17, <2>2 DEF EndCopy, At, Running, CopyHolds, Roles, TypeOK, Op
  <2>4. leases' = [leases EXCEPT ![p][g] = leases[p][g] - n] /\ alive' = alive
    BY <1>17, <2>2 DEF EndCopy, EndLease
  <2>5. \A q \in alive, h \in Generations : leases'[q][h] > 0 => leases[q][h] > 0
    BY <2>3, <2>4 DEF TypeOK
  <2>6. \A q \in alive, h \in Generations : leases'[q][h] > 0 => q \in markers'[h]
    BY <2>1, <2>5 DEF Keeps, LeaseIsMarked
  <2>7. \A q \in Process \ {p} : leases'[q] = leases[q] /\ op'[q] = op[q]
    BY <1>17, <2>4 DEF EndCopy, SetOp, TypeOK
  <2> QED
    BY <2>3, <2>4, <2>6, <2>7 DEF LeaseIsMarked
<1>18. ASSUME NEW p \in Process, Clear(p)
      PROVE  LeaseIsMarked'
  <2>1. Keeps
    BY <1>18, ClearTidies, TidiesKeeps
  <2> QED
    BY <1>18, <2>1, StoreAssumption DEF Clear, Free, Running, NamedIsPublished,
       LeaseIsMarked, Roles, CopyHolds, TypeOK, Op, Process, Keeps
<1>19. ASSUME NEW p \in Process, StartStaging(p)
      PROVE  LeaseIsMarked'
  BY <1>19, StoreAssumption DEF StartStaging, At, Building, Running, SetOp,
     Idle, NamedIsPublished, LeaseIsMarked, Roles, CopyHolds, TypeOK, Op,
     Process
<1>20. ASSUME NEW p \in Process, ReuseCurrent(p)
      PROVE  LeaseIsMarked'
  BY <1>20, StoreAssumption DEF ReuseCurrent, At, Exit, Running, SetOp, Idle,
     NamedIsPublished, LeaseIsMarked, Roles, CopyHolds, TypeOK, Op, Process
<1>21. ASSUME NEW p \in Process, Die(p)
      PROVE  LeaseIsMarked'
  BY <1>21, StoreAssumption DEF Die, Running, SetOp, Idle, NamedIsPublished,
     LeaseIsMarked, Roles, CopyHolds, TypeOK, Op, Process
<1>22. ASSUME NEW s \in Servers, NEW w \in Workers, NEW g \in Generations,
   SpawnBuild(s, w, g)
      PROVE  LeaseIsMarked'
  BY <1>22, StoreAssumption DEF SpawnBuild, Fresh, Running, SetOp, Idle,
     NamedIsPublished, LeaseIsMarked, Roles, CopyHolds, TypeOK, Op, Process
<1>23. ASSUME NEW s \in Servers, NEW w \in Workers, NEW g \in Generations,
   SpawnReader(s, w, g)
      PROVE  LeaseIsMarked'
  BY <1>23, StoreAssumption DEF SpawnReader, Free, Running, SetOp, Idle,
     NamedIsPublished, LeaseIsMarked, Roles, CopyHolds, TypeOK, Op, Process
<1>24. ASSUME NEW s \in Servers, ReaderEnds(s)
      PROVE  LeaseIsMarked'
  BY <1>24, StoreAssumption DEF ReaderEnds, Running, NamedIsPublished,
     LeaseIsMarked, Roles, CopyHolds, TypeOK, Op, Process
<1>25. ASSUME NEW s \in Servers, SettlePublished(s)
      PROVE  LeaseIsMarked'
  <2>1. Keeps
    BY <1>25, SettlePublishedTidies, TidiesKeeps
  <2> QED
    BY <1>25, <2>1, StoreAssumption DEF SettlePublished, Free, Ended, Running,
       NamedIsPublished, LeaseIsMarked, Roles, CopyHolds, TypeOK, Op, Process,
       Keeps
<1>26. ASSUME NEW s \in Servers, Reconcile(s)
      PROVE  LeaseIsMarked'
  <2>1. Keeps
    BY <1>26, ReconcileKeeps
  <2> QED
    BY <1>26, <2>1, StoreAssumption DEF Reconcile, Free, Ended, Unpublished,
       Running, SetOp, Idle, NamedIsPublished, LeaseIsMarked, Roles, CopyHolds,
       TypeOK, Op, Process, Keeps
<1>27. ASSUME NEW s \in Servers, EndReconcile(s)
      PROVE  LeaseIsMarked'
  BY <1>27, StoreAssumption DEF EndReconcile, At, Running, SetOp, Idle,
     NamedIsPublished, LeaseIsMarked, Roles, CopyHolds, TypeOK, Op, Process
<1> QED
  BY <1>1, <1>2, <1>3, <1>4, <1>5, <1>6, <1>7, <1>8, <1>9, <1>10, <1>11, <1>12,
     <1>13, <1>14, <1>15, <1>16, <1>17, <1>18, <1>19, <1>20, <1>21, <1>22,
     <1>23, <1>24, <1>25, <1>26, <1>27 DEF Next, Leasing, Publishing,
     Supervising

\* An operation keeps the leases it took until it ends them.
LEMMA CopyStep ==
    ASSUME TypeOK, Roles, NamedIsPublished, CopyHolds, Next
    PROVE  CopyHolds'
<1>1. ASSUME NEW p \in Process, SelectCurrent(p)
      PROVE  CopyHolds'
  BY <1>1, StoreAssumption DEF SelectCurrent, Free, Running, SetOp, Idle,
     NamedIsPublished, CopyHolds, Roles, TypeOK, Op, Process
<1>2. ASSUME NEW p \in Process, LeaseSelected(p)
      PROVE  CopyHolds'
  <2>1. PICK o \in Op : SelectedEnds(p, o)
    BY <1>2, LeaseSelectedIs
  <2> QED
    BY <1>2, <2>1, StoreAssumption DEF SelectedEnds, LeaseSelected, At, Running,
       NamedIsPublished, CopyHolds, Roles, EndLease, TypeOK, Op, Process
<1>3. ASSUME NEW p \in Process, OpenOld(p)
      PROVE  CopyHolds'
  BY <1>3, StoreAssumption DEF OpenOld, Free, Running, SetOp, Idle,
     NamedIsPublished, CopyHolds, Roles, TypeOK, Op, Process
<1>4. ASSUME NEW p \in Process, PinGeneration(p)
      PROVE  CopyHolds'
  <2>1. PICK o \in Op : PinEnds(p, o)
    BY <1>4, PinGenerationIs
  <2> QED
    BY <1>4, <2>1, StoreAssumption DEF PinEnds, PinGeneration, At, Running,
       NamedIsPublished, CopyHolds, Roles, EndLease, TypeOK, Op, Process
<1>5. ASSUME NEW p \in Process, NEW g \in Generations, Release(p, g)
      PROVE  CopyHolds'
  BY <1>5, StoreAssumption DEF Release, Free, Running, NamedIsPublished,
     CopyHolds, Roles, EndLease, TypeOK, Op, Process
<1>6. ASSUME NEW p \in Process, NEW g \in Generations, BuildInput(p, g)
      PROVE  CopyHolds'
  BY <1>6, StoreAssumption DEF BuildInput, Free, Building, Fresh, Running,
     SetOp, Idle, NamedIsPublished, CopyHolds, Roles, TypeOK, Op, Process
<1>7. ASSUME NEW p \in Process, NEW g \in Generations, StartCopy(p, g)
      PROVE  CopyHolds'
  BY <1>7, StoreAssumption DEF StartCopy, At, TakeLease, Building, Fresh,
     Running, SetOp, Idle, NamedIsPublished, CopyHolds, Roles, TypeOK, Op,
     Process
<1>8. ASSUME NEW p \in Process, SkipCopy(p)
      PROVE  CopyHolds'
  BY <1>8, StoreAssumption DEF SkipCopy, At, Running, SetOp, Idle,
     NamedIsPublished, CopyHolds, Roles, TypeOK, Op, Process
<1>9. ASSUME NEW p \in Process, BuildFails(p)
      PROVE  CopyHolds'
  BY <1>9, StoreAssumption, AfterBuildIs DEF BuildFails, Remove, Remnants, At, Exit, Running,
     SetOp, Idle, NamedIsPublished, CopyHolds, Roles, TypeOK, Op, Process
<1>10. ASSUME NEW p \in Process, Superseded(p)
      PROVE  CopyHolds'
  BY <1>10, StoreAssumption, AfterBuildIs DEF Superseded, Remove, Remnants, At, Running, SetOp,
     Idle, NamedIsPublished, CopyHolds, Roles, TypeOK, Op, Process
<1>11. ASSUME NEW p \in Process, RenameIntoPlace(p)
      PROVE  CopyHolds'
  BY <1>11, StoreAssumption DEF RenameIntoPlace, At, StillReplaces, Running,
     SetOp, Idle, NamedIsPublished, CopyHolds, Roles, TypeOK, Op, Process
<1>12. ASSUME NEW p \in Process, MovePointer(p)
      PROVE  CopyHolds'
  BY <1>12, StoreAssumption DEF MovePointer, At, Running, SetOp, Idle,
     NamedIsPublished, CopyHolds, Roles, TypeOK, Op, Process
<1>13. ASSUME NEW p \in Process, Answer(p)
      PROVE  CopyHolds'
  BY <1>13, StoreAssumption, AfterBuildIs DEF Answer, At, Exit, Running, SetOp,
     Idle, NamedIsPublished, CopyHolds, Roles, TypeOK, Op, Process
<1>14. ASSUME NEW p \in Process, RetireAfterBuild(p)
      PROVE  CopyHolds'
  BY <1>14, StoreAssumption, AfterBuildIs DEF RetireAfterBuild, At, Running,
     SetOp, Idle, NamedIsPublished, CopyHolds, Roles, TypeOK, Op, Process
<1>15. ASSUME NEW p \in Process, PointerWriteFails(p)
      PROVE  CopyHolds'
  BY <1>15, StoreAssumption DEF PointerWriteFails, At, Running, SetOp, Idle,
     NamedIsPublished, CopyHolds, Roles, TypeOK, Op, Process
<1>16. ASSUME NEW p \in Process, UndoRename(p)
      PROVE  CopyHolds'
  BY <1>16, StoreAssumption, AfterBuildIs DEF UndoRename, Remove, Remnants, At, Exit, Running,
     SetOp, Idle, NamedIsPublished, CopyHolds, Roles, TypeOK, Op, Process
<1>17. ASSUME NEW p \in Process, EndCopy(p)
      PROVE  CopyHolds'
  BY <1>17, StoreAssumption DEF EndCopy, At, Running, SetOp, Idle,
     NamedIsPublished, CopyHolds, Roles, EndLease, TypeOK, Op, Process
<1>18. ASSUME NEW p \in Process, Clear(p)
      PROVE  CopyHolds'
  BY <1>18, StoreAssumption DEF Clear, Free, Running, NamedIsPublished,
     CopyHolds, Roles, TypeOK, Op, Process
<1>19. ASSUME NEW p \in Process, StartStaging(p)
      PROVE  CopyHolds'
  BY <1>19, StoreAssumption DEF StartStaging, At, Building, Running, SetOp,
     Idle, NamedIsPublished, CopyHolds, Roles, TypeOK, Op, Process
<1>20. ASSUME NEW p \in Process, ReuseCurrent(p)
      PROVE  CopyHolds'
  BY <1>20, StoreAssumption DEF ReuseCurrent, At, Exit, Running, SetOp, Idle,
     NamedIsPublished, CopyHolds, Roles, TypeOK, Op, Process
<1>21. ASSUME NEW p \in Process, Die(p)
      PROVE  CopyHolds'
  BY <1>21, StoreAssumption DEF Die, Running, SetOp, Idle, NamedIsPublished,
     CopyHolds, Roles, TypeOK, Op, Process
<1>22. ASSUME NEW s \in Servers, NEW w \in Workers, NEW g \in Generations,
   SpawnBuild(s, w, g)
      PROVE  CopyHolds'
  BY <1>22, StoreAssumption DEF SpawnBuild, Fresh, Running, SetOp, Idle,
     NamedIsPublished, CopyHolds, Roles, TypeOK, Op, Process
<1>23. ASSUME NEW s \in Servers, NEW w \in Workers, NEW g \in Generations,
   SpawnReader(s, w, g)
      PROVE  CopyHolds'
  BY <1>23, StoreAssumption DEF SpawnReader, Free, Running, SetOp, Idle,
     NamedIsPublished, CopyHolds, Roles, TypeOK, Op, Process
<1>24. ASSUME NEW s \in Servers, ReaderEnds(s)
      PROVE  CopyHolds'
  BY <1>24, StoreAssumption DEF ReaderEnds, Running, NamedIsPublished,
     CopyHolds, Roles, TypeOK, Op, Process
<1>25. ASSUME NEW s \in Servers, SettlePublished(s)
      PROVE  CopyHolds'
  BY <1>25, StoreAssumption DEF SettlePublished, Free, Ended, Running,
     NamedIsPublished, CopyHolds, Roles, TypeOK, Op, Process
<1>26. ASSUME NEW s \in Servers, Reconcile(s)
      PROVE  CopyHolds'
  BY <1>26, StoreAssumption DEF Reconcile, Free, Ended, Unpublished, Running,
     SetOp, Idle, NamedIsPublished, CopyHolds, Roles, TypeOK, Op, Process
<1>27. ASSUME NEW s \in Servers, EndReconcile(s)
      PROVE  CopyHolds'
  BY <1>27, StoreAssumption DEF EndReconcile, At, Running, SetOp, Idle,
     NamedIsPublished, CopyHolds, Roles, TypeOK, Op, Process
<1> QED
  BY <1>1, <1>2, <1>3, <1>4, <1>5, <1>6, <1>7, <1>8, <1>9, <1>10, <1>11, <1>12,
     <1>13, <1>14, <1>15, <1>16, <1>17, <1>18, <1>19, <1>20, <1>21, <1>22,
     <1>23, <1>24, <1>25, <1>26, <1>27 DEF Next, Leasing, Publishing,
     Supervising

\* A fresh id is nobody else's, and only its builder publishes it.
LEMMA PrivateStep ==
    ASSUME TypeOK, BuildIsPrivate, LockIsHeld, Next
    PROVE  BuildIsPrivate'
<1>1. ASSUME NEW p \in Process, SelectCurrent(p)
      PROVE  BuildIsPrivate'
  BY <1>1, StoreAssumption DEF SelectCurrent, Free, Running, SetOp, Idle,
     BuildIsPrivate, BuildPC, Builds, TypeOK, Op, Process
<1>2. ASSUME NEW p \in Process, LeaseSelected(p)
      PROVE  BuildIsPrivate'
  <2>1. PICK o \in Op : SelectedEnds(p, o)
    BY <1>2, LeaseSelectedIs
  <2> QED
    BY <1>2, <2>1, StoreAssumption DEF SelectedEnds, LeaseSelected, At, Running,
       BuildIsPrivate, BuildPC, Builds, TypeOK, Op, Process
<1>3. ASSUME NEW p \in Process, OpenOld(p)
      PROVE  BuildIsPrivate'
  BY <1>3, StoreAssumption DEF OpenOld, Free, Running, SetOp, Idle,
     BuildIsPrivate, BuildPC, Builds, TypeOK, Op, Process
<1>4. ASSUME NEW p \in Process, PinGeneration(p)
      PROVE  BuildIsPrivate'
  <2>1. PICK o \in Op : PinEnds(p, o)
    BY <1>4, PinGenerationIs
  <2> QED
    BY <1>4, <2>1, StoreAssumption DEF PinEnds, PinGeneration, At, Running,
       BuildIsPrivate, BuildPC, Builds, TypeOK, Op, Process
<1>5. ASSUME NEW p \in Process, NEW g \in Generations, Release(p, g)
      PROVE  BuildIsPrivate'
  BY <1>5, StoreAssumption DEF Release, Free, Running, BuildIsPrivate, BuildPC,
     Builds, TypeOK, Op, Process
<1>6. ASSUME NEW p \in Process, NEW g \in Generations, BuildInput(p, g)
      PROVE  BuildIsPrivate'
  BY <1>6, StoreAssumption DEF BuildInput, Free, Building, Fresh, Running,
     SetOp, Idle, BuildIsPrivate, BuildPC, Builds, TypeOK, Op, Process
<1>7. ASSUME NEW p \in Process, NEW g \in Generations, StartCopy(p, g)
      PROVE  BuildIsPrivate'
  BY <1>7, StoreAssumption DEF StartCopy, At, TakeLease, Building, Fresh,
     Running, SetOp, Idle, BuildIsPrivate, BuildPC, Builds, TypeOK, Op, Process
<1>8. ASSUME NEW p \in Process, SkipCopy(p)
      PROVE  BuildIsPrivate'
  BY <1>8, StoreAssumption DEF SkipCopy, At, Running, SetOp, Idle,
     BuildIsPrivate, BuildPC, Builds, TypeOK, Op, Process
<1>9. ASSUME NEW p \in Process, BuildFails(p)
      PROVE  BuildIsPrivate'
  BY <1>9, StoreAssumption, AfterBuildIs DEF BuildFails, Remove, Remnants, At, Exit, Running,
     SetOp, Idle, BuildIsPrivate, BuildPC, Builds, TypeOK, Op, Process
<1>10. ASSUME NEW p \in Process, Superseded(p)
      PROVE  BuildIsPrivate'
  BY <1>10, StoreAssumption, AfterBuildIs DEF Superseded, Remove, Remnants, At, Running, SetOp,
     Idle, BuildIsPrivate, BuildPC, Builds, TypeOK, Op, Process
<1>11. ASSUME NEW p \in Process, RenameIntoPlace(p)
      PROVE  BuildIsPrivate'
  BY <1>11, StoreAssumption DEF RenameIntoPlace, At, StillReplaces, Running,
     SetOp, Idle, BuildIsPrivate, BuildPC, Builds, TypeOK, Op, Process
<1>12. ASSUME NEW p \in Process, MovePointer(p)
      PROVE  BuildIsPrivate'
  BY <1>12, StoreAssumption DEF MovePointer, At, Running, SetOp, Idle,
     BuildIsPrivate, BuildPC, Builds, TypeOK, Op, Process
<1>13. ASSUME NEW p \in Process, Answer(p)
      PROVE  BuildIsPrivate'
  BY <1>13, StoreAssumption, AfterBuildIs DEF Answer, At, Exit, Running, SetOp,
     Idle, BuildIsPrivate, BuildPC, Builds, TypeOK, Op, Process
<1>14. ASSUME NEW p \in Process, RetireAfterBuild(p)
      PROVE  BuildIsPrivate'
  BY <1>14, StoreAssumption, AfterBuildIs DEF RetireAfterBuild, At, Running,
     SetOp, Idle, BuildIsPrivate, BuildPC, Builds, TypeOK, Op, Process
<1>15. ASSUME NEW p \in Process, PointerWriteFails(p)
      PROVE  BuildIsPrivate'
  BY <1>15, StoreAssumption DEF PointerWriteFails, At, Running, SetOp, Idle,
     BuildIsPrivate, BuildPC, Builds, TypeOK, Op, Process
<1>16. ASSUME NEW p \in Process, UndoRename(p)
      PROVE  BuildIsPrivate'
  BY <1>16, StoreAssumption, AfterBuildIs DEF UndoRename, Remove, Remnants, At, Exit, Running,
     SetOp, Idle, BuildIsPrivate, BuildPC, Builds, TypeOK, Op, Process
<1>17. ASSUME NEW p \in Process, EndCopy(p)
      PROVE  BuildIsPrivate'
  BY <1>17, StoreAssumption DEF EndCopy, At, Running, SetOp, Idle,
     BuildIsPrivate, BuildPC, Builds, TypeOK, Op, Process
<1>18. ASSUME NEW p \in Process, Clear(p)
      PROVE  BuildIsPrivate'
  BY <1>18, StoreAssumption DEF Clear, Free, Running, BuildIsPrivate, BuildPC,
     Builds, TypeOK, Op, Process
<1>19. ASSUME NEW p \in Process, StartStaging(p)
      PROVE  BuildIsPrivate'
  BY <1>19, StoreAssumption DEF StartStaging, At, Building, Running, SetOp,
     Idle, BuildIsPrivate, BuildPC, Builds, TypeOK, Op, Process
<1>20. ASSUME NEW p \in Process, ReuseCurrent(p)
      PROVE  BuildIsPrivate'
  BY <1>20, StoreAssumption DEF ReuseCurrent, At, Exit, Running, SetOp, Idle,
     BuildIsPrivate, BuildPC, Builds, TypeOK, Op, Process
<1>21. ASSUME NEW p \in Process, Die(p)
      PROVE  BuildIsPrivate'
  BY <1>21, StoreAssumption DEF Die, Running, SetOp, Idle, BuildIsPrivate,
     BuildPC, Builds, TypeOK, Op, Process
<1>22. ASSUME NEW s \in Servers, NEW w \in Workers, NEW g \in Generations,
   SpawnBuild(s, w, g)
      PROVE  BuildIsPrivate'
  BY <1>22, StoreAssumption DEF SpawnBuild, Fresh, Running, SetOp, Idle,
     BuildIsPrivate, BuildPC, Builds, TypeOK, Op, Process
<1>23. ASSUME NEW s \in Servers, NEW w \in Workers, NEW g \in Generations,
   SpawnReader(s, w, g)
      PROVE  BuildIsPrivate'
  BY <1>23, StoreAssumption DEF SpawnReader, Free, Running, SetOp, Idle,
     BuildIsPrivate, BuildPC, Builds, TypeOK, Op, Process
<1>24. ASSUME NEW s \in Servers, ReaderEnds(s)
      PROVE  BuildIsPrivate'
  BY <1>24, StoreAssumption DEF ReaderEnds, Running, BuildIsPrivate, BuildPC,
     Builds, TypeOK, Op, Process
<1>25. ASSUME NEW s \in Servers, SettlePublished(s)
      PROVE  BuildIsPrivate'
  BY <1>25, StoreAssumption DEF SettlePublished, Free, Ended, Running,
     BuildIsPrivate, BuildPC, Builds, TypeOK, Op, Process
<1>26. ASSUME NEW s \in Servers, Reconcile(s)
      PROVE  BuildIsPrivate'
  BY <1>26, StoreAssumption DEF Reconcile, Free, Ended, Unpublished, Running,
     SetOp, Idle, BuildIsPrivate, BuildPC, Builds, TypeOK, Op, Process
<1>27. ASSUME NEW s \in Servers, EndReconcile(s)
      PROVE  BuildIsPrivate'
  BY <1>27, StoreAssumption DEF EndReconcile, At, Running, SetOp, Idle,
     BuildIsPrivate, BuildPC, Builds, TypeOK, Op, Process
<1> QED
  BY <1>1, <1>2, <1>3, <1>4, <1>5, <1>6, <1>7, <1>8, <1>9, <1>10, <1>11, <1>12,
     <1>13, <1>14, <1>15, <1>16, <1>17, <1>18, <1>19, <1>20, <1>21, <1>22,
     <1>23, <1>24, <1>25, <1>26, <1>27 DEF Next, Leasing, Publishing,
     Supervising

\* While the lock is held between the rename and the pointer, nobody touches
\* either.
LEMMA ReadyStep ==
    ASSUME TypeOK, Roles, LockIsHeld, CopyHolds, BuildIsPrivate, SettledIsStill,
       NamedIsPublished, RenamedIsReady, Next
    PROVE  RenamedIsReady'
<1>1. ASSUME NEW p \in Process, SelectCurrent(p)
      PROVE  RenamedIsReady'
  BY <1>1, StoreAssumption DEF SelectCurrent, Free, Running, SetOp, Idle,
     RenamedIsReady, BuildIsPrivate, BuildPC, Builds, LockIsHeld, LockPC,
     NamedIsPublished, SettledIsStill, TypeOK, Op, Process
<1>2. ASSUME NEW p \in Process, LeaseSelected(p)
      PROVE  RenamedIsReady'
  <2>1. PICK o \in Op : SelectedEnds(p, o)
    BY <1>2, LeaseSelectedIs
  <2> QED
    BY <1>2, <2>1, StoreAssumption DEF SelectedEnds, LeaseSelected, At, Running,
       RenamedIsReady, BuildIsPrivate, BuildPC, Builds, LockIsHeld, LockPC,
       NamedIsPublished, SettledIsStill, TypeOK, Op, Process
<1>3. ASSUME NEW p \in Process, OpenOld(p)
      PROVE  RenamedIsReady'
  BY <1>3, StoreAssumption DEF OpenOld, Free, Running, SetOp, Idle,
     RenamedIsReady, BuildIsPrivate, BuildPC, Builds, LockIsHeld, LockPC,
     NamedIsPublished, SettledIsStill, TypeOK, Op, Process
<1>4. ASSUME NEW p \in Process, PinGeneration(p)
      PROVE  RenamedIsReady'
  <2>1. PICK o \in Op : PinEnds(p, o)
    BY <1>4, PinGenerationIs
  <2> QED
    BY <1>4, <2>1, StoreAssumption DEF PinEnds, PinGeneration, At, Running,
       Tidies, RenamedIsReady, BuildIsPrivate, BuildPC, Builds, LockIsHeld,
       LockPC, NamedIsPublished, SettledIsStill, TypeOK, Op, Process
<1>5. ASSUME NEW p \in Process, NEW g \in Generations, Release(p, g)
      PROVE  RenamedIsReady'
  <2>1. Tidies(p)
    BY <1>5, ReleaseTidies
  <2> QED
    BY <1>5, <2>1, StoreAssumption DEF Release, Free, Running, RenamedIsReady,
       BuildIsPrivate, BuildPC, Builds, LockIsHeld, LockPC, NamedIsPublished,
       SettledIsStill, TypeOK, Op, Process, Tidies
<1>6. ASSUME NEW p \in Process, NEW g \in Generations, BuildInput(p, g)
      PROVE  RenamedIsReady'
  BY <1>6, StoreAssumption DEF BuildInput, Free, Building, Fresh, Running,
     SetOp, Idle, RenamedIsReady, BuildIsPrivate, BuildPC, Builds, LockIsHeld,
     LockPC, NamedIsPublished, SettledIsStill, TypeOK, Op, Process
<1>7. ASSUME NEW p \in Process, NEW g \in Generations, StartCopy(p, g)
      PROVE  RenamedIsReady'
  BY <1>7, StoreAssumption DEF StartCopy, At, TakeLease, Building, Fresh,
     Running, SetOp, Idle, RenamedIsReady, BuildIsPrivate, BuildPC, Builds,
     LockIsHeld, LockPC, NamedIsPublished, SettledIsStill, TypeOK, Op, Process
<1>8. ASSUME NEW p \in Process, SkipCopy(p)
      PROVE  RenamedIsReady'
  BY <1>8, StoreAssumption DEF SkipCopy, At, Running, SetOp, Idle,
     RenamedIsReady, BuildIsPrivate, BuildPC, Builds, LockIsHeld, LockPC,
     NamedIsPublished, SettledIsStill, TypeOK, Op, Process
<1>9. ASSUME NEW p \in Process, BuildFails(p)
      PROVE  RenamedIsReady'
  BY <1>9, StoreAssumption, AfterBuildIs DEF BuildFails, Remove, Remnants, At, Exit, Running,
     SetOp, Idle, RenamedIsReady, BuildIsPrivate, BuildPC, Builds, LockIsHeld,
     LockPC, NamedIsPublished, SettledIsStill, TypeOK, Op, Process
<1>10. ASSUME NEW p \in Process, Superseded(p)
      PROVE  RenamedIsReady'
  BY <1>10, StoreAssumption, AfterBuildIs DEF Superseded, Remove, Remnants, At, Running, SetOp,
     Idle, RenamedIsReady, BuildIsPrivate, BuildPC, Builds, LockIsHeld, LockPC,
     NamedIsPublished, SettledIsStill, TypeOK, Op, Process
<1>11. ASSUME NEW p \in Process, RenameIntoPlace(p)
      PROVE  RenamedIsReady'
  <2>1. Renames(p)
    BY <1>11, RenameTidies
  <2> QED
    BY <1>11, <2>1, StoreAssumption DEF RenameIntoPlace, At, StillReplaces,
       Running, SetOp, Idle, RenamedIsReady, BuildIsPrivate, BuildPC, Builds,
       LockIsHeld, LockPC, NamedIsPublished, SettledIsStill, TypeOK, Op,
       Process, Renames
<1>12. ASSUME NEW p \in Process, MovePointer(p)
      PROVE  RenamedIsReady'
  BY <1>12, StoreAssumption DEF MovePointer, At, Running, SetOp, Idle,
     RenamedIsReady, BuildIsPrivate, BuildPC, Builds, LockIsHeld, LockPC,
     NamedIsPublished, SettledIsStill, TypeOK, Op, Process
<1>13. ASSUME NEW p \in Process, Answer(p)
      PROVE  RenamedIsReady'
  BY <1>13, StoreAssumption, AfterBuildIs DEF Answer, At, Exit, Running, SetOp,
     Idle, RenamedIsReady, BuildIsPrivate, BuildPC, Builds, LockIsHeld, LockPC,
     NamedIsPublished, SettledIsStill, TypeOK, Op, Process
<1>14. ASSUME NEW p \in Process, RetireAfterBuild(p)
      PROVE  RenamedIsReady'
  <2>1. Tidies(p)
    BY <1>14, RetireAfterBuildTidies
  <2> QED
    BY <1>14, <2>1, StoreAssumption, AfterBuildIs DEF RetireAfterBuild, At,
       Running, SetOp, Idle, RenamedIsReady, BuildIsPrivate, BuildPC, Builds,
       LockIsHeld, LockPC, NamedIsPublished, SettledIsStill, TypeOK, Op,
       Process, Tidies
<1>15. ASSUME NEW p \in Process, PointerWriteFails(p)
      PROVE  RenamedIsReady'
  BY <1>15, StoreAssumption DEF PointerWriteFails, At, Running, SetOp, Idle,
     RenamedIsReady, BuildIsPrivate, BuildPC, Builds, LockIsHeld, LockPC,
     NamedIsPublished, SettledIsStill, TypeOK, Op, Process
<1>16. ASSUME NEW p \in Process, UndoRename(p)
      PROVE  RenamedIsReady'
  BY <1>16, StoreAssumption, AfterBuildIs DEF UndoRename, Remove, Remnants, At, Exit, Running,
     SetOp, Idle, RenamedIsReady, BuildIsPrivate, BuildPC, Builds, LockIsHeld,
     LockPC, NamedIsPublished, SettledIsStill, TypeOK, Op, Process
<1>17. ASSUME NEW p \in Process, EndCopy(p)
      PROVE  RenamedIsReady'
  <2>1. Tidies(p)
    BY <1>17, EndCopyTidies
  <2> QED
    BY <1>17, <2>1, StoreAssumption DEF EndCopy, At, Running, SetOp, Idle,
       RenamedIsReady, BuildIsPrivate, BuildPC, Builds, LockIsHeld, LockPC,
       NamedIsPublished, SettledIsStill, TypeOK, Op, Process, Tidies
<1>18. ASSUME NEW p \in Process, Clear(p)
      PROVE  RenamedIsReady'
  <2>1. Tidies(p)
    BY <1>18, ClearTidies
  <2> QED
    BY <1>18, <2>1, StoreAssumption DEF Clear, Free, Running, RenamedIsReady,
       BuildIsPrivate, BuildPC, Builds, LockIsHeld, LockPC, NamedIsPublished,
       SettledIsStill, TypeOK, Op, Process, Tidies
<1>19. ASSUME NEW p \in Process, StartStaging(p)
      PROVE  RenamedIsReady'
  BY <1>19, StoreAssumption DEF StartStaging, At, Building, Running, SetOp,
     Idle, RenamedIsReady, BuildIsPrivate, BuildPC, Builds, LockIsHeld, LockPC,
     NamedIsPublished, SettledIsStill, TypeOK, Op, Process
<1>20. ASSUME NEW p \in Process, ReuseCurrent(p)
      PROVE  RenamedIsReady'
  BY <1>20, StoreAssumption DEF ReuseCurrent, At, Exit, Running, SetOp, Idle,
     RenamedIsReady, BuildIsPrivate, BuildPC, Builds, LockIsHeld, LockPC,
     NamedIsPublished, SettledIsStill, TypeOK, Op, Process
<1>21. ASSUME NEW p \in Process, Die(p)
      PROVE  RenamedIsReady'
  BY <1>21, StoreAssumption DEF Die, Running, SetOp, Idle, RenamedIsReady,
     BuildIsPrivate, BuildPC, Builds, LockIsHeld, LockPC, NamedIsPublished,
     SettledIsStill, TypeOK, Op, Process
<1>22. ASSUME NEW s \in Servers, NEW w \in Workers, NEW g \in Generations,
   SpawnBuild(s, w, g)
      PROVE  RenamedIsReady'
  BY <1>22, StoreAssumption DEF SpawnBuild, Fresh, Running, SetOp, Idle,
     RenamedIsReady, BuildIsPrivate, BuildPC, Builds, LockIsHeld, LockPC,
     NamedIsPublished, SettledIsStill, TypeOK, Op, Process
<1>23. ASSUME NEW s \in Servers, NEW w \in Workers, NEW g \in Generations,
   SpawnReader(s, w, g)
      PROVE  RenamedIsReady'
  BY <1>23, StoreAssumption DEF SpawnReader, Free, Running, SetOp, Idle,
     RenamedIsReady, BuildIsPrivate, BuildPC, Builds, LockIsHeld, LockPC,
     NamedIsPublished, SettledIsStill, TypeOK, Op, Process
<1>24. ASSUME NEW s \in Servers, ReaderEnds(s)
      PROVE  RenamedIsReady'
  BY <1>24, StoreAssumption DEF ReaderEnds, Running, RenamedIsReady,
     BuildIsPrivate, BuildPC, Builds, LockIsHeld, LockPC, NamedIsPublished,
     SettledIsStill, TypeOK, Op, Process
<1>25. ASSUME NEW s \in Servers, SettlePublished(s)
      PROVE  RenamedIsReady'
  <2>1. Tidies(s)
    BY <1>25, SettlePublishedTidies
  <2> QED
    BY <1>25, <2>1, StoreAssumption DEF SettlePublished, Free, Ended, Running,
       RenamedIsReady, BuildIsPrivate, BuildPC, Builds, LockIsHeld, LockPC,
       NamedIsPublished, SettledIsStill, TypeOK, Op, Process, Tidies
<1>26. ASSUME NEW s \in Servers, Reconcile(s)
      PROVE  RenamedIsReady'
  BY <1>26, StoreAssumption DEF Reconcile, Free, Ended, Unpublished, Running,
     SetOp, Idle, RenamedIsReady, BuildIsPrivate, BuildPC, Builds, LockIsHeld,
     LockPC, NamedIsPublished, SettledIsStill, TypeOK, Op, Process
<1>27. ASSUME NEW s \in Servers, EndReconcile(s)
      PROVE  RenamedIsReady'
  BY <1>27, StoreAssumption DEF EndReconcile, At, Running, SetOp, Idle,
     RenamedIsReady, BuildIsPrivate, BuildPC, Builds, LockIsHeld, LockPC,
     NamedIsPublished, SettledIsStill, TypeOK, Op, Process
<1> QED
  BY <1>1, <1>2, <1>3, <1>4, <1>5, <1>6, <1>7, <1>8, <1>9, <1>10, <1>11, <1>12,
     <1>13, <1>14, <1>15, <1>16, <1>17, <1>18, <1>19, <1>20, <1>21, <1>22,
     <1>23, <1>24, <1>25, <1>26, <1>27 DEF Next, Leasing, Publishing,
     Supervising

\* Nobody but its worker builds the generation a server waits for.
LEMMA StillStep ==
    ASSUME TypeOK, Roles, LockIsHeld, CopyHolds, BuildIsPrivate,
       NamedIsPublished, SettledIsStill, Next
    PROVE  SettledIsStill'
<1>1. ASSUME NEW p \in Process, SelectCurrent(p)
      PROVE  SettledIsStill'
  BY <1>1, StoreAssumption DEF SelectCurrent, Free, Running, SetOp, Idle,
     BuildIsPrivate, BuildPC, Builds, LockIsHeld, LockPC, NamedIsPublished,
     SettledIsStill, TypeOK, Op, Process, Unsupervised, Sup, SupState
<1>2. ASSUME NEW p \in Process, LeaseSelected(p)
      PROVE  SettledIsStill'
  <2>1. PICK o \in Op : SelectedEnds(p, o)
    BY <1>2, LeaseSelectedIs
  <2> QED
    BY <1>2, <2>1, StoreAssumption DEF SelectedEnds, LeaseSelected, At, Running,
       BuildIsPrivate, BuildPC, Builds, LockIsHeld, LockPC, NamedIsPublished,
       SettledIsStill, TypeOK, Op, Process, Unsupervised, Sup, SupState
<1>3. ASSUME NEW p \in Process, OpenOld(p)
      PROVE  SettledIsStill'
  BY <1>3, StoreAssumption DEF OpenOld, Free, Running, SetOp, Idle,
     BuildIsPrivate, BuildPC, Builds, LockIsHeld, LockPC, NamedIsPublished,
     SettledIsStill, TypeOK, Op, Process, Unsupervised, Sup, SupState
<1>4. ASSUME NEW p \in Process, PinGeneration(p)
      PROVE  SettledIsStill'
  <2>1. PICK o \in Op : PinEnds(p, o)
    BY <1>4, PinGenerationIs
  <2> QED
    BY <1>4, <2>1, StoreAssumption DEF PinEnds, PinGeneration, At, Running,
       Tidies, BuildIsPrivate, BuildPC, Builds, LockIsHeld, LockPC,
       NamedIsPublished, SettledIsStill, TypeOK, Op, Process, Unsupervised, Sup,
       SupState
<1>5. ASSUME NEW p \in Process, NEW g \in Generations, Release(p, g)
      PROVE  SettledIsStill'
  <2>1. Tidies(p)
    BY <1>5, ReleaseTidies
  <2> QED
    BY <1>5, <2>1, StoreAssumption DEF Release, Free, Running, BuildIsPrivate,
       BuildPC, Builds, LockIsHeld, LockPC, NamedIsPublished, SettledIsStill,
       TypeOK, Op, Process, Unsupervised, Sup, SupState, Tidies
<1>6. ASSUME NEW p \in Process, NEW g \in Generations, BuildInput(p, g)
      PROVE  SettledIsStill'
  BY <1>6, StoreAssumption DEF BuildInput, Free, Building, Fresh, Running,
     SetOp, Idle, BuildIsPrivate, BuildPC, Builds, LockIsHeld, LockPC,
     NamedIsPublished, SettledIsStill, TypeOK, Op, Process, Unsupervised, Sup,
     SupState
<1>7. ASSUME NEW p \in Process, NEW g \in Generations, StartCopy(p, g)
      PROVE  SettledIsStill'
  BY <1>7, StoreAssumption DEF StartCopy, At, TakeLease, Building, Fresh,
     Running, SetOp, Idle, BuildIsPrivate, BuildPC, Builds, LockIsHeld, LockPC,
     NamedIsPublished, SettledIsStill, TypeOK, Op, Process, Unsupervised, Sup,
     SupState
<1>8. ASSUME NEW p \in Process, SkipCopy(p)
      PROVE  SettledIsStill'
  BY <1>8, StoreAssumption DEF SkipCopy, At, Running, SetOp, Idle,
     BuildIsPrivate, BuildPC, Builds, LockIsHeld, LockPC, NamedIsPublished,
     SettledIsStill, TypeOK, Op, Process, Unsupervised, Sup, SupState
<1>9. ASSUME NEW p \in Process, BuildFails(p)
      PROVE  SettledIsStill'
  BY <1>9, StoreAssumption, AfterBuildIs DEF BuildFails, Remove, Remnants, At, Exit, Running,
     SetOp, Idle, BuildIsPrivate, BuildPC, Builds, LockIsHeld, LockPC,
     NamedIsPublished, SettledIsStill, TypeOK, Op, Process, Unsupervised, Sup,
     SupState
<1>10. ASSUME NEW p \in Process, Superseded(p)
      PROVE  SettledIsStill'
  BY <1>10, StoreAssumption, AfterBuildIs DEF Superseded, Remove, Remnants, At, Running, SetOp,
     Idle, BuildIsPrivate, BuildPC, Builds, LockIsHeld, LockPC,
     NamedIsPublished, SettledIsStill, TypeOK, Op, Process, Unsupervised, Sup,
     SupState
<1>11. ASSUME NEW p \in Process, RenameIntoPlace(p)
      PROVE  SettledIsStill'
  <2>1. Renames(p)
    BY <1>11, RenameTidies
  <2> QED
    BY <1>11, <2>1, StoreAssumption DEF RenameIntoPlace, At, StillReplaces,
       Running, SetOp, Idle, BuildIsPrivate, BuildPC, Builds, LockIsHeld,
       LockPC, NamedIsPublished, SettledIsStill, TypeOK, Op, Process,
       Unsupervised, Sup, SupState, Renames
<1>12. ASSUME NEW p \in Process, MovePointer(p)
      PROVE  SettledIsStill'
  BY <1>12, StoreAssumption DEF MovePointer, At, Running, SetOp, Idle,
     BuildIsPrivate, BuildPC, Builds, LockIsHeld, LockPC, NamedIsPublished,
     SettledIsStill, TypeOK, Op, Process, Unsupervised, Sup, SupState
<1>13. ASSUME NEW p \in Process, Answer(p)
      PROVE  SettledIsStill'
  BY <1>13, StoreAssumption, AfterBuildIs DEF Answer, At, Exit, Running, SetOp,
     Idle, BuildIsPrivate, BuildPC, Builds, LockIsHeld, LockPC,
     NamedIsPublished, SettledIsStill, TypeOK, Op, Process, Unsupervised, Sup,
     SupState
<1>14. ASSUME NEW p \in Process, RetireAfterBuild(p)
      PROVE  SettledIsStill'
  <2>1. Tidies(p)
    BY <1>14, RetireAfterBuildTidies
  <2> QED
    BY <1>14, <2>1, StoreAssumption, AfterBuildIs DEF RetireAfterBuild, At,
       Running, SetOp, Idle, BuildIsPrivate, BuildPC, Builds, LockIsHeld,
       LockPC, NamedIsPublished, SettledIsStill, TypeOK, Op, Process,
       Unsupervised, Sup, SupState, Tidies
<1>15. ASSUME NEW p \in Process, PointerWriteFails(p)
      PROVE  SettledIsStill'
  BY <1>15, StoreAssumption DEF PointerWriteFails, At, Running, SetOp, Idle,
     BuildIsPrivate, BuildPC, Builds, LockIsHeld, LockPC, NamedIsPublished,
     SettledIsStill, TypeOK, Op, Process, Unsupervised, Sup, SupState
<1>16. ASSUME NEW p \in Process, UndoRename(p)
      PROVE  SettledIsStill'
  BY <1>16, StoreAssumption, AfterBuildIs DEF UndoRename, Remove, Remnants, At, Exit, Running,
     SetOp, Idle, BuildIsPrivate, BuildPC, Builds, LockIsHeld, LockPC,
     NamedIsPublished, SettledIsStill, TypeOK, Op, Process, Unsupervised, Sup,
     SupState
<1>17. ASSUME NEW p \in Process, EndCopy(p)
      PROVE  SettledIsStill'
  <2>1. Tidies(p)
    BY <1>17, EndCopyTidies
  <2> QED
    BY <1>17, <2>1, StoreAssumption DEF EndCopy, At, Running, SetOp, Idle,
       BuildIsPrivate, BuildPC, Builds, LockIsHeld, LockPC, NamedIsPublished,
       SettledIsStill, TypeOK, Op, Process, Unsupervised, Sup, SupState, Tidies
<1>18. ASSUME NEW p \in Process, Clear(p)
      PROVE  SettledIsStill'
  <2>1. Tidies(p)
    BY <1>18, ClearTidies
  <2> QED
    BY <1>18, <2>1, StoreAssumption DEF Clear, Free, Running, BuildIsPrivate,
       BuildPC, Builds, LockIsHeld, LockPC, NamedIsPublished, SettledIsStill,
       TypeOK, Op, Process, Unsupervised, Sup, SupState, Tidies
<1>19. ASSUME NEW p \in Process, StartStaging(p)
      PROVE  SettledIsStill'
  BY <1>19, StoreAssumption DEF StartStaging, At, Building, Running, SetOp,
     Idle, BuildIsPrivate, BuildPC, Builds, LockIsHeld, LockPC,
     NamedIsPublished, SettledIsStill, TypeOK, Op, Process, Unsupervised, Sup,
     SupState
<1>20. ASSUME NEW p \in Process, ReuseCurrent(p)
      PROVE  SettledIsStill'
  BY <1>20, StoreAssumption DEF ReuseCurrent, At, Exit, Running, SetOp, Idle,
     BuildIsPrivate, BuildPC, Builds, LockIsHeld, LockPC, NamedIsPublished,
     SettledIsStill, TypeOK, Op, Process, Unsupervised, Sup, SupState
<1>21. ASSUME NEW p \in Process, Die(p)
      PROVE  SettledIsStill'
  BY <1>21, StoreAssumption DEF Die, Running, SetOp, Idle, BuildIsPrivate,
     BuildPC, Builds, LockIsHeld, LockPC, NamedIsPublished, SettledIsStill,
     TypeOK, Op, Process, Unsupervised, Sup, SupState
<1>22. ASSUME NEW s \in Servers, NEW w \in Workers, NEW g \in Generations,
   SpawnBuild(s, w, g)
      PROVE  SettledIsStill'
  BY <1>22, StoreAssumption DEF SpawnBuild, Fresh, Running, SetOp, Idle,
     BuildIsPrivate, BuildPC, Builds, LockIsHeld, LockPC, NamedIsPublished,
     SettledIsStill, TypeOK, Op, Process, Unsupervised, Sup, SupState
<1>23. ASSUME NEW s \in Servers, NEW w \in Workers, NEW g \in Generations,
   SpawnReader(s, w, g)
      PROVE  SettledIsStill'
  BY <1>23, StoreAssumption DEF SpawnReader, Free, Running, SetOp, Idle,
     BuildIsPrivate, BuildPC, Builds, LockIsHeld, LockPC, NamedIsPublished,
     SettledIsStill, TypeOK, Op, Process, Unsupervised, Sup, SupState
<1>24. ASSUME NEW s \in Servers, ReaderEnds(s)
      PROVE  SettledIsStill'
  BY <1>24, StoreAssumption DEF ReaderEnds, Running, BuildIsPrivate, BuildPC,
     Builds, LockIsHeld, LockPC, NamedIsPublished, SettledIsStill, TypeOK, Op,
     Process, Unsupervised, Sup, SupState
<1>25. ASSUME NEW s \in Servers, SettlePublished(s)
      PROVE  SettledIsStill'
  <2>1. Tidies(s)
    BY <1>25, SettlePublishedTidies
  <2> QED
    BY <1>25, <2>1, StoreAssumption DEF SettlePublished, Free, Ended, Running,
       BuildIsPrivate, BuildPC, Builds, LockIsHeld, LockPC, NamedIsPublished,
       SettledIsStill, TypeOK, Op, Process, Unsupervised, Sup, SupState, Tidies
<1>26. ASSUME NEW s \in Servers, Reconcile(s)
      PROVE  SettledIsStill'
  <2>1. sup' = sup /\ alive' = alive /\ published' = published /\ sup[s].gen \in Generations
    BY <1>26 DEF Reconcile, SettledIsStill, TypeOK, Sup
  <2>2. op' = [op EXCEPT ![s] = [Idle EXCEPT !.pc = "removing", !.gen = sup[s].gen]]
    BY <1>26 DEF Reconcile, SetOp
  <2>3. s \in Process /\ op[s].pc = "idle"
    BY <1>26 DEF Reconcile, Free, Process
  <2>4. \A q \in Process, g \in Generations : Builds(q, g)' <=> Builds(q, g)
    BY <2>1, <2>2, <2>3 DEF Builds, BuildPC, TypeOK, Idle
  <2>5. \A q \in Process : ~Builds(q, sup[s].gen)
    BY <1>26 DEF Reconcile, Ended, SettledIsStill, Builds
  <2>6. sup[s].gen \in published \/ dir'[sup[s].gen] # "whole"
    BY <1>26, <2>1 DEF Reconcile, LiveMarkers, NamedIsPublished, TypeOK
  <2>7. \A t \in Servers \ {s} : t \in alive => op'[t].pc # "removing"
    BY <1>26, <2>2, StoreAssumption DEF Reconcile, LockIsHeld, LockPC, TypeOK, Process, Idle
  <2>8. \A t \in Servers : sup[t].gen # None => sup[t].gen \in Generations
    BY DEF TypeOK, Sup
  <2> QED
    BY <1>26, <2>1, <2>2, <2>3, <2>4, <2>5, <2>6, <2>7, <2>8
    DEF Reconcile, SettledIsStill, TypeOK, Idle
<1>27. ASSUME NEW s \in Servers, EndReconcile(s)
      PROVE  SettledIsStill'
  BY <1>27, StoreAssumption DEF EndReconcile, At, Running, SetOp, Idle,
     BuildIsPrivate, BuildPC, Builds, LockIsHeld, LockPC, NamedIsPublished,
     SettledIsStill, TypeOK, Op, Process, Unsupervised, Sup, SupState
<1> QED
  BY <1>1, <1>2, <1>3, <1>4, <1>5, <1>6, <1>7, <1>8, <1>9, <1>10, <1>11, <1>12,
     <1>13, <1>14, <1>15, <1>16, <1>17, <1>18, <1>19, <1>20, <1>21, <1>22,
     <1>23, <1>24, <1>25, <1>26, <1>27 DEF Next, Leasing, Publishing,
     Supervising

\* No removal takes the generation the pointer names.
LEMMA PointerStep ==
    ASSUME TypeOK, Roles, LockIsHeld, CopyHolds, BuildIsPrivate,
       NamedIsPublished, RenamedIsReady, SettledIsStill, PointerNamesWhole, Next
    PROVE  PointerNamesWhole'
<1>1. ASSUME NEW p \in Process, SelectCurrent(p)
      PROVE  PointerNamesWhole'
  BY <1>1, StoreAssumption DEF SelectCurrent, Free, Running, SetOp, Idle,
     PointerNamesWhole, RenamedIsReady, Removed, BuildIsPrivate, BuildPC,
     Builds, LockIsHeld, LockPC, NamedIsPublished, SettledIsStill, TypeOK, Op,
     Process
<1>2. ASSUME NEW p \in Process, LeaseSelected(p)
      PROVE  PointerNamesWhole'
  <2>1. PICK o \in Op : SelectedEnds(p, o)
    BY <1>2, LeaseSelectedIs
  <2> QED
    BY <1>2, <2>1, StoreAssumption DEF SelectedEnds, LeaseSelected, At, Running,
       PointerNamesWhole, RenamedIsReady, Removed, BuildIsPrivate, BuildPC,
       Builds, LockIsHeld, LockPC, NamedIsPublished, SettledIsStill, TypeOK, Op,
       Process
<1>3. ASSUME NEW p \in Process, OpenOld(p)
      PROVE  PointerNamesWhole'
  BY <1>3, StoreAssumption DEF OpenOld, Free, Running, SetOp, Idle,
     PointerNamesWhole, RenamedIsReady, Removed, BuildIsPrivate, BuildPC,
     Builds, LockIsHeld, LockPC, NamedIsPublished, SettledIsStill, TypeOK, Op,
     Process
<1>4. ASSUME NEW p \in Process, PinGeneration(p)
      PROVE  PointerNamesWhole'
  <2>1. PICK o \in Op : PinEnds(p, o)
    BY <1>4, PinGenerationIs
  <2> QED
    BY <1>4, <2>1, StoreAssumption DEF PinEnds, PinGeneration, At, Running,
       Tidies, PointerNamesWhole, RenamedIsReady, Removed, BuildIsPrivate,
       BuildPC, Builds, LockIsHeld, LockPC, NamedIsPublished, SettledIsStill,
       TypeOK, Op, Process
<1>5. ASSUME NEW p \in Process, NEW g \in Generations, Release(p, g)
      PROVE  PointerNamesWhole'
  <2>1. Tidies(p)
    BY <1>5, ReleaseTidies
  <2> QED
    BY <1>5, <2>1, StoreAssumption DEF Release, Free, Running,
       PointerNamesWhole, RenamedIsReady, Removed, BuildIsPrivate, BuildPC,
       Builds, LockIsHeld, LockPC, NamedIsPublished, SettledIsStill, TypeOK, Op,
       Process, Tidies
<1>6. ASSUME NEW p \in Process, NEW g \in Generations, BuildInput(p, g)
      PROVE  PointerNamesWhole'
  BY <1>6, StoreAssumption DEF BuildInput, Free, Building, Fresh, Running,
     SetOp, Idle, PointerNamesWhole, RenamedIsReady, Removed, BuildIsPrivate,
     BuildPC, Builds, LockIsHeld, LockPC, NamedIsPublished, SettledIsStill,
     TypeOK, Op, Process
<1>7. ASSUME NEW p \in Process, NEW g \in Generations, StartCopy(p, g)
      PROVE  PointerNamesWhole'
  BY <1>7, StoreAssumption DEF StartCopy, At, TakeLease, Building, Fresh,
     Running, SetOp, Idle, PointerNamesWhole, RenamedIsReady, Removed,
     BuildIsPrivate, BuildPC, Builds, LockIsHeld, LockPC, NamedIsPublished,
     SettledIsStill, TypeOK, Op, Process
<1>8. ASSUME NEW p \in Process, SkipCopy(p)
      PROVE  PointerNamesWhole'
  BY <1>8, StoreAssumption DEF SkipCopy, At, Running, SetOp, Idle,
     PointerNamesWhole, RenamedIsReady, Removed, BuildIsPrivate, BuildPC,
     Builds, LockIsHeld, LockPC, NamedIsPublished, SettledIsStill, TypeOK, Op,
     Process
<1>9. ASSUME NEW p \in Process, BuildFails(p)
      PROVE  PointerNamesWhole'
  BY <1>9, StoreAssumption, AfterBuildIs DEF BuildFails, Remove, Remnants, At, Exit, Running,
     SetOp, Idle, PointerNamesWhole, RenamedIsReady, Removed, BuildIsPrivate,
     BuildPC, Builds, LockIsHeld, LockPC, NamedIsPublished, SettledIsStill,
     TypeOK, Op, Process
<1>10. ASSUME NEW p \in Process, Superseded(p)
      PROVE  PointerNamesWhole'
  BY <1>10, StoreAssumption, AfterBuildIs DEF Superseded, Remove, Remnants, At, Running, SetOp,
     Idle, PointerNamesWhole, RenamedIsReady, Removed, BuildIsPrivate, BuildPC,
     Builds, LockIsHeld, LockPC, NamedIsPublished, SettledIsStill, TypeOK, Op,
     Process
<1>11. ASSUME NEW p \in Process, RenameIntoPlace(p)
      PROVE  PointerNamesWhole'
  <2>1. Renames(p)
    BY <1>11, RenameTidies
  <2> QED
    BY <1>11, <2>1, StoreAssumption DEF RenameIntoPlace, At, StillReplaces,
       Running, SetOp, Idle, PointerNamesWhole, RenamedIsReady, Removed,
       BuildIsPrivate, BuildPC, Builds, LockIsHeld, LockPC, NamedIsPublished,
       SettledIsStill, TypeOK, Op, Process, Renames
<1>12. ASSUME NEW p \in Process, MovePointer(p)
      PROVE  PointerNamesWhole'
  BY <1>12, StoreAssumption DEF MovePointer, At, Running, SetOp, Idle,
     PointerNamesWhole, RenamedIsReady, Removed, BuildIsPrivate, BuildPC,
     Builds, LockIsHeld, LockPC, NamedIsPublished, SettledIsStill, TypeOK, Op,
     Process
<1>13. ASSUME NEW p \in Process, Answer(p)
      PROVE  PointerNamesWhole'
  BY <1>13, StoreAssumption, AfterBuildIs DEF Answer, At, Exit, Running, SetOp,
     Idle, PointerNamesWhole, RenamedIsReady, Removed, BuildIsPrivate, BuildPC,
     Builds, LockIsHeld, LockPC, NamedIsPublished, SettledIsStill, TypeOK, Op,
     Process
<1>14. ASSUME NEW p \in Process, RetireAfterBuild(p)
      PROVE  PointerNamesWhole'
  <2>1. Tidies(p)
    BY <1>14, RetireAfterBuildTidies
  <2> QED
    BY <1>14, <2>1, StoreAssumption, AfterBuildIs DEF RetireAfterBuild, At,
       Running, SetOp, Idle, PointerNamesWhole, RenamedIsReady, Removed,
       BuildIsPrivate, BuildPC, Builds, LockIsHeld, LockPC, NamedIsPublished,
       SettledIsStill, TypeOK, Op, Process, Tidies
<1>15. ASSUME NEW p \in Process, PointerWriteFails(p)
      PROVE  PointerNamesWhole'
  BY <1>15, StoreAssumption DEF PointerWriteFails, At, Running, SetOp, Idle,
     PointerNamesWhole, RenamedIsReady, Removed, BuildIsPrivate, BuildPC,
     Builds, LockIsHeld, LockPC, NamedIsPublished, SettledIsStill, TypeOK, Op,
     Process
<1>16. ASSUME NEW p \in Process, UndoRename(p)
      PROVE  PointerNamesWhole'
  BY <1>16, StoreAssumption, AfterBuildIs DEF UndoRename, Remove, Remnants, At, Exit, Running,
     SetOp, Idle, PointerNamesWhole, RenamedIsReady, Removed, BuildIsPrivate,
     BuildPC, Builds, LockIsHeld, LockPC, NamedIsPublished, SettledIsStill,
     TypeOK, Op, Process
<1>17. ASSUME NEW p \in Process, EndCopy(p)
      PROVE  PointerNamesWhole'
  <2>1. Tidies(p)
    BY <1>17, EndCopyTidies
  <2> QED
    BY <1>17, <2>1, StoreAssumption DEF EndCopy, At, Running, SetOp, Idle,
       PointerNamesWhole, RenamedIsReady, Removed, BuildIsPrivate, BuildPC,
       Builds, LockIsHeld, LockPC, NamedIsPublished, SettledIsStill, TypeOK, Op,
       Process, Tidies
<1>18. ASSUME NEW p \in Process, Clear(p)
      PROVE  PointerNamesWhole'
  <2>1. Tidies(p)
    BY <1>18, ClearTidies
  <2> QED
    BY <1>18, <2>1, StoreAssumption DEF Clear, Free, Running, PointerNamesWhole,
       RenamedIsReady, Removed, BuildIsPrivate, BuildPC, Builds, LockIsHeld,
       LockPC, NamedIsPublished, SettledIsStill, TypeOK, Op, Process, Tidies
<1>19. ASSUME NEW p \in Process, StartStaging(p)
      PROVE  PointerNamesWhole'
  BY <1>19, StoreAssumption DEF StartStaging, At, Building, Running, SetOp,
     Idle, PointerNamesWhole, RenamedIsReady, Removed, BuildIsPrivate, BuildPC,
     Builds, LockIsHeld, LockPC, NamedIsPublished, SettledIsStill, TypeOK, Op,
     Process
<1>20. ASSUME NEW p \in Process, ReuseCurrent(p)
      PROVE  PointerNamesWhole'
  BY <1>20, StoreAssumption DEF ReuseCurrent, At, Exit, Running, SetOp, Idle,
     PointerNamesWhole, RenamedIsReady, Removed, BuildIsPrivate, BuildPC,
     Builds, LockIsHeld, LockPC, NamedIsPublished, SettledIsStill, TypeOK, Op,
     Process
<1>21. ASSUME NEW p \in Process, Die(p)
      PROVE  PointerNamesWhole'
  BY <1>21, StoreAssumption DEF Die, Running, SetOp, Idle, PointerNamesWhole,
     RenamedIsReady, Removed, BuildIsPrivate, BuildPC, Builds, LockIsHeld,
     LockPC, NamedIsPublished, SettledIsStill, TypeOK, Op, Process
<1>22. ASSUME NEW s \in Servers, NEW w \in Workers, NEW g \in Generations,
   SpawnBuild(s, w, g)
      PROVE  PointerNamesWhole'
  BY <1>22, StoreAssumption DEF SpawnBuild, Fresh, Running, SetOp, Idle,
     PointerNamesWhole, RenamedIsReady, Removed, BuildIsPrivate, BuildPC,
     Builds, LockIsHeld, LockPC, NamedIsPublished, SettledIsStill, TypeOK, Op,
     Process
<1>23. ASSUME NEW s \in Servers, NEW w \in Workers, NEW g \in Generations,
   SpawnReader(s, w, g)
      PROVE  PointerNamesWhole'
  BY <1>23, StoreAssumption DEF SpawnReader, Free, Running, SetOp, Idle,
     PointerNamesWhole, RenamedIsReady, Removed, BuildIsPrivate, BuildPC,
     Builds, LockIsHeld, LockPC, NamedIsPublished, SettledIsStill, TypeOK, Op,
     Process
<1>24. ASSUME NEW s \in Servers, ReaderEnds(s)
      PROVE  PointerNamesWhole'
  BY <1>24, StoreAssumption DEF ReaderEnds, Running, PointerNamesWhole,
     RenamedIsReady, Removed, BuildIsPrivate, BuildPC, Builds, LockIsHeld,
     LockPC, NamedIsPublished, SettledIsStill, TypeOK, Op, Process
<1>25. ASSUME NEW s \in Servers, SettlePublished(s)
      PROVE  PointerNamesWhole'
  <2>1. Tidies(s)
    BY <1>25, SettlePublishedTidies
  <2> QED
    BY <1>25, <2>1, StoreAssumption DEF SettlePublished, Free, Ended, Running,
       PointerNamesWhole, RenamedIsReady, Removed, BuildIsPrivate, BuildPC,
       Builds, LockIsHeld, LockPC, NamedIsPublished, SettledIsStill, TypeOK, Op,
       Process, Tidies
<1>26. ASSUME NEW s \in Servers, Reconcile(s)
      PROVE  PointerNamesWhole'
  BY <1>26, StoreAssumption DEF Reconcile, Free, Ended, Unpublished, Running,
     SetOp, Idle, PointerNamesWhole, RenamedIsReady, Removed, BuildIsPrivate,
     BuildPC, Builds, LockIsHeld, LockPC, NamedIsPublished, SettledIsStill,
     TypeOK, Op, Process
<1>27. ASSUME NEW s \in Servers, EndReconcile(s)
      PROVE  PointerNamesWhole'
  BY <1>27, StoreAssumption DEF EndReconcile, At, Running, SetOp, Idle,
     PointerNamesWhole, RenamedIsReady, Removed, BuildIsPrivate, BuildPC,
     Builds, LockIsHeld, LockPC, NamedIsPublished, SettledIsStill, TypeOK, Op,
     Process
<1> QED
  BY <1>1, <1>2, <1>3, <1>4, <1>5, <1>6, <1>7, <1>8, <1>9, <1>10, <1>11, <1>12,
     <1>13, <1>14, <1>15, <1>16, <1>17, <1>18, <1>19, <1>20, <1>21, <1>22,
     <1>23, <1>24, <1>25, <1>26, <1>27 DEF Next, Leasing, Publishing,
     Supervising

\* A lease starts on a whole generation, and no removal takes it.
LEMMA LeasedStep ==
    ASSUME TypeOK, Roles, LockIsHeld, CopyHolds, BuildIsPrivate,
       NamedIsPublished, LeaseIsMarked, SettledIsStill, PointerNamesWhole,
       LeasedIsWhole, Next
    PROVE  LeasedIsWhole'
<1>1. ASSUME NEW p \in Process, SelectCurrent(p)
      PROVE  LeasedIsWhole'
  BY <1>1, StoreAssumption DEF SelectCurrent, Free, Running, SetOp, Idle,
     LeasedIsWhole, LeaseIsMarked, PointerNamesWhole, CopyHolds, Removed,
     BuildIsPrivate, BuildPC, Builds, LockIsHeld, LockPC, NamedIsPublished,
     SettledIsStill, TypeOK, Op, Process
<1>2. ASSUME NEW p \in Process, LeaseSelected(p)
      PROVE  LeasedIsWhole'
  <2>1. PICK o \in Op : SelectedEnds(p, o)
    BY <1>2, LeaseSelectedIs
  <2> QED
    BY <1>2, <2>1, StoreAssumption DEF SelectedEnds, LeaseSelected, At, Running,
       LeasedIsWhole, LeaseIsMarked, PointerNamesWhole, CopyHolds, EndLease,
       Removed, BuildIsPrivate, BuildPC, Builds, LockIsHeld, LockPC,
       NamedIsPublished, SettledIsStill, TypeOK, Op, Process
<1>3. ASSUME NEW p \in Process, OpenOld(p)
      PROVE  LeasedIsWhole'
  BY <1>3, StoreAssumption DEF OpenOld, Free, Running, SetOp, Idle,
     LeasedIsWhole, LeaseIsMarked, PointerNamesWhole, CopyHolds, Removed,
     BuildIsPrivate, BuildPC, Builds, LockIsHeld, LockPC, NamedIsPublished,
     SettledIsStill, TypeOK, Op, Process
<1>4. ASSUME NEW p \in Process, PinGeneration(p)
      PROVE  LeasedIsWhole'
  <2>1. PICK o \in Op : PinEnds(p, o)
    BY <1>4, PinGenerationIs
  <2>2. op[p].gen \in Generations /\ alive' = alive
    BY <1>4 DEF PinGeneration, At, Running, NamedIsPublished, TypeOK
  <2>3. CASE leases' = leases /\ Keeps
    BY <2>2, <2>3, KeepsLeased
  <2>4. CASE o.pc = "idle"
    BY <2>1, <2>2, <2>4 DEF PinEnds, LeasedIsWhole, TypeOK
  <2> QED
    BY <2>1, <2>3, <2>4 DEF PinEnds
<1>5. ASSUME NEW p \in Process, NEW g \in Generations, Release(p, g)
      PROVE  LeasedIsWhole'
  <2>1. Keeps
    BY <1>5, ReleaseTidies, TidiesKeeps
  <2>2. alive' = alive /\ EndLease(p, g, 1)
    BY <1>5 DEF Release
  <2>3. \A q \in alive, h \in Generations : leases'[q][h] > 0 => leases[q][h] > 0
    BY <2>2, EndLeaseCounts DEF TypeOK
  <2> QED
    BY <2>1, <2>2, <2>3, KeepsLeased
<1>6. ASSUME NEW p \in Process, NEW g \in Generations, BuildInput(p, g)
      PROVE  LeasedIsWhole'
  BY <1>6, StoreAssumption DEF BuildInput, Free, Building, Fresh, Running,
     SetOp, Idle, LeasedIsWhole, LeaseIsMarked, PointerNamesWhole, CopyHolds,
     Removed, BuildIsPrivate, BuildPC, Builds, LockIsHeld, LockPC,
     NamedIsPublished, SettledIsStill, TypeOK, Op, Process
<1>7. ASSUME NEW p \in Process, NEW g \in Generations, StartCopy(p, g)
      PROVE  LeasedIsWhole'
  BY <1>7, StoreAssumption DEF StartCopy, At, TakeLease, Building, Fresh,
     Running, SetOp, Idle, LeasedIsWhole, LeaseIsMarked, PointerNamesWhole,
     CopyHolds, Removed, BuildIsPrivate, BuildPC, Builds, LockIsHeld, LockPC,
     NamedIsPublished, SettledIsStill, TypeOK, Op, Process
<1>8. ASSUME NEW p \in Process, SkipCopy(p)
      PROVE  LeasedIsWhole'
  BY <1>8, StoreAssumption DEF SkipCopy, At, Running, SetOp, Idle,
     LeasedIsWhole, LeaseIsMarked, PointerNamesWhole, CopyHolds, Removed,
     BuildIsPrivate, BuildPC, Builds, LockIsHeld, LockPC, NamedIsPublished,
     SettledIsStill, TypeOK, Op, Process
<1>9. ASSUME NEW p \in Process, BuildFails(p)
      PROVE  LeasedIsWhole'
  BY <1>9, StoreAssumption, AfterBuildIs DEF BuildFails, Remove, Remnants, At, Exit, Running,
     SetOp, Idle, LeasedIsWhole, LeaseIsMarked, PointerNamesWhole, CopyHolds,
     Removed, BuildIsPrivate, BuildPC, Builds, LockIsHeld, LockPC,
     NamedIsPublished, SettledIsStill, TypeOK, Op, Process
<1>10. ASSUME NEW p \in Process, Superseded(p)
      PROVE  LeasedIsWhole'
  BY <1>10, StoreAssumption, AfterBuildIs DEF Superseded, Remove, Remnants, At, Running, SetOp,
     Idle, LeasedIsWhole, LeaseIsMarked, PointerNamesWhole, CopyHolds, Removed,
     BuildIsPrivate, BuildPC, Builds, LockIsHeld, LockPC, NamedIsPublished,
     SettledIsStill, TypeOK, Op, Process
<1>11. ASSUME NEW p \in Process, RenameIntoPlace(p)
      PROVE  LeasedIsWhole'
  <2>1. Keeps
    BY <1>11, RenameTidies
  <2>2. alive' \subseteq alive /\ leases' = leases
    BY <1>11 DEF RenameIntoPlace
  <2> QED
    BY <2>1, <2>2, KeepsLeased
<1>12. ASSUME NEW p \in Process, MovePointer(p)
      PROVE  LeasedIsWhole'
  BY <1>12, StoreAssumption DEF MovePointer, At, Running, SetOp, Idle,
     LeasedIsWhole, LeaseIsMarked, PointerNamesWhole, CopyHolds, Removed,
     BuildIsPrivate, BuildPC, Builds, LockIsHeld, LockPC, NamedIsPublished,
     SettledIsStill, TypeOK, Op, Process
<1>13. ASSUME NEW p \in Process, Answer(p)
      PROVE  LeasedIsWhole'
  BY <1>13, StoreAssumption, AfterBuildIs DEF Answer, At, Exit, Running, SetOp,
     Idle, LeasedIsWhole, LeaseIsMarked, PointerNamesWhole, CopyHolds, Removed,
     BuildIsPrivate, BuildPC, Builds, LockIsHeld, LockPC, NamedIsPublished,
     SettledIsStill, TypeOK, Op, Process
<1>14. ASSUME NEW p \in Process, RetireAfterBuild(p)
      PROVE  LeasedIsWhole'
  <2>1. Keeps
    BY <1>14, RetireAfterBuildTidies, TidiesKeeps
  <2>2. alive' \subseteq alive /\ leases' = leases
    BY <1>14 DEF RetireAfterBuild
  <2> QED
    BY <2>1, <2>2, KeepsLeased
<1>15. ASSUME NEW p \in Process, PointerWriteFails(p)
      PROVE  LeasedIsWhole'
  BY <1>15, StoreAssumption DEF PointerWriteFails, At, Running, SetOp, Idle,
     LeasedIsWhole, LeaseIsMarked, PointerNamesWhole, CopyHolds, Removed,
     BuildIsPrivate, BuildPC, Builds, LockIsHeld, LockPC, NamedIsPublished,
     SettledIsStill, TypeOK, Op, Process
<1>16. ASSUME NEW p \in Process, UndoRename(p)
      PROVE  LeasedIsWhole'
  <2>1. Keeps
    BY <1>16, UndoKeeps
  <2>2. alive' \subseteq alive /\ leases' = leases
    BY <1>16 DEF UndoRename, Remove, Remnants, Exit
  <2> QED
    BY <2>1, <2>2, KeepsLeased
<1>17. ASSUME NEW p \in Process, EndCopy(p)
      PROVE  LeasedIsWhole'
  <2>1. Keeps
    BY <1>17, EndCopyTidies, TidiesKeeps
  <2>2. PICK g, n : g = op[p].src /\ n = op[p].n
    OBVIOUS
  <2>3. g \in Generations /\ n \in Nat
    BY <1>17, <2>2 DEF EndCopy, At, Running, CopyHolds, TypeOK, Op
  <2>4. alive' = alive /\ EndLease(p, g, n)
    BY <1>17, <2>2 DEF EndCopy, EndLease
  <2>5. \A q \in alive, h \in Generations : leases'[q][h] > 0 => leases[q][h] > 0
    BY <2>3, <2>4, EndLeaseCounts DEF TypeOK
  <2> QED
    BY <2>1, <2>4, <2>5, KeepsLeased
<1>18. ASSUME NEW p \in Process, Clear(p)
      PROVE  LeasedIsWhole'
  <2>1. Keeps
    BY <1>18, ClearTidies, TidiesKeeps
  <2>2. alive' \subseteq alive /\ leases' = leases
    BY <1>18 DEF Clear
  <2> QED
    BY <2>1, <2>2, KeepsLeased
<1>19. ASSUME NEW p \in Process, StartStaging(p)
      PROVE  LeasedIsWhole'
  BY <1>19, StoreAssumption DEF StartStaging, At, Building, Running, SetOp,
     Idle, LeasedIsWhole, LeaseIsMarked, PointerNamesWhole, CopyHolds, Removed,
     BuildIsPrivate, BuildPC, Builds, LockIsHeld, LockPC, NamedIsPublished,
     SettledIsStill, TypeOK, Op, Process
<1>20. ASSUME NEW p \in Process, ReuseCurrent(p)
      PROVE  LeasedIsWhole'
  BY <1>20, StoreAssumption DEF ReuseCurrent, At, Exit, Running, SetOp, Idle,
     LeasedIsWhole, LeaseIsMarked, PointerNamesWhole, CopyHolds, Removed,
     BuildIsPrivate, BuildPC, Builds, LockIsHeld, LockPC, NamedIsPublished,
     SettledIsStill, TypeOK, Op, Process
<1>21. ASSUME NEW p \in Process, Die(p)
      PROVE  LeasedIsWhole'
  BY <1>21, StoreAssumption DEF Die, Running, SetOp, Idle, LeasedIsWhole,
     LeaseIsMarked, PointerNamesWhole, CopyHolds, Removed, BuildIsPrivate,
     BuildPC, Builds, LockIsHeld, LockPC, NamedIsPublished, SettledIsStill,
     TypeOK, Op, Process
<1>22. ASSUME NEW s \in Servers, NEW w \in Workers, NEW g \in Generations,
   SpawnBuild(s, w, g)
      PROVE  LeasedIsWhole'
  BY <1>22, StoreAssumption DEF SpawnBuild, Fresh, Running, SetOp, Idle,
     LeasedIsWhole, LeaseIsMarked, PointerNamesWhole, CopyHolds, Removed,
     BuildIsPrivate, BuildPC, Builds, LockIsHeld, LockPC, NamedIsPublished,
     SettledIsStill, TypeOK, Op, Process
<1>23. ASSUME NEW s \in Servers, NEW w \in Workers, NEW g \in Generations,
   SpawnReader(s, w, g)
      PROVE  LeasedIsWhole'
  BY <1>23, StoreAssumption DEF SpawnReader, Free, Running, SetOp, Idle,
     LeasedIsWhole, LeaseIsMarked, PointerNamesWhole, CopyHolds, Removed,
     BuildIsPrivate, BuildPC, Builds, LockIsHeld, LockPC, NamedIsPublished,
     SettledIsStill, TypeOK, Op, Process
<1>24. ASSUME NEW s \in Servers, ReaderEnds(s)
      PROVE  LeasedIsWhole'
  BY <1>24, StoreAssumption DEF ReaderEnds, Running, LeasedIsWhole,
     LeaseIsMarked, PointerNamesWhole, CopyHolds, Removed, BuildIsPrivate,
     BuildPC, Builds, LockIsHeld, LockPC, NamedIsPublished, SettledIsStill,
     TypeOK, Op, Process
<1>25. ASSUME NEW s \in Servers, SettlePublished(s)
      PROVE  LeasedIsWhole'
  <2>1. Keeps
    BY <1>25, SettlePublishedTidies, TidiesKeeps
  <2>2. alive' \subseteq alive /\ leases' = leases
    BY <1>25 DEF SettlePublished
  <2> QED
    BY <2>1, <2>2, KeepsLeased
<1>26. ASSUME NEW s \in Servers, Reconcile(s)
      PROVE  LeasedIsWhole'
  <2>1. Keeps
    BY <1>26, ReconcileKeeps
  <2>2. alive' \subseteq alive /\ leases' = leases
    BY <1>26 DEF Reconcile
  <2> QED
    BY <2>1, <2>2, KeepsLeased
<1>27. ASSUME NEW s \in Servers, EndReconcile(s)
      PROVE  LeasedIsWhole'
  BY <1>27, StoreAssumption DEF EndReconcile, At, Running, SetOp, Idle,
     LeasedIsWhole, LeaseIsMarked, PointerNamesWhole, CopyHolds, Removed,
     BuildIsPrivate, BuildPC, Builds, LockIsHeld, LockPC, NamedIsPublished,
     SettledIsStill, TypeOK, Op, Process
<1> QED
  BY <1>1, <1>2, <1>3, <1>4, <1>5, <1>6, <1>7, <1>8, <1>9, <1>10, <1>11, <1>12,
     <1>13, <1>14, <1>15, <1>16, <1>17, <1>18, <1>19, <1>20, <1>21, <1>22,
     <1>23, <1>24, <1>25, <1>26, <1>27 DEF Next, Leasing, Publishing,
     Supervising

\* Nobody makes a directory for a build that was settled as failed.
LEMMA FailedStep ==
    ASSUME TypeOK, Roles, LockIsHeld, CopyHolds, BuildIsPrivate,
       NamedIsPublished, SettledIsStill, FailedBuildIsSettled, Next
    PROVE  FailedBuildIsSettled'
<1>1. ASSUME NEW p \in Process, SelectCurrent(p)
      PROVE  FailedBuildIsSettled'
  BY <1>1, StoreAssumption DEF SelectCurrent, Free, Running, SetOp, Idle,
     FailedBuildIsSettled, Removed, DirState, Listed, BuildIsPrivate,
     BuildPC, Builds, LockIsHeld, LockPC, NamedIsPublished, SettledIsStill,
     TypeOK, Op, Process, Unsupervised, Sup
<1>2. ASSUME NEW p \in Process, LeaseSelected(p)
      PROVE  FailedBuildIsSettled'
  <2>1. PICK o \in Op : SelectedEnds(p, o)
    BY <1>2, LeaseSelectedIs
  <2> QED
    BY <1>2, <2>1, StoreAssumption DEF SelectedEnds, LeaseSelected, At, Running,
       FailedBuildIsSettled, Removed, DirState, Listed, BuildIsPrivate,
       BuildPC, Builds, LockIsHeld, LockPC, NamedIsPublished, SettledIsStill,
       TypeOK, Op, Process, Unsupervised, Sup
<1>3. ASSUME NEW p \in Process, OpenOld(p)
      PROVE  FailedBuildIsSettled'
  BY <1>3, StoreAssumption DEF OpenOld, Free, Running, SetOp, Idle,
     FailedBuildIsSettled, Removed, DirState, Listed, BuildIsPrivate,
     BuildPC, Builds, LockIsHeld, LockPC, NamedIsPublished, SettledIsStill,
     TypeOK, Op, Process, Unsupervised, Sup
<1>4. ASSUME NEW p \in Process, PinGeneration(p)
      PROVE  FailedBuildIsSettled'
  <2>1. PICK o \in Op : PinEnds(p, o)
    BY <1>4, PinGenerationIs
  <2> QED
    BY <1>4, <2>1, StoreAssumption DEF PinEnds, PinGeneration, At, Running,
       Tidies, FailedBuildIsSettled, Removed, DirState, Listed,
       BuildIsPrivate, BuildPC, Builds, LockIsHeld, LockPC, NamedIsPublished,
       SettledIsStill, TypeOK, Op, Process, Unsupervised, Sup
<1>5. ASSUME NEW p \in Process, NEW g \in Generations, Release(p, g)
      PROVE  FailedBuildIsSettled'
  <2>1. Tidies(p)
    BY <1>5, ReleaseTidies
  <2> QED
    BY <1>5, <2>1, StoreAssumption DEF Release, Free, Running,
       FailedBuildIsSettled, Removed, DirState, Listed, BuildIsPrivate,
       BuildPC, Builds, LockIsHeld, LockPC, NamedIsPublished, SettledIsStill,
       TypeOK, Op, Process, Unsupervised, Sup, Tidies
<1>6. ASSUME NEW p \in Process, NEW g \in Generations, BuildInput(p, g)
      PROVE  FailedBuildIsSettled'
  BY <1>6, StoreAssumption DEF BuildInput, Free, Building, Fresh, Running,
     SetOp, Idle, FailedBuildIsSettled, Removed, DirState, Listed,
     BuildIsPrivate, BuildPC, Builds, LockIsHeld, LockPC, NamedIsPublished,
     SettledIsStill, TypeOK, Op, Process, Unsupervised, Sup
<1>7. ASSUME NEW p \in Process, NEW g \in Generations, StartCopy(p, g)
      PROVE  FailedBuildIsSettled'
  BY <1>7, StoreAssumption DEF StartCopy, At, TakeLease, Building, Fresh,
     Running, SetOp, Idle, FailedBuildIsSettled, Removed, DirState, Listed,
     BuildIsPrivate, BuildPC, Builds, LockIsHeld, LockPC, NamedIsPublished,
     SettledIsStill, TypeOK, Op, Process, Unsupervised, Sup
<1>8. ASSUME NEW p \in Process, SkipCopy(p)
      PROVE  FailedBuildIsSettled'
  BY <1>8, StoreAssumption DEF SkipCopy, At, Running, SetOp, Idle,
     FailedBuildIsSettled, Removed, DirState, Listed, BuildIsPrivate,
     BuildPC, Builds, LockIsHeld, LockPC, NamedIsPublished, SettledIsStill,
     TypeOK, Op, Process, Unsupervised, Sup
<1>9. ASSUME NEW p \in Process, BuildFails(p)
      PROVE  FailedBuildIsSettled'
  BY <1>9, StoreAssumption, AfterBuildIs DEF BuildFails, Remove, Remnants, At, Exit, Running,
     SetOp, Idle, FailedBuildIsSettled, Removed, DirState, Listed,
     BuildIsPrivate, BuildPC, Builds, LockIsHeld, LockPC, NamedIsPublished,
     SettledIsStill, TypeOK, Op, Process, Unsupervised, Sup
<1>10. ASSUME NEW p \in Process, Superseded(p)
      PROVE  FailedBuildIsSettled'
  BY <1>10, StoreAssumption, AfterBuildIs DEF Superseded, Remove, Remnants, At, Running, SetOp,
     Idle, FailedBuildIsSettled, Removed, DirState, Listed, BuildIsPrivate,
     BuildPC, Builds, LockIsHeld, LockPC, NamedIsPublished, SettledIsStill,
     TypeOK, Op, Process, Unsupervised, Sup
<1>11. ASSUME NEW p \in Process, RenameIntoPlace(p)
      PROVE  FailedBuildIsSettled'
  <2>1. Renames(p)
    BY <1>11, RenameTidies
  <2> QED
    BY <1>11, <2>1, StoreAssumption DEF RenameIntoPlace, At, StillReplaces,
       Running, SetOp, Idle, FailedBuildIsSettled, Removed, DirState,
       Listed, BuildIsPrivate, BuildPC, Builds, LockIsHeld, LockPC,
       NamedIsPublished, SettledIsStill, TypeOK, Op, Process, Unsupervised, Sup,
       Renames
<1>12. ASSUME NEW p \in Process, MovePointer(p)
      PROVE  FailedBuildIsSettled'
  BY <1>12, StoreAssumption DEF MovePointer, At, Running, SetOp, Idle,
     FailedBuildIsSettled, Removed, DirState, Listed, BuildIsPrivate,
     BuildPC, Builds, LockIsHeld, LockPC, NamedIsPublished, SettledIsStill,
     TypeOK, Op, Process, Unsupervised, Sup
<1>13. ASSUME NEW p \in Process, Answer(p)
      PROVE  FailedBuildIsSettled'
  BY <1>13, StoreAssumption, AfterBuildIs DEF Answer, At, Exit, Running, SetOp,
     Idle, FailedBuildIsSettled, Removed, DirState, Listed, BuildIsPrivate,
     BuildPC, Builds, LockIsHeld, LockPC, NamedIsPublished, SettledIsStill,
     TypeOK, Op, Process, Unsupervised, Sup
<1>14. ASSUME NEW p \in Process, RetireAfterBuild(p)
      PROVE  FailedBuildIsSettled'
  <2>1. Tidies(p)
    BY <1>14, RetireAfterBuildTidies
  <2> QED
    BY <1>14, <2>1, StoreAssumption, AfterBuildIs DEF RetireAfterBuild, At,
       Running, SetOp, Idle, FailedBuildIsSettled, Removed, DirState,
       Listed, BuildIsPrivate, BuildPC, Builds, LockIsHeld, LockPC,
       NamedIsPublished, SettledIsStill, TypeOK, Op, Process, Unsupervised, Sup,
       Tidies
<1>15. ASSUME NEW p \in Process, PointerWriteFails(p)
      PROVE  FailedBuildIsSettled'
  BY <1>15, StoreAssumption DEF PointerWriteFails, At, Running, SetOp, Idle,
     FailedBuildIsSettled, Removed, DirState, Listed, BuildIsPrivate,
     BuildPC, Builds, LockIsHeld, LockPC, NamedIsPublished, SettledIsStill,
     TypeOK, Op, Process, Unsupervised, Sup
<1>16. ASSUME NEW p \in Process, UndoRename(p)
      PROVE  FailedBuildIsSettled'
  BY <1>16, StoreAssumption, AfterBuildIs DEF UndoRename, Remove, Remnants, At, Exit, Running,
     SetOp, Idle, FailedBuildIsSettled, Removed, DirState, Listed,
     BuildIsPrivate, BuildPC, Builds, LockIsHeld, LockPC, NamedIsPublished,
     SettledIsStill, TypeOK, Op, Process, Unsupervised, Sup
<1>17. ASSUME NEW p \in Process, EndCopy(p)
      PROVE  FailedBuildIsSettled'
  <2>1. Tidies(p)
    BY <1>17, EndCopyTidies
  <2> QED
    BY <1>17, <2>1, StoreAssumption DEF EndCopy, At, Running, SetOp, Idle,
       FailedBuildIsSettled, Removed, DirState, Listed, BuildIsPrivate,
       BuildPC, Builds, LockIsHeld, LockPC, NamedIsPublished, SettledIsStill,
       TypeOK, Op, Process, Unsupervised, Sup, Tidies
<1>18. ASSUME NEW p \in Process, Clear(p)
      PROVE  FailedBuildIsSettled'
  <2>1. Tidies(p)
    BY <1>18, ClearTidies
  <2> QED
    BY <1>18, <2>1, StoreAssumption DEF Clear, Free, Running,
       FailedBuildIsSettled, Removed, DirState, Listed, BuildIsPrivate,
       BuildPC, Builds, LockIsHeld, LockPC, NamedIsPublished, SettledIsStill,
       TypeOK, Op, Process, Unsupervised, Sup, Tidies
<1>19. ASSUME NEW p \in Process, StartStaging(p)
      PROVE  FailedBuildIsSettled'
  BY <1>19, StoreAssumption DEF StartStaging, At, Building, Running, SetOp,
     Idle, FailedBuildIsSettled, Removed, DirState, Listed, BuildIsPrivate,
     BuildPC, Builds, LockIsHeld, LockPC, NamedIsPublished, SettledIsStill,
     TypeOK, Op, Process, Unsupervised, Sup
<1>20. ASSUME NEW p \in Process, ReuseCurrent(p)
      PROVE  FailedBuildIsSettled'
  BY <1>20, StoreAssumption DEF ReuseCurrent, At, Exit, Running, SetOp, Idle,
     FailedBuildIsSettled, Removed, DirState, Listed, BuildIsPrivate,
     BuildPC, Builds, LockIsHeld, LockPC, NamedIsPublished, SettledIsStill,
     TypeOK, Op, Process, Unsupervised, Sup
<1>21. ASSUME NEW p \in Process, Die(p)
      PROVE  FailedBuildIsSettled'
  BY <1>21, StoreAssumption DEF Die, Running, SetOp, Idle,
     FailedBuildIsSettled, Removed, DirState, Listed, BuildIsPrivate,
     BuildPC, Builds, LockIsHeld, LockPC, NamedIsPublished, SettledIsStill,
     TypeOK, Op, Process, Unsupervised, Sup
<1>22. ASSUME NEW s \in Servers, NEW w \in Workers, NEW g \in Generations,
   SpawnBuild(s, w, g)
      PROVE  FailedBuildIsSettled'
  BY <1>22, StoreAssumption DEF SpawnBuild, Fresh, Running, SetOp, Idle,
     FailedBuildIsSettled, Removed, DirState, Listed, BuildIsPrivate,
     BuildPC, Builds, LockIsHeld, LockPC, NamedIsPublished, SettledIsStill,
     TypeOK, Op, Process, Unsupervised, Sup
<1>23. ASSUME NEW s \in Servers, NEW w \in Workers, NEW g \in Generations,
   SpawnReader(s, w, g)
      PROVE  FailedBuildIsSettled'
  BY <1>23, StoreAssumption DEF SpawnReader, Free, Running, SetOp, Idle,
     FailedBuildIsSettled, Removed, DirState, Listed, BuildIsPrivate,
     BuildPC, Builds, LockIsHeld, LockPC, NamedIsPublished, SettledIsStill,
     TypeOK, Op, Process, Unsupervised, Sup
<1>24. ASSUME NEW s \in Servers, ReaderEnds(s)
      PROVE  FailedBuildIsSettled'
  BY <1>24, StoreAssumption DEF ReaderEnds, Running, FailedBuildIsSettled,
     Removed, DirState, Listed, BuildIsPrivate, BuildPC, Builds, LockIsHeld,
     LockPC, NamedIsPublished, SettledIsStill, TypeOK, Op, Process,
     Unsupervised, Sup
<1>25. ASSUME NEW s \in Servers, SettlePublished(s)
      PROVE  FailedBuildIsSettled'
  <2>1. Tidies(s)
    BY <1>25, SettlePublishedTidies
  <2> QED
    BY <1>25, <2>1, StoreAssumption DEF SettlePublished, Free, Ended, Running,
       FailedBuildIsSettled, Removed, DirState, Listed, BuildIsPrivate,
       BuildPC, Builds, LockIsHeld, LockPC, NamedIsPublished, SettledIsStill,
       TypeOK, Op, Process, Unsupervised, Sup, Tidies
<1>26. ASSUME NEW s \in Servers, Reconcile(s)
      PROVE  FailedBuildIsSettled'
  BY <1>26, StoreAssumption DEF Reconcile, Free, Ended, Unpublished, Running,
     SetOp, Idle, FailedBuildIsSettled, Removed, DirState, Listed,
     BuildIsPrivate, BuildPC, Builds, LockIsHeld, LockPC, NamedIsPublished,
     SettledIsStill, TypeOK, Op, Process, Unsupervised, Sup
<1>27. ASSUME NEW s \in Servers, EndReconcile(s)
      PROVE  FailedBuildIsSettled'
  <2>1. /\ op[s].gen = sup[s].gen /\ sup[s].gen \in Generations
        /\ sup[s].gen \in published \/ dir[sup[s].gen] # "whole"
    BY <1>27 DEF EndReconcile, At, Running, SettledIsStill, TypeOK, Sup
  <2>2. CASE /\ dir' = [dir EXCEPT ![op[s].gen] = Removed(@)]
             /\ sup' = [sup EXCEPT ![s].pc = "failed"]
    <3>1. \A g \in Generations : dir'[g] = "none" \/ dir'[g] = dir[g]
      BY <2>1, <2>2 DEF Removed, TypeOK
    <3>2. sup[s].gen \in published \/ dir'[sup[s].gen] = "none"
      BY <2>1, <2>2 DEF Removed, TypeOK, DirState
    <3> QED
      BY <1>27, <2>2, <3>1, <3>2 DEF EndReconcile, FailedBuildIsSettled, SettledIsStill, TypeOK,
         Sup
  <2>3. CASE /\ dir[op[s].gen] \in {"partial", "staged"}
             /\ UNCHANGED dir
             /\ sup' = [sup EXCEPT ![s].pc = "unremovable"]
    BY <1>27, <2>1, <2>3 DEF EndReconcile, FailedBuildIsSettled, TypeOK, Sup
  <2> QED
    BY <1>27, <2>2, <2>3 DEF EndReconcile
<1> QED
  BY <1>1, <1>2, <1>3, <1>4, <1>5, <1>6, <1>7, <1>8, <1>9, <1>10, <1>11, <1>12,
     <1>13, <1>14, <1>15, <1>16, <1>17, <1>18, <1>19, <1>20, <1>21, <1>22,
     <1>23, <1>24, <1>25, <1>26, <1>27 DEF Next, Leasing, Publishing,
     Supervising

-----------------------------------------------------------------------------
(* The theorems.                                                           *)

\* The first states satisfy the inductive invariant.
LEMMA InitIInv == Init => IInv
<1> SUFFICES ASSUME Init PROVE IInv
  OBVIOUS
<1> USE StoreAssumption DEF Init
<1>1. TypeOK
  BY DEF TypeOK, Op, OpState, Sup, SupState, DirState, Idle, Unsupervised, Process
<1>2. Roles /\ LockIsHeld
  BY DEF Roles, LockIsHeld, LockPC, Idle, Process
<1>3. NamedIsPublished /\ LeaseIsMarked /\ CopyHolds
  BY DEF NamedIsPublished, LeaseIsMarked, CopyHolds, Idle, Process
<1>4. BuildIsPrivate /\ RenamedIsReady /\ SettledIsStill
  BY DEF BuildIsPrivate, BuildPC, Builds, RenamedIsReady, SettledIsStill, Idle,
     Unsupervised, Process
<1>5. PointerNamesWhole /\ LeasedIsWhole /\ FailedBuildIsSettled
  BY DEF PointerNamesWhole, LeasedIsWhole, FailedBuildIsSettled, Unsupervised,
     Process
<1> QED
  BY <1>1, <1>2, <1>3, <1>4, <1>5 DEF IInv

\* Every step preserves the inductive invariant.
LEMMA NextIInv == IInv /\ [Next]_vars => IInv'
<1> SUFFICES ASSUME IInv, [Next]_vars PROVE IInv'
  OBVIOUS
<1>1. CASE Next
  <2> USE <1>1 DEF IInv
  <2>1. TypeOK' /\ Roles' /\ LockIsHeld'
    BY TypeStep, RolesStep, LockStep
  <2>2. NamedIsPublished' /\ LeaseIsMarked' /\ CopyHolds'
    BY NamedStep, MarkedStep, CopyStep
  <2>3. BuildIsPrivate' /\ RenamedIsReady' /\ SettledIsStill'
    BY PrivateStep, ReadyStep, StillStep
  <2>4. PointerNamesWhole' /\ LeasedIsWhole' /\ FailedBuildIsSettled'
    BY PointerStep, LeasedStep, FailedStep
  <2> QED
    BY <2>1, <2>2, <2>3, <2>4
<1>2. CASE UNCHANGED vars
  BY <1>2 DEF vars, IInv, TypeOK, Roles, LockIsHeld, NamedIsPublished, LeaseIsMarked,
     CopyHolds, BuildIsPrivate, Builds, RenamedIsReady, SettledIsStill,
     PointerNamesWhole, LeasedIsWhole, FailedBuildIsSettled
<1> QED
  BY <1>1, <1>2

\* The invariant: who builds what, who holds the lock, what is marked and published.
THEOREM SpecIInv == Spec => []IInv
  BY InitIInv, NextIInv, PTL DEF Spec

\* The types, at every step of the store.
THEOREM SpecTypeOK == Spec => []TypeOK
  BY SpecIInv, PTL DEF IInv

\* current.json names a complete generation in every state, whichever process dies
\* between the rename of a directory, the write of the pointer and the removals.
THEOREM SpecPointerNamesWhole == Spec => []PointerNamesWhole
  BY SpecIInv, PTL DEF IInv

\* What a running process leases stays complete: _retire_unleased_locked, clear, the
\* undo of a rename and reconcile_unpublished all spare it.
THEOREM SpecLeasedIsWhole == Spec => []LeasedIsWhole
  BY SpecIInv, PTL DEF IInv

\* A supervised build that failed and had published nothing leaves nothing: either
\* reconcile_unpublished has removed what it left, or it reported "unremovable".
THEOREM SpecFailedBuildIsSettled == Spec => []FailedBuildIsSettled
  BY SpecIInv, PTL DEF IInv

\* build writes the pointer for a re-encoded copy only while the pointer still names
\* the generation the copy was made from.
THEOREM SpecCopyReplacesItsSource == Spec => CopyReplacesItsSource
<1>1. ASSUME IInv
      PROVE  \A p \in Process :
                 MovePointer(p) /\ op[p].src # None => pointer = op[p].src
  BY <1>1 DEF IInv, RenamedIsReady, MovePointer, At, Running
<1> QED
  BY <1>1, SpecIInv, PTL DEF CopyReplacesItsSource
=============================================================================
