------------------------- MODULE HostedStorageProofs -------------------------
(***************************************************************************)
(* Nothing published is lost, what is shown as synced is published, and    *)
(* only its own writer can make the newest generation impossible to        *)
(* restore, for any number of containers, apps, saves, faults and          *)
(* generations and any retention. The argument: a container's clone always *)
(* holds every generation the container wrote, the one it last saw and the *)
(* one its record names; so what it packs extends the head it read, and    *)
(* the create-only pointer lets it commit, on time or late, only while     *)
(* that head is the newest. SyncInv adds what a session still owes.        *)
(***************************************************************************)
EXTENDS HostedStorage, TLAPS

\* What the types say of an operation and of a bundle's row.
OpType == [kind : Kinds \cup {None}, at : Steps \cup {None}, head : Nat,
           tip : SUBSET Commits]
Row == [Containers -> (SUBSET Commits) \cup {None}]

\* The types, with the sets of the model spelled out.
Types ==
  /\ pointers \in Seq(Pointers)
  /\ bundles \in [Generation -> Row]
  /\ transit \subseteq [head : Nat, pointer : Pointers]
  /\ local \in [Containers -> SUBSET Commits]
  /\ record \in [Containers -> Nat]
  /\ seen \in [Containers -> Nat]
  /\ life \in [Containers -> {"new", "up", "dead"}]
  /\ op \in [Containers -> OpType]
  /\ requests \in 0 .. MaxRequests
  /\ Len(pointers) <= MaxGenerations

\* The clone holds generation g.
Holds(c, g) == pointers[g].tip \subseteq local[c]

\* What c's clone, record and last seen generation say of the history.
CloneKeeps(c) ==
  /\ record[c] <= Newest /\ seen[c] <= Newest
  /\ record[c] > 0 => Holds(c, record[c])
  /\ life[c] = "up" /\ seen[c] > 0 => Holds(c, seen[c])
  /\ life[c] = "up" =>
       \A g \in 1 .. Newest : pointers[g].writer = c => Holds(c, g)
  /\ life[c] = "new" => seen[c] = 0 /\ record[c] = 0

\* A container that has not begun to serve has published nothing.
Unpublished(c) ==
  life[c] = "new" \/ op[c].kind \in {"boot", "present"} =>
    \A g \in 1 .. Newest : pointers[g].writer # c

\* What a publish under way relies on.
Fenced(c) ==
  LET h == op[c].head
  IN  /\ life[c] # "up" => op[c].at = None
      /\ op[c].at = "fetch" => op[c].kind = "boot" /\ 1 <= h /\ h <= Newest
      /\ op[c].at = "prune" => h + 1 <= Newest /\ op[c].kind \in {"adopt", "push"}
      /\ op[c].at \in {"pack", "create"} =>
           /\ op[c].kind \in {"adopt", "push"}
           /\ h <= Newest /\ h < MaxGenerations
      /\ op[c].at = "pack" /\ h > 0 => Holds(c, h)
      /\ op[c].at = "create" =>
           /\ op[c].tip \subseteq local[c]
           /\ h > 0 => pointers[h].tip \subseteq op[c].tip
           /\ h = Newest => bundles[h + 1][c] = op[c].tip

\* What c sent and heard no answer of: it extends the head it was built on, and
\* while that is the newest, its bundle is there.
Sent(c) ==
  \A r \in transit : r.pointer.writer = c =>
    /\ r.head <= Newest /\ r.head < MaxGenerations
    /\ life[c] # "new" /\ op[c].kind \notin {"boot", "present"}
    /\ life[c] = "up" => r.pointer.tip \subseteq local[c]
    /\ r.head = Newest =>
         /\ r.head > 0 => pointers[r.head].tip \subseteq r.pointer.tip
         /\ bundles[r.head + 1][c] # None
         /\ r.pointer.tip \subseteq bundles[r.head + 1][c]

\* What the invariant says of one container.
ContainerOK(c) == CloneKeeps(c) /\ Unpublished(c) /\ Fenced(c) /\ Sent(c)

\* The inductive invariant.
IInv ==
  /\ Types
  /\ HistoryIsKept
  /\ \A c \in Containers : ContainerOK(c)

-----------------------------------------------------------------------------
\* The initial states satisfy the invariant: nothing is published.
LEMMA InitIInv == Init => IInv
<1> SUFFICES ASSUME Init PROVE IInv
  OBVIOUS
<1>0. Len(pointers) = 0 /\ pointers \in Seq(Pointers)
  BY DEF Init
<1>1. Types
  <2>1. Idle \in OpType
    BY DEF Idle, OpType
  <2>2. bundles \in [Generation -> Row]
    <3>1. [c \in Containers |-> None] \in Row
      BY DEF Row
    <3> QED
      BY <3>1 DEF Init
  <2>3. requests \in 0 .. MaxRequests
    BY StorageAssumption DEF Init
  <2>4. op \in [Containers -> OpType]
    BY <2>1 DEF Init
  <2>5. Len(pointers) <= MaxGenerations
    BY <1>0, StorageAssumption
  <2> QED
    BY <1>0, <2>2, <2>3, <2>4, <2>5 DEF Types, Init
<1>2. HistoryIsKept
  BY <1>0 DEF HistoryIsKept, Newest
<1>3. \A c \in Containers : ContainerOK(c)
  <2> SUFFICES ASSUME NEW c \in Containers
               PROVE ContainerOK(c)
    OBVIOUS
  <2>1. /\ op[c].at = None /\ op[c].kind = None /\ op[c].head = 0
        /\ record[c] = 0 /\ seen[c] = 0 /\ life[c] = "new"
    BY DEF Init, Idle
  <2>2. Sent(c)
    BY DEF Init, Sent
  <2> QED
    BY <1>0, <2>1, <2>2, StorageAssumption
    DEF ContainerOK, CloneKeeps, Unpublished, Fenced, Newest, Kinds, Steps
<1> QED
  BY <1>1, <1>2, <1>3 DEF IInv

-----------------------------------------------------------------------------
\* A create of c is sent and not answered, or nothing is sent.
Sends(c) ==
  \/ transit' = transit
  \/ At(c, "create") /\ transit' = transit \cup {Request(c)}

\* A step of c that leaves the files of the volume alone, only adds to its
\* clone, and leaves its operation as it was, ends it, or brings it to a call
\* that relies on nothing.
Quiet(c) ==
  /\ UNCHANGED <<pointers, bundles, record, seen>>
  /\ Sends(c)
  /\ \E more \in SUBSET Commits : local' = [local EXCEPT ![c] = @ \cup more]
  /\ \/ op' = op
     \/ \E o \in OpType :
          /\ op' = [op EXCEPT ![c] = o]
          /\ o.at \in {None, "head", "bindrecord"}
          /\ o.kind \notin {"boot", "present"}
  /\ \/ life' = life /\ life[c] = "up"
     \/ life' = [life EXCEPT ![c] = "dead"] /\ op'[c].at = None
  /\ requests' \in 0 .. MaxRequests

\* A step that touches nothing but the clone's commits keeps the invariant.
LEMMA QuietKeeps ==
  ASSUME NEW c \in Containers, IInv, Quiet(c)
  PROVE IInv'
<1>1. PICK more \in SUBSET Commits : local' = [local EXCEPT ![c] = @ \cup more]
  BY DEF Quiet
<1>2. Types'
  <2>1. op' \in [Containers -> OpType]
    BY DEF Quiet, IInv, Types
  <2>2. life' \in [Containers -> {"new", "up", "dead"}]
    BY DEF Quiet, IInv, Types
  <2>3. local' \in [Containers -> SUBSET Commits]
    BY <1>1 DEF IInv, Types
  <2>4. transit' \subseteq [head : Nat, pointer : Pointers]
    <3>1. Request(c) \in [head : Nat, pointer : Pointers]
      BY DEF Request, Pointer, Pointers, IInv, Types, OpType
    <3> QED
      BY <3>1 DEF Quiet, Sends, IInv, Types
  <2> QED
    BY <2>1, <2>2, <2>3, <2>4 DEF Quiet, IInv, Types
<1>3. HistoryIsKept'
  BY DEF Quiet, IInv, HistoryIsKept, Newest
<1>4. ASSUME NEW d \in Containers
      PROVE ContainerOK(d)'
  <2>0. ContainerOK(d)
    BY DEF IInv
  <2>1. local[d] \subseteq local'[d]
    BY <1>1 DEF IInv, Types
  <2>2. CloneKeeps(d)'
    BY <2>0, <2>1 DEF ContainerOK, Quiet, IInv, Types, CloneKeeps, Holds, Newest
  <2>3. Unpublished(d)'
    BY <2>0 DEF ContainerOK, Quiet, IInv, Types, Unpublished, Newest
  <2>4. Fenced(d)'
    <3>1. CASE op'[d] = op[d]
      BY <2>0, <2>1, <3>1
      DEF ContainerOK, Quiet, IInv, Types, Fenced, Holds, Newest
    <3>2. CASE op'[d] # op[d]
      <4>1. op'[d].at \in {None, "head", "bindrecord"} /\ d = c
        BY <3>2 DEF Quiet, IInv, Types
      <4> QED
        BY <4>1, StorageAssumption DEF Quiet, IInv, Types, Fenced, Steps
    <3> QED
      BY <3>1, <3>2
  <2>5. Sent(d)'
    <3>1. /\ UNCHANGED <<pointers, bundles>> /\ Newest' = Newest
          /\ life'[d] = "up" => life[d] = "up"
          /\ life[d] # "new" => life'[d] # "new"
          /\ op'[d].kind \in {"boot", "present"} => op[d].kind \in {"boot", "present"}
      BY DEF Quiet, IInv, Types, Newest
    <3> SUFFICES ASSUME NEW r \in transit', r.pointer.writer = d
                 PROVE /\ r.head <= Newest /\ r.head < MaxGenerations
                       /\ life[d] # "new"
                       /\ op[d].kind \notin {"boot", "present"}
                       /\ life[d] = "up" => r.pointer.tip \subseteq local[d]
                       /\ r.head = Newest =>
                            /\ r.head > 0 => pointers[r.head].tip \subseteq r.pointer.tip
                            /\ bundles[r.head + 1][d] # None
                            /\ r.pointer.tip \subseteq bundles[r.head + 1][d]
      BY <2>1, <3>1 DEF Sent
    <3>2. CASE r \in transit
      BY <2>0, <3>2 DEF ContainerOK, Sent
    <3>3. CASE At(c, "create") /\ r = Request(c)
      <4>1. d = c /\ r.head = op[c].head /\ r.pointer.tip = op[c].tip
        BY <3>3 DEF Request, Pointer
      <4>2. op[c].tip # None
        BY StorageAssumption DEF IInv, Types, OpType
      <4> QED
        BY <2>0, <3>3, <4>1, <4>2 DEF At, Alive, ContainerOK, Fenced
    <3> QED
      BY <3>2, <3>3 DEF Quiet, Sends
  <2> QED
    BY <2>2, <2>3, <2>4, <2>5 DEF ContainerOK
<1> QED
  BY <1>2, <1>3, <1>4 DEF IInv

-----------------------------------------------------------------------------
\* The step does not touch container d.
Same(d) ==
  /\ local'[d] = local[d] /\ record'[d] = record[d] /\ seen'[d] = seen[d]
  /\ life'[d] = life[d] /\ op'[d] = op[d]

\* A step that leaves the volume alone disturbs only the containers it touches.
LEMMA LocalStep ==
  ASSUME IInv, UNCHANGED <<pointers, bundles, transit>>, Types',
         \A d \in Containers : Same(d) \/ ContainerOK(d)'
  PROVE IInv'
<1>1. HistoryIsKept'
  BY DEF IInv, HistoryIsKept, Newest
<1>2. ASSUME NEW d \in Containers PROVE ContainerOK(d)'
  <2>0. ContainerOK(d)
    BY DEF IInv
  <2>1. CASE Same(d)
    <3>1. CloneKeeps(d)'
      BY <2>0, <2>1 DEF ContainerOK, Same, CloneKeeps, Holds, Newest
    <3>2. Unpublished(d)'
      BY <2>0, <2>1 DEF ContainerOK, Same, Unpublished, Newest
    <3>3. Fenced(d)'
      BY <2>0, <2>1 DEF ContainerOK, Same, Fenced, Holds, Newest
    <3>4. Sent(d)'
      BY <2>0, <2>1 DEF ContainerOK, Same, Sent, Newest
    <3> QED
      BY <3>1, <3>2, <3>3, <3>4 DEF ContainerOK
  <2> QED
    BY <2>1
<1> QED
  BY <1>1, <1>2 DEF IInv

\* No operation, and one that begins, are operations.
LEMMA IdleType == Idle \in OpType /\ \A k \in Kinds : Begin(k) \in OpType
<1>1. Idle \in OpType
  BY DEF Idle, OpType
<1>2. ASSUME NEW k \in Kinds PROVE Begin(k) \in OpType
  BY DEF Begin, Idle, OpType, Steps
<1> QED
  BY <1>1, <1>2

\* A container that starts on an empty disk keeps the invariant.
LEMMA BootFreshKeeps ==
  ASSUME NEW c \in Containers, IInv, BootFresh(c)
  PROVE IInv'
<1>1. life[c] = "new" /\ seen[c] = 0 /\ record[c] = 0 /\ op[c].at = None
  BY DEF BootFresh, MayStart, IInv, ContainerOK, CloneKeeps, Fenced
<1>2. Begin("boot") \in OpType
  BY IdleType DEF Kinds
<1>3. {<<c, 0>>} \in SUBSET Commits
  BY StorageAssumption DEF Commits
<1>4. Types'
  <2>1. op' \in [Containers -> OpType] /\ local' \in [Containers -> SUBSET Commits]
    BY <1>2, <1>3 DEF BootFresh, IInv, Types
  <2> QED
    BY <2>1 DEF BootFresh, IInv, Types, volume, counters
<1>5. \A g \in 1 .. Newest' : pointers'[g].writer # c
  BY <1>1 DEF BootFresh, volume, IInv, ContainerOK, Unpublished, Newest
<1>6. op'[c].at \in {None, "head"} /\ life'[c] = "up"
  <2>1. life \in [Containers -> {"new", "up", "dead"}] /\ op \in [Containers -> OpType]
    BY DEF IInv, Types
  <2>2. life'[c] = "up"
    BY <2>1 DEF BootFresh
  <2>3. op' = op \/ op' = [op EXCEPT ![c] = Begin("boot")]
    BY DEF BootFresh
  <2>4. op'[c] = op[c] \/ op'[c] = Begin("boot")
    BY <2>1, <2>3
  <2>5. Begin("boot").at = "head"
    BY DEF Begin, Idle
  <2> QED
    BY <1>1, <2>2, <2>4, <2>5
<1>7. ContainerOK(c)'
  <2>1. CloneKeeps(c)'
    BY <1>1, <1>5, <1>6 DEF BootFresh, volume, IInv, ContainerOK, Types, CloneKeeps, Newest
  <2>2. Unpublished(c)'
    BY <1>5 DEF Unpublished
  <2>3. Fenced(c)'
    BY <1>6, StorageAssumption DEF Fenced, Steps
  <2>4. Sent(c)'
    BY <1>1 DEF BootFresh, volume, IInv, ContainerOK, Sent
  <2> QED
    BY <2>1, <2>2, <2>3, <2>4 DEF ContainerOK
<1>8. \A d \in Containers \ {c} : Same(d)
  BY DEF BootFresh, IInv, Types, Same
<1> QED
  BY <1>4, <1>7, <1>8, LocalStep DEF BootFresh, volume

\* A container that starts upon a disk another left keeps the invariant.
LEMMA BootPresentKeeps ==
  ASSUME NEW c \in Containers, NEW d \in Containers, IInv, BootPresent(c, d)
  PROVE IInv'
<1>1. /\ life[c] = "new" /\ seen[c] = 0 /\ op[c].at = None
      /\ life[d] = "dead" /\ op[d].at = None /\ c # d
  BY DEF BootPresent, MayStart, IInv, ContainerOK, CloneKeeps, Fenced
<1>2. Begin("present") \in OpType
  BY IdleType DEF Kinds
<1>3. Types'
  BY <1>2 DEF BootPresent, IInv, Types, volume, counters
<1>4. \A g \in 1 .. Newest' : pointers'[g].writer # c
  BY <1>1 DEF BootPresent, volume, IInv, ContainerOK, Unpublished, Newest
<1>5. /\ op'[c].at \in {None, "head"} /\ life'[c] \in {"up", "dead"}
      /\ life'[c] # "up" => op'[c].at = None
  BY <1>1 DEF BootPresent, IInv, Types, Begin, Idle, OpType
<1>6. ContainerOK(c)'
  <2>1. local'[c] = local[d] /\ record'[c] = record[d] /\ seen'[c] = 0
    BY <1>1 DEF BootPresent, IInv, Types
  <2>2. CloneKeeps(c)'
    BY <1>1, <1>4, <1>5, <2>1
    DEF BootPresent, volume, IInv, ContainerOK, Types, CloneKeeps, Newest, Holds
  <2>3. Unpublished(c)'
    BY <1>4 DEF Unpublished
  <2>4. Fenced(c)'
    BY <1>5, StorageAssumption DEF Fenced, Steps
  <2>5. Sent(c)'
    BY <1>1 DEF BootPresent, volume, IInv, ContainerOK, Sent
  <2> QED
    BY <2>2, <2>3, <2>4, <2>5 DEF ContainerOK
<1>7. ContainerOK(d)'
  <2>1. record'[d] = 0 /\ seen'[d] = seen[d] /\ life'[d] = "dead" /\ op'[d] = op[d]
    BY <1>1 DEF BootPresent, IInv, Types
  <2>2. CloneKeeps(d)'
    BY <2>1 DEF BootPresent, volume, IInv, ContainerOK, Types, CloneKeeps, Newest
  <2>3. Unpublished(d)'
    BY <1>1, <2>1 DEF BootPresent, volume, IInv, ContainerOK, Unpublished, Newest
  <2>4. Fenced(d)'
    BY <1>1, <2>1, StorageAssumption DEF Fenced, Steps
  <2>5. Sent(d)'
    BY <1>1, <2>1 DEF BootPresent, volume, IInv, ContainerOK, Sent, Newest
  <2> QED
    BY <2>2, <2>3, <2>4, <2>5 DEF ContainerOK
<1>8. \A e \in Containers \ {c, d} : Same(e)
  BY DEF BootPresent, IInv, Types, Same
<1> QED
  BY <1>3, <1>6, <1>7, <1>8, LocalStep DEF BootPresent, volume

-----------------------------------------------------------------------------
\* An operation that raises and changes nothing else is quiet.
LEMMA FailIsQuiet ==
  ASSUME NEW c \in Containers, NEW terminal, IInv, Alive(c), Fail(c, terminal),
         UNCHANGED <<pointers, bundles, record, seen, local>>, Sends(c),
         requests' \in 0 .. MaxRequests
  PROVE Quiet(c)
<1>1. Idle \in OpType /\ Idle.at = None /\ Idle.kind = None
  BY IdleType DEF Idle
<1>2. None \notin {"boot", "present"}
  BY StorageAssumption DEF Kinds
<1>3. op' = [op EXCEPT ![c] = Idle] /\ op'[c].at = None
  BY <1>1 DEF Fail, IInv, Types
<1>4. local' = [local EXCEPT ![c] = @ \cup {}]
  BY DEF IInv, Types
<1>5. \/ life' = life /\ life[c] = "up"
      \/ life' = [life EXCEPT ![c] = "dead"] /\ op'[c].at = None
  BY <1>3 DEF Fail, Alive
<1> QED
  BY <1>1, <1>2, <1>3, <1>4, <1>5 DEF Quiet

\* An operation the volume refuses keeps the invariant.
LEMMA UnavailableKeeps ==
  ASSUME NEW c \in Containers, IInv, Unavailable(c)
  PROVE IInv'
BY FailIsQuiet, QuietKeeps
DEF Unavailable, volume, clone, IInv, Types, Sends

\* Reading the newest pointer for a restore keeps the invariant.
LEMMA RestoreHeadKeeps ==
  ASSUME NEW c \in Containers, IInv, RestoreHead(c)
  PROVE IInv'
<1>1. CASE Newest = 0 /\ Fail(c, FALSE)
  BY <1>1, FailIsQuiet, QuietKeeps
  DEF RestoreHead, At, volume, clone, counters, IInv, Types, Sends
<1>2. CASE /\ Newest > 0
           /\ op' = [op EXCEPT ![c].head = Newest, ![c].at = "fetch"]
           /\ UNCHANGED <<life, queue>>
  <2>0. Newest \in Nat
    BY DEF IInv, Types, Newest
  <2>1. /\ op'[c].at = "fetch" /\ op'[c].head = Newest /\ op'[c].kind = "boot"
        /\ op'[c] \in OpType
    BY <1>2, <2>0 DEF RestoreHead, IInv, Types, OpType, Steps
  <2>2. Types'
    BY <1>2, <2>1 DEF RestoreHead, IInv, Types, volume, clone, counters
  <2>3. ContainerOK(c)'
    <3>1. CloneKeeps(c)'
      BY <1>2 DEF RestoreHead, volume, clone, IInv, ContainerOK, CloneKeeps, Holds, Newest
    <3>2. Unpublished(c)'
      BY <2>1, <1>2 DEF RestoreHead, volume, IInv, ContainerOK, Unpublished, Newest
    <3>3. Fenced(c)'
      BY <1>2, <2>0, <2>1
      DEF RestoreHead, At, Alive, volume, IInv, ContainerOK, Types, Fenced, Newest
    <3>4. Sent(c)'
      BY DEF RestoreHead, volume, IInv, ContainerOK, Sent
    <3> QED
      BY <3>1, <3>2, <3>3, <3>4 DEF ContainerOK
  <2>4. \A d \in Containers \ {c} : Same(d)
    BY <1>2 DEF RestoreHead, clone, IInv, Types, Same
  <2> QED
    BY <2>2, <2>3, <2>4, LocalStep DEF RestoreHead, volume
<1> QED
  BY <1>1, <1>2 DEF RestoreHead

\* Fetching the bundle of a restore keeps the invariant.
LEMMA RestoreFetchKeeps ==
  ASSUME NEW c \in Containers, IInv, RestoreFetch(c)
  PROVE IInv'
<1> DEFINE h == op[c].head
           stored == bundles[h][pointers[h].writer]
           whole == stored # None /\ pointers[h].tip \subseteq stored
<1>0. At(c, "fetch") /\ UNCHANGED <<volume, saving, requests>>
  BY DEF RestoreFetch
<1>1. CASE ~whole
  <2>1. Fail(c, FALSE) /\ UNCHANGED <<clone, bound, seen>>
    BY <1>1 DEF RestoreFetch
  <2> QED
    BY <1>0, <2>1, FailIsQuiet, QuietKeeps
    DEF At, volume, clone, IInv, Types, Sends
<1>2. CASE whole
  <2>1. /\ local' = [local EXCEPT ![c] = stored]
        /\ seen' = [seen EXCEPT ![c] = h]
        /\ \/ record' = [record EXCEPT ![c] = h]
           \/ record' = [record EXCEPT ![c] = 0]
        /\ op' = [op EXCEPT ![c] = Idle]
        /\ life' = life
    BY <1>2 DEF RestoreFetch
  <2>2. /\ op[c].kind = "boot" /\ h \in Nat /\ 1 <= h /\ h <= Newest
        /\ life[c] = "up" /\ Newest \in Nat
    BY <1>0 DEF At, Alive, IInv, ContainerOK, Types, OpType, Fenced, Newest
  <2>3. \A g \in 1 .. Newest : pointers[g].writer # c
    BY <2>2 DEF IInv, ContainerOK, Unpublished
  <2>4. stored \in SUBSET Commits
    <3>1. pointers[h].writer \in Containers
      <4>1. pointers[h] \in Pointers
        BY <2>2 DEF IInv, Types, Newest
      <4> QED
        BY <4>1 DEF Pointers
    <3>2. h \in Generation
      BY <2>2, StorageAssumption DEF IInv, Types, Generation, Newest
    <3>3. bundles[h] \in Row
      BY <3>2 DEF IInv, Types
    <3> QED
      BY <1>2, <3>1, <3>3 DEF Row
  <2>5. Types'
    <3> HIDE DEF h, stored
    <3>1. local' \in [Containers -> SUBSET Commits]
      BY <2>1, <2>4 DEF IInv, Types
    <3>2. record' \in [Containers -> Nat] /\ seen' \in [Containers -> Nat]
      <4>1. record \in [Containers -> Nat] /\ seen \in [Containers -> Nat]
        BY DEF IInv, Types
      <4> QED
        BY <2>1, <2>2, <4>1
    <3>3. op' \in [Containers -> OpType]
      BY <2>1, IdleType DEF IInv, Types
    <3> QED
      BY <1>0, <2>1, <3>1, <3>2, <3>3 DEF IInv, Types, volume
  <2>6. ContainerOK(c)'
    <3>1. /\ local'[c] = stored /\ seen'[c] = h /\ record'[c] \in {0, h}
          /\ op'[c] = Idle /\ life'[c] = "up" /\ pointers' = pointers
      BY <1>0, <2>1, <2>2 DEF IInv, Types, volume
    <3>2. CloneKeeps(c)'
      <4>1. pointers[h].tip \subseteq stored /\ Newest' = Newest
        BY <1>2, <3>1 DEF Newest
      <4> HIDE DEF h, stored
      <4>2. record'[c] > 0 => Holds(c, record[c])'
        BY <2>2, <3>1, <4>1 DEF Holds
      <4>3. Holds(c, seen[c])'
        BY <3>1, <4>1 DEF Holds
      <4>4. \A g \in 1 .. Newest' : pointers'[g].writer # c
        BY <2>3, <3>1, <4>1
      <4> QED
        BY <2>2, <3>1, <4>1, <4>2, <4>3, <4>4 DEF CloneKeeps
    <3>3. Unpublished(c)'
      BY <2>3, <3>1 DEF Unpublished, Newest
    <3>4. Fenced(c)'
      BY <3>1, StorageAssumption DEF Fenced, Idle, Steps
    <3>5. Sent(c)'
      BY <1>0, <2>2 DEF volume, IInv, ContainerOK, Sent
    <3> QED
      BY <3>2, <3>3, <3>4, <3>5 DEF ContainerOK
  <2>7. \A d \in Containers \ {c} : Same(d)
    BY <2>1 DEF IInv, Types, Same
  <2> QED
    BY <1>0, <2>5, <2>6, <2>7, LocalStep DEF volume
<1> QED
  BY <1>1, <1>2

\* Reading the newest pointer beside a clone that is there keeps the invariant.
LEMMA PresentHeadKeeps ==
  ASSUME NEW c \in Containers, IInv, PresentHead(c)
  PROVE IInv'
<1>1. /\ op' = [op EXCEPT ![c] = Idle] /\ life' = life /\ life[c] = "up"
      /\ UNCHANGED <<pointers, bundles, transit, local, record, requests>>
      /\ op[c].kind = "present"
      /\ seen' = [seen EXCEPT ![c] =
                    IF Newest > 0 /\ record[c] = Newest THEN Newest ELSE @]
  BY DEF PresentHead, At, Alive, Matches, volume, clone, counters
<1>2. Newest \in Nat /\ Newest' = Newest
  BY <1>1 DEF IInv, Types, Newest
<1>3. Types'
  BY <1>1, <1>2, IdleType DEF IInv, Types
<1>4. op'[c] = Idle /\ (seen'[c] = seen[c] \/ seen'[c] = record[c])
  BY <1>1 DEF IInv, Types
<1>5. ContainerOK(c)'
  <2>1. CloneKeeps(c)'
    BY <1>1, <1>2, <1>4 DEF IInv, ContainerOK, Types, CloneKeeps, Holds
  <2>2. Unpublished(c)'
    BY <1>1, <1>4, StorageAssumption DEF Unpublished, Idle, Kinds
  <2>3. Fenced(c)'
    BY <1>1, <1>4, StorageAssumption DEF Fenced, Idle, Steps
  <2>4. Sent(c)'
    BY <1>1 DEF IInv, ContainerOK, Sent
  <2> QED
    BY <2>1, <2>2, <2>3, <2>4 DEF ContainerOK
<1>6. \A d \in Containers \ {c} : Same(d)
  BY <1>1 DEF IInv, Types, Same
<1> QED
  BY <1>1, <1>3, <1>5, <1>6, LocalStep

\* A container that dies keeps the invariant.
LEMMA DieKeeps ==
  ASSUME NEW c \in Containers, IInv, Die(c)
  PROVE IInv'
<1>1. /\ op' = [op EXCEPT ![c] = Idle] /\ life' = [life EXCEPT ![c] = "dead"]
      /\ UNCHANGED <<pointers, bundles, transit, local, record, requests>>
      /\ seen' = [seen EXCEPT ![c] = 0]
  BY DEF Die, volume, clone, counters
<1>2. Newest \in Nat /\ Newest' = Newest
  BY <1>1 DEF IInv, Types, Newest
<1>3. Types'
  BY <1>1, IdleType DEF IInv, Types
<1>4. op'[c] = Idle /\ seen'[c] = 0 /\ life'[c] = "dead"
  BY <1>1 DEF IInv, Types
<1>5. ContainerOK(c)'
  <2>1. CloneKeeps(c)'
    BY <1>1, <1>2, <1>4 DEF IInv, ContainerOK, Types, CloneKeeps, Holds
  <2>2. Unpublished(c)'
    BY <1>4, StorageAssumption DEF Unpublished, Idle, Kinds
  <2>3. Fenced(c)'
    BY <1>4, StorageAssumption DEF Fenced, Idle, Steps
  <2>4. Sent(c)'
    BY <1>1, <1>2, <1>4, StorageAssumption
    DEF IInv, ContainerOK, Sent, Idle, Kinds
  <2> QED
    BY <2>1, <2>2, <2>3, <2>4 DEF ContainerOK
<1>6. \A d \in Containers \ {c} : Same(d)
  BY <1>1 DEF IInv, Types, Same
<1> QED
  BY <1>1, <1>3, <1>5, <1>6, LocalStep

\* A publish goes on only from a head the clone holds.
LEMMA PublishHeadKeeps ==
  ASSUME NEW c \in Containers, IInv, PublishHead(c)
  PROVE IInv'
<1>1. CASE Superseded(c) /\ Fail(c, TRUE)
  BY <1>1, FailIsQuiet, QuietKeeps
  DEF PublishHead, At, volume, clone, counters, IInv, Types, Sends
<1>2. CASE /\ ~Superseded(c) /\ Newest < MaxGenerations
           /\ op' = [op EXCEPT ![c].head = Newest, ![c].at = "pack"]
           /\ UNCHANGED <<life, queue>>
  <2>0. Newest \in Nat /\ life[c] = "up" /\ op[c].kind \in {"adopt", "push"}
    BY DEF IInv, Types, Newest, PublishHead, At, Alive, Publishing
  <2>1. /\ op'[c].at = "pack" /\ op'[c].head = Newest /\ op'[c].kind = op[c].kind
        /\ op'[c] \in OpType
    BY <1>2, <2>0 DEF IInv, Types, OpType, Steps
  <2>2. UNCHANGED <<pointers, bundles, transit, local, record, seen, life,
                    requests>>
    BY <1>2 DEF PublishHead, volume, clone, counters
  <2>3. Types'
    BY <1>2, <2>1, <2>2 DEF IInv, Types
  <2>4. Newest > 0 => Holds(c, Newest)
    BY <1>2, <2>0 DEF Superseded, IInv, ContainerOK, CloneKeeps
  <2>5. ContainerOK(c)'
    <3>1. CloneKeeps(c)'
      <4>1. CloneKeeps(c)
        BY DEF IInv, ContainerOK
      <4> QED
        BY <2>2, <4>1 DEF CloneKeeps, Holds, Newest
    <3>2. Unpublished(c)'
      BY <2>0, <2>1, <2>2 DEF Unpublished
    <3>3. Fenced(c)'
      <4>1. Newest' = Newest /\ Newest < MaxGenerations
        BY <1>2, <2>2 DEF Newest
      <4> QED
        BY <2>0, <2>1, <2>2, <2>4, <4>1 DEF Fenced, Holds
    <3>4. Sent(c)'
      BY <2>1, <2>2 DEF IInv, ContainerOK, Sent, Newest
    <3> QED
      BY <3>1, <3>2, <3>3, <3>4 DEF ContainerOK
  <2>6. \A d \in Containers \ {c} : Same(d)
    BY <1>2, <2>2 DEF IInv, Types, Same
  <2> QED
    BY <2>2, <2>3, <2>5, <2>6, LocalStep
<1> QED
  BY <1>1, <1>2 DEF PublishHead

-----------------------------------------------------------------------------
\* Packing writes a bundle that holds all the clone does.
LEMMA PackKeeps ==
  ASSUME NEW c \in Containers, IInv, Pack(c)
  PROVE IInv'
<1> DEFINE h == op[c].head
<1>1. /\ op' = [op EXCEPT ![c].tip = local[c], ![c].at = "create"]
      /\ bundles' = [bundles EXCEPT ![h + 1][c] = local[c]]
      /\ UNCHANGED <<pointers, transit, local, record, seen, life, requests>>
      /\ op[c].at = "pack" /\ life[c] = "up"
  BY DEF Pack, At, Alive, clone, counters
<1>2. /\ h \in Nat /\ Newest \in Nat /\ Newest' = Newest
      /\ h <= Newest /\ h < MaxGenerations /\ op[c].kind \in {"adopt", "push"}
      /\ h > 0 => Holds(c, h)
  BY <1>1 DEF IInv, ContainerOK, Types, OpType, Fenced, Newest
<1>3. h + 1 \in Generation /\ local[c] \in SUBSET Commits
  <2>1. MaxGenerations \in Nat
    BY StorageAssumption
  <2>2. h + 1 \in Generation
    BY <1>2, <2>1 DEF Generation
  <2> QED
    BY <2>2 DEF IInv, Types
<1>4. /\ op'[c].at = "create" /\ op'[c].head = h /\ op'[c].kind = op[c].kind
      /\ op'[c].tip = local[c] /\ op'[c] \in OpType
  BY <1>1, <1>3 DEF IInv, Types, OpType, Steps
<1>5. bundles'[h + 1][c] = local[c]
  BY <1>1, <1>3 DEF IInv, Types, Row
<1>6. \A g \in Generation, w \in Containers :
        g # h + 1 \/ w # c => bundles'[g][w] = bundles[g][w]
  BY <1>1, <1>3 DEF IInv, Types, Row
<1>7. bundles' \in [Generation -> Row]
  BY <1>1, <1>3 DEF IInv, Types, Row
<1>8. Types'
  BY <1>1, <1>4, <1>7 DEF IInv, Types
<1>9. HistoryIsKept'
  BY <1>1, <1>2 DEF IInv, HistoryIsKept
<1>10. ASSUME NEW d \in Containers PROVE ContainerOK(d)'
  <2>1. CloneKeeps(d)' /\ CloneKeeps(d)
    <3>1. CloneKeeps(d)
      BY DEF IInv, ContainerOK
    <3> QED
      BY <1>1, <3>1 DEF CloneKeeps, Holds, Newest
  <2>2. Unpublished(d)'
    <3>1. Unpublished(d)
      BY DEF IInv, ContainerOK
    <3>2. op'[d].kind = op[d].kind
      BY <1>1, <1>4 DEF IInv, Types
    <3> QED
      BY <1>1, <3>1, <3>2 DEF Unpublished, Newest
  <2>3. Fenced(d)'
    <3>1. CASE d = c
      BY <1>1, <1>2, <1>4, <1>5, <3>1 DEF Fenced, Holds
    <3>2. CASE d # c
      <4>1. op'[d] = op[d] /\ Fenced(d) /\ op[d].head \in Nat
        BY <1>1, <3>2 DEF IInv, ContainerOK, Types, OpType
      <4>2. op[d].at = "create" =>
              bundles'[op[d].head + 1][d] = bundles[op[d].head + 1][d]
        <5>1. op[d].at = "create" => op[d].head + 1 \in Generation
          BY <4>1, StorageAssumption DEF Fenced, Generation
        <5> QED
          BY <1>6, <3>2, <5>1
      <4> QED
        BY <1>1, <1>2, <4>1, <4>2 DEF Fenced, Holds
    <3> QED
      BY <3>1, <3>2
  <2>4. Sent(d)'
    <3> SUFFICES ASSUME NEW r \in transit, r.pointer.writer = d
                 PROVE /\ r.head <= Newest /\ r.head < MaxGenerations
                       /\ life[d] # "new" /\ op'[d].kind \notin {"boot", "present"}
                       /\ life[d] = "up" => r.pointer.tip \subseteq local[d]
                       /\ r.head = Newest =>
                            /\ r.head > 0 =>
                                 pointers[r.head].tip \subseteq r.pointer.tip
                            /\ bundles'[r.head + 1][d] # None
                            /\ r.pointer.tip \subseteq bundles'[r.head + 1][d]
      BY <1>1, <1>2 DEF Sent
    <3>1. /\ Sent(d) /\ r.head \in Nat /\ r.head < MaxGenerations
          /\ op'[d].kind = op[d].kind
      BY <1>1, <1>4 DEF IInv, ContainerOK, Types, Sent
    <3>2. r.head + 1 \in Generation
      BY <3>1, StorageAssumption DEF Generation
    <3>3. CASE d = c /\ r.head = h
      <4>1. r.pointer.tip \subseteq local[c] /\ local[c] # None
        BY <1>1, <1>3, <3>1, <3>3, StorageAssumption DEF Sent
      <4> QED
        BY <1>5, <3>1, <3>3, <4>1 DEF Sent
    <3>4. CASE d # c \/ r.head # h
      <4>1. bundles'[r.head + 1][d] = bundles[r.head + 1][d]
        BY <1>2, <1>6, <3>1, <3>2, <3>4
      <4> QED
        BY <3>1, <4>1 DEF Sent
    <3> QED
      BY <3>3, <3>4
  <2> QED
    BY <2>1, <2>2, <2>3, <2>4 DEF ContainerOK
<1> QED
  BY <1>8, <1>9, <1>10 DEF IInv

\* A pointer of c lands: its history extends the head's, and its bundle is
\* there.
Lands(c, tip) ==
  /\ Newest < MaxGenerations /\ tip \in SUBSET Commits
  /\ pointers' = Append(pointers, [writer |-> c, tip |-> tip])
  /\ UNCHANGED <<bundles, local, requests, life>>
  /\ transit' \subseteq transit
  /\ life[c] # "new" /\ op[c].kind \notin {"boot", "present"}
  /\ life[c] = "up" => tip \subseteq local[c]
  /\ Newest > 0 => pointers[Newest].tip \subseteq tip
  /\ bundles[Newest + 1][c] # None /\ tip \subseteq bundles[Newest + 1][c]

\* What a create that lands makes of the pointers.
LEMMA LandsFacts ==
  ASSUME NEW c \in Containers, NEW tip, IInv, Lands(c, tip)
  PROVE  /\ Newest \in Nat /\ Newest' = Newest + 1 /\ Newest' <= MaxGenerations
         /\ pointers' \in Seq(Pointers)
         /\ \A g \in 1 .. Newest : pointers'[g] = pointers[g]
         /\ pointers'[Newest + 1].writer = c /\ pointers'[Newest + 1].tip = tip
<1> DEFINE p == [writer |-> c, tip |-> tip]
<1>1. p \in Pointers /\ p.writer = c /\ p.tip = tip
  BY DEF Lands, Pointers
<1>2. pointers \in Seq(Pointers) /\ pointers' = Append(pointers, p)
  BY DEF IInv, Types, Lands
<1> HIDE DEF p
<1>3. /\ pointers' \in Seq(Pointers) /\ Len(pointers') = Len(pointers) + 1
      /\ \A g \in 1 .. Len(pointers) : pointers'[g] = pointers[g]
      /\ pointers'[Len(pointers) + 1] = p /\ Len(pointers) \in Nat
  BY <1>1, <1>2
<1> QED
  BY <1>1, <1>3, StorageAssumption DEF Newest, Lands

\* A create that lands extends the history.
LEMMA LandsVolume ==
  ASSUME NEW c \in Containers, NEW tip, IInv, Lands(c, tip)
  PROVE  HistoryIsKept'
<1>0. /\ Newest \in Nat /\ Newest' = Newest + 1
      /\ \A g \in 1 .. Newest : pointers'[g] = pointers[g]
      /\ pointers'[Newest + 1].tip = tip
      /\ Newest > 0 => pointers[Newest].tip \subseteq tip
  BY LandsFacts DEF Lands
<1> SUFFICES ASSUME NEW g \in 1 .. Newest' - 1
             PROVE pointers'[g].tip \subseteq pointers'[g + 1].tip
  BY DEF HistoryIsKept
<1>1. CASE g = Newest
  <2>1. pointers'[g] = pointers[g] /\ pointers'[g + 1].tip = tip
    BY <1>0, <1>1
  <2> QED
    BY <1>0, <1>1, <2>1
<1>2. CASE g # Newest
  <2>1. g \in 1 .. Newest - 1 /\ g + 1 \in 1 .. Newest /\ g \in 1 .. Newest
    BY <1>0, <1>2
  <2>2. pointers[g].tip \subseteq pointers[g + 1].tip
    BY <2>1 DEF IInv, HistoryIsKept
  <2> QED
    BY <1>0, <2>1, <2>2
<1> QED
  BY <1>1, <1>2

\* What was sent for the generation that now exists will never land.
LEMMA LandsSent ==
  ASSUME NEW c \in Containers, NEW tip, IInv, Lands(c, tip),
         NEW d \in Containers, life'[d] = life[d],
         op'[d].kind \in {"boot", "present"} => op[d].kind \in {"boot", "present"}
  PROVE  Sent(d)'
<1>1. Newest \in Nat /\ Newest' = Newest + 1 /\ local' = local /\ transit' \subseteq transit
  BY LandsFacts DEF Lands
<1>2. Sent(d) /\ \A r \in transit : r.head \in Nat
  BY DEF IInv, ContainerOK, Types
<1> QED
  BY <1>1, <1>2 DEF Sent

\* A container whose session is left alone keeps what it held, its writer's too.
LEMMA LandsOthers ==
  ASSUME NEW c \in Containers, NEW tip, IInv, Lands(c, tip),
         NEW d \in Containers, Same(d)
  PROVE  ContainerOK(d)'
<1>1. /\ CloneKeeps(d) /\ Unpublished(d) /\ Fenced(d)
      /\ record[d] \in Nat /\ seen[d] \in Nat /\ op[d] \in OpType
  BY DEF IInv, ContainerOK, Types
<1>2. op[d].head \in Nat
  BY <1>1 DEF OpType
<1>0. /\ Newest \in Nat /\ Newest' = Newest + 1
      /\ \A g \in 1 .. Newest : pointers'[g] = pointers[g]
      /\ pointers'[Newest + 1].writer = c /\ pointers'[Newest + 1].tip = tip
  BY LandsFacts
<1>6. \A g \in 1 .. Newest : Holds(d, g)' <=> Holds(d, g)
  BY <1>0 DEF Holds, Same
<1>7. \A g \in 1 .. Newest' : g \in 1 .. Newest \/ g = Newest + 1
  BY <1>0
<1>3. CloneKeeps(d)'
  <2>1. life'[d] = "up" /\ d = c => pointers'[Newest + 1].tip \subseteq local'[d]
    BY <1>0 DEF Same, Lands
  <2>2. \A g \in 1 .. Newest' :
          life'[d] = "up" /\ pointers'[g].writer = d => Holds(d, g)'
    <3> SUFFICES ASSUME NEW g \in 1 .. Newest', life'[d] = "up",
                        pointers'[g].writer = d
                 PROVE  Holds(d, g)'
      OBVIOUS
    <3>1. CASE g \in 1 .. Newest
      BY <1>0, <1>1, <1>6, <3>1 DEF CloneKeeps, Same
    <3>2. CASE g = Newest + 1
      BY <1>0, <2>1, <3>2 DEF Holds
    <3> QED
      BY <1>7, <3>1, <3>2
  <2> QED
    BY <1>0, <1>1, <1>6, <2>2 DEF CloneKeeps, Same
<1>4. Unpublished(d)'
  <2>1. d = c => ~(life'[d] = "new" \/ op'[d].kind \in {"boot", "present"})
    BY DEF Lands, Same
  <2> QED
    BY <1>0, <1>1, <1>7, <2>1 DEF Unpublished, Same
<1>5. Fenced(d)'
  BY <1>0, <1>1, <1>2, <1>6 DEF Fenced, Same
<1>8. Sent(d)'
  BY LandsSent DEF Same
<1> QED
  BY <1>3, <1>4, <1>5, <1>8 DEF ContainerOK

\* A create that is answered lands.
LEMMA CreateLands ==
  ASSUME NEW c \in Containers, IInv, CreatePointer(c)
  PROVE  /\ Lands(c, op[c].tip) /\ Newest = op[c].head /\ life[c] = "up"
         /\ op[c].kind \in {"adopt", "push"} /\ op[c].tip \subseteq local[c]
<1>1. /\ Newest \in Nat /\ Newest = op[c].head /\ life[c] = "up"
      /\ op[c].at = "create" /\ op[c] \in OpType /\ Fenced(c)
  BY DEF IInv, ContainerOK, Types, Newest, CreatePointer, Creatable, At, Alive
<1>2. op[c].tip \in SUBSET Commits /\ op[c].tip # None
  BY <1>1, StorageAssumption DEF OpType
<1>3. /\ op[c].kind \in {"adopt", "push"} /\ Newest < MaxGenerations
      /\ Newest > 0 => pointers[Newest].tip \subseteq op[c].tip
      /\ bundles[Newest + 1][c] = op[c].tip /\ op[c].tip \subseteq local[c]
  BY <1>1 DEF Fenced
<1> QED
  BY <1>1, <1>2, <1>3 DEF Lands, CreatePointer, Pointer

\* A create whose answer arrives keeps the invariant.
LEMMA CreatePointerKeeps ==
  ASSUME NEW c \in Containers, IInv, CreatePointer(c)
  PROVE IInv'
<1> DEFINE tip == op[c].tip
           o == [op[c] EXCEPT !.at = "prune"]
<1>a. /\ Lands(c, tip) /\ Newest = op[c].head /\ life[c] = "up"
      /\ op[c].kind \in {"adopt", "push"} /\ tip \subseteq local[c]
  BY CreateLands
<1>0. /\ Newest \in Nat /\ Newest' = Newest + 1 /\ Newest' <= MaxGenerations
      /\ pointers' \in Seq(Pointers)
      /\ \A g \in 1 .. Newest : pointers'[g] = pointers[g]
      /\ pointers'[Newest + 1].tip = tip
  BY <1>a, LandsFacts
<1>1. /\ UNCHANGED <<bundles, transit, local, requests, life>>
      /\ seen' = [seen EXCEPT ![c] = op[c].head + 1]
      /\ record' = record \/ record' = [record EXCEPT ![c] = op[c].head + 1]
      /\ op' = [op EXCEPT ![c] = o]
  BY DEF CreatePointer, Go
<1>b. /\ o \in OpType /\ o.at = "prune" /\ o.head = op[c].head
      /\ o.kind = op[c].kind
  BY DEF IInv, Types, OpType, Steps
<1> HIDE DEF o, tip
<1>2. Types'
  <2>0. op[c].head + 1 \in Nat
    BY <1>a, <1>0
  <2>1. seen' \in [Containers -> Nat] /\ record' \in [Containers -> Nat]
    BY <1>1, <2>0 DEF IInv, Types
  <2>2. op' \in [Containers -> OpType]
    BY <1>1, <1>b DEF IInv, Types
  <2>3. Len(pointers') <= MaxGenerations
    BY <1>0 DEF Newest
  <2> QED
    BY <1>0, <1>1, <2>1, <2>2, <2>3 DEF IInv, Types
<1>3. ContainerOK(c)'
  <2>1. CloneKeeps(c) /\ seen[c] \in Nat /\ record[c] \in Nat
    BY DEF IInv, ContainerOK, Types
  <2>2. /\ seen'[c] = Newest + 1
        /\ record'[c] = record[c] \/ record'[c] = Newest + 1
        /\ op'[c] = o /\ life'[c] = "up"
    BY <1>a, <1>1 DEF IInv, Types
  <2>3. /\ pointers'[Newest + 1].tip \subseteq local'[c]
        /\ \A g \in 1 .. Newest : Holds(c, g) => pointers'[g].tip \subseteq local'[c]
    BY <1>a, <1>0, <1>1 DEF Holds
  <2>4. CloneKeeps(c)'
    <3>1. /\ record'[c] \in Nat /\ seen'[c] \in Nat
          /\ record'[c] <= Newest' /\ seen'[c] <= Newest'
      <4>1. Newest \in Nat /\ Newest' = Newest + 1
        BY <1>0
      <4>2. record[c] <= Newest /\ seen[c] <= Newest
        BY <2>1 DEF CloneKeeps
      <4> QED
        BY <2>1, <2>2, <4>1, <4>2
    <3>2. record'[c] > 0 => pointers'[record'[c]].tip \subseteq local'[c]
      <4>1. CASE record'[c] = Newest + 1
        BY <2>3, <4>1
      <4>2. CASE record'[c] = record[c] /\ record[c] > 0
        <5>1. record[c] \in 1 .. Newest /\ Holds(c, record[c])
          BY <1>0, <2>1, <4>2 DEF CloneKeeps
        <5> QED
          BY <2>3, <4>2, <5>1
      <4> QED
        BY <2>2, <4>1, <4>2
    <3>3. pointers'[seen'[c]].tip \subseteq local'[c]
      BY <2>2, <2>3
    <3>4. ASSUME NEW g \in 1 .. Newest', pointers'[g].writer = c
          PROVE  pointers'[g].tip \subseteq local'[c]
      <4>1. CASE g = Newest + 1
        BY <2>3, <4>1
      <4>2. CASE g \in 1 .. Newest
        BY <1>0, <1>a, <2>1, <2>3, <3>4, <4>2 DEF CloneKeeps
      <4> QED
        BY <1>0, <4>1, <4>2
    <3> QED
      BY <1>0, <2>2, <3>1, <3>2, <3>3, <3>4 DEF CloneKeeps, Holds
  <2>5. Unpublished(c)'
    BY <1>a, <1>b, <2>2 DEF Unpublished
  <2>6. Fenced(c)'
    BY <1>a, <1>0, <1>b, <2>2, StorageAssumption DEF Fenced, Steps
  <2>7. Sent(c)'
    BY <1>a, <1>b, <2>2, LandsSent
  <2> QED
    BY <2>4, <2>5, <2>6, <2>7 DEF ContainerOK
<1>4. ASSUME NEW d \in Containers, d # c PROVE ContainerOK(d)'
  <2>1. Same(d)
    BY <1>1, <1>4 DEF Same, IInv, Types
  <2> QED
    BY <1>a, <2>1, LandsOthers
<1> QED
  BY <1>a, <1>2, <1>3, <1>4, LandsVolume DEF IInv

\* A create that is not answered changes nothing yet.
LEMMA CreateUnansweredIsQuiet ==
  ASSUME NEW c \in Containers, IInv, CreateUnanswered(c)
  PROVE Quiet(c)
<1>1. /\ Alive(c) /\ life[c] = "up" /\ Sends(c)
      /\ UNCHANGED <<pointers, bundles, record, seen, local>>
      /\ requests' \in 0 .. MaxRequests
  BY DEF CreateUnanswered, At, Alive, Sends, clone, IInv, Types
<1>2. CASE UNCHANGED <<op, life, queue>>
  <2>1. local' = [local EXCEPT ![c] = @ \cup {}]
    BY <1>1 DEF IInv, Types
  <2> QED
    BY <1>1, <1>2, <2>1 DEF Quiet
<1>3. CASE Fail(c, FALSE)
  BY <1>1, <1>3, FailIsQuiet
<1> QED
  BY <1>2, <1>3 DEF CreateUnanswered

\* What an unanswered create that lands relies on.
LEMMA LateLands ==
  ASSUME NEW r \in transit, IInv, LandsLate(r)
  PROVE  r.pointer.writer \in Containers /\ Lands(r.pointer.writer, r.pointer.tip)
<1>1. r.pointer \in Pointers /\ r.head = Newest
  BY DEF IInv, Types, LandsLate, Creatable
<1>2. /\ r.pointer.writer \in Containers /\ r.pointer.tip \in SUBSET Commits
      /\ r.pointer = [writer |-> r.pointer.writer, tip |-> r.pointer.tip]
  BY <1>1 DEF Pointers
<1>3. Sent(r.pointer.writer)
  BY <1>2 DEF IInv, ContainerOK
<1> DEFINE w == r.pointer.writer
           tip == r.pointer.tip
<1>4. /\ Newest < MaxGenerations
      /\ life[w] # "new" /\ op[w].kind \notin {"boot", "present"}
      /\ life[w] = "up" => tip \subseteq local[w]
      /\ Newest > 0 => pointers[Newest].tip \subseteq tip
      /\ bundles[Newest + 1][w] # None /\ tip \subseteq bundles[Newest + 1][w]
  BY <1>1, <1>3 DEF Sent
<1>5. /\ pointers' = Append(pointers, r.pointer)
      /\ UNCHANGED <<bundles, local, requests, life>> /\ transit' \subseteq transit
  BY DEF LandsLate, clone, counters
<1>6. pointers' = Append(pointers, [writer |-> w, tip |-> tip])
  BY <1>2, <1>5
<1> HIDE DEF w, tip
<1>7. w \in Containers /\ tip \in SUBSET Commits
  BY <1>2 DEF w, tip
<1>8. Lands(w, tip)
  BY <1>4, <1>5, <1>6, <1>7 DEF Lands
<1> QED
  BY <1>7, <1>8 DEF w, tip

\* A create that lands late keeps the invariant.
LEMMA LandsLateKeeps ==
  ASSUME NEW r \in transit, IInv, LandsLate(r)
  PROVE IInv'
<1> DEFINE c == r.pointer.writer
           tip == r.pointer.tip
<1>1. c \in Containers /\ Lands(c, tip)
  BY LateLands
<1>2. /\ UNCHANGED <<bundles, local, record, seen, life, op, requests>>
      /\ transit' \subseteq transit
  BY DEF LandsLate, clone, counters
<1> HIDE DEF c, tip
<1>3. /\ pointers' \in Seq(Pointers) /\ Len(pointers') <= MaxGenerations
  BY <1>1, LandsFacts DEF Newest
<1>4. Types'
  BY <1>2, <1>3 DEF IInv, Types
<1>5. \A d \in Containers : Same(d)
  BY <1>2 DEF Same
<1>6. \A d \in Containers : ContainerOK(d)'
  BY <1>1, <1>5, LandsOthers
<1> QED
  BY <1>1, <1>4, <1>6, LandsVolume DEF IInv

-----------------------------------------------------------------------------
\* What deletes bundles deletes only those of generations that exist.
DropStep(c) ==
  /\ UNCHANGED <<pointers, transit, local, record, seen, requests>>
  /\ bundles' \in [Generation -> Row]
  /\ \A g \in Generation, w \in Containers :
       g > Newest => bundles'[g][w] = bundles[g][w]
  /\ life' = life /\ life[c] = "up"
  /\ \E o \in OpType :
       /\ op' = [op EXCEPT ![c] = o]
       /\ o.at \in {None, "bindrecord"}
       /\ o.kind \notin {"boot", "present"}

\* Dropping the bundle of a lost race keeps the invariant.
LEMMA DropKeeps ==
  ASSUME NEW c \in Containers, IInv, DropStep(c)
  PROVE IInv'
<1>1. PICK o \in OpType : /\ op' = [op EXCEPT ![c] = o]
                          /\ o.at \in {None, "bindrecord"}
                          /\ o.kind \notin {"boot", "present"}
  BY DEF DropStep
<1>2. /\ Newest \in Nat /\ Newest' = Newest /\ Newest <= MaxGenerations
      /\ UNCHANGED <<pointers, transit, local, record, seen, life>> /\ life[c] = "up"
  BY DEF DropStep, IInv, Types, Newest
<1>3. Types'
  <2>1. op' \in [Containers -> OpType]
    BY <1>1 DEF IInv, Types
  <2> QED
    BY <2>1 DEF DropStep, IInv, Types
<1>4. HistoryIsKept'
  BY <1>2 DEF IInv, HistoryIsKept
<1>6. ASSUME NEW d \in Containers PROVE ContainerOK(d)'
  <2>0. CloneKeeps(d) /\ Unpublished(d) /\ Fenced(d) /\ Sent(d) /\ op[d] \in OpType
    BY DEF IInv, ContainerOK, Types
  <2>1. CloneKeeps(d)'
    BY <1>2, <2>0 DEF CloneKeeps, Holds
  <2>4. Sent(d)'
    <3>1. op'[d].kind \in {"boot", "present"} => op[d].kind \in {"boot", "present"}
      BY <1>1 DEF IInv, Types
    <3>2. ASSUME NEW r \in transit, r.pointer.writer = d, r.head = Newest
          PROVE  bundles'[r.head + 1][d] = bundles[r.head + 1][d]
      <4>1. r.head + 1 \in Generation /\ r.head + 1 > Newest
        BY <1>2, <2>0, <3>2, StorageAssumption DEF Sent, Generation
      <4> QED
        BY <4>1 DEF DropStep
    <3> QED
      BY <1>2, <2>0, <3>1, <3>2 DEF Sent
  <2>2. CASE d = c
    <3>1. op'[c] = o
      BY <1>1 DEF IInv, Types
    <3>2. Unpublished(c)' /\ Fenced(c)'
      BY <1>1, <1>2, <3>1, StorageAssumption DEF Unpublished, Fenced, Steps
    <3> QED
      BY <2>1, <2>2, <2>4, <3>2 DEF ContainerOK
  <2>3. CASE d # c
    <3>1. op'[d] = op[d]
      BY <1>1, <2>3 DEF IInv, Types
    <3>2. Unpublished(d)'
      BY <1>2, <2>0, <3>1 DEF Unpublished
    <3>3. op[d].at = "create" /\ op[d].head = Newest =>
            bundles'[op[d].head + 1][d] = bundles[op[d].head + 1][d]
      <4> SUFFICES ASSUME op[d].at = "create", op[d].head = Newest
                   PROVE  bundles'[Newest + 1][d] = bundles[Newest + 1][d]
        OBVIOUS
      <4>1. Newest + 1 \in Generation /\ Newest + 1 > Newest
        BY <1>2, <2>0, StorageAssumption DEF Fenced, Generation
      <4> QED
        BY <4>1 DEF DropStep
    <3>4. Fenced(d)'
      BY <1>2, <2>0, <3>1, <3>3 DEF Fenced, Holds
    <3> QED
      BY <2>1, <2>4, <3>2, <3>4 DEF ContainerOK
  <2> QED
    BY <2>2, <2>3
<1> QED
  BY <1>3, <1>4, <1>6 DEF IInv

\* The writer that is refused drops a bundle of a generation that exists.
LEMMA CreateRefusedKeeps ==
  ASSUME NEW c \in Containers, IInv, CreateRefused(c)
  PROVE IInv'
<1> DEFINE h == op[c].head
<1>1. /\ op[c].at = "create" /\ life[c] = "up" /\ Newest # h
      /\ Fenced(c) /\ op[c] \in OpType
  BY DEF CreateRefused, At, Alive, Creatable, IInv, ContainerOK, Types
<1>2. /\ Newest \in Nat /\ h \in Nat /\ h < Newest /\ h < MaxGenerations
      /\ op[c].kind \in {"adopt", "push"}
  BY <1>1 DEF Fenced, IInv, ContainerOK, Types, Newest, OpType
<1>3. h + 1 \in Generation
  BY <1>2, StorageAssumption DEF Generation
<1>4. \/ bundles' = [bundles EXCEPT ![h + 1][c] = None]
      \/ bundles' = bundles
  BY DEF CreateRefused
<1>5. bundles' \in [Generation -> Row]
  <2>1. bundles \in [Generation -> Row] /\ bundles[h + 1] \in Row
    BY <1>3 DEF IInv, Types
  <2>2. [bundles[h + 1] EXCEPT ![c] = None] \in Row
    BY <2>1 DEF Row
  <2> QED
    BY <1>4, <2>1, <2>2
<1>6. \A g \in Generation, w \in Containers :
        g # h + 1 \/ w # c => bundles'[g][w] = bundles[g][w]
  BY <1>3, <1>4 DEF IInv, Types, Row
<1>7. \A g \in Generation, w \in Containers :
        g > Newest => bundles'[g][w] = bundles[g][w]
  BY <1>2, <1>6 DEF Generation
<1>8. life' = life /\ op' = [op EXCEPT ![c] = Idle]
  BY <1>2 DEF CreateRefused, Fail
<1>9. Idle \in OpType /\ Idle.at = None /\ Idle.kind \notin {"boot", "present"}
  BY IdleType, StorageAssumption DEF Idle, Kinds
<1>10. UNCHANGED <<pointers, transit, local, record, seen, requests>>
  BY DEF CreateRefused, clone
<1> QED
  BY <1>1, <1>5, <1>7, <1>8, <1>9, <1>10, DropKeeps DEF DropStep

\* Retention keeps the newest generation: what it drops is below the one this
\* writer has just committed.
LEMMA PruneKeeps ==
  ASSUME NEW c \in Containers, IInv, Prune(c)
  PROVE IInv'
<1> DEFINE h == op[c].head
           old == {g \in Generation : Prunable(g, h + 1)}
<1>1. /\ op[c].at = "prune" /\ life[c] = "up" /\ Fenced(c) /\ op[c] \in OpType
  BY DEF Prune, At, Alive, IInv, ContainerOK, Types
<1>2. /\ Newest \in Nat /\ h \in Nat /\ h + 1 <= Newest
      /\ op[c].kind \in {"adopt", "push"}
  BY <1>1 DEF Fenced, IInv, ContainerOK, Types, Newest, OpType
<1>3. PICK gone \in SUBSET old : bundles' = Without(gone)
  BY DEF Prune
<1>4. \A g \in gone : g < Newest
  BY <1>2, StorageAssumption DEF Prunable, Generation
<1>5. \A g \in Generation :
        bundles'[g] = IF g \in gone THEN [w \in Containers |-> None] ELSE bundles[g]
  BY <1>3 DEF Without
<1>6. bundles' \in [Generation -> Row]
  BY <1>3 DEF Without, IInv, Types, Row
<1>7. \A g \in Generation, w \in Containers :
        g > Newest => bundles'[g][w] = bundles[g][w]
  BY <1>2, <1>4, <1>5 DEF Generation
<1> DEFINE o == [op[c] EXCEPT !.at = "bindrecord"]
<1>8. o \in OpType /\ o.at = "bindrecord" /\ o.kind \notin {"boot", "present"}
  BY <1>1, <1>2 DEF OpType, Steps
<1>9. op' = [op EXCEPT ![c] = o]
  BY DEF Prune, Go
<1>10. UNCHANGED <<pointers, transit, local, record, seen, requests, life>>
  BY DEF Prune, clone
<1> HIDE DEF o
<1> QED
  BY <1>1, <1>6, <1>7, <1>8, <1>9, <1>10, DropKeeps DEF DropStep

-----------------------------------------------------------------------------
\* The steps that only serve: they add to the clone and to the queue.
LEMMA ServeIsQuiet ==
  ASSUME NEW c \in Containers, IInv,
         \/ StartBind(c) \/ BindHead(c) \/ RecordBinding(c) \/ EnqueueCheck(c)
         \/ EnqueueCount(c) \/ RetryNow(c) \/ StartPush(c)
  PROVE Quiet(c)
<1>1. /\ UNCHANGED <<pointers, bundles, transit, record, seen, local, life>>
      /\ life[c] = "up"
  BY DEF StartBind, BindHead, RecordBinding, EnqueueCheck, EnqueueCount,
         RetryNow, StartPush, volume, clone, Serving, Alive, At
<1>2. local' = [local EXCEPT ![c] = @ \cup {}]
  BY <1>1 DEF IInv, Types
<1>3. requests' \in 0 .. MaxRequests
  BY StorageAssumption
  DEF IInv, Types, StartBind, BindHead, RecordBinding, EnqueueCheck,
      EnqueueCount, RetryNow, StartPush, counters, Requested
<1>4. op[c] \in OpType
  BY DEF IInv, Types
<1>5. /\ Idle \in OpType /\ Begin("bind") \in OpType /\ Begin("push") \in OpType
      /\ Idle.at = None /\ Idle.kind \notin {"boot", "present"}
      /\ Begin("bind").at = "head" /\ Begin("bind").kind = "bind"
      /\ Begin("push").at = "head" /\ Begin("push").kind = "push"
  BY IdleType, StorageAssumption DEF Idle, Kinds, Begin
<1>6. \/ op' = op
      \/ \E o \in OpType :
           /\ op' = [op EXCEPT ![c] = o]
           /\ o.at \in {None, "head", "bindrecord"}
           /\ o.kind \notin {"boot", "present"}
  <2>1. CASE StartBind(c)
    BY <1>5, <2>1 DEF StartBind
  <2>2. CASE StartPush(c)
    BY <1>5, <2>2 DEF StartPush
  <2>3. CASE RecordBinding(c)
    BY <1>5, <2>3 DEF RecordBinding
  <2>4. CASE BindHead(c)
    <3>1. CASE Go(c, "bindrecord")
      <4> DEFINE o == [op[c] EXCEPT !.at = "bindrecord"]
      <4>1. o \in OpType /\ o.at = "bindrecord" /\ o.kind = op[c].kind
        BY <1>4 DEF OpType, Steps
      <4>2. op' = [op EXCEPT ![c] = o] /\ op[c].kind = "bind"
        BY <2>4, <3>1 DEF Go, BindHead
      <4> HIDE DEF o
      <4> QED
        BY <4>1, <4>2
    <3>2. CASE op' = [op EXCEPT ![c].kind = "adopt", ![c].at = "head"]
      <4> DEFINE o == [op[c] EXCEPT !.kind = "adopt", !.at = "head"]
      <4>1. o \in OpType /\ o.at = "head" /\ o.kind = "adopt"
        BY <1>4 DEF OpType, Steps, Kinds
      <4>2. op' = [op EXCEPT ![c] = o]
        BY <3>2
      <4> HIDE DEF o
      <4> QED
        BY <4>1, <4>2
    <3> QED
      BY <2>4, <3>1, <3>2 DEF BindHead
  <2>5. CASE EnqueueCheck(c) \/ EnqueueCount(c) \/ RetryNow(c)
    BY <2>5 DEF EnqueueCheck, EnqueueCount, RetryNow
  <2> QED
    BY <2>1, <2>2, <2>3, <2>4, <2>5
<1> QED
  BY <1>1, <1>2, <1>3, <1>6 DEF Quiet, Sends

\* A save only adds commits to its clone.
LEMMA SaveIsQuiet ==
  ASSUME NEW c \in Containers, IInv, Save(c)
  PROVE Quiet(c)
<1>1. requests + 1 \in 0 .. MaxRequests /\ requests' = requests + 1
  BY StorageAssumption DEF Save, Requested, IInv, Types
<1>2. {<<c, requests + 1>>} \in SUBSET Commits
  BY <1>1 DEF Commits
<1>3. \E more \in SUBSET Commits : local' = [local EXCEPT ![c] = @ \cup more]
  BY <1>2 DEF Save
<1> QED
  BY <1>1, <1>3 DEF Save, Serving, Alive, Quiet, Sends, volume

\* Every step keeps the invariant.
LEMMA NextIInv == IInv /\ [Next]_vars => IInv'
<1> SUFFICES ASSUME IInv, [Next]_vars PROVE IInv'
  OBVIOUS
<1>1. CASE UNCHANGED vars
  BY <1>1
  DEF vars, IInv, ContainerOK, Types, HistoryIsKept, CloneKeeps,
      Unpublished, Fenced, Sent, Holds, Newest
<1>2. ASSUME NEW c \in Containers, BootFresh(c) PROVE IInv'
  BY <1>2, BootFreshKeeps
<1>3. ASSUME NEW c \in Containers, NEW d \in Containers, BootPresent(c, d)
      PROVE IInv'
  BY <1>3, BootPresentKeeps
<1>4. ASSUME NEW c \in Containers, Session(c) PROVE IInv'
  <2>1. CASE StartBind(c) \/ BindHead(c) \/ EnqueueCheck(c) \/ EnqueueCount(c)
             \/ RetryNow(c) \/ StartPush(c)
    BY <2>1, ServeIsQuiet, QuietKeeps
  <2>2. CASE Save(c)
    BY <2>2, SaveIsQuiet, QuietKeeps
  <2>3. CASE RestoreHead(c) \/ RestoreFetch(c) \/ PresentHead(c)
    BY <2>3, RestoreHeadKeeps, RestoreFetchKeeps, PresentHeadKeeps
  <2>4. CASE Unavailable(c) \/ Die(c)
    BY <2>4, UnavailableKeeps, DieKeeps
  <2> QED
    BY <1>4, <2>1, <2>2, <2>3, <2>4 DEF Session
<1>5. ASSUME NEW c \in Containers, Publish(c) PROVE IInv'
  <2>1. CASE PublishHead(c) \/ Pack(c) \/ Prune(c)
    BY <2>1, PublishHeadKeeps, PackKeeps, PruneKeeps
  <2>2. CASE CreatePointer(c) \/ CreateUnanswered(c) \/ CreateRefused(c)
    BY <2>2, CreatePointerKeeps, CreateUnansweredIsQuiet, QuietKeeps,
       CreateRefusedKeeps
  <2>3. CASE RecordBinding(c)
    BY <2>3, ServeIsQuiet, QuietKeeps
  <2> QED
    BY <1>5, <2>1, <2>2, <2>3 DEF Publish
<1>6. ASSUME NEW r \in transit, LandsLate(r) PROVE IInv'
  BY <1>6, LandsLateKeeps
<1> QED
  BY <1>1, <1>2, <1>3, <1>4, <1>5, <1>6 DEF Next

\* The fence of _publish_to_uc loses nothing: however containers overlap, die,
\* come back on an old disk or lose the answer to a create, every published
\* generation keeps all the commits of the one before it.
THEOREM HistorySafe == Spec => []HistoryIsKept
<1>1. IInv => HistoryIsKept
  BY DEF IInv
<1> QED
  BY <1>1, InitIInv, NextIInv, PTL DEF Spec

-----------------------------------------------------------------------------
(***************************************************************************)
(* What a session calls synced is published. A push subtracts only the     *)
(* batch it began with, and it packs after it took that batch; so a save   *)
(* that the pack misses was counted later, and is still pending. A session *)
(* that becomes bound by a restore has made no save yet, and one that      *)
(* becomes bound by adopting its project has published what it packed and  *)
(* counted what came after.                                                *)
(***************************************************************************)

\* The rest of the types.
QueueType == [pending : Nat, batch : Nat, blocked : BOOLEAN, terminal : BOOLEAN]

SessionTypes ==
  /\ queue \in [Containers -> QueueType]
  /\ bound \in [Containers -> BOOLEAN]
  /\ saving \in [Containers -> {"no", "check", "count"}]

\* A clone or a bundle holds the commit.
Known(x) ==
  \/ \E d \in Containers : x \in local[d]
  \/ \E g \in Generation, w \in Containers : bundles[g][w] # None /\ x \in bundles[g][w]

\* The container has not begun to serve.
Unstarted(c) == life[c] = "new" \/ op[c].kind \in {"boot", "present"}

\* No commit bears the name of a container that has not begun to serve.
Unnamed == \A c \in Containers : Unstarted(c) => \A x \in Commits : Known(x) => x[1] # c

Published(x) == \E g \in 1 .. Newest : x \in pointers[g].tip

\* A container that does not run does nothing and is not bound; nor is one that
\* still boots.
Asleep(c) ==
  /\ life[c] # "up" => op[c] = Idle /\ ~bound[c]
  /\ op[c].kind \in {"boot", "present"} => ~bound[c]

\* A push of a bound session has a batch of what is pending; nothing else has a
\* batch, and a bind runs in an unbound session.
Batched(c) ==
  /\ op[c].kind = "push" =>
       bound[c] /\ 1 <= queue[c].batch /\ queue[c].batch <= queue[c].pending
  /\ op[c].kind # "push" => queue[c].batch = 0
  /\ op[c].kind \in {"bind", "adopt"} => ~bound[c]

\* What a publication has committed is published.
CommittedTip(c) ==
  /\ op[c].at = "bindrecord" => op[c].kind \in {"bind", "adopt", "push"}
  /\ op[c].at \in {"prune", "bindrecord"} /\ op[c].kind # "bind" =>
       \A x \in op[c].tip : Published(x)

\* When no save is between its commit and its count: an unpublished save of a
\* bound session is pending, and one that the publication under way has not
\* packed is pending beyond its batch.
Counted(c) ==
  saving[c] = "no" =>
    /\ bound[c] /\ (\E x \in SavesOf(c) : ~Published(x)) => queue[c].pending > 0
    /\ /\ op[c].at \in {"create", "prune", "bindrecord"}
       /\ op[c].kind \in {"adopt", "push"}
       /\ ~(SavesOf(c) \subseteq op[c].tip)
       => queue[c].pending > queue[c].batch

ContainerSync(c) == Asleep(c) /\ Batched(c) /\ CommittedTip(c) /\ Counted(c)

\* The second inductive invariant, relative to IInv.
SyncInv == SessionTypes /\ Unnamed /\ \A c \in Containers : ContainerSync(c)

-----------------------------------------------------------------------------
\* The step leaves the session of container d alone.
Untouched(d) ==
  /\ op'[d] = op[d] /\ local'[d] = local[d] /\ saving'[d] = saving[d]
  /\ bound'[d] = bound[d] /\ queue'[d] = queue[d] /\ life'[d] = life[d]

\* Pointers are only appended.
Appends == pointers' = pointers \/ \E p \in Pointers : pointers' = Append(pointers, p)

\* What is published stays published.
LEMMA PublishedStays ==
  ASSUME Types, Appends
  PROVE \A x : Published(x) => Published(x)'
<1>1. CASE pointers' = pointers
  BY <1>1 DEF Published, Newest
<1>2. ASSUME NEW p \in Pointers, pointers' = Append(pointers, p)
      PROVE \A x : Published(x) => Published(x)'
  <2>1. /\ Len(pointers) \in Nat /\ Len(pointers') = Len(pointers) + 1
        /\ \A g \in 1 .. Len(pointers) : pointers'[g] = pointers[g]
    BY <1>2 DEF Types
  <2> QED
    BY <2>1 DEF Published, Newest
<1> QED
  BY <1>1, <1>2 DEF Appends

\* A container whose session is left alone keeps its part.
LEMMA UntouchedSync ==
  ASSUME NEW d \in Containers, Types, Appends, Untouched(d), ContainerSync(d)
  PROVE ContainerSync(d)'
<1>1. \A x : Published(x) => Published(x)'
  BY PublishedStays
<1>2. Asleep(d)' /\ Batched(d)'
  BY DEF Untouched, ContainerSync, Asleep, Batched
<1>3. CommittedTip(d)'
  BY <1>1 DEF Untouched, ContainerSync, CommittedTip
<1>4. Counted(d)'
  BY <1>1 DEF Untouched, ContainerSync, Counted, SavesOf
<1> QED
  BY <1>2, <1>3, <1>4 DEF ContainerSync

\* A step that lets nobody be unstarted anew, and no commit appear but those of
\* containers that serve, keeps Unnamed.
LEMMA UnnamedStays ==
  ASSUME Unnamed,
         \A e \in Containers : Unstarted(e)' => Unstarted(e),
         \A x \in Commits : Known(x)' => Known(x) \/ ~Unstarted(x[1])'
  PROVE Unnamed'
BY DEF Unnamed

\* A container that has not begun to serve finds no save of its own.
LEMMA UnstartedHasNoSaves ==
  ASSUME NEW c \in Containers, Types, Unnamed, Unstarted(c),
         NEW d \in Containers
  PROVE {x \in local[d] : x[1] = c} = {}
BY DEF Types, Unnamed, Known

\* The part of a step of c that is the same for every action.
LEMMA SessionStep ==
  ASSUME NEW c \in Containers, Types, SyncInv, Appends, SessionTypes', Unnamed',
         \A d \in Containers \ {c} : Untouched(d),
         ContainerSync(c)'
  PROVE SyncInv'
BY UntouchedSync DEF SyncInv

\* When the clones and the bundles stay and the only operation that changes is
\* that of c, Unnamed stays unless c begins to boot.
LEMMA QuietUnnamed ==
  ASSUME NEW c \in Containers, Unnamed, UNCHANGED <<local, bundles>>,
         \A d \in Containers \ {c} : Untouched(d),
         Unstarted(c)' => Unstarted(c)
  PROVE Unnamed'
<1>1. \A e \in Containers : Unstarted(e)' => Unstarted(e)
  BY DEF Untouched, Unstarted
<1>2. \A x \in Commits : Known(x)' => Known(x)
  BY DEF Known
<1> QED
  BY <1>1, <1>2, UnnamedStays

\* Kinds and calls are not None, and what the constant records hold.
LEMMA NoneIsNoKind ==
  /\ None \notin {"boot", "present", "bind", "adopt", "push"}
  /\ None \notin {"head", "fetch", "pack", "create", "prune", "bindrecord"}
  /\ Idle.kind = None /\ Idle.at = None /\ Idle.tip = {}
  /\ \A k : Begin(k).kind = k /\ Begin(k).at = "head"
BY StorageAssumption DEF Kinds, Steps, Idle, Begin

\* The session is idle after an operation that raises, and nothing it still
\* owed is forgotten.
LEMMA FailSync ==
  ASSUME NEW c \in Containers, NEW terminal \in BOOLEAN, IInv, SyncInv, Alive(c),
         Fail(c, terminal), Appends, UNCHANGED <<local, bound, saving>>
  PROVE /\ ContainerSync(c)'
        /\ SessionTypes'
        /\ \A d \in Containers \ {c} : Untouched(d)
        /\ Unstarted(c)' => Unstarted(c)
<1>1. /\ queue[c] \in QueueType /\ bound[c] \in BOOLEAN /\ life[c] = "up"
      /\ queue \in [Containers -> QueueType]
      /\ op \in [Containers -> OpType] /\ life \in [Containers -> {"new", "up", "dead"}]
  BY DEF SyncInv, SessionTypes, IInv, Types, Alive
<1>2. /\ op'[c] = Idle
      /\ op'[c].kind \notin {"boot", "present", "bind", "adopt", "push"}
      /\ op'[c].at \notin {"create", "prune", "bindrecord"}
  BY <1>1, NoneIsNoKind DEF Fail
<1>3. ContainerSync(c)
  BY DEF SyncInv
<1>4. \A x : Published(x) => Published(x)'
  BY PublishedStays DEF IInv
<1>12. /\ queue'[c] \in QueueType /\ queue'[c].batch = 0
       /\ bound[c] => queue'[c].pending = queue[c].pending
  <2>1. CASE op[c].kind = "push"
    <3>1. queue'[c] = Blocked(queue[c], terminal)
      BY <1>1, <2>1 DEF Fail
    <3>2. queue'[c].batch = 0 /\ queue'[c].pending = queue[c].pending
      BY <1>1, <3>1 DEF Blocked, QueueType
    <3>3. queue'[c] \in QueueType
      <4>1. queue'[c] = [pending |-> queue[c].pending, batch |-> 0,
                         blocked |-> TRUE, terminal |-> terminal]
        BY <1>1, <3>1 DEF Blocked, QueueType
      <4>2. queue[c].pending \in Nat
        BY <1>1 DEF QueueType
      <4> QED
        BY <4>1, <4>2 DEF QueueType
    <3> QED
      BY <3>2, <3>3
  <2>2. CASE op[c].kind \in {"bind", "adopt"}
    <3>1. queue'[c] = Disarmed(c, queue[c])
      BY <1>1, <2>2 DEF Fail
    <3>2. queue[c].batch = 0
      BY <1>3, <2>2 DEF ContainerSync, Batched
    <3> QED
      BY <1>1, <3>1, <3>2 DEF Disarmed, QueueType
  <2>3. CASE op[c].kind \notin {"push", "bind", "adopt"}
    <3>1. queue'[c] = queue[c]
      BY <1>1, <2>3 DEF Fail
    <3>2. queue[c].batch = 0
      BY <1>3, <2>3 DEF ContainerSync, Batched
    <3> QED
      BY <1>1, <3>1, <3>2
  <2> QED
    BY <2>1, <2>2, <2>3
<1>5. Asleep(c)'
  <2>1. life'[c] # "up" => op[c].kind \in {"boot", "present"}
    BY <1>1 DEF Fail
  <2> QED
    BY <1>2, <1>3, <2>1 DEF ContainerSync, Asleep
<1>6. Batched(c)'
  BY <1>2, <1>12 DEF Batched
<1>7. CommittedTip(c)'
  BY <1>2 DEF CommittedTip
<1>8. Counted(c)'
  BY <1>2, <1>3, <1>4, <1>12 DEF ContainerSync, Counted, SavesOf
<1>9. SessionTypes'
  <2>1. queue' = [queue EXCEPT ![c] = queue'[c]]
    BY <1>1 DEF Fail
  <2> QED
    BY <1>1, <1>12, <2>1 DEF SyncInv, SessionTypes
<1>10. \A d \in Containers \ {c} : Untouched(d)
  BY <1>1 DEF Fail, Untouched
<1>11. Unstarted(c)' => Unstarted(c)
  BY <1>1, <1>2 DEF Unstarted, Fail
<1> QED
  BY <1>5, <1>6, <1>7, <1>8, <1>9, <1>10, <1>11 DEF ContainerSync

-----------------------------------------------------------------------------
\* A container that starts on an empty disk.
LEMMA BootFreshSync ==
  ASSUME NEW c \in Containers, IInv, IInv', SyncInv, BootFresh(c)
  PROVE SyncInv'
<1>1. /\ life[c] = "new" /\ op[c] = Idle /\ ~bound[c] /\ Unstarted(c)
      /\ queue[c].batch = 0 /\ ContainerSync(c)
  BY NoneIsNoKind
  DEF BootFresh, MayStart, SyncInv, ContainerSync, Asleep, Batched, Unstarted
<1>2. /\ op \in [Containers -> OpType] /\ local \in [Containers -> SUBSET Commits]
      /\ life \in [Containers -> {"new", "up", "dead"}]
  BY DEF IInv, Types
<1>3. /\ life'[c] = "up" /\ (op'[c] = Idle \/ op'[c] = Begin("boot"))
      /\ bound'[c] = bound[c] /\ queue'[c] = queue[c] /\ saving'[c] = saving[c]
  BY <1>1, <1>2 DEF BootFresh
<1>4. ContainerSync(c)'
  <2>1. Asleep(c)' /\ Batched(c)' /\ CommittedTip(c)'
    BY <1>1, <1>3, NoneIsNoKind DEF Asleep, Batched, CommittedTip
  <2>2. Counted(c)'
    BY <1>1, <1>3, NoneIsNoKind DEF Counted
  <2> QED
    BY <2>1, <2>2 DEF ContainerSync
<1>5. \A d \in Containers \ {c} : Untouched(d)
  BY <1>2 DEF BootFresh, Untouched
<1>6. Unnamed'
  <2>1. \A e \in Containers : Unstarted(e)' => Unstarted(e)
    BY <1>1, <1>5 DEF Untouched, Unstarted
  <2>2. CASE AppOf[c] \in binding
    <3>1. UNCHANGED <<local, bundles>>
      BY <2>2 DEF BootFresh, volume
    <3> QED
      BY <2>1, <3>1, UnnamedStays DEF SyncInv, Known
  <2>3. CASE AppOf[c] \notin binding
    <3>1. op'[c] = Idle /\ bundles' = bundles /\ local' = [local EXCEPT ![c] = {<<c, 0>>}]
      BY <1>1, <2>3 DEF BootFresh, volume
    <3>2. ~Unstarted(c)'
      BY <1>3, <3>1, NoneIsNoKind DEF Unstarted
    <3>3. \A x \in Commits : Known(x)' => Known(x) \/ x = <<c, 0>>
      BY <1>2, <3>1 DEF Known
    <3> QED
      BY <2>1, <3>2, <3>3, UnnamedStays DEF SyncInv
  <2> QED
    BY <2>2, <2>3
<1>7. SessionTypes' /\ Appends
  BY DEF BootFresh, SyncInv, SessionTypes, Appends, volume
<1> QED
  BY <1>4, <1>5, <1>6, <1>7, SessionStep DEF IInv

\* A container that starts upon a disk another left finds no save of its own.
LEMMA BootPresentSync ==
  ASSUME NEW c \in Containers, NEW d \in Containers, IInv, IInv', SyncInv,
         BootPresent(c, d)
  PROVE SyncInv'
<1>1. /\ life[c] = "new" /\ op[c] = Idle /\ ~bound[c] /\ Unstarted(c)
      /\ queue[c].batch = 0 /\ ContainerSync(c) /\ ContainerSync(d)
      /\ life[d] = "dead" /\ op[d] = Idle /\ ~bound[d] /\ c # d
  BY NoneIsNoKind
  DEF BootPresent, MayStart, SyncInv, ContainerSync, Asleep, Batched, Unstarted
<1>2. /\ op \in [Containers -> OpType] /\ local \in [Containers -> SUBSET Commits]
      /\ life \in [Containers -> {"new", "up", "dead"}]
  BY DEF IInv, Types
<1>3. /\ op'[c] = Idle \/ (op'[c] = Begin("present") /\ life'[c] = "up")
      /\ bound'[c] = bound[c] /\ queue'[c] = queue[c] /\ saving'[c] = saving[c]
      /\ local'[c] = local[d]
  BY <1>1, <1>2 DEF BootPresent
<1>4. ContainerSync(c)'
  <2>1. Asleep(c)' /\ Batched(c)' /\ CommittedTip(c)'
    BY <1>1, <1>3, NoneIsNoKind DEF Asleep, Batched, CommittedTip
  <2>2. Counted(c)'
    BY <1>1, <1>3, NoneIsNoKind DEF Counted
  <2> QED
    BY <2>1, <2>2 DEF ContainerSync
<1>5. ContainerSync(d)'
  <2>1. op'[d] = Idle /\ life'[d] = "dead" /\ bound'[d] = bound[d] /\ queue'[d] = queue[d]
    BY <1>1, <1>2 DEF BootPresent
  <2>2. Asleep(d)' /\ Batched(d)' /\ CommittedTip(d)'
    BY <1>1, <2>1, NoneIsNoKind DEF ContainerSync, Asleep, Batched, CommittedTip
  <2>3. Counted(d)'
    BY <1>1, <2>1, NoneIsNoKind DEF Counted
  <2> QED
    BY <2>2, <2>3 DEF ContainerSync
<1>6. \A e \in Containers \ {c, d} : Untouched(e)
  BY <1>2 DEF BootPresent, Untouched
<1>7. Unnamed'
  <2>1. \A e \in Containers : Unstarted(e)' => Unstarted(e)
    <3>1. op'[d] = op[d] /\ life'[d] = life[d]
      BY <1>1, <1>2 DEF BootPresent
    <3> QED
      BY <1>1, <1>6, <3>1 DEF Untouched, Unstarted
  <2>2. \A x \in Commits : Known(x)' => Known(x)
    <3>1. \A e \in Containers : local'[e] \in {local[e], local[d], {}}
      BY <1>2 DEF BootPresent
    <3>2. bundles' = bundles
      BY DEF BootPresent, volume
    <3> QED
      BY <3>1, <3>2 DEF Known
  <2> QED
    BY <2>1, <2>2, UnnamedStays DEF SyncInv
<1>8. SessionTypes' /\ Appends
  BY DEF BootPresent, SyncInv, SessionTypes, Appends, volume
<1>9. \A e \in Containers \ {c, d} : ContainerSync(e)'
  BY <1>6, <1>8, UntouchedSync DEF SyncInv, IInv
<1> QED
  BY <1>4, <1>5, <1>7, <1>8, <1>9 DEF SyncInv

\* An operation that raises and changes nothing else.
LEMMA FailedSync ==
  ASSUME NEW c \in Containers, NEW terminal \in BOOLEAN, IInv, SyncInv, Alive(c),
         Fail(c, terminal), Appends, UNCHANGED <<local, bundles, bound, saving>>
  PROVE SyncInv'
<1>1. /\ ContainerSync(c)' /\ SessionTypes'
      /\ \A d \in Containers \ {c} : Untouched(d)
      /\ Unstarted(c)' => Unstarted(c)
  BY FailSync
<1>2. Unnamed'
  BY <1>1, QuietUnnamed DEF SyncInv
<1> QED
  BY <1>1, <1>2, SessionStep DEF IInv

\* An operation the volume refuses.
LEMMA UnavailableSync ==
  ASSUME NEW c \in Containers, IInv, SyncInv, Unavailable(c)
  PROVE SyncInv'
<1>1. Alive(c) /\ Appends /\ UNCHANGED <<local, bundles, bound, saving>>
  BY DEF Unavailable, Appends, volume, clone
<1>2. Fail(c, FALSE) \/ Fail(c, TRUE)
  BY DEF Unavailable
<1> QED
  BY <1>1, <1>2, FailedSync

\* An operation of the kind c is at, or of a bind that begins, has no publication
\* to record at this call.
OwesNothing(c, o) ==
  /\ \/ o.kind = op[c].kind
     \/ o.kind \in {"bind", "adopt"} /\ ~bound[c] /\ op[c].kind # "push"
  /\ \/ o.at \in {"head", "fetch", "pack"}
     \/ o.at = "bindrecord" /\ o.kind = "bind"

\* A step of c in which only its operation changes, to one that owes nothing.
LEMMA OperationSync ==
  ASSUME NEW c \in Containers, IInv, SyncInv, Alive(c),
         NEW o \in OpType, op' = [op EXCEPT ![c] = o],
         UNCHANGED <<pointers, bundles, life, local, bound, saving, queue>>,
         OwesNothing(c, o)
  PROVE SyncInv'
<1>1. op'[c] = o /\ op \in [Containers -> OpType]
  BY DEF IInv, Types
<1>2. ContainerSync(c) /\ life[c] = "up"
  BY DEF SyncInv, Alive
<1>3. ContainerSync(c)'
  <2>1. Asleep(c)' /\ Batched(c)'
    BY <1>1, <1>2, NoneIsNoKind DEF OwesNothing, ContainerSync, Asleep, Batched
  <2>2. CommittedTip(c)'
    BY <1>1, <1>2, NoneIsNoKind DEF OwesNothing, ContainerSync, CommittedTip
  <2>3. Counted(c)'
    BY <1>1, <1>2, NoneIsNoKind
    DEF OwesNothing, ContainerSync, Counted, SavesOf, Published, Newest
  <2> QED
    BY <2>1, <2>2, <2>3 DEF ContainerSync
<1>4. \A d \in Containers \ {c} : Untouched(d)
  BY <1>1 DEF Untouched
<1>5. Unnamed'
  <2>1. Unstarted(c)' => Unstarted(c)
    BY <1>1 DEF OwesNothing, Unstarted
  <2> QED
    BY <1>4, <2>1, QuietUnnamed DEF SyncInv
<1>6. SessionTypes' /\ Appends
  BY DEF SyncInv, SessionTypes, Appends
<1> QED
  BY <1>3, <1>4, <1>5, <1>6, SessionStep DEF IInv

\* Reading the head, for a restore, a bind or a publication, and beginning a bind.
LEMMA HeadSync ==
  ASSUME NEW c \in Containers, IInv, SyncInv,
         RestoreHead(c) \/ StartBind(c) \/ BindHead(c) \/ PublishHead(c)
  PROVE SyncInv'
<1>1. /\ Alive(c) /\ Appends /\ UNCHANGED <<local, bundles, bound, saving>>
      /\ UNCHANGED pointers
  BY DEF RestoreHead, StartBind, BindHead, PublishHead, At, Serving, Appends,
         volume, clone
<1>2. op[c] \in OpType /\ Newest \in Nat
  BY DEF IInv, Types, Newest
<1>3. CASE Fail(c, FALSE) \/ Fail(c, TRUE)
  BY <1>1, <1>3, FailedSync
<1>4. CASE RestoreHead(c) /\ ~Fail(c, FALSE)
  <2> DEFINE o == [op[c] EXCEPT !.head = Newest, !.at = "fetch"]
  <2>1. o \in OpType /\ OwesNothing(c, o)
    BY <1>2 DEF OpType, Steps, OwesNothing
  <2>2. op' = [op EXCEPT ![c] = o] /\ UNCHANGED <<life, queue>>
    BY <1>4 DEF RestoreHead
  <2> HIDE DEF o
  <2> QED
    BY <1>1, <2>1, <2>2, OperationSync
<1>5. CASE StartBind(c)
  <2>1. op' = [op EXCEPT ![c] = Begin("bind")] /\ UNCHANGED <<life, queue>>
    BY <1>5 DEF StartBind
  <2>2. Begin("bind") \in OpType
    BY IdleType DEF Kinds
  <2>3. OwesNothing(c, Begin("bind"))
    BY <1>5, NoneIsNoKind DEF StartBind, OwesNothing
  <2> QED
    BY <1>1, <2>1, <2>2, <2>3, OperationSync
<1>6. CASE BindHead(c)
  <2>0. op[c].kind = "bind" /\ ~bound[c] /\ UNCHANGED <<life, queue>>
    BY <1>6 DEF BindHead, SyncInv, ContainerSync, Batched
  <2>1. CASE Go(c, "bindrecord")
    <3> DEFINE o == [op[c] EXCEPT !.at = "bindrecord"]
    <3>1. o \in OpType /\ OwesNothing(c, o)
      BY <1>2, <2>0 DEF OpType, Steps, OwesNothing
    <3>2. op' = [op EXCEPT ![c] = o]
      BY <2>1 DEF Go
    <3> HIDE DEF o
    <3> QED
      BY <1>1, <2>0, <3>1, <3>2, OperationSync
  <2>2. CASE op' = [op EXCEPT ![c].kind = "adopt", ![c].at = "head"]
    <3> DEFINE o == [op[c] EXCEPT !.kind = "adopt", !.at = "head"]
    <3>1. o \in OpType /\ OwesNothing(c, o)
      BY <1>2, <2>0 DEF OpType, Steps, Kinds, OwesNothing
    <3>2. op' = [op EXCEPT ![c] = o]
      BY <2>2
    <3> HIDE DEF o
    <3> QED
      BY <1>1, <2>0, <3>1, <3>2, OperationSync
  <2> QED
    BY <1>6, <2>1, <2>2 DEF BindHead
<1>7. CASE PublishHead(c) /\ ~Fail(c, TRUE)
  <2> DEFINE o == [op[c] EXCEPT !.head = Newest, !.at = "pack"]
  <2>1. o \in OpType /\ OwesNothing(c, o)
    BY <1>2 DEF OpType, Steps, OwesNothing
  <2>2. op' = [op EXCEPT ![c] = o] /\ UNCHANGED <<life, queue>>
    BY <1>7 DEF PublishHead
  <2> HIDE DEF o
  <2> QED
    BY <1>1, <2>1, <2>2, OperationSync
<1> QED
  BY <1>3, <1>4, <1>5, <1>6, <1>7

\* A restored or present clone holds no save of this container: binding it owes
\* nothing.
LEMMA BoundSync ==
  ASSUME NEW c \in Containers, IInv, IInv', SyncInv, Alive(c),
         op[c].kind \in {"boot", "present"},
         op' = [op EXCEPT ![c] = Idle], bound' = [bound EXCEPT ![c] = TRUE],
         UNCHANGED <<pointers, bundles, life, saving, queue>>,
         \/ local' = local
         \/ \E g \in Generation, w \in Containers :
              bundles[g][w] # None /\ local' = [local EXCEPT ![c] = bundles[g][w]]
  PROVE SyncInv'
<1>1. /\ op \in [Containers -> OpType] /\ bound \in [Containers -> BOOLEAN]
      /\ local \in [Containers -> SUBSET Commits] /\ local'[c] \subseteq Commits
      /\ local' \in [Containers -> SUBSET Commits]
  BY DEF IInv, Types, SyncInv, SessionTypes
<1>2. op'[c] = Idle /\ bound'[c] = TRUE /\ life'[c] = "up" /\ queue'[c] = queue[c]
  BY <1>1 DEF Alive
<1>3. Unstarted(c) /\ queue[c].batch = 0
  BY DEF Unstarted, SyncInv, ContainerSync, Batched
<1>4. \A x \in Commits : Known(x)' => Known(x)
  <2>1. \A d \in Containers : local'[d] = local[d]
          \/ \E g \in Generation, w \in Containers :
               bundles[g][w] # None /\ local'[d] = bundles[g][w]
    BY <1>1
  <2> QED
    BY <2>1 DEF Known
<1>5. SavesOf(c)' = {}
  <2>1. \A x \in Commits : x \in local'[c] => Known(x)'
    BY DEF Known
  <2> QED
    BY <1>1, <1>3, <1>4, <2>1 DEF SavesOf, SyncInv, Unnamed
<1>6. ContainerSync(c)'
  <2>1. Asleep(c)' /\ Batched(c)' /\ CommittedTip(c)'
    BY <1>2, <1>3, NoneIsNoKind DEF Asleep, Batched, CommittedTip
  <2>2. Counted(c)'
    BY <1>2, <1>5, NoneIsNoKind DEF Counted
  <2> QED
    BY <2>1, <2>2 DEF ContainerSync
<1>7. \A d \in Containers \ {c} : Untouched(d)
  BY <1>1 DEF Untouched
<1>8. Unnamed'
  <2>1. \A e \in Containers : Unstarted(e)' => Unstarted(e)
    BY <1>3, <1>7 DEF Untouched, Unstarted
  <2> QED
    BY <1>4, <2>1, UnnamedStays DEF SyncInv
<1>9. SessionTypes' /\ Appends
  BY <1>1 DEF SyncInv, SessionTypes, Appends
<1> QED
  BY <1>6, <1>7, <1>8, <1>9, SessionStep DEF IInv

\* Cloning the newest bundle, or finding that it is gone.
LEMMA RestoreFetchSync ==
  ASSUME NEW c \in Containers, IInv, IInv', SyncInv, RestoreFetch(c)
  PROVE SyncInv'
<1> DEFINE h == op[c].head
           stored == bundles[h][pointers[h].writer]
<1>1. Alive(c) /\ UNCHANGED <<pointers, bundles, saving>> /\ Appends
  BY DEF RestoreFetch, At, volume, Appends
<1>2. op[c].kind = "boot" /\ h \in Generation /\ pointers[h].writer \in Containers
  <2>1. op[c].kind = "boot" /\ 1 <= h /\ h <= Newest
    BY DEF RestoreFetch, At, IInv, ContainerOK, Fenced
  <2>2. /\ pointers \in Seq(Pointers) /\ Len(pointers) <= MaxGenerations
        /\ h \in Nat /\ MaxGenerations \in Nat
    BY StorageAssumption DEF IInv, Types, OpType
  <2>3. h \in 1 .. Len(pointers) /\ h \in Generation
    BY <2>1, <2>2 DEF Newest, Generation
  <2>4. pointers[h] \in Pointers
    BY <2>2, <2>3
  <2> QED
    BY <2>1, <2>3, <2>4 DEF Pointers
<1>3. CASE Fail(c, FALSE) /\ UNCHANGED <<clone, bound>>
  BY <1>1, <1>3, FailedSync DEF clone
<1>4. CASE ~(Fail(c, FALSE) /\ UNCHANGED <<clone, bound>>)
  <2>1. /\ stored # None /\ local' = [local EXCEPT ![c] = stored]
        /\ bound' = [bound EXCEPT ![c] = TRUE] /\ op' = [op EXCEPT ![c] = Idle]
        /\ UNCHANGED <<life, queue>>
    BY <1>4 DEF RestoreFetch
  <2>2. \E g \in Generation, w \in Containers :
          bundles[g][w] # None /\ local' = [local EXCEPT ![c] = bundles[g][w]]
    BY <1>2, <2>1
  <2> QED
    BY <1>1, <1>2, <2>1, <2>2, BoundSync
<1> QED
  BY <1>3, <1>4

\* A container on a disk of its own location serves it.
LEMMA PresentHeadSync ==
  ASSUME NEW c \in Containers, IInv, IInv', SyncInv, PresentHead(c)
  PROVE SyncInv'
BY BoundSync DEF PresentHead, At, volume, clone

-----------------------------------------------------------------------------
\* A save bears the name of a container that serves, and is not counted yet.
LEMMA SaveSync ==
  ASSUME NEW c \in Containers, IInv, SyncInv, Save(c)
  PROVE SyncInv'
<1> DEFINE x0 == <<c, requests + 1>>
<1>1. /\ local \in [Containers -> SUBSET Commits]
      /\ saving \in [Containers -> {"no", "check", "count"}]
      /\ ContainerSync(c)
  BY DEF IInv, Types, SyncInv, SessionTypes
<1>2. saving'[c] = "check" /\ local' = [local EXCEPT ![c] = @ \cup {x0}]
  BY <1>1 DEF Save
<1>3. UNCHANGED <<pointers, bundles, life, op, bound, queue>>
  BY DEF Save, volume
<1>4. life[c] = "up" /\ ~Unstarted(c)
  BY DEF Save, Serving, Alive, Unstarted
<1>5. ContainerSync(c)'
  <2>1. Asleep(c)' /\ Batched(c)'
    BY <1>1, <1>3 DEF ContainerSync, Asleep, Batched
  <2>2. CommittedTip(c)'
    BY <1>1, <1>3 DEF ContainerSync, CommittedTip, Published, Newest
  <2>3. Counted(c)'
    BY <1>2 DEF Counted
  <2> QED
    BY <2>1, <2>2, <2>3 DEF ContainerSync
<1>6. \A d \in Containers \ {c} : Untouched(d)
  BY <1>1, <1>2, <1>3 DEF Untouched, Save
<1>7. Unnamed'
  <2>1. \A e \in Containers : Unstarted(e)' => Unstarted(e)
    BY <1>3 DEF Unstarted
  <2>2. \A x \in Commits : Known(x)' => Known(x) \/ x = x0
    BY <1>1, <1>2, <1>3 DEF Known
  <2>3. \A x : x = x0 => x[1] = c
    OBVIOUS
  <2>4. ~Unstarted(c)'
    BY <1>3, <1>4 DEF Unstarted
  <2> HIDE DEF x0
  <2>5. \A x \in Commits : Known(x)' => Known(x) \/ ~Unstarted(x[1])'
    BY <2>2, <2>3, <2>4
  <2> QED
    BY <2>1, <2>5, UnnamedStays DEF SyncInv
<1>8. SessionTypes' /\ Appends
  BY <1>1, <1>3 DEF SyncInv, SessionTypes, Appends, Save
<1> QED
  BY <1>5, <1>6, <1>7, <1>8, SessionStep DEF IInv

\* A step of c that leaves the volume and its clone alone and brings its
\* operation, its queue and its save to what the invariant says of them.
LEMMA QueueSync ==
  ASSUME NEW c \in Containers, IInv, SyncInv,
         UNCHANGED <<pointers, bundles, local>>,
         \A d \in Containers \ {c} : Untouched(d),
         Unstarted(c)' => Unstarted(c),
         SessionTypes', ContainerSync(c)'
  PROVE SyncInv'
<1>1. Unnamed'
  BY QuietUnnamed DEF SyncInv
<1> QED
  BY <1>1, SessionStep DEF IInv, Appends

\* The count of a save: dropped, due, or made.
LEMMA EnqueueSync ==
  ASSUME NEW c \in Containers, IInv, SyncInv, EnqueueCheck(c) \/ EnqueueCount(c)
  PROVE SyncInv'
<1>1. /\ queue \in [Containers -> QueueType] /\ queue[c] \in QueueType
      /\ saving \in [Containers -> {"no", "check", "count"}]
      /\ ContainerSync(c) /\ SessionTypes
  BY DEF SyncInv, SessionTypes
<1>2. UNCHANGED <<pointers, bundles, local, life, op, bound>>
  BY DEF EnqueueCheck, EnqueueCount, volume, clone
<1>3. \A d \in Containers \ {c} : Untouched(d)
  BY <1>1, <1>2 DEF EnqueueCheck, EnqueueCount, Untouched
<1>4. Asleep(c)' /\ CommittedTip(c)'
  BY <1>1, <1>2 DEF ContainerSync, Asleep, CommittedTip, Published, Newest
<1>5. Unstarted(c)' => Unstarted(c)
  BY <1>2 DEF Unstarted
<1>6. CASE EnqueueCheck(c)
  <2>1. queue' = queue /\ (saving'[c] = "no" => ~Counts(c))
    BY <1>1, <1>6 DEF EnqueueCheck
  <2>2. Batched(c)'
    BY <1>1, <1>2, <2>1 DEF ContainerSync, Batched
  <2>3. Counted(c)'
    BY <1>1, <1>2, <2>1 DEF ContainerSync, Batched, Counted, Counts
  <2>4. SessionTypes'
    BY <1>1, <1>2, <1>6, <2>1 DEF SessionTypes, EnqueueCheck
  <2> QED
    BY <1>2, <1>3, <1>4, <1>5, <2>2, <2>3, <2>4, QueueSync DEF ContainerSync
<1>7. CASE EnqueueCount(c)
  <2>1. /\ queue' = [queue EXCEPT ![c].pending = @ + 1,
                                  ![c].blocked = @ /\ queue[c].terminal]
        /\ saving' = [saving EXCEPT ![c] = "no"]
    BY <1>7 DEF EnqueueCount
  <2>2. /\ queue'[c].pending = queue[c].pending + 1 /\ queue'[c].batch = queue[c].batch
        /\ queue[c].pending \in Nat /\ queue[c].batch \in Nat
    BY <1>1, <2>1 DEF QueueType
  <2>3. Batched(c)'
    BY <1>1, <1>2, <2>2 DEF ContainerSync, Batched
  <2>4. Counted(c)'
    <3>1. op[c].kind \in {"adopt", "push"} => queue[c].batch <= queue[c].pending
      BY <1>1, <2>2 DEF ContainerSync, Batched
    <3> QED
      BY <1>2, <2>2, <3>1 DEF Counted
  <2>5. SessionTypes'
    <3>1. PICK b \in BOOLEAN : b = (queue[c].blocked /\ queue[c].terminal)
      OBVIOUS
    <3>2. queue' = [queue EXCEPT ![c].pending = @ + 1, ![c].blocked = b]
      BY <2>1, <3>1
    <3>3. queue'[c] = [pending |-> queue[c].pending + 1, batch |-> queue[c].batch,
                       blocked |-> b, terminal |-> queue[c].terminal]
      BY <1>1, <3>2 DEF QueueType
    <3>4. queue[c].batch \in Nat /\ queue[c].terminal \in BOOLEAN
      BY <1>1 DEF QueueType
    <3>5. queue'[c] \in QueueType
      BY <2>2, <3>1, <3>3, <3>4 DEF QueueType
    <3>6. queue' = [queue EXCEPT ![c] = queue'[c]]
      BY <1>1, <3>2
    <3>7. queue' \in [Containers -> QueueType]
      BY <1>1, <3>5, <3>6
    <3> QED
      BY <1>1, <1>2, <2>1, <3>7 DEF SessionTypes
  <2> QED
    BY <1>2, <1>3, <1>4, <1>5, <2>3, <2>4, <2>5, QueueSync DEF ContainerSync
<1> QED
  BY <1>6, <1>7

\* A manual retry, and the beginning of a push, which takes all that is pending.
LEMMA PushSync ==
  ASSUME NEW c \in Containers, IInv, SyncInv, RetryNow(c) \/ StartPush(c)
  PROVE SyncInv'
<1>1. /\ queue \in [Containers -> QueueType] /\ queue[c] \in QueueType
      /\ ContainerSync(c) /\ SessionTypes /\ op \in [Containers -> OpType]
      /\ queue[c].pending \in Nat /\ queue[c].batch \in Nat
  BY DEF SyncInv, SessionTypes, QueueType, IInv, Types
<1>2. /\ UNCHANGED <<pointers, bundles, local, life, bound, saving>>
      /\ life[c] = "up" /\ bound[c]
  BY DEF RetryNow, StartPush, Serving, Alive, volume, clone
<1>3. CASE RetryNow(c)
  <2>1. /\ queue' = [queue EXCEPT ![c].blocked = FALSE, ![c].terminal = FALSE,
                                  ![c].pending = IF @ = 0 THEN 1 ELSE @]
        /\ op' = op
    BY <1>3 DEF RetryNow
  <2>2. queue'[c].pending >= queue[c].pending /\ queue'[c].batch = queue[c].batch
    BY <1>1, <2>1 DEF QueueType
  <2>3. queue' \in [Containers -> QueueType] /\ queue'[c].pending \in Nat
    BY <1>1, <2>1 DEF QueueType
  <2>4. Asleep(c)' /\ CommittedTip(c)'
    BY <1>1, <1>2, <2>1 DEF ContainerSync, Asleep, CommittedTip, Published, Newest
  <2>5. Batched(c)'
    BY <1>1, <1>2, <2>1, <2>2, <2>3 DEF ContainerSync, Batched
  <2>6. Counted(c)'
    BY <1>1, <1>2, <2>1, <2>2, <2>3
    DEF ContainerSync, Counted, SavesOf, Published, Newest
  <2>7. \A d \in Containers \ {c} : Untouched(d)
    BY <1>1, <1>2, <2>1 DEF Untouched
  <2>8. SessionTypes' /\ (Unstarted(c)' => Unstarted(c))
    BY <1>1, <1>2, <2>1, <2>3 DEF SessionTypes, Unstarted
  <2> QED
    BY <1>2, <2>4, <2>5, <2>6, <2>7, <2>8, QueueSync DEF ContainerSync
<1>4. CASE StartPush(c)
  <2>1. /\ queue' = [queue EXCEPT ![c].batch = queue[c].pending]
        /\ op' = [op EXCEPT ![c] = Begin("push")]
    BY <1>4 DEF StartPush
  <2>2. /\ queue'[c].pending = queue[c].pending
        /\ queue'[c].batch = queue[c].pending
        /\ queue[c].pending \in Nat /\ queue[c].pending > 0
    BY <1>1, <1>4, <2>1 DEF QueueType, StartPush
  <2>3. queue' \in [Containers -> QueueType]
    BY <1>1, <2>1 DEF QueueType
  <2>4. op'[c].kind = "push" /\ op'[c].at = "head"
    BY <1>1, <2>1, NoneIsNoKind
  <2>5. Asleep(c)' /\ CommittedTip(c)'
    BY <1>2, <2>4 DEF Asleep, CommittedTip
  <2>6. Batched(c)'
    BY <1>1, <1>2, <2>2, <2>4 DEF Batched
  <2>7. Counted(c)'
    BY <1>1, <1>2, <2>2, <2>4 DEF ContainerSync, Counted, SavesOf, Published, Newest
  <2>8. \A d \in Containers \ {c} : Untouched(d)
    BY <1>1, <1>2, <2>1 DEF Untouched
  <2>9. SessionTypes' /\ (Unstarted(c)' => Unstarted(c))
    BY <1>1, <1>2, <2>3, <2>4 DEF SessionTypes, Unstarted
  <2> QED
    BY <1>2, <2>5, <2>6, <2>7, <2>8, <2>9, QueueSync DEF ContainerSync
<1> QED
  BY <1>3, <1>4

-----------------------------------------------------------------------------
\* The end of a bind or a publication: what it packed is published, and what it
\* did not pack is still counted.
LEMMA RecordBindingSync ==
  ASSUME NEW c \in Containers, IInv, SyncInv, RecordBinding(c)
  PROVE SyncInv'
<1>1. /\ queue \in [Containers -> QueueType] /\ queue[c] \in QueueType
      /\ ContainerSync(c) /\ SessionTypes /\ op \in [Containers -> OpType]
      /\ bound \in [Containers -> BOOLEAN] /\ bound[c] \in BOOLEAN
      /\ queue[c].pending \in Nat /\ queue[c].batch \in Nat
  BY DEF SyncInv, SessionTypes, QueueType, IInv, Types
<1>2. /\ UNCHANGED <<pointers, bundles, local, life, saving>>
      /\ life[c] = "up" /\ op[c].at = "bindrecord"
      /\ op[c].kind \in {"bind", "adopt", "push"}
  BY <1>1 DEF RecordBinding, At, Alive, clone, ContainerSync, CommittedTip
<1>3. /\ op' = [op EXCEPT ![c] = Idle]
      /\ bound' = [bound EXCEPT ![c] = @ \/ op[c].kind = "adopt"]
  BY DEF RecordBinding
<1>4. op'[c].kind = None /\ op'[c].at = None
  BY <1>1, <1>3, NoneIsNoKind
<1>5. bound'[c] <=> bound[c] \/ op[c].kind = "adopt"
  BY <1>1, <1>3
<1>6. /\ queue' = [queue EXCEPT ![c] = queue'[c]] /\ queue'[c] \in QueueType
      /\ queue'[c].batch = 0
  <2>1. CASE op[c].kind = "bind"
    <3>1. queue' = [queue EXCEPT ![c] = Disarmed(c, queue[c])]
      BY <1>1, <2>1 DEF RecordBinding
    <3>2. queue[c].batch = 0
      BY <1>1, <2>1 DEF ContainerSync, Batched
    <3> QED
      BY <1>1, <3>1, <3>2 DEF Disarmed, QueueType
  <2>2. CASE op[c].kind = "push"
    <3>1. queue' = [queue EXCEPT ![c] = Pushed(queue[c])]
      BY <1>1, <2>2 DEF RecordBinding
    <3> DEFINE n == IF queue[c].pending > queue[c].batch
                    THEN queue[c].pending - queue[c].batch ELSE 0
    <3>2. n \in Nat
      BY <1>1
    <3>3. Pushed(queue[c]) = [queue[c] EXCEPT !.pending = n, !.batch = 0]
      BY <1>1 DEF Pushed
    <3> HIDE DEF n
    <3>4. /\ Pushed(queue[c]) = [pending |-> n, batch |-> 0,
                                blocked |-> queue[c].blocked,
                                terminal |-> queue[c].terminal]
          /\ queue[c].blocked \in BOOLEAN /\ queue[c].terminal \in BOOLEAN
      BY <1>1, <3>3 DEF QueueType
    <3>5. Pushed(queue[c]) \in QueueType /\ Pushed(queue[c]).batch = 0
      BY <3>2, <3>4 DEF QueueType
    <3> QED
      BY <1>1, <3>1, <3>5
  <2>3. CASE op[c].kind = "adopt"
    <3>1. queue' = [queue EXCEPT ![c] = queue[c]]
      BY <1>1, <2>3 DEF RecordBinding
    <3>2. queue[c].batch = 0
      BY <1>1, <2>3 DEF ContainerSync, Batched
    <3> QED
      BY <1>1, <3>1, <3>2
  <2> QED
    BY <1>2, <2>1, <2>2, <2>3
<1>7. Asleep(c)' /\ Batched(c)' /\ CommittedTip(c)'
  BY <1>2, <1>4, <1>6, NoneIsNoKind DEF Asleep, Batched, CommittedTip
<1>8. Counted(c)'
  <2>1. SUFFICES ASSUME saving[c] = "no", bound'[c],
                        NEW x \in SavesOf(c), ~Published(x)
                 PROVE queue'[c].pending > 0
    BY <1>2, <1>4, NoneIsNoKind DEF Counted, SavesOf, Published, Newest
  <2>2. op[c].kind \in {"adopt", "push"}
    BY <1>1, <1>2, <1>5, <2>1 DEF ContainerSync, Batched
  <2>3. ~(SavesOf(c) \subseteq op[c].tip)
    BY <1>1, <1>2, <2>1, <2>2 DEF ContainerSync, CommittedTip
  <2>4. queue[c].pending > queue[c].batch
    BY <1>1, <1>2, <2>1, <2>2, <2>3 DEF ContainerSync, Counted
  <2>5. CASE op[c].kind = "push"
    <3>1. queue'[c] = Pushed(queue[c])
      BY <1>1, <2>5 DEF RecordBinding
    <3> QED
      BY <1>1, <2>4, <3>1 DEF Pushed, QueueType
  <2>6. CASE op[c].kind = "adopt"
    <3>1. queue'[c] = queue[c]
      BY <1>1, <2>6 DEF RecordBinding
    <3> QED
      BY <1>1, <2>4, <3>1
  <2> QED
    BY <2>2, <2>5, <2>6
<1>9. \A d \in Containers \ {c} : Untouched(d)
  BY <1>1, <1>2, <1>3, <1>6 DEF Untouched
<1>10. SessionTypes'
  <2>1. bound' \in [Containers -> BOOLEAN]
    BY <1>1, <1>3
  <2>2. queue' \in [Containers -> QueueType]
    BY <1>1, <1>6
  <2> QED
    BY <1>1, <1>2, <2>1, <2>2 DEF SessionTypes
<1>11. Unstarted(c)' => Unstarted(c)
  BY <1>2, <1>4, NoneIsNoKind DEF Unstarted
<1> QED
  BY <1>2, <1>7, <1>8, <1>9, <1>10, <1>11, QueueSync DEF ContainerSync

\* The pack takes every save of the clone.
LEMMA PackSync ==
  ASSUME NEW c \in Containers, IInv, IInv', SyncInv, Pack(c)
  PROVE SyncInv'
<1>1. /\ ContainerSync(c) /\ SessionTypes /\ op \in [Containers -> OpType]
      /\ bundles \in [Generation -> Row] /\ bundles' \in [Generation -> Row]
  BY DEF SyncInv, IInv, Types
<1>2. /\ UNCHANGED <<pointers, local, life, bound, saving, queue>>
      /\ op' = [op EXCEPT ![c].tip = local[c], ![c].at = "create"]
      /\ bundles' = [bundles EXCEPT ![op[c].head + 1][c] = local[c]]
      /\ life[c] = "up"
  BY DEF Pack, At, Alive, clone
<1>3. /\ op'[c].kind = op[c].kind /\ op'[c].at = "create" /\ op'[c].tip = local[c]
  BY <1>1, <1>2 DEF OpType
<1>4. ContainerSync(c)'
  <2>1. Asleep(c)' /\ Batched(c)' /\ CommittedTip(c)'
    BY <1>1, <1>2, <1>3, NoneIsNoKind DEF ContainerSync, Asleep, Batched, CommittedTip
  <2>2. SavesOf(c)' \subseteq op'[c].tip
    BY <1>2, <1>3 DEF SavesOf
  <2>3. Counted(c)'
    BY <1>1, <1>2, <1>3, <2>2
    DEF ContainerSync, Counted, SavesOf, Published, Newest
  <2> QED
    BY <2>1, <2>3 DEF ContainerSync
<1>5. \A d \in Containers \ {c} : Untouched(d)
  BY <1>1, <1>2 DEF Untouched
<1>6. Unnamed'
  <2>1. \A e \in Containers : Unstarted(e)' => Unstarted(e)
    BY <1>2, <1>3, <1>5 DEF Untouched, Unstarted
  <2>2. \A g \in Generation, w \in Containers :
          bundles'[g][w] = bundles[g][w] \/ bundles'[g][w] = local[c]
    BY <1>1, <1>2 DEF Row
  <2>3. \A x \in Commits : Known(x)' => Known(x)
    BY <1>2, <2>2 DEF Known
  <2> QED
    BY <2>1, <2>3, UnnamedStays DEF SyncInv
<1>7. SessionTypes' /\ Appends
  BY <1>1, <1>2 DEF SessionTypes, Appends
<1> QED
  BY <1>4, <1>5, <1>6, <1>7, SessionStep DEF IInv

\* The pointer that c creates is one, and publishes what c packed.
LEMMA CreateAppends ==
  ASSUME NEW c \in Containers, IInv, pointers' = Append(pointers, Pointer(c))
  PROVE Appends /\ \A x \in op[c].tip : Published(x)'
<1>1. Pointer(c) \in Pointers /\ Pointer(c).tip = op[c].tip
  BY DEF IInv, Types, OpType, Pointer, Pointers
<1>2. /\ Len(pointers') = Len(pointers) + 1 /\ Len(pointers) \in Nat
      /\ pointers'[Len(pointers) + 1] = Pointer(c)
  BY <1>1 DEF IInv, Types
<1> QED
  BY <1>1, <1>2 DEF Appends, Published, Newest

\* The create, when its answer arrives.
LEMMA CreatePointerSync ==
  ASSUME NEW c \in Containers, IInv, SyncInv, CreatePointer(c)
  PROVE SyncInv'
<1>1. /\ ContainerSync(c) /\ SessionTypes /\ op \in [Containers -> OpType]
  BY DEF SyncInv, IInv, Types
<1>2. /\ UNCHANGED <<bundles, local, life, bound, saving, queue>>
      /\ op' = [op EXCEPT ![c].at = "prune"]
      /\ life[c] = "up" /\ op[c].at = "create"
  BY DEF CreatePointer, At, Alive, Go
<1>3. /\ op'[c].kind = op[c].kind /\ op'[c].at = "prune" /\ op'[c].tip = op[c].tip
  BY <1>1, <1>2 DEF OpType
<1>4. Appends /\ \A x \in op[c].tip : Published(x)'
  BY CreateAppends DEF CreatePointer
<1>5. \A x : Published(x) => Published(x)'
  BY <1>4, PublishedStays DEF IInv
<1>6. ContainerSync(c)'
  <2>1. Asleep(c)' /\ Batched(c)'
    BY <1>1, <1>2, <1>3 DEF ContainerSync, Asleep, Batched
  <2>2. CommittedTip(c)'
    BY <1>3, <1>4 DEF CommittedTip
  <2>3. Counted(c)'
    BY <1>1, <1>2, <1>3, <1>5 DEF ContainerSync, Counted, SavesOf
  <2> QED
    BY <2>1, <2>2, <2>3 DEF ContainerSync
<1>7. \A d \in Containers \ {c} : Untouched(d)
  BY <1>1, <1>2 DEF Untouched
<1>8. Unnamed'
  <2>1. Unstarted(c)' => Unstarted(c)
    BY <1>2, <1>3 DEF Unstarted
  <2> QED
    BY <1>2, <1>7, <2>1, QuietUnnamed DEF SyncInv
<1>9. SessionTypes'
  BY <1>1, <1>2 DEF SessionTypes
<1> QED
  BY <1>4, <1>6, <1>7, <1>8, <1>9, SessionStep DEF IInv

\* A step that leaves every session alone.
LEMMA LeftAloneSync ==
  ASSUME IInv, SyncInv, Appends,
         UNCHANGED <<local, bundles, bound, saving, op, life, queue>>
  PROVE SyncInv'
<1>1. \A d \in Containers : Untouched(d)
  BY DEF Untouched
<1>2. SessionTypes' /\ Unnamed'
  BY DEF SyncInv, SessionTypes, Unnamed, Known, Unstarted
<1> QED
  BY <1>1, <1>2, UntouchedSync DEF SyncInv, IInv

\* The create, when it is not answered.
LEMMA CreateUnansweredSync ==
  ASSUME NEW c \in Containers, IInv, SyncInv, CreateUnanswered(c)
  PROVE SyncInv'
<1>1. /\ Appends /\ Alive(c)
      /\ UNCHANGED <<pointers, local, bundles, bound, saving>>
  BY DEF CreateUnanswered, Appends, At, clone
<1>2. CASE UNCHANGED <<op, life, queue>>
  BY <1>1, <1>2, LeftAloneSync
<1>3. CASE Fail(c, FALSE)
  BY <1>1, <1>3, FailedSync
<1> QED
  BY <1>2, <1>3 DEF CreateUnanswered

\* A create that lands late only publishes.
LEMMA LandsLateSync ==
  ASSUME NEW r \in transit, IInv, SyncInv, LandsLate(r)
  PROVE SyncInv'
<1>1. r.pointer \in Pointers
  BY DEF IInv, Types
<1>2. Appends /\ UNCHANGED <<local, bundles, bound, saving, op, life, queue>>
  BY <1>1 DEF LandsLate, Appends, clone
<1> QED
  BY <1>2, LeftAloneSync

\* Bundles that go leave Unnamed as it was.
LEMMA DroppedUnnamed ==
  ASSUME Unnamed, local' = local,
         \A g \in Generation, w \in Containers :
           bundles'[g][w] = None \/ bundles'[g][w] = bundles[g][w],
         \A e \in Containers : Unstarted(e)' => Unstarted(e)
  PROVE Unnamed'
<1>1. \A x \in Commits : Known(x)' => Known(x)
  BY DEF Known
<1> QED
  BY <1>1, UnnamedStays

\* The create, when it is refused.
LEMMA CreateRefusedSync ==
  ASSUME NEW c \in Containers, IInv, SyncInv, CreateRefused(c)
  PROVE SyncInv'
<1>1. /\ Alive(c) /\ Appends /\ Fail(c, TRUE) /\ UNCHANGED <<local, bound, saving>>
  BY DEF CreateRefused, At, Appends, clone
<1>2. /\ ContainerSync(c)' /\ SessionTypes'
      /\ \A d \in Containers \ {c} : Untouched(d)
      /\ Unstarted(c)' => Unstarted(c)
  BY <1>1, FailSync
<1>3. \A g \in Generation, w \in Containers :
        bundles'[g][w] = None \/ bundles'[g][w] = bundles[g][w]
  <2>1. bundles \in [Generation -> Row]
    BY DEF IInv, Types
  <2> QED
    BY <2>1 DEF CreateRefused, Row
<1>4. \A e \in Containers : Unstarted(e)' => Unstarted(e)
  BY <1>2 DEF Untouched, Unstarted
<1>5. Unnamed'
  BY <1>1, <1>3, <1>4, DroppedUnnamed DEF SyncInv
<1> QED
  BY <1>1, <1>2, <1>5, SessionStep DEF IInv

\* Pruning takes bundles only.
LEMMA PruneSync ==
  ASSUME NEW c \in Containers, IInv, SyncInv, Prune(c)
  PROVE SyncInv'
<1>1. /\ ContainerSync(c) /\ SessionTypes /\ op \in [Containers -> OpType]
  BY DEF SyncInv, IInv, Types
<1>2. /\ UNCHANGED <<pointers, local, life, bound, saving, queue>>
      /\ op' = [op EXCEPT ![c].at = "bindrecord"]
      /\ life[c] = "up" /\ op[c].at = "prune" /\ op[c].kind \in {"adopt", "push"}
  BY DEF Prune, At, Alive, Go, clone, IInv, ContainerOK, Fenced
<1>3. /\ op'[c].kind = op[c].kind /\ op'[c].at = "bindrecord" /\ op'[c].tip = op[c].tip
  BY <1>1, <1>2 DEF OpType
<1>4. ContainerSync(c)'
  <2>1. Asleep(c)' /\ Batched(c)'
    BY <1>1, <1>2, <1>3 DEF ContainerSync, Asleep, Batched
  <2>2. CommittedTip(c)'
    BY <1>1, <1>2, <1>3 DEF ContainerSync, CommittedTip, Published, Newest
  <2>3. Counted(c)'
    BY <1>1, <1>2, <1>3 DEF ContainerSync, Counted, SavesOf, Published, Newest
  <2> QED
    BY <2>1, <2>2, <2>3 DEF ContainerSync
<1>5. \A d \in Containers \ {c} : Untouched(d)
  BY <1>1, <1>2 DEF Untouched
<1>6. \A g \in Generation, w \in Containers :
        bundles'[g][w] = None \/ bundles'[g][w] = bundles[g][w]
  BY DEF Prune, Without
<1>7. \A e \in Containers : Unstarted(e)' => Unstarted(e)
  BY <1>2, <1>3, <1>5 DEF Untouched, Unstarted
<1>8. Unnamed'
  BY <1>2, <1>6, <1>7, DroppedUnnamed DEF SyncInv
<1>9. SessionTypes' /\ Appends
  BY <1>1, <1>2 DEF SessionTypes, Appends
<1> QED
  BY <1>4, <1>5, <1>8, <1>9, SessionStep DEF IInv

\* The end of a container.
LEMMA DieSync ==
  ASSUME NEW c \in Containers, IInv, SyncInv, Die(c)
  PROVE SyncInv'
<1>1. /\ SessionTypes /\ op \in [Containers -> OpType]
      /\ life \in [Containers -> {"new", "up", "dead"}]
      /\ bound \in [Containers -> BOOLEAN] /\ queue \in [Containers -> QueueType]
      /\ saving \in [Containers -> {"no", "check", "count"}]
  BY DEF SyncInv, SessionTypes, IInv, Types
<1>2. /\ UNCHANGED <<pointers, bundles, local>>
      /\ life' = [life EXCEPT ![c] = "dead"] /\ op' = [op EXCEPT ![c] = Idle]
      /\ bound' = [bound EXCEPT ![c] = FALSE] /\ saving' = [saving EXCEPT ![c] = "no"]
      /\ queue' = [queue EXCEPT ![c] = FreshQueue]
  BY DEF Die, volume, clone
<1>3. /\ life'[c] = "dead" /\ op'[c] = Idle /\ ~bound'[c] /\ queue'[c] = FreshQueue
  BY <1>1, <1>2
<1>4. FreshQueue \in QueueType /\ FreshQueue.batch = 0
  BY DEF FreshQueue, QueueType
<1>5. ContainerSync(c)'
  BY <1>3, <1>4, NoneIsNoKind DEF ContainerSync, Asleep, Batched, CommittedTip, Counted
<1>6. \A d \in Containers \ {c} : Untouched(d)
  BY <1>1, <1>2 DEF Untouched
<1>7. Unstarted(c)' => Unstarted(c)
  BY <1>3, NoneIsNoKind DEF Unstarted
<1>8. SessionTypes'
  BY <1>1, <1>2, <1>4 DEF SessionTypes
<1> QED
  BY <1>2, <1>5, <1>6, <1>7, <1>8, QueueSync

\* The initial states: nothing is bound, saved or stored.
LEMMA InitSync == Init => SyncInv
<1> SUFFICES ASSUME Init PROVE SyncInv
  OBVIOUS
<1>1. SessionTypes
  <2>1. FreshQueue \in QueueType
    BY DEF FreshQueue, QueueType
  <2> QED
    BY <2>1 DEF Init, SessionTypes
<1>2. Unnamed
  BY DEF Init, Unnamed, Known
<1>3. ASSUME NEW c \in Containers PROVE ContainerSync(c)
  <2>1. op[c] = Idle /\ bound[c] = FALSE /\ queue[c] = FreshQueue
    BY DEF Init
  <2>2. FreshQueue.batch = 0
    BY DEF FreshQueue
  <2> QED
    BY <2>1, <2>2, NoneIsNoKind
    DEF ContainerSync, Asleep, Batched, CommittedTip, Counted
<1> QED
  BY <1>1, <1>2, <1>3 DEF SyncInv

\* Every step keeps the second invariant.
LEMMA NextSync == IInv /\ IInv' /\ SyncInv /\ [Next]_vars => SyncInv'
<1> SUFFICES ASSUME IInv, IInv', SyncInv, [Next]_vars PROVE SyncInv'
  OBVIOUS
<1>1. CASE UNCHANGED vars
  <2>1. SessionTypes' /\ Unnamed'
    BY <1>1 DEF vars, SyncInv, SessionTypes, Unnamed, Known, Unstarted
  <2>2. ASSUME NEW c \in Containers PROVE ContainerSync(c)'
    <3>1. Untouched(c) /\ Appends
      BY <1>1 DEF vars, Untouched, Appends
    <3> QED
      BY <3>1, UntouchedSync DEF SyncInv, IInv
  <2> QED
    BY <2>1, <2>2 DEF SyncInv
<1>2. ASSUME NEW c \in Containers, BootFresh(c) PROVE SyncInv'
  BY <1>2, BootFreshSync
<1>3. ASSUME NEW c \in Containers, NEW d \in Containers, BootPresent(c, d)
      PROVE SyncInv'
  BY <1>3, BootPresentSync
<1>4. ASSUME NEW c \in Containers, Session(c) PROVE SyncInv'
  <2>1. CASE StartBind(c) \/ BindHead(c) \/ RestoreHead(c)
    BY <2>1, HeadSync
  <2>2. CASE RestoreFetch(c) \/ PresentHead(c)
    BY <2>2, RestoreFetchSync, PresentHeadSync
  <2>3. CASE Save(c) \/ EnqueueCheck(c) \/ EnqueueCount(c)
    BY <2>3, SaveSync, EnqueueSync
  <2>4. CASE RetryNow(c) \/ StartPush(c)
    BY <2>4, PushSync
  <2>5. CASE Unavailable(c) \/ Die(c)
    BY <2>5, UnavailableSync, DieSync
  <2> QED
    BY <1>4, <2>1, <2>2, <2>3, <2>4, <2>5 DEF Session
<1>5. ASSUME NEW c \in Containers, Publish(c) PROVE SyncInv'
  <2>1. CASE PublishHead(c)
    BY <2>1, HeadSync
  <2>2. CASE Pack(c) \/ Prune(c) \/ RecordBinding(c)
    BY <2>2, PackSync, PruneSync, RecordBindingSync
  <2>3. CASE CreatePointer(c) \/ CreateUnanswered(c) \/ CreateRefused(c)
    BY <2>3, CreatePointerSync, CreateUnansweredSync, CreateRefusedSync
  <2> QED
    BY <1>5, <2>1, <2>2, <2>3 DEF Publish
<1>6. ASSUME NEW r \in transit, LandsLate(r) PROVE SyncInv'
  BY <1>6, LandsLateSync
<1> QED
  BY <1>1, <1>2, <1>3, <1>4, <1>5, <1>6 DEF Next

\* A bound session that shows "synced" has published every save it made,
\* whatever was saved, retried, refused or lost while it pushed.
THEOREM SyncedSafe == Spec => []SyncedSavesArePublished
<1>1. SyncInv => SyncedSavesArePublished
  <2> SUFFICES ASSUME SyncInv, NEW c \in Containers, bound[c], saving[c] = "no",
                      queue[c].pending = 0, NEW x \in SavesOf(c)
               PROVE Published(x)
    BY DEF SyncedSavesArePublished, Published
  <2>1. ~(queue[c].pending > 0)
    OBVIOUS
  <2> QED
    BY <2>1 DEF SyncInv, ContainerSync, Counted
<1>2. Init => IInv /\ SyncInv
  BY InitIInv, InitSync
<1>3. IInv /\ SyncInv /\ [Next]_vars => (IInv /\ SyncInv)'
  BY NextIInv, NextSync
<1> QED
  BY <1>1, <1>2, <1>3, PTL DEF Spec

-----------------------------------------------------------------------------
(***************************************************************************)
(* The newest generation stays restorable. A pointer that lands finds its  *)
(* bundle; a bundle packed again holds all the clone does, so also what an *)
(* earlier create of the same writer published under that name; retention  *)
(* stops short of the newest; and a refused create drops the bundle of its *)
(* own writer only.                                                        *)
(***************************************************************************)

\* The newest pointer names a container and a generation.
LEMMA NewestIs ==
  ASSUME IInv, Newest > 0
  PROVE  /\ Newest \in Generation
         /\ pointers[Newest].writer \in Containers
<1>1. pointers \in Seq(Pointers) /\ Newest \in Nat /\ Newest <= MaxGenerations
  BY DEF IInv, Types, Newest
<1>2. pointers[Newest] \in Pointers
  BY <1>1 DEF Newest
<1> QED
  BY <1>1, <1>2, StorageAssumption DEF Generation, Pointers

\* The head stays restorable while its pointer and its bundle stay.
LEMMA HeadUnmoved ==
  ASSUME IInv, HeadRestorable, UNCHANGED pointers,
         Newest > 0 => bundles'[Newest][pointers[Newest].writer]
                         = bundles[Newest][pointers[Newest].writer]
  PROVE  HeadRestorable'
BY DEF HeadRestorable, Newest

\* A pointer that lands finds its bundle.
LEMMA HeadLands ==
  ASSUME NEW c \in Containers, NEW tip, IInv, Lands(c, tip)
  PROVE  HeadRestorable'
<1>1. /\ Newest' = Newest + 1 /\ bundles' = bundles
      /\ pointers'[Newest + 1].writer = c /\ pointers'[Newest + 1].tip = tip
      /\ bundles[Newest + 1][c] # None /\ tip \subseteq bundles[Newest + 1][c]
  BY LandsFacts DEF Lands
<1>2. pointers'[Newest'].writer = c /\ pointers'[Newest'].tip = tip
  BY <1>1
<1>3. bundles'[Newest'][c] # None /\ tip \subseteq bundles'[Newest'][c]
  BY <1>1
<1> QED
  BY <1>2, <1>3 DEF HeadRestorable

\* Packing over the head's own bundle leaves at least what its pointer names.
LEMMA HeadPacked ==
  ASSUME NEW c \in Containers, IInv, HeadRestorable, Pack(c)
  PROVE  HeadRestorable'
<1> DEFINE h == op[c].head
           w == pointers[Newest].writer
<1>1. /\ UNCHANGED pointers /\ life[c] = "up"
      /\ bundles' = [bundles EXCEPT ![h + 1][c] = local[c]]
  BY DEF Pack, At, Alive
<1>2. CASE Newest > 0 /\ h + 1 = Newest /\ w = c
  <2>1. Newest \in Generation
    BY <1>2, NewestIs
  <2>2. pointers[Newest].tip \subseteq local[c]
    <3>1. CloneKeeps(c) /\ Newest \in 1 .. Newest
      BY <2>1 DEF IInv, ContainerOK, Generation
    <3> QED
      BY <1>1, <1>2, <3>1 DEF CloneKeeps, Holds
  <2>3. bundles'[Newest][c] = local[c]
    BY <1>1, <1>2, <2>1 DEF IInv, Types, Row
  <2>4. local[c] # None
    BY StorageAssumption DEF IInv, Types
  <2>5. Newest' = Newest
    BY <1>1 DEF Newest
  <2> QED
    BY <1>1, <1>2, <2>2, <2>3, <2>4, <2>5 DEF HeadRestorable
<1>3. CASE ~(Newest > 0 /\ h + 1 = Newest /\ w = c)
  <2>1. ASSUME Newest > 0 PROVE bundles'[Newest][w] = bundles[Newest][w]
    <3>1. Newest \in Generation /\ w \in Containers
      BY <2>1, NewestIs
    <3> QED
      BY <1>1, <1>3, <2>1, <3>1 DEF IInv, Types, Row
  <2> QED
    BY <1>1, <2>1, HeadUnmoved
<1> QED
  BY <1>2, <1>3

\* A refused create loses the head only when the head is its own.
LEMMA HeadRefused ==
  ASSUME NEW c \in Containers, IInv, SyncInv, HeadRestorable, CreateRefused(c)
  PROVE  HeadRestorable' \/ RefusedItsOwn(pointers[Newest].writer)
<1> DEFINE h == op[c].head
           w == pointers[Newest].writer
<1>1. /\ UNCHANGED pointers /\ At(c, "create") /\ Fail(c, TRUE)
      /\ bundles' = [bundles EXCEPT ![h + 1][c] = None] \/ bundles' = bundles
  BY DEF CreateRefused
<1>2. CASE Newest > 0 /\ h + 1 = Newest /\ w = c
  <2>1. op'[c] = Idle
    BY <1>1 DEF Fail, IInv, Types
  <2>2. op[c].kind = "push" =>
          queue'[c].blocked /\ queue'[c].terminal /\ queue'[c].pending > 0
    <3> SUFFICES ASSUME op[c].kind = "push"
                 PROVE  queue'[c].blocked /\ queue'[c].terminal /\ queue'[c].pending > 0
      OBVIOUS
    <3>1. queue[c] \in QueueType /\ queue \in [Containers -> QueueType]
      BY DEF SyncInv, SessionTypes
    <3>2. queue'[c] = Blocked(queue[c], TRUE)
      BY <1>1, <3>1 DEF Fail
    <3>3. /\ queue'[c].blocked = TRUE /\ queue'[c].terminal = TRUE
          /\ queue'[c].pending = queue[c].pending
      BY <3>1, <3>2 DEF Blocked, QueueType
    <3>4. 1 <= queue[c].batch /\ queue[c].batch <= queue[c].pending
      BY DEF SyncInv, ContainerSync, Batched
    <3>5. queue[c].pending > 0
      BY <3>1, <3>4 DEF QueueType
    <3> QED
      BY <3>3, <3>5
  <2>3. RefusedItsOwn(c)
    BY <1>1, <1>2, <2>1, <2>2 DEF RefusedItsOwn
  <2> QED
    BY <1>2, <2>3
<1>3. CASE ~(Newest > 0 /\ h + 1 = Newest /\ w = c)
  <2>1. ASSUME Newest > 0 PROVE bundles'[Newest][w] = bundles[Newest][w]
    <3>1. Newest \in Generation /\ w \in Containers
      BY <2>1, NewestIs
    <3>2. bundles \in [Generation -> Row] /\ bundles[Newest] \in Row
      BY <3>1 DEF IInv, Types
    <3>3. h + 1 # Newest \/ w # c
      BY <1>3, <2>1
    <3> HIDE DEF w, h
    <3>4. CASE bundles' = [bundles EXCEPT ![h + 1][c] = None]
      BY <3>1, <3>2, <3>3, <3>4 DEF Row
    <3> QED
      BY <1>1, <3>4 DEF h
  <2> QED
    BY <1>1, <2>1, HeadUnmoved
<1> QED
  BY <1>2, <1>3

\* Retention stops short of the newest generation.
LEMMA HeadPruned ==
  ASSUME NEW c \in Containers, IInv, HeadRestorable, Prune(c)
  PROVE  HeadRestorable'
<1> DEFINE h == op[c].head
<1>1. /\ UNCHANGED pointers /\ op[c].at = "prune" /\ Fenced(c) /\ op[c] \in OpType
  BY DEF Prune, At, IInv, ContainerOK, Types
<1>2. h \in Nat /\ h + 1 <= Newest
  BY <1>1 DEF Fenced, OpType
<1>3. PICK gone \in SUBSET {g \in Generation : Prunable(g, h + 1)} :
        bundles' = Without(gone)
  BY DEF Prune
<1>4. ASSUME Newest > 0 PROVE bundles'[Newest] = bundles[Newest]
  <2>1. Newest \in Generation
    BY <1>4, NewestIs
  <2>2. Newest \notin gone
    BY <1>2, <2>1, StorageAssumption DEF Prunable, Generation
  <2> QED
    BY <1>3, <2>1, <2>2 DEF Without
<1> QED
  BY <1>1, <1>4, HeadUnmoved

\* What every step makes of a head that can be restored.
LEMMA HeadStep ==
  ASSUME IInv, SyncInv, [Next]_vars, HeadRestorable
  PROVE  HeadRestorable' \/ RefusedItsOwn(pointers[Newest].writer)
<1>1. CASE UNCHANGED <<pointers, bundles>>
  BY <1>1, HeadUnmoved
<1>2. ASSUME NEW c \in Containers, CreatePointer(c) PROVE HeadRestorable'
  BY <1>2, CreateLands, HeadLands
<1>3. ASSUME NEW r \in transit, LandsLate(r) PROVE HeadRestorable'
  BY <1>3, LateLands, HeadLands
<1>4. ASSUME NEW c \in Containers, Pack(c) \/ Prune(c) PROVE HeadRestorable'
  BY <1>4, HeadPacked, HeadPruned
<1>5. ASSUME NEW c \in Containers, Publish(c), ~CreatePointer(c), ~Pack(c),
             ~Prune(c), ~CreateRefused(c)
      PROVE  UNCHANGED <<pointers, bundles>>
  BY <1>5 DEF Publish, PublishHead, CreateUnanswered, RecordBinding, volume
<1>6. ASSUME NEW c \in Containers, Session(c) PROVE UNCHANGED <<pointers, bundles>>
  BY <1>6
  DEF Session, StartBind, BindHead, RestoreHead, RestoreFetch, PresentHead, Save,
      EnqueueCheck, EnqueueCount, RetryNow, StartPush, Unavailable, Die, volume
<1>7. ASSUME NEW c \in Containers, NEW d \in Containers,
             BootFresh(c) \/ BootPresent(c, d)
      PROVE  UNCHANGED <<pointers, bundles>>
  BY <1>7 DEF BootFresh, BootPresent, volume
<1>8. CASE UNCHANGED vars
  BY <1>1, <1>8 DEF vars
<1>9. ASSUME NEW c \in Containers, Publish(c)
      PROVE  HeadRestorable' \/ RefusedItsOwn(pointers[Newest].writer)
  BY <1>1, <1>2, <1>4, <1>5, <1>9, HeadRefused
<1> QED
  BY <1>1, <1>3, <1>6, <1>7, <1>8, <1>9 DEF Next

\* However containers overlap, die or hear no answer, the newest pointer keeps
\* naming a stored bundle that holds the history it describes, until its own
\* writer is refused the generation it had committed; and a push that ends so is
\* still owed.
THEOREM HeadSafe == Spec => HeadStaysRestorable
<1>1. Init => IInv /\ SyncInv
  BY InitIInv, InitSync
<1>2. IInv /\ SyncInv /\ [Next]_vars => (IInv /\ SyncInv)'
  BY NextIInv, NextSync
<1>3. IInv /\ SyncInv /\ [Next]_vars =>
        [HeadRestorable =>
           HeadRestorable' \/ RefusedItsOwn(pointers[Newest].writer)]_vars
  BY HeadStep
<1> QED
  BY <1>1, <1>2, <1>3, PTL DEF Spec, HeadStaysRestorable
=============================================================================
