---------------------------- MODULE FileLockProofs ----------------------------
(***************************************************************************)
(* Proofs about FileLock: type correctness, mutual exclusion, and that it  *)
(* implements ExclusiveLock, for any number of processes, threads, sweeps  *)
(* and exits.                                                              *)
(***************************************************************************)
EXTENDS FileLock, TLAPS

\* Where a thread has its file open, and where it has it locked.
OpenPC == {"check", "flock", "verify", "held", "unlink", "swept"}
LockedPC == {"verify", "held", "unlink", "swept"}

\* A thread past the open call has a file.
HandleIsOpen == \A t \in Thread : pc[t] \in OpenPC => handle[t] \in Inode

\* A thread past flock has the file it opened locked.
FileIsLocked == \A t \in Thread : pc[t] \in LockedPC => flocked[handle[t]] = t

\* A holder's file is the one the path names, and so is the one a sweep is about
\* to remove: nobody else can have unlinked it, for that takes its lock.
HeldFileIsNamed == \A t \in Thread : pc[t] \in {"held", "unlink"} => path = handle[t]

\* The loop has a pass left until it has failed.
TriesLeft == \A t \in Thread : pc[t] # "failed" => tries[t] < Attempts

\* The depth of the process whose thread holds the lock counts it.
HolderHasDepth == \A t \in Thread : pc[t] = "held" => depth[ProcessOf(t)] >= 1

\* The inductive invariant: who locked which file, and that a held file has the path.
LockInv ==
  /\ TypeOK
  /\ HandleIsOpen
  /\ FileIsLocked
  /\ HeldFileIsNamed
  /\ TriesLeft
  /\ HolderHasDepth

\* The first states satisfy the inductive invariant.
LEMMA InitLockInv == Init => LockInv
  BY FileLockAssumption
  DEF Init, LockInv, TypeOK, HandleIsOpen, FileIsLocked, HeldFileIsNamed, TriesLeft,
      HolderHasDepth, OpenPC, LockedPC

\* Two threads with the same file locked are one thread.
LEMMA OneHolder == LockInv => MutualExclusion
  BY DEF LockInv, FileIsLocked, HeldFileIsNamed, MutualExclusion, LockedPC

\* What the two ends of an acquisition have in common.
LEMMA OwnerWithoutType ==
  ASSUME TypeOK, NEW t \in Thread
  PROVE  OwnerWithout(t) \in [Process -> Thread \cup {NoThread}]
  BY DEF TypeOK, OwnerWithout

\* Giving up the file's lock and handle keeps the types.
LEMMA LetGoType ==
  ASSUME TypeOK, NEW t \in Thread, LetGo(t)
  PROVE  /\ flocked' \in [Inode -> Thread \cup {NoThread}]
         /\ pc' \in [Thread -> {"idle", "open", "check", "flock", "verify", "held",
                                "unlink", "swept", "failed"}]
         /\ mode' \in [Thread -> {"block", "timed", "sweep"}]
         /\ handle' \in [Thread -> Inode \cup {NoInode}]
         /\ tries' \in [Thread -> 0..Attempts]
         /\ owner' \in [Process -> Thread \cup {NoThread}]
<1>1. owner' \in [Process -> Thread \cup {NoThread}]
  BY OwnerWithoutType DEF LetGo
<1>2. flocked' \in [Inode -> Thread \cup {NoThread}]
  BY DEF LetGo, TypeOK
<1>3. handle' \in [Thread -> Inode \cup {NoInode}]
  BY DEF LetGo, TypeOK
<1>4. tries' \in [Thread -> 0..Attempts]
  BY FileLockAssumption DEF LetGo, TypeOK
<1> QED
  BY <1>1, <1>2, <1>3, <1>4 DEF LetGo, TypeOK, Goto

\* Every step keeps the types.
LEMMA TypeStep == LockInv /\ [Next]_vars => TypeOK'
<1> SUFFICES ASSUME LockInv, [Next]_vars PROVE TypeOK'
  OBVIOUS
<1> USE FileLockAssumption DEF LockInv, HandleIsOpen, TriesLeft, HolderHasDepth, OpenPC
<1>1. ASSUME NEW t \in Thread, NEW m \in {"block", "timed"}, Acquire(t, m) PROVE TypeOK'
  BY <1>1 DEF Acquire, TypeOK, Goto
<1>2. ASSUME NEW t \in Thread, Reenter(t) PROVE TypeOK'
  BY <1>2 DEF Reenter, TypeOK
<1>3. ASSUME NEW t \in Thread, Open(t) PROVE TypeOK'
  BY <1>3 DEF Open, TypeOK, Goto
<1>4. ASSUME NEW t \in Thread, Check(t) PROVE TypeOK'
  BY <1>4 DEF Check, Retry, TypeOK, Goto
<1>5. ASSUME NEW t \in Thread, Flock(t) PROVE TypeOK'
  BY <1>5 DEF Flock, TypeOK, Goto
<1>6. ASSUME NEW t \in Thread, GiveUp(t) PROVE TypeOK'
  BY <1>6, OwnerWithoutType DEF GiveUp, TypeOK, Goto
<1>7. ASSUME NEW t \in Thread, Verify(t) PROVE TypeOK'
  BY <1>7 DEF Verify, Retry, TypeOK, Goto
<1>8. ASSUME NEW t \in Thread, Fail(t) PROVE TypeOK'
  BY <1>8, OwnerWithoutType DEF Fail, TypeOK, Goto
<1>9. ASSUME NEW t \in Thread, Release(t) PROVE TypeOK'
  <2>1. depth' \in [Process -> 0..MaxDepth]
    BY <1>9 DEF Release, TypeOK
  <2>2. CASE depth[ProcessOf(t)] = 1
    BY <1>9, <2>1, <2>2, LetGoType DEF Release, TypeOK
  <2>3. CASE depth[ProcessOf(t)] # 1
    BY <1>9, <2>1, <2>3 DEF Release, TypeOK
  <2> QED
    BY <2>2, <2>3
<1>10. ASSUME NEW t \in Thread, SweepBegins(t) PROVE TypeOK'
  BY <1>10 DEF SweepBegins, TypeOK, Goto
<1>11. ASSUME NEW t \in Thread, Unlink(t) PROVE TypeOK'
  BY <1>11 DEF Unlink, TypeOK, Goto
<1>12. ASSUME NEW t \in Thread, SweepEnds(t) PROVE TypeOK'
  BY <1>12, LetGoType DEF SweepEnds, TypeOK
<1>13. ASSUME NEW p \in Process, Exit(p) PROVE TypeOK'
  BY <1>13 DEF Exit, FreedBy, TypeOK
<1>14. CASE UNCHANGED vars
  BY <1>14 DEF vars, TypeOK
<1> QED
  BY <1>1, <1>2, <1>3, <1>4, <1>5, <1>6, <1>7, <1>8, <1>9, <1>10, <1>11, <1>12, <1>13, <1>14
  DEF Next, Continue

\* Every step keeps an open file with each thread past the open call.
LEMMA HandleStep == LockInv /\ [Next]_vars => HandleIsOpen'
<1> SUFFICES ASSUME LockInv, [Next]_vars PROVE HandleIsOpen'
  OBVIOUS
<1> USE FileLockAssumption DEF LockInv, TypeOK, HandleIsOpen, OpenPC, Goto
<1>1. ASSUME NEW t \in Thread, NEW m \in {"block", "timed"}, Acquire(t, m) PROVE HandleIsOpen'
  BY <1>1 DEF Acquire
<1>2. ASSUME NEW t \in Thread, Reenter(t) PROVE HandleIsOpen'
  BY <1>2 DEF Reenter
<1>3. ASSUME NEW t \in Thread, Open(t) PROVE HandleIsOpen'
  BY <1>3 DEF Open
<1>4. ASSUME NEW t \in Thread, Check(t) PROVE HandleIsOpen'
  BY <1>4 DEF Check, Retry
<1>5. ASSUME NEW t \in Thread, Flock(t) PROVE HandleIsOpen'
  BY <1>5 DEF Flock
<1>6. ASSUME NEW t \in Thread, GiveUp(t) PROVE HandleIsOpen'
  BY <1>6 DEF GiveUp
<1>7. ASSUME NEW t \in Thread, Verify(t) PROVE HandleIsOpen'
  BY <1>7 DEF Verify, Retry
<1>8. ASSUME NEW t \in Thread, Fail(t) PROVE HandleIsOpen'
  BY <1>8 DEF Fail
<1>9. ASSUME NEW t \in Thread, Release(t) PROVE HandleIsOpen'
  BY <1>9 DEF Release, LetGo
<1>10. ASSUME NEW t \in Thread, SweepBegins(t) PROVE HandleIsOpen'
  BY <1>10 DEF SweepBegins
<1>11. ASSUME NEW t \in Thread, Unlink(t) PROVE HandleIsOpen'
  BY <1>11 DEF Unlink
<1>12. ASSUME NEW t \in Thread, SweepEnds(t) PROVE HandleIsOpen'
  BY <1>12 DEF SweepEnds, LetGo
<1>13. ASSUME NEW p \in Process, Exit(p) PROVE HandleIsOpen'
  BY <1>13 DEF Exit
<1>14. CASE UNCHANGED vars
  BY <1>14 DEF vars
<1> QED
  BY <1>1, <1>2, <1>3, <1>4, <1>5, <1>6, <1>7, <1>8, <1>9, <1>10, <1>11, <1>12, <1>13, <1>14
  DEF Next, Continue

\* Only the thread that has a file locked unlocks it, short of its process's exit.
LEMMA LockedStep == LockInv /\ [Next]_vars => FileIsLocked'
<1> SUFFICES ASSUME LockInv, [Next]_vars PROVE FileIsLocked'
  OBVIOUS
<1> USE FileLockAssumption DEF LockInv, TypeOK, HandleIsOpen, FileIsLocked, OpenPC, LockedPC, Goto
<1>1. ASSUME NEW t \in Thread, NEW m \in {"block", "timed"}, Acquire(t, m) PROVE FileIsLocked'
  BY <1>1 DEF Acquire
<1>2. ASSUME NEW t \in Thread, Reenter(t) PROVE FileIsLocked'
  BY <1>2 DEF Reenter
<1>3. ASSUME NEW t \in Thread, Open(t) PROVE FileIsLocked'
  BY <1>3 DEF Open
<1>4. ASSUME NEW t \in Thread, Check(t) PROVE FileIsLocked'
  BY <1>4 DEF Check, Retry
<1>5. ASSUME NEW t \in Thread, Flock(t) PROVE FileIsLocked'
  BY <1>5 DEF Flock
<1>6. ASSUME NEW t \in Thread, GiveUp(t) PROVE FileIsLocked'
  BY <1>6 DEF GiveUp
<1>7. ASSUME NEW t \in Thread, Verify(t) PROVE FileIsLocked'
  BY <1>7 DEF Verify, Retry, PathNamesHandle
<1>8. ASSUME NEW t \in Thread, Fail(t) PROVE FileIsLocked'
  BY <1>8 DEF Fail
<1>9. ASSUME NEW t \in Thread, Release(t) PROVE FileIsLocked'
  BY <1>9 DEF Release, LetGo
<1>10. ASSUME NEW t \in Thread, SweepBegins(t) PROVE FileIsLocked'
  BY <1>10 DEF SweepBegins
<1>11. ASSUME NEW t \in Thread, Unlink(t) PROVE FileIsLocked'
  BY <1>11 DEF Unlink
<1>12. ASSUME NEW t \in Thread, SweepEnds(t) PROVE FileIsLocked'
  BY <1>12 DEF SweepEnds, LetGo
<1>13. ASSUME NEW p \in Process, Exit(p) PROVE FileIsLocked'
  BY <1>13 DEF Exit, FreedBy
<1>14. CASE UNCHANGED vars
  BY <1>14 DEF vars
<1> QED
  BY <1>1, <1>2, <1>3, <1>4, <1>5, <1>6, <1>7, <1>8, <1>9, <1>10, <1>11, <1>12, <1>13, <1>14
  DEF Next, Continue

\* The path changes when it names nothing, and when a sweep unlinks its own file.
LEMMA NamedStep == LockInv /\ [Next]_vars => HeldFileIsNamed'
<1> SUFFICES ASSUME LockInv, [Next]_vars PROVE HeldFileIsNamed'
  OBVIOUS
<1> USE FileLockAssumption DEF LockInv, TypeOK, HandleIsOpen, FileIsLocked, HeldFileIsNamed, OpenPC, LockedPC, Goto
<1>1. ASSUME NEW t \in Thread, NEW m \in {"block", "timed"}, Acquire(t, m) PROVE HeldFileIsNamed'
  BY <1>1 DEF Acquire
<1>2. ASSUME NEW t \in Thread, Reenter(t) PROVE HeldFileIsNamed'
  BY <1>2 DEF Reenter
<1>3. ASSUME NEW t \in Thread, Open(t) PROVE HeldFileIsNamed'
  BY <1>3 DEF Open
<1>4. ASSUME NEW t \in Thread, Check(t) PROVE HeldFileIsNamed'
  BY <1>4 DEF Check, Retry
<1>5. ASSUME NEW t \in Thread, Flock(t) PROVE HeldFileIsNamed'
  BY <1>5 DEF Flock
<1>6. ASSUME NEW t \in Thread, GiveUp(t) PROVE HeldFileIsNamed'
  BY <1>6 DEF GiveUp
<1>7. ASSUME NEW t \in Thread, Verify(t) PROVE HeldFileIsNamed'
  BY <1>7 DEF Verify, Retry, PathNamesHandle
<1>8. ASSUME NEW t \in Thread, Fail(t) PROVE HeldFileIsNamed'
  BY <1>8 DEF Fail
<1>9. ASSUME NEW t \in Thread, Release(t) PROVE HeldFileIsNamed'
  BY <1>9 DEF Release, LetGo
<1>10. ASSUME NEW t \in Thread, SweepBegins(t) PROVE HeldFileIsNamed'
  BY <1>10 DEF SweepBegins
<1>11. ASSUME NEW t \in Thread, Unlink(t) PROVE HeldFileIsNamed'
  BY <1>11 DEF Unlink
<1>12. ASSUME NEW t \in Thread, SweepEnds(t) PROVE HeldFileIsNamed'
  BY <1>12 DEF SweepEnds, LetGo
<1>13. ASSUME NEW p \in Process, Exit(p) PROVE HeldFileIsNamed'
  BY <1>13 DEF Exit, FreedBy
<1>14. CASE UNCHANGED vars
  BY <1>14 DEF vars
<1> QED
  BY <1>1, <1>2, <1>3, <1>4, <1>5, <1>6, <1>7, <1>8, <1>9, <1>10, <1>11, <1>12, <1>13, <1>14
  DEF Next, Continue

\* A pass is counted only when another may follow.
LEMMA TriesStep == LockInv /\ [Next]_vars => TriesLeft'
<1> SUFFICES ASSUME LockInv, [Next]_vars PROVE TriesLeft'
  OBVIOUS
<1> USE FileLockAssumption DEF LockInv, TypeOK, TriesLeft, Goto
<1>1. ASSUME NEW t \in Thread, NEW m \in {"block", "timed"}, Acquire(t, m) PROVE TriesLeft'
  BY <1>1 DEF Acquire
<1>2. ASSUME NEW t \in Thread, Reenter(t) PROVE TriesLeft'
  BY <1>2 DEF Reenter
<1>3. ASSUME NEW t \in Thread, Open(t) PROVE TriesLeft'
  BY <1>3 DEF Open
<1>4. ASSUME NEW t \in Thread, Check(t) PROVE TriesLeft'
  BY <1>4 DEF Check, Retry
<1>5. ASSUME NEW t \in Thread, Flock(t) PROVE TriesLeft'
  BY <1>5 DEF Flock
<1>6. ASSUME NEW t \in Thread, GiveUp(t) PROVE TriesLeft'
  BY <1>6 DEF GiveUp
<1>7. ASSUME NEW t \in Thread, Verify(t) PROVE TriesLeft'
  BY <1>7 DEF Verify, Retry, PathNamesHandle
<1>8. ASSUME NEW t \in Thread, Fail(t) PROVE TriesLeft'
  BY <1>8 DEF Fail
<1>9. ASSUME NEW t \in Thread, Release(t) PROVE TriesLeft'
  BY <1>9 DEF Release, LetGo
<1>10. ASSUME NEW t \in Thread, SweepBegins(t) PROVE TriesLeft'
  BY <1>10 DEF SweepBegins
<1>11. ASSUME NEW t \in Thread, Unlink(t) PROVE TriesLeft'
  BY <1>11 DEF Unlink
<1>12. ASSUME NEW t \in Thread, SweepEnds(t) PROVE TriesLeft'
  BY <1>12 DEF SweepEnds, LetGo
<1>13. ASSUME NEW p \in Process, Exit(p) PROVE TriesLeft'
  BY <1>13 DEF Exit, FreedBy
<1>14. CASE UNCHANGED vars
  BY <1>14 DEF vars
<1> QED
  BY <1>1, <1>2, <1>3, <1>4, <1>5, <1>6, <1>7, <1>8, <1>9, <1>10, <1>11, <1>12, <1>13, <1>14
  DEF Next, Continue

\* The depth of a process falls to 0 only when its holder lets go.
LEMMA DepthStep == LockInv /\ [Next]_vars => HolderHasDepth'
<1> SUFFICES ASSUME LockInv, [Next]_vars PROVE HolderHasDepth'
  OBVIOUS
<1> USE FileLockAssumption DEF LockInv, TypeOK, HolderHasDepth, Goto
<1>1. ASSUME NEW t \in Thread, NEW m \in {"block", "timed"}, Acquire(t, m) PROVE HolderHasDepth'
  BY <1>1 DEF Acquire
<1>2. ASSUME NEW t \in Thread, Reenter(t) PROVE HolderHasDepth'
  BY <1>2 DEF Reenter
<1>3. ASSUME NEW t \in Thread, Open(t) PROVE HolderHasDepth'
  BY <1>3 DEF Open
<1>4. ASSUME NEW t \in Thread, Check(t) PROVE HolderHasDepth'
  BY <1>4 DEF Check, Retry
<1>5. ASSUME NEW t \in Thread, Flock(t) PROVE HolderHasDepth'
  BY <1>5 DEF Flock
<1>6. ASSUME NEW t \in Thread, GiveUp(t) PROVE HolderHasDepth'
  BY <1>6 DEF GiveUp
<1>7. ASSUME NEW t \in Thread, Verify(t) PROVE HolderHasDepth'
  BY <1>7 DEF Verify, Retry, PathNamesHandle
<1>8. ASSUME NEW t \in Thread, Fail(t) PROVE HolderHasDepth'
  BY <1>8 DEF Fail
<1>9. ASSUME NEW t \in Thread, Release(t) PROVE HolderHasDepth'
  <2>1. ASSUME NEW u \in Thread, u # t, pc[u] = "held" PROVE FALSE
    BY <1>9, <2>1, OneHolder DEF Release, MutualExclusion
  <2>2. \A u \in Thread : u # t => pc'[u] = pc[u]
    BY <1>9 DEF Release, LetGo
  <2>3. CASE depth[ProcessOf(t)] = 1
    <3>1. pc'[t] = "idle"
      BY <1>9, <2>3 DEF Release, LetGo
    <3> QED
      BY <2>1, <2>2, <3>1
  <2>4. CASE depth[ProcessOf(t)] # 1
    <3>1. depth'[ProcessOf(t)] >= 1
      BY <1>9, <2>4 DEF Release
    <3> QED
      BY <2>1, <2>2, <3>1
  <2> QED
    BY <2>3, <2>4
<1>10. ASSUME NEW t \in Thread, SweepBegins(t) PROVE HolderHasDepth'
  BY <1>10 DEF SweepBegins
<1>11. ASSUME NEW t \in Thread, Unlink(t) PROVE HolderHasDepth'
  BY <1>11 DEF Unlink
<1>12. ASSUME NEW t \in Thread, SweepEnds(t) PROVE HolderHasDepth'
  BY <1>12 DEF SweepEnds, LetGo
<1>13. ASSUME NEW p \in Process, Exit(p) PROVE HolderHasDepth'
  BY <1>13 DEF Exit, FreedBy
<1>14. CASE UNCHANGED vars
  BY <1>14 DEF vars
<1> QED
  BY <1>1, <1>2, <1>3, <1>4, <1>5, <1>6, <1>7, <1>8, <1>9, <1>10, <1>11, <1>12, <1>13, <1>14
  DEF Next, Continue

\* Every step preserves the inductive invariant.
LEMMA LockStep == LockInv /\ [Next]_vars => LockInv'
  BY TypeStep, HandleStep, LockedStep, NamedStep, TriesStep, DepthStep DEF LockInv

\* The inductive invariant holds of every reachable state.
LEMMA SpecLockInv == Spec => []LockInv
  BY InitLockInv, LockStep, PTL DEF Spec

\* Every reachable state is well typed: in particular the relock loop of acquire
\* never runs more than Attempts passes and _depth is never negative.
THEOREM TypeCorrect == Spec => []TypeOK
<1>1. LockInv => TypeOK
  BY DEF LockInv
<1> QED
  BY SpecLockInv, <1>1, PTL

\* Whatever the processes, threads, sweeps and exits, and whenever they fall,
\* two threads never hold FileLock, nor does remove_unheld_lock_file unlink the
\* file of a thread that holds it.
THEOREM Exclusion == Spec => []MutualExclusion
  BY SpecLockInv, OneHolder, PTL

-----------------------------------------------------------------------------
(* FileLock implements ExclusiveLock. *)

\* What the refinement mapping gives in a state with one holder at most.
Mapped ==
  /\ \A t \in Thread : pc[t] = "held" => Holder = t
  /\ (\A t \in Thread : pc[t] # "held") => Holder = NoThread

\* With one holder, the mapped holder is the thread that holds the lock.
LEMMA HolderMapped == MutualExclusion => Mapped
  BY FileLockAssumption DEF MutualExclusion, Mapped, Holder

\* The same of the state after a step.
LEMMA HolderMappedNext == MutualExclusion' => Mapped'
  BY FileLockAssumption DEF MutualExclusion, Mapped, Holder

\* The mapped depth.
HolderDepth == IF Holder = NoThread THEN 0 ELSE depth[ProcessOf(Holder)]

\* A step that neither takes the lock, gives it back nor changes the depth of its
\* holder is a stuttering step of the abstract lock.
LEMMA QuietStutters ==
  ASSUME Mapped, Mapped', exits' = exits,
         \A t \in Thread : pc'[t] = "held" <=> pc[t] = "held",
         \A t \in Thread : pc[t] = "held" => depth'[ProcessOf(t)] = depth[ProcessOf(t)]
  PROVE  Holder' = Holder /\ HolderDepth' = HolderDepth
<1>1. CASE \E t \in Thread : pc[t] = "held"
  <2>1. PICK t \in Thread : pc[t] = "held"
    BY <1>1
  <2>2. Holder = t /\ Holder' = t
    BY <2>1 DEF Mapped
  <2> QED
    BY <2>1, <2>2, FileLockAssumption DEF HolderDepth
<1>2. CASE \A t \in Thread : pc[t] # "held"
  <2>1. Holder = NoThread /\ Holder' = NoThread
    BY <1>2 DEF Mapped
  <2> QED
    BY <2>1 DEF HolderDepth
<1> QED
  BY <1>1, <1>2

\* Every step of the file lock is a step of the exclusive lock or a stutter.
LEMMA ImplementsStep ==
  ASSUME LockInv, [Next]_vars
  PROVE  Abstract!Next \/ UNCHANGED <<Holder, HolderDepth, exits>>
<1>0. /\ LockInv' /\ MutualExclusion /\ MutualExclusion'
      /\ Mapped /\ Mapped' /\ TypeOK
  <2>1. LockInv'
    BY LockStep
  <2>2. MutualExclusion'
    BY <2>1, OneHolder, PTL
  <2> QED
    BY <2>1, <2>2, OneHolder, HolderMapped, HolderMappedNext DEF LockInv
<1> DEFINE Quiet ==
      /\ exits' = exits
      /\ \A t \in Thread : pc'[t] = "held" <=> pc[t] = "held"
      /\ \A t \in Thread : pc[t] = "held" => depth'[ProcessOf(t)] = depth[ProcessOf(t)]
<1>q. ASSUME Quiet PROVE UNCHANGED <<Holder, HolderDepth, exits>>
  BY <1>0, <1>q, QuietStutters
<1>1. ASSUME NEW t \in Thread, NEW m \in {"block", "timed"}, Acquire(t, m) PROVE Quiet
  BY <1>0, <1>1 DEF Acquire, TypeOK, Goto
<1>2. ASSUME NEW t \in Thread, Reenter(t) PROVE Abstract!Reenter(t)
  <2>1. Holder = t /\ Holder' = t
    BY <1>0, <1>2 DEF Reenter, Mapped
  <2>2. HolderDepth' = HolderDepth + 1 /\ exits' = exits
    BY <1>0, <1>2, <2>1, FileLockAssumption DEF Reenter, HolderDepth, TypeOK
  <2> QED
    BY <2>1, <2>2 DEF Abstract!Reenter, HolderDepth
<1>3. ASSUME NEW t \in Thread, Open(t) PROVE Quiet
  BY <1>0, <1>3 DEF Open, TypeOK, Goto
<1>4. ASSUME NEW t \in Thread, Check(t) PROVE Quiet
  BY <1>0, <1>4 DEF Check, Retry, TypeOK, Goto
<1>5. ASSUME NEW t \in Thread, Flock(t) PROVE Quiet
  BY <1>0, <1>5 DEF Flock, TypeOK, Goto
<1>6. ASSUME NEW t \in Thread, GiveUp(t) PROVE Quiet
  BY <1>0, <1>6 DEF GiveUp, TypeOK, Goto
<1>7. ASSUME NEW t \in Thread, Verify(t), ~Quiet PROVE Abstract!Acquire(t)
  <2>1. PathNamesHandle(t) /\ mode[t] # "sweep"
    <3>1. CASE ~PathNamesHandle(t)
      BY <1>0, <1>7, <3>1 DEF Verify, Retry, TypeOK, Goto
    <3>2. CASE PathNamesHandle(t) /\ mode[t] = "sweep"
      BY <1>0, <1>7, <3>2 DEF Verify, TypeOK, Goto
    <3> QED
      BY <1>7, <3>1, <3>2
  <2>2. \A u \in Thread : pc[u] # "held"
    BY <1>0, <1>7, <2>1
    DEF Verify, PathNamesHandle, LockInv, FileIsLocked, HeldFileIsNamed, LockedPC
  <2>3. pc'[t] = "held" /\ depth'[ProcessOf(t)] = 1 /\ exits' = exits
    BY <1>0, <1>7, <2>1, FileLockAssumption DEF Verify, TypeOK, Goto
  <2>4. Holder = NoThread /\ Holder' = t
    BY <1>0, <2>2, <2>3 DEF Mapped
  <2>5. HolderDepth' = 1
    BY <2>3, <2>4, FileLockAssumption DEF HolderDepth
  <2> QED
    BY <2>3, <2>4, <2>5 DEF Abstract!Acquire, HolderDepth
<1>8. ASSUME NEW t \in Thread, Fail(t) PROVE Quiet
  BY <1>0, <1>8 DEF Fail, TypeOK, Goto
<1>9. ASSUME NEW t \in Thread, Release(t) PROVE Abstract!Release(t)
  <2>1. Holder = t /\ HolderDepth = depth[ProcessOf(t)]
    BY <1>0, <1>9, FileLockAssumption DEF Release, Mapped, HolderDepth
  <2>2. /\ depth'[ProcessOf(t)] = depth[ProcessOf(t)] - 1 /\ exits' = exits
        /\ \A u \in Thread : u # t => pc'[u] # "held"
    BY <1>0, <1>9, FileLockAssumption
    DEF Release, LetGo, TypeOK, MutualExclusion, Goto
  <2>3. CASE depth[ProcessOf(t)] = 1
    <3>1. pc'[t] = "idle"
      BY <1>0, <1>9, <2>3 DEF Release, LetGo, TypeOK, Goto
    <3>2. Holder' = NoThread
      BY <1>0, <2>2, <3>1 DEF Mapped
    <3> QED
      BY <2>1, <2>2, <2>3, <3>2 DEF Abstract!Release, HolderDepth
  <2>4. CASE depth[ProcessOf(t)] # 1
    <3>1. pc'[t] = "held"
      BY <1>0, <1>9, <2>4 DEF Release
    <3>2. Holder' = t
      BY <1>0, <3>1 DEF Mapped
    <3> QED
      BY <2>1, <2>2, <2>4, <3>2, FileLockAssumption DEF Abstract!Release, HolderDepth
  <2> QED
    BY <2>3, <2>4
<1>10. ASSUME NEW t \in Thread, SweepBegins(t) PROVE Quiet
  BY <1>0, <1>10 DEF SweepBegins, TypeOK, Goto
<1>11. ASSUME NEW t \in Thread, Unlink(t) PROVE Quiet
  BY <1>0, <1>11 DEF Unlink, TypeOK, Goto
<1>12. ASSUME NEW t \in Thread, SweepEnds(t) PROVE Quiet
  BY <1>0, <1>12 DEF SweepEnds, LetGo, TypeOK, Goto
<1>13. ASSUME NEW p \in Process, Exit(p) PROVE Abstract!Exit
  <2>1. \A t \in Thread : pc'[t] = IF ProcessOf(t) = p THEN "idle" ELSE pc[t]
    BY <1>13 DEF Exit
  <2>2. exits' = exits + 1
    BY <1>13 DEF Exit
  <2>3. CASE \E t \in Thread : pc[t] = "held" /\ ProcessOf(t) # p
    <3>1. PICK t \in Thread : pc[t] = "held" /\ ProcessOf(t) # p
      BY <2>3
    <3>2. Holder = t /\ Holder' = t
      BY <1>0, <2>1, <3>1 DEF Mapped
    <3>3. depth'[ProcessOf(t)] = depth[ProcessOf(t)]
      BY <1>0, <1>13, <3>1, FileLockAssumption DEF Exit, TypeOK
    <3> QED
      BY <2>2, <3>2, <3>3 DEF Abstract!Exit
  <2>4. CASE \A t \in Thread : pc[t] = "held" => ProcessOf(t) = p
    <3>1. Holder' = NoThread
      BY <1>0, <2>1, <2>4 DEF Mapped
    <3> QED
      BY <2>2, <3>1 DEF Abstract!Exit
  <2> QED
    BY <2>3, <2>4
<1>14. CASE UNCHANGED vars
  BY <1>14 DEF vars, Holder, HolderDepth
<1> HIDE DEF Quiet
<1> QED
  BY <1>q, <1>1, <1>2, <1>3, <1>4, <1>5, <1>6, <1>7, <1>8, <1>9, <1>10, <1>11, <1>12, <1>13, <1>14
  DEF Next, Continue, Abstract!Next

\* FileLock implements ExclusiveLock, with the thread whose acquire has returned
\* as the holder: acquire and release, with their retries and the sweeps and
\* exits around them, are the steps of a re-entrant exclusive lock.
THEOREM Implements == Spec => IsExclusiveLock
<1>1. Init => Abstract!Init
  <2>1. ASSUME Init PROVE Holder = NoThread /\ exits = 0
    BY <2>1 DEF Init, Holder
  <2> QED
    BY <2>1 DEF Abstract!Init
<1>2. LockInv /\ [Next]_vars => [Abstract!Next]_<<Holder, HolderDepth, exits>>
  BY ImplementsStep
<1> QED
  BY <1>1, <1>2, SpecLockInv, PTL DEF Spec, IsExclusiveLock, Abstract!Spec, HolderDepth
=============================================================================
