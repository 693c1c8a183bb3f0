------------------------------ MODULE FileLock ------------------------------
(***************************************************************************)
(* _file_lock on POSIX: FileLock.acquire and release, and the sweep that   *)
(* removes lock files (remove_unheld_lock_file), for one lock path used by *)
(* several processes, each with several threads sharing one FileLock       *)
(* (file_lock_for).  A file is what an inode number names while a process  *)
(* has it open or the path leads to it; flock is exclusive per file.       *)
(* Refusals of links and other unsafe paths are not modelled.              *)
(***************************************************************************)
EXTENDS Integers

CONSTANTS
  Thread, NoThread,
  Process,
  ProcessOf(_),   \* the process of a thread
  Inode, NoInode,
  MaxDepth,       \* bound: re-entrant acquisitions
  MaxSweeps,      \* bound: the sweeps in a behaviour
  MaxExits,       \* bound: the processes that exit in a behaviour
  Attempts        \* _RELOCK_ATTEMPTS

ASSUME FileLockAssumption ==
  /\ NoThread \notin Thread /\ NoInode \notin Inode
  /\ \A t \in Thread : ProcessOf(t) \in Process
  /\ MaxDepth \in Nat \ {0} /\ MaxSweeps \in Nat /\ MaxExits \in Nat /\ Attempts \in Nat \ {0}

VARIABLES
  path,     \* the file the lock path names
  flocked,  \* the thread that has each file locked
  pc,       \* where each thread is
  mode,     \* what it is doing: a blocking acquire, one that may give up
            \* (non-blocking, or a timeout), or a sweep
  handle,   \* the file it has open
  tries,    \* its passes of the relock loop
  owner,    \* the thread that has the thread lock of each process
  depth,    \* _depth of each process's FileLock
  sweeps,   \* sweeps so far
  exits     \* exits so far

vars == <<path, flocked, pc, mode, handle, tries, owner, depth, sweeps, exits>>

TypeOK ==
  /\ path \in Inode \cup {NoInode}
  /\ flocked \in [Inode -> Thread \cup {NoThread}]
  /\ pc \in [Thread -> {"idle", "open", "check", "flock", "verify", "held", "unlink",
                        "swept", "failed"}]
  /\ mode \in [Thread -> {"block", "timed", "sweep"}]
  /\ handle \in [Thread -> Inode \cup {NoInode}]
  /\ tries \in [Thread -> 0..Attempts]
  /\ owner \in [Process -> Thread \cup {NoThread}]
  /\ depth \in [Process -> 0..MaxDepth]
  /\ sweeps \in 0..MaxSweeps
  /\ exits \in 0..MaxExits

Init ==
  /\ path = NoInode
  /\ flocked = [i \in Inode |-> NoThread]
  /\ pc = [t \in Thread |-> "idle"]
  /\ mode = [t \in Thread |-> "block"]
  /\ handle = [t \in Thread |-> NoInode]
  /\ tries = [t \in Thread |-> 0]
  /\ owner = [p \in Process |-> NoThread]
  /\ depth = [p \in Process |-> 0]
  /\ sweeps = 0
  /\ exits = 0

\* The file system may reuse the inode number of a file nobody refers to.
Unused(i) == path # i /\ \A t \in Thread : handle[t] # i

Goto(t, place) == pc' = [pc EXCEPT ![t] = place]

\* The thread lock is let go, by the thread that has it.
OwnerWithout(t) ==
  [p \in Process |-> IF p = ProcessOf(t) /\ owner[p] = t THEN NoThread ELSE owner[p]]

-----------------------------------------------------------------------------
(* acquire *)

\* The thread lock first, waiting for the process's other threads.
Acquire(t, m) ==
  /\ pc[t] = "idle" /\ owner[ProcessOf(t)] = NoThread
  /\ owner' = [owner EXCEPT ![ProcessOf(t)] = t]
  /\ mode' = [mode EXCEPT ![t] = m]
  /\ Goto(t, "open")
  /\ UNCHANGED <<path, flocked, handle, tries, depth, sweeps, exits>>

\* The thread that holds the lock acquires it again.
Reenter(t) ==
  /\ pc[t] = "held" /\ depth[ProcessOf(t)] < MaxDepth
  /\ depth' = [depth EXCEPT ![ProcessOf(t)] = @ + 1]
  /\ UNCHANGED <<path, flocked, pc, mode, handle, tries, owner, sweeps, exits>>

\* os.open with O_CREAT.
Open(t) ==
  /\ pc[t] = "open"
  /\ IF path # NoInode THEN UNCHANGED path
     ELSE \E i \in Inode : Unused(i) /\ path' = i
  /\ handle' = [handle EXCEPT ![t] = path']
  /\ Goto(t, "check")
  /\ UNCHANGED <<flocked, mode, tries, owner, depth, sweeps, exits>>

\* The pass is over: close the file and open the path again, or give up for good.
Retry(t) ==
  /\ handle' = [handle EXCEPT ![t] = NoInode]
  /\ tries' = [tries EXCEPT ![t] = @ + 1]
  /\ Goto(t, IF tries[t] + 1 = Attempts THEN "failed" ELSE "open")

\* Does the path still name the file that was opened?
Check(t) ==
  /\ pc[t] = "check"
  /\ IF path = handle[t] THEN Goto(t, "flock") /\ UNCHANGED <<handle, tries>> ELSE Retry(t)
  /\ UNCHANGED <<path, flocked, mode, owner, depth, sweeps, exits>>

\* flock(LOCK_EX)
Flock(t) ==
  /\ pc[t] = "flock" /\ flocked[handle[t]] = NoThread
  /\ flocked' = [flocked EXCEPT ![handle[t]] = t]
  /\ Goto(t, "verify")
  /\ UNCHANGED <<path, mode, handle, tries, owner, depth, sweeps, exits>>

\* Another process has the lock, and this call does not wait for it any longer.
GiveUp(t) ==
  /\ pc[t] = "flock" /\ mode[t] # "block" /\ flocked[handle[t]] # NoThread
  /\ handle' = [handle EXCEPT ![t] = NoInode]
  /\ tries' = [tries EXCEPT ![t] = 0]
  /\ owner' = OwnerWithout(t)
  /\ mode' = [mode EXCEPT ![t] = "block"]
  /\ Goto(t, "idle")
  /\ UNCHANGED <<path, flocked, depth, sweeps, exits>>

\* Fault: the file that was locked is taken for the one the path names.
MutPathNamesHandleAlways(t) == TRUE

PathNamesHandle(t) == path = handle[t]

\* _path_names_handle, now that the file is locked.
Verify(t) ==
  /\ pc[t] = "verify"
  /\ IF PathNamesHandle(t)
     THEN /\ Goto(t, IF mode[t] = "sweep" THEN "unlink" ELSE "held")
          /\ depth' = IF mode[t] = "sweep" THEN depth ELSE [depth EXCEPT ![ProcessOf(t)] = 1]
          /\ UNCHANGED <<flocked, handle, tries>>
     ELSE /\ flocked' = [flocked EXCEPT ![handle[t]] = NoThread]
          /\ Retry(t)
          /\ UNCHANGED depth
  /\ UNCHANGED <<path, mode, owner, sweeps, exits>>

\* The loop ended without a break: UnsafeCachePathError is raised.
Fail(t) ==
  /\ pc[t] = "failed"
  /\ tries' = [tries EXCEPT ![t] = 0]
  /\ owner' = OwnerWithout(t)
  /\ mode' = [mode EXCEPT ![t] = "block"]
  /\ Goto(t, "idle")
  /\ UNCHANGED <<path, flocked, handle, depth, sweeps, exits>>

-----------------------------------------------------------------------------
(* release, sweep, exit *)

\* Fault: the file is forgotten, but neither unlocked nor closed.
MutLetGoKeepsFile(t) ==
  /\ handle' = [handle EXCEPT ![t] = NoInode]
  /\ tries' = [tries EXCEPT ![t] = 0]
  /\ mode' = [mode EXCEPT ![t] = "block"]
  /\ owner' = OwnerWithout(t)
  /\ Goto(t, "idle")
  /\ UNCHANGED flocked

\* Unlock and close the file, and forget the acquisition.
LetGo(t) ==
  /\ flocked' = [flocked EXCEPT ![handle[t]] = NoThread]
  /\ handle' = [handle EXCEPT ![t] = NoInode]
  /\ tries' = [tries EXCEPT ![t] = 0]
  /\ mode' = [mode EXCEPT ![t] = "block"]
  /\ owner' = OwnerWithout(t)
  /\ Goto(t, "idle")

\* Fault: the first release lets go of a lock that was acquired twice.
MutReleaseAtOnce(t) ==
  /\ pc[t] = "held"
  /\ depth' = [depth EXCEPT ![ProcessOf(t)] = @ - 1]
  /\ LetGo(t)
  /\ UNCHANGED <<path, sweeps, exits>>

Release(t) ==
  /\ pc[t] = "held"
  /\ depth' = [depth EXCEPT ![ProcessOf(t)] = @ - 1]
  /\ IF depth[ProcessOf(t)] = 1 THEN LetGo(t)
     ELSE UNCHANGED <<flocked, pc, mode, handle, tries, owner>>
  /\ UNCHANGED <<path, sweeps, exits>>

\* remove_unheld_lock_file: lock the file through a FileLock of its own, without
\* waiting, if there is one.
SweepBegins(t) ==
  /\ pc[t] = "idle" /\ path # NoInode /\ sweeps < MaxSweeps
  /\ mode' = [mode EXCEPT ![t] = "sweep"]
  /\ sweeps' = sweeps + 1
  /\ Goto(t, "open")
  /\ UNCHANGED <<path, flocked, handle, tries, owner, depth, exits>>

\* path.unlink(): whatever the path names now.
Unlink(t) ==
  /\ pc[t] = "unlink"
  /\ path' = NoInode
  /\ Goto(t, "swept")
  /\ UNCHANGED <<flocked, mode, handle, tries, owner, depth, sweeps, exits>>

SweepEnds(t) ==
  /\ pc[t] = "swept"
  /\ LetGo(t)
  /\ UNCHANGED <<path, depth, sweeps, exits>>

\* The OS releases the locks of a process that exits.
FreedBy(p) ==
  [i \in Inode |-> IF flocked[i] # NoThread /\ ProcessOf(flocked[i]) = p THEN NoThread
                   ELSE flocked[i]]

\* The process exits or is killed at any point.
Exit(p) ==
  LET dead(t) == ProcessOf(t) = p IN
  /\ exits < MaxExits /\ exits' = exits + 1
  /\ \E t \in Thread : dead(t) /\ pc[t] # "idle"
  /\ flocked' = FreedBy(p)
  /\ pc' = [t \in Thread |-> IF dead(t) THEN "idle" ELSE pc[t]]
  /\ mode' = [t \in Thread |-> IF dead(t) THEN "block" ELSE mode[t]]
  /\ handle' = [t \in Thread |-> IF dead(t) THEN NoInode ELSE handle[t]]
  /\ tries' = [t \in Thread |-> IF dead(t) THEN 0 ELSE tries[t]]
  /\ owner' = [owner EXCEPT ![p] = NoThread]
  /\ depth' = [depth EXCEPT ![p] = 0]
  /\ UNCHANGED <<path, sweeps>>

Continue(t) ==
  \/ Open(t) \/ Check(t) \/ Flock(t) \/ GiveUp(t) \/ Verify(t) \/ Fail(t)
  \/ Release(t) \/ Unlink(t) \/ SweepEnds(t)

Next ==
  \/ \E t \in Thread :
       Continue(t) \/ Reenter(t) \/ SweepBegins(t)
         \/ \E m \in {"block", "timed"} : Acquire(t, m)
  \/ \E p \in Process : Exit(p)

Spec == Init /\ [][Next]_vars

FairSpec == Spec /\ \A t \in Thread : WF_vars(Continue(t))

-----------------------------------------------------------------------------
(* Properties *)

Holder == IF \E t \in Thread : pc[t] = "held" THEN CHOOSE t \in Thread : pc[t] = "held"
          ELSE NoThread

Abstract ==
  INSTANCE ExclusiveLock WITH
    holder <- Holder, depth <- IF Holder = NoThread THEN 0 ELSE depth[ProcessOf(Holder)]

\* FileLock implements the lock it promises: exclusive between threads and
\* processes, re-entrant, kept until the last release, and free again once its
\* holder's process has exited and not before.
IsExclusiveLock == Abstract!Spec

\* "The removal can never leave two processes holding different files for one
\* path": however sweeps and exits fall between opening, locking and checking
\* the file, two threads never hold the lock, nor does a sweep remove the file of
\* a thread that holds it.
MutualExclusion ==
  \A t, u \in Thread : pc[t] = "held" /\ pc[u] \in {"held", "unlink"} => t = u

\* Somebody always gets the lock: while a thread waits for it, it is not lost to
\* a sweep, to a process that exited or to a thread that gave up.
LockIsPassedOn ==
  \A t \in Thread :
    pc[t] = "flock" ~> \/ pc[t] \in {"idle", "open", "failed"}
                       \/ \E u \in Thread : pc[u] \in {"held", "unlink"}
=============================================================================
