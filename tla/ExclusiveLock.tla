--------------------------- MODULE ExclusiveLock ---------------------------
(***************************************************************************)
(* What _file_lock.FileLock promises its callers: a lock one thread of one *)
(* process holds at a time, that its holder may acquire again, and that is *)
(* free again when its holder's process has exited.                        *)
(***************************************************************************)
EXTENDS Integers

CONSTANTS Thread, NoThread

VARIABLES
  holder, depth,
  exits   \* how many processes have exited

Init == holder = NoThread /\ depth = 0 /\ exits = 0

Acquire(t) == holder = NoThread /\ holder' = t /\ depth' = 1 /\ UNCHANGED exits

Reenter(t) == holder = t /\ holder' = t /\ depth' = depth + 1 /\ UNCHANGED exits

Release(t) ==
  /\ holder = t
  /\ depth' = depth - 1
  /\ holder' = IF depth = 1 THEN NoThread ELSE t
  /\ UNCHANGED exits

\* A process exits, the holder's or another.
Exit ==
  /\ exits' = exits + 1
  /\ \/ holder' = NoThread /\ depth' = 0
     \/ UNCHANGED <<holder, depth>>

Next == Exit \/ \E t \in Thread : Acquire(t) \/ Reenter(t) \/ Release(t)

Spec == Init /\ [][Next]_<<holder, depth, exits>>
=============================================================================
