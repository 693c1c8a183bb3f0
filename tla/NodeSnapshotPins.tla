--------------------------- MODULE NodeSnapshotPins ---------------------------
(* NodeSnapshotStore with a history of what its slot's pin has protected.     *)
EXTENDS NodeSnapshotStore

VARIABLE
    kept    \* generations that were current under a pin on their own identity,
            \* with no publication under way, since the user last cleared

KeepCurrent ==
    kept' = kept \cup {g \in Generations :
                          lock' = None /\ pinned' # None /\ pointer'[pinned'] = g}

PinsInit == Init /\ kept = {}

PinsNext ==
    \/ /\ \E p \in Process : Publishing(p) \/ Using(p) \/ Die(p)
       /\ KeepCurrent
    \/ /\ \E p \in Process : Clearing(p)
       /\ kept' = {}
    \/ /\ PublishUpstream \/ ClearUpstream
       /\ UNCHANGED kept

PinsSpec == PinsInit /\ [][PinsNext]_<<vars, kept>>

\* While the user clears nothing, data the pin has protected stays protected for
\* as long as it is current, also when a publication that was to replace it dies
\* half way: "the slot's pin protects the previous current data until the
\* pointer commits" (publish_node_output).
PinProtectsUntilCommit ==
    \A g \in kept : Current(g) => pinned # None
=============================================================================
