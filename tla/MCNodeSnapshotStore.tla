------------------------- MODULE MCNodeSnapshotStore -------------------------
(* One slot whose node has two signatures, and the processes that use it. *)
EXTENDS NodeSnapshotStore, TLC

Symmetry ==
    Permutations(Process) \cup Permutations(Identities) \cup Permutations(Generations)
=============================================================================
