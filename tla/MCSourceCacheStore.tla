-------------------------- MODULE MCSourceCacheStore --------------------------
(* Two servers, two spawned workers, the old snapshot and the fresh ids of   *)
(* the builds that follow it.                                               *)
EXTENDS SourceCacheStore, TLC

Symmetry ==
    Permutations(Servers) \cup Permutations(Workers)
        \cup Permutations(Generations \ {OldGeneration})
=============================================================================
