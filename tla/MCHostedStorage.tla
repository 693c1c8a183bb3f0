---------------------------- MODULE MCHostedStorage ----------------------------
(* Model values for HostedStorage: three successive lives of one app.         *)
EXTENDS HostedStorage, TLC

CONSTANTS c1, c2, c3, a1
MCAppOf == [c \in Containers |-> a1]
Symmetry == Permutations(Containers)
================================================================================
