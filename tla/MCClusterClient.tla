-------------------------- MODULE MCClusterClient --------------------------
(***************************************************************************)
(* Small instances of ClusterClient for TLC.                               *)
(***************************************************************************)
EXTENDS ClusterClient, TLC

CONSTANTS o1, o2

TwoOperators == {o1, o2}
Interchangeable == Permutations(TwoOperators)
=============================================================================
