---------------------------- MODULE MCHealthRun ----------------------------
(***************************************************************************)
(* Small instances of HealthRun for TLC.                                   *)
(***************************************************************************)
EXTENDS HealthRun, TLC

CONSTANT h1

OneHive == {h1}
NoHive == {}

MCIds == {"a", "b", "c", "p"}

\* Every worker is a cluster of its own.
DistinctIds ==
  [w \in Workers |->
     IF w \in HiveNames THEN "p" ELSE <<"a", "b", "c">>[w]]

\* The list names its first cluster twice: duplicates are removed only when
\* some identifier had to be resolved.
RepeatedIds ==
  [w \in Workers |->
     IF w \in HiveNames THEN "p" ELSE <<"a", "b", "a">>[w]]
=============================================================================
