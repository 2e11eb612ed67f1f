------------------------- MODULE MCClusterSelection -------------------------
(***************************************************************************)
(* Small instances of ClusterSelection for TLC.                            *)
(***************************************************************************)
EXTENDS ClusterSelection

CONSTANTS c1, c2, c3, h1, h2

MCClusters == {c1, c2, c3}
MCHives == {h1, h2}
MCHiveOf == [c \in MCClusters |-> IF c = c3 THEN h2 ELSE h1]
MCSectorOf ==
  [c \in MCClusters |->
     IF c = c1 THEN "canary" ELSE IF c = c2 THEN "main" ELSE ""]
MCFleetHasId == {c2}
MCOwned == {c1, c3}
MCNameExcluded == {c2}

Line(id, c, n) == [id |-> id, cluster |-> c, named |-> n]
Lines == [id : BOOLEAN, cluster : MCClusters \union {Stranger},
          named : BOOLEAN]

\* Every list of at most two lines.
AllLists ==
  {<<>>} \union {<<a>> : a \in Lines} \union {<<a, b>> : a, b \in Lines}

MCOptions == [byHive : BOOLEAN, owner : BOOLEAN,
              sector : {"", "canary", "main"}, exclude : BOOLEAN]
=============================================================================
