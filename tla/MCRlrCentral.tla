---------------------------- MODULE MCRlrCentral ----------------------------
(***************************************************************************)
(* A small instance of RlrCentral for TLC: a healthy account of one region *)
(* and of two, and those that differ from it in one fact.                  *)
(***************************************************************************)
EXTENDS RlrCentral, TLC

CONSTANTS m1, m2
MCClusters == {m1, m2}
Same == Permutations(MCClusters)

Region ==
  [depth |-> 9999, dead |-> 0, age |-> 3599, errors |-> 0, calls |-> 1,
   dropped |-> 0, throttled |-> 0, duration |-> <<29, 9>>, sent |-> 79,
   failed |-> 4, health |-> TRUE, api |-> TRUE, trace |-> FALSE,
   ttls |-> <<0>>]

Pipeline(osdctl, profile, named, regions) ==
  [osdctl |-> osdctl, profile |-> profile, named |-> named,
   regions |-> regions]

Fact(field, values) == {[field |-> field, value |-> v] : v \in values}

Deviations ==
  UNION {Fact("depth", {10000, 100000}), Fact("dead", {1, 100, 101}),
         Fact("age", {3600, 86400}), Fact("errors", {1}), Fact("calls", {0}),
         Fact("dropped", {1}), Fact("throttled", {1}),
         Fact("duration", {<<>>, <<30, 9>>, <<29, 10>>}),
         Fact("sent", {0, 76, 15}), Fact("failed", {0, 5}),
         Fact("health", {FALSE}), Fact("api", {FALSE}), Fact("trace", {TRUE}),
         Fact("ttls", {<<>>, <<0, 300>>})}

MCHealthy ==
  {Pipeline(TRUE, FALSE, TRUE, <<Region>>),
   Pipeline(FALSE, TRUE, TRUE, <<Region>>),
   Pipeline(FALSE, FALSE, TRUE, <<Region>>),
   Pipeline(TRUE, TRUE, FALSE, <<Region>>),
   Pipeline(TRUE, FALSE, TRUE, <<Region, Region>>),
   Pipeline(TRUE, FALSE, TRUE, <<>>)}

MCPipelines ==
  MCHealthy \union
  {Pipeline(TRUE, FALSE, TRUE, <<[Region EXCEPT ![d.field] = d.value]>>) :
     d \in Deviations}

MCTurns ==
  {Pipeline(TRUE, FALSE, TRUE, <<[Region EXCEPT !.errors = 1]>>)}

MCVectors == {<<60, 10>>, <<59, 10>>}
=============================================================================
