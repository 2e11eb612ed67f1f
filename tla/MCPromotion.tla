----------------------------- MODULE MCPromotion ----------------------------
(***************************************************************************)
(* The pipelines to build: four targets and three shards.  Any of the      *)
(* targets may wait for any channel, two may publish the same one, so that *)
(* chains, forks, cycles and waits on oneself all arise; the OLM file may  *)
(* name its target as the PKO file does.                                   *)
(***************************************************************************)
EXTENDS Promotion

TheHiveEnv == [hivei01 |-> "integration", hives01 |-> "stage",
               hivep01 |-> "production"]

\* A name may suggest another environment than its shard's, or none.
TheNameEnv(name) ==
    CASE name = "cam-int" -> "integration"
      [] name = "cam-e2e" -> "integration"
      [] name = "cam-prod" -> "production"
      [] OTHER -> "unknown"

\* The name "cam-hivep01" is one that matchTarget tries for hivep01.
TheNames(shard) ==
    IF shard = "hivep01" THEN <<"cam-pko-p01", "cam-hivep01">> ELSE <<>>
TheSameNumber(name, shard) == name = "cam-pko-p01"

T(name, hive, publish, subscribe, off) ==
    [name |-> name, hive |-> hive, publish |-> publish,
     subscribe |-> subscribe, off |-> off]

Channels == {{}, {"a"}, {"b"}}

TheFiles ==
    {[PKO |-> <<T("cam-int", first[1], {"a"}, s1, first[2]),
                T("cam-hivep01", "hives01", p2, s2, FALSE)>>,
      OLM |-> <<T(name, "hivep01", p3, s3, FALSE)>>,
      e2e |-> <<T("cam-e2e", "hives01", p4, s4, FALSE)>>] :
        p2 \in {{"b"}, {}}, p3 \in {{}, {"b"}}, p4 \in {{"a"}, {"b"}},
        s1 \in Channels, s2 \in Channels, s3 \in Channels,
        s4 \in {{}, {"a"}, {"a", "b"}},
        first \in {<<"hivei01", FALSE>>, <<"hivei01", TRUE>>,
                   <<"hivep01", FALSE>>, <<NoShard, FALSE>>},
        name \in {"cam-prod", "cam-hivep01"}}
=============================================================================
