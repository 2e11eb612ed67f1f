-------------------------- MODULE ClusterSelection --------------------------
(***************************************************************************)
(* From the cluster list to clusterIDs: how cmd/healthcheck/main.go makes  *)
(* the list of clusters a run works on, out of a file, of the shards of    *)
(* --by-hive, and of the filters by owner, sector and name.                *)
(*                                                                         *)
(* A cluster goes by several identifiers: its internal id, its external id *)
(* and its name.  A token is one identifier of one cluster; clusterNames   *)
(* is keyed by tokens, and is here the set of tokens that have an entry.   *)
(***************************************************************************)
EXTENDS Integers, SequencesExt, Places

CONSTANTS
  Clusters,      \* the clusters the cluster manager knows
  Stranger,      \* what an identifier of no cluster stands for
  Hives,         \* the shards that --by-hive matched
  HiveOf,        \* the shard that manages a cluster
  SectorOf,      \* the sector of a cluster, "" when it is not in the fleet
  FleetHasId,    \* clusters whose fleet entry carries the cluster id
  Owned,         \* clusters whose owner has the domain of --owner-domain
  NameExcluded,  \* clusters whose name matches --exclude
  Lists,         \* cluster lists: sequences of [id, cluster, named]
  Options        \* [byHive, owner, sector, exclude]: the flags

Sectors == {SectorOf[c] : c \in Clusters} \ {""}

ASSUME SelectionAssumption ==
  /\ Stranger \notin Clusters
  /\ HiveOf \in [Clusters -> Hives]
  /\ FleetHasId \subseteq Clusters /\ Owned \subseteq Clusters
  /\ NameExcluded \subseteq Clusters
  /\ IsFiniteSet(Clusters)
  /\ Lists \subseteq Seq([id : BOOLEAN, cluster : Clusters \union {Stranger},
                         named : BOOLEAN])

VARIABLES
  phase,        \* the part of main() that runs next
  list,         \* the lines of the file of --cluster-list
  flags,        \* the flags about clusters
  outage,       \* whether lookups may fail during this run
  clusterIDs,   \* the local of that name, a sequence of tokens
  named,        \* the keys of clusterNames
  topology,     \* fleetTopo: "nil", "bare" (no index) or "full"
  discovered    \* discoveredIDs, as clusters

vars == <<phase, list, flags, outage, clusterIDs, named, topology, discovered>>
kept == <<list, flags, outage>>

Phases == {"read", "resolve", "topology", "discover", "owner", "sector",
           "name", "done", "exit"}
Tokens == [id : BOOLEAN, cluster : Clusters \union {Stranger}]

Internal(c) == [id |-> TRUE, cluster |-> c]

(***************************************************************************)
(* The list file.                                                          *)
(***************************************************************************)
\* Mutant: the whole line is taken for the identifier.
TokenOfWhole(line) == line

TokenOf(line) == [id |-> line.id, cluster |-> line.cluster]

\* readClusterList: the first field of each line, and a name when the line
\* has a second one.
ReadClusterList ==
  /\ phase = "read"
  /\ clusterIDs' = [i \in DOMAIN list |-> TokenOf(list[i])]
  /\ named' = {TokenOf(list[i]) : i \in {k \in DOMAIN list : list[k].named}}
  /\ phase' = "resolve"
  /\ UNCHANGED <<kept, topology, discovered>>

\* The internal ids of all identifiers, at the same places.
Internals(ids) == [i \in DOMAIN ids |-> Internal(ids[i].cluster)]

\* Mutant: the identifiers seen are compared before they are resolved.
FirstOfEachToken(ids) ==
  At(Internals(ids),
     {i \in DOMAIN ids : \A k \in 1..(i - 1) : ids[k] # ids[i]})

\* The internal ids, each once, in the order of their first identifier.
FirstOfEach(ids) ==
  At(Internals(ids),
     {i \in DOMAIN ids :
        \A k \in 1..(i - 1) : ids[k].cluster # ids[i].cluster})

NeedsResolve == \E i \in DOMAIN clusterIDs : ~clusterIDs[i].id

\* Identifiers are resolved when one of them is not an internal id; the ones
\* that cannot be resolved are dropped.  An internal id is not looked up.
ResolveIDs ==
  /\ phase = "resolve"
  /\ IF ~NeedsResolve
       THEN UNCHANGED clusterIDs
       ELSE \E lost \in SUBSET {i \in DOMAIN clusterIDs : ~clusterIDs[i].id} :
              /\ \A i \in DOMAIN clusterIDs :
                   clusterIDs[i].cluster = Stranger /\ ~clusterIDs[i].id
                     => i \in lost
              /\ outage \/ \A i \in lost : clusterIDs[i].cluster = Stranger
              /\ clusterIDs' =
                   FirstOfEach(At(clusterIDs, DOMAIN clusterIDs \ lost))
  /\ phase' = "topology"
  /\ UNCHANGED <<kept, named, topology, discovered>>

(***************************************************************************)
(* The fleet, and the shards of --by-hive.                                 *)
(***************************************************************************)
\* fleet.FetchTopology: without the service clusters there is no topology;
\* without the management clusters there is one that indexes nothing.
FetchTopology ==
  /\ phase = "topology"
  /\ topology' \in IF outage THEN {"nil", "bare", "full"} ELSE {"full"}
  /\ phase' = IF flags.byHive THEN "discover" ELSE "owner"
  /\ UNCHANGED <<kept, clusterIDs, named, discovered>>

\* The list without the identifiers that are not wanted.
Keep(wanted) ==
  At(clusterIDs, {i \in DOMAIN clusterIDs : clusterIDs[i] \in wanted})

\* Mutant: the shards add to the list.
DiscoveredIDsAdded(found) ==
  clusterIDs \o SetToSeq({Internal(c) : c \in found} \ ToSet(clusterIDs))

\* The shards narrow the list of the file, or are the list.
DiscoveredIDs(found) ==
  IF list # <<>> THEN Keep({Internal(c) : c \in found})
  ELSE SetToSeq({Internal(c) : c \in found})

\* Mutant: the names that the shards give are not kept.
NamesWithoutShards(found) == named

NamesWithShards(found) == named \union {Internal(c) : c \in found}

\* A shard that cannot be found, connected or listed is left out.
DiscoverFromHives ==
  /\ phase = "discover"
  /\ \E reached \in IF outage THEN SUBSET Hives ELSE {Hives} :
       discovered' = {c \in Clusters : HiveOf[c] \in reached}
  /\ clusterIDs' = DiscoveredIDs(discovered')
  /\ named' = NamesWithShards(discovered')
  /\ phase' = "owner"
  /\ UNCHANGED <<kept, topology>>

(***************************************************************************)
(* The filters.  An empty list skips them.                                 *)
(***************************************************************************)
\* FilterByOwnerDomain; a failed search leaves the list as it is.
OwnerFilter ==
  /\ phase = "owner"
  /\ IF flags.owner
       THEN \/ clusterIDs' = Keep({t \in Tokens : t.cluster \in Owned})
            \/ outage /\ UNCHANGED clusterIDs
       ELSE UNCHANGED clusterIDs
  /\ phase' = "sector"
  /\ UNCHANGED <<kept, named, topology, discovered>>

\* By the id of the fleet entry, else by the name kept for the token.
InSector ==
  {t \in Tokens :
     /\ t.cluster # Stranger
     /\ SectorOf[t.cluster] = flags.sector
     /\ t.cluster \in FleetHasId \/ t \in named}

\* A sector the topology does not know leaves the list as it is.
SectorFilter ==
  /\ phase = "sector"
  /\ clusterIDs' =
       IF topology = "full" /\ flags.sector \in Sectors THEN Keep(InSector)
       ELSE clusterIDs
  /\ phase' = "name"
  /\ UNCHANGED <<kept, named, topology, discovered>>

\* The expression is matched with the name, or with the id when there is no
\* name; no id matches it here.
Excluded == {t \in named : t.cluster \in NameExcluded}

NameFilter ==
  /\ phase = "name"
  /\ clusterIDs' = IF flags.exclude THEN Keep(Tokens \ Excluded)
                   ELSE clusterIDs
  /\ phase' = "done"
  /\ UNCHANGED <<kept, named, topology, discovered>>

Init ==
  /\ phase = "read"
  /\ list \in Lists /\ flags \in Options
  /\ list # <<>> \/ flags.byHive
  /\ outage \in BOOLEAN
  /\ clusterIDs = <<>> /\ named = {}
  /\ topology = "nil" /\ discovered = {}

Next ==
  \/ ReadClusterList \/ ResolveIDs \/ FetchTopology \/ DiscoverFromHives
  \/ OwnerFilter \/ SectorFilter \/ NameFilter

Spec == Init /\ [][Next]_vars

(***************************************************************************)
(* Properties.                                                             *)
(***************************************************************************)
\* The types of the locals of main() that hold the selection.
TypeOK ==
  /\ phase \in Phases /\ outage \in BOOLEAN
  /\ ToSet(clusterIDs) \subseteq Tokens
  /\ named \subseteq Tokens
  /\ topology \in {"nil", "bare", "full"}
  /\ discovered \subseteq Clusters

Done == phase = "done"
Chosen == {t.cluster : t \in ToSet(clusterIDs)}

\* A run works on internal ids only: whatever a list mixes, an external id or
\* a name is resolved before a goroutine is started for it.
OnlyInternalIDs == Done => \A t \in ToSet(clusterIDs) : t.id

\* A list that needs resolving names no cluster twice, however many of its
\* identifiers are given (the `seen` map of main.go).
ResolvedOnce ==
  Done /\ (\E i \in DOMAIN list : ~list[i].id) =>
    \A i, k \in DOMAIN clusterIDs :
      clusterIDs[i].cluster = clusterIDs[k].cluster => i = k

\* After resolution the list names clusters by their internal ids, once each,
\* whatever mixture the file held (main.go, "Resolve cluster IDs").
IDsAreResolved == OnlyInternalIDs /\ ResolvedOnce

\* With a list and --by-hive, only clusters of both are chosen, also when a
\* shard could not be read.
ListAndHive ==
  Done /\ flags.byHive /\ list # <<>> =>
    Chosen \subseteq discovered \intersect
                       {list[i].cluster : i \in DOMAIN list}

\* When every lookup is answered, only clusters of the owner and of the sector
\* asked for are chosen, whatever identifiers the list mixes (--owner-domain
\* and --sector of main.go; a lookup that fails turns a filter off).
FiltersHonoured ==
  Done /\ ~outage =>
    /\ flags.owner => Chosen \subseteq Owned
    /\ flags.sector \in Sectors =>
         \A c \in Chosen : c # Stranger /\ SectorOf[c] = flags.sector

\* --exclude keeps a cluster of a matching name out when the list gives its
\* internal id with its name, or a shard lists it; lookups that fail do not
\* matter (main.go, "applied to all discovery paths").
ExcludedNeverChosen ==
  Done /\ flags.exclude =>
    \A c \in Chosen \intersect NameExcluded :
      /\ c \notin discovered
      /\ \A i \in DOMAIN list :
           list[i].cluster = c => ~list[i].id \/ ~list[i].named

\* The filters keep what they are for: owner, sector and excluded names hold for
\* every chosen cluster, as far as the lookups behind them were answered.
FiltersNarrow == FiltersHonoured /\ ExcludedNeverChosen

(***************************************************************************)
(* Why they hold: what is known of the list after each part of main().     *)
(***************************************************************************)
SelectionTypes ==
  /\ TypeOK
  /\ clusterIDs \in Seq(Tokens)
  /\ list \in Lists

Ahead(from) ==
  CASE from = "resolve"  -> Phases \ {"read"}
    [] from = "topology" -> Phases \ {"read", "resolve"}
    [] from = "owner"    -> {"owner", "sector", "name", "done"}
    [] from = "sector"   -> {"sector", "name", "done"}
    [] from = "name"     -> {"name", "done"}

Once(ids) ==
  \A i, k \in DOMAIN ids : ids[i].cluster = ids[k].cluster => i = k

\* The shards are read once, after the list and the fleet.
Started == phase \notin Ahead("owner") => discovered = {}

\* The list is the file's until it is resolved, and internal ids afterwards,
\* once each when it was resolved.
Resolved ==
  /\ phase = "resolve" => clusterIDs = [i \in DOMAIN list |-> TokenOf(list[i])]
  /\ phase \in Ahead("topology") =>
       /\ \A t \in ToSet(clusterIDs) : t.id
       /\ (\E i \in DOMAIN list : ~list[i].id) => Once(clusterIDs)

\* Nothing is added to the list of a file, and the shards narrow it.
Narrowed ==
  list # <<>> =>
    /\ Chosen \subseteq {list[i].cluster : i \in DOMAIN list}
    /\ phase \in Ahead("owner") /\ flags.byHive => Chosen \subseteq discovered

\* The filters that have run hold when every lookup is answered.
Filtered ==
  ~outage =>
    /\ phase \in Ahead("owner") \union {"discover"} => topology = "full"
    /\ phase \in Ahead("sector") /\ flags.owner => Chosen \subseteq Owned
    /\ phase \in Ahead("name") /\ flags.sector \in Sectors =>
         \A c \in Chosen : c # Stranger /\ SectorOf[c] = flags.sector

\* Names are kept for the named lines of the file and for what the shards
\* list, and after the filter no name that matches is left.
Named ==
  /\ phase \in Ahead("resolve") =>
       \A i \in DOMAIN list : list[i].named => TokenOf(list[i]) \in named
  /\ \A c \in discovered : Internal(c) \in named
  /\ phase = "done" /\ flags.exclude =>
       \A t \in ToSet(clusterIDs) : t \notin Excluded

SelectionInv ==
  SelectionTypes /\ Started /\ Resolved /\ Narrowed /\ Filtered /\ Named
=============================================================================
