--------------------------- MODULE SelectionProofs ---------------------------
(***************************************************************************)
(* Theorems about ClusterSelection, for every fleet, every cluster list    *)
(* and every combination of flags and failing lookups, and about           *)
(* Promotion, for every set of SAAS files, whichever of them can be read.  *)
(* Both pick elements out of lists by their places; the lemmas about that  *)
(* are shared.                                                             *)
(***************************************************************************)
EXTENDS ClusterSelection, Promotion, SumTheorems

(***************************************************************************)
(* The places of a list, in their order.                                   *)
(***************************************************************************)
\* f goes through the numbers of S from the smallest to the largest.
Ordered(f, S) ==
  /\ f \in [1..Cardinality(S) -> S]
  /\ \A i, k \in 1..Cardinality(S) : i < k => f[i] < f[k]

\* The places of a list of any length can be gone through in their order
\* (main.go: the loops over clusterIDs).
LEMMA OrderExists ==
  ASSUME NEW n \in Nat, NEW S \in SUBSET (1..n)
  PROVE  IsFiniteSet(S) /\ \E f : Ordered(f, S)
<1> DEFINE Good == {m \in Nat : \A s \in SUBSET (1..m) :
                      IsFiniteSet(s) /\ \E f : Ordered(f, s)}
<1>1. 0 \in Good
  <2>1. \A s \in SUBSET (1..0) : s = {}
    OBVIOUS
  <2>2. IsFiniteSet({}) /\ Cardinality({}) = 0
    BY FS_EmptySet
  <2>3. Ordered([i \in {} |-> i], {})
    BY <2>2 DEF Ordered
  <2> QED
    BY <2>1, <2>2, <2>3
<1>2. \A m \in Nat : m \in Good => m + 1 \in Good
  <2> SUFFICES ASSUME NEW m \in Nat, m \in Good,
                      NEW s \in SUBSET (1..(m + 1))
               PROVE  IsFiniteSet(s) /\ \E f : Ordered(f, s)
    OBVIOUS
  <2>1. CASE m + 1 \notin s
    <3>1. s \in SUBSET (1..m)
      BY <2>1
    <3> QED
      BY <3>1
  <2>2. CASE m + 1 \in s
    <3> DEFINE r == s \ {m + 1}
               c == Cardinality(r)
    <3>1. r \in SUBSET (1..m) /\ s = r \union {m + 1} /\ m + 1 \notin r
      BY <2>2
    <3>2. IsFiniteSet(r) /\ \E f : Ordered(f, r)
      BY <3>1
    <3>3. PICK f : Ordered(f, r)
      BY <3>2
    <3> HIDE DEF Good, r
    <3>4. c \in Nat /\ IsFiniteSet(s) /\ Cardinality(s) = c + 1
      BY <3>1, <3>2, FS_CardinalityType, FS_AddElement
    <3>5. f \in [1..c -> r] /\ \A i, k \in 1..c : i < k => f[i] < f[k]
      BY <3>3 DEF Ordered
    <3> HIDE DEF c
    <3> DEFINE g == [i \in 1..(c + 1) |-> IF i = c + 1 THEN m + 1 ELSE f[i]]
    <3>6. \A i \in 1..c : g[i] = f[i] /\ f[i] \in r /\ f[i] < m + 1
      <4> SUFFICES ASSUME NEW i \in 1..c
                   PROVE  g[i] = f[i] /\ f[i] \in r /\ f[i] < m + 1
        OBVIOUS
      <4>1. i \in 1..(c + 1) /\ i # c + 1
        BY <3>4
      <4>2. f[i] \in r /\ f[i] \in 1..m
        BY <3>1, <3>5
      <4> QED
        BY <4>1, <4>2
    <3>7. g[c + 1] = m + 1
      BY <3>4
    <3>8. g \in [1..(c + 1) -> s]
      BY <3>1, <3>4, <3>5
    <3> HIDE DEF g
    <3>9. \A i, k \in 1..(c + 1) : i < k => g[i] < g[k]
      <4> SUFFICES ASSUME NEW i \in 1..(c + 1), NEW k \in 1..(c + 1), i < k
                   PROVE  g[i] < g[k]
        OBVIOUS
      <4>1. i \in 1..c
        BY <3>4
      <4>2. CASE k = c + 1
        BY <3>6, <3>7, <4>1, <4>2
      <4>3. CASE k # c + 1
        <5>1. k \in 1..c
          BY <3>4, <4>3
        <5> QED
          BY <3>5, <3>6, <4>1, <5>1
      <4> QED
        BY <4>2, <4>3
    <3>10. Ordered(g, s)
      BY <3>4, <3>8, <3>9 DEF Ordered
    <3> QED
      BY <3>4, <3>10
  <2> QED
    BY <2>1, <2>2
<1>3. n \in Good
  <2> HIDE DEF Good
  <2> QED
    BY <1>1, <1>2, SetInduction
<1> QED
  BY <1>3

\* The chosen order is one (main.go: the loops over clusterIDs).
LEMMA InOrderIsOrdered ==
  ASSUME NEW n \in Nat, NEW S \in SUBSET (1..n)
  PROVE  Ordered(InOrder(S), S) /\ Cardinality(S) \in Nat
<1>1. IsFiniteSet(S) /\ Cardinality(S) \in Nat
  BY OrderExists, FS_CardinalityType
<1>2. PICK f : Ordered(f, S)
  BY OrderExists
<1>3. /\ f \in [1..Cardinality(S) -> S]
      /\ \A i, k \in DOMAIN f : i < k => f[i] < f[k]
  BY <1>2 DEF Ordered
<1>4. /\ InOrder(S) \in [1..Cardinality(S) -> S]
      /\ \A i, k \in DOMAIN InOrder(S) :
           i < k => InOrder(S)[i] < InOrder(S)[k]
  BY <1>3 DEF InOrder
<1> QED
  BY <1>1, <1>4 DEF Ordered

\* What is at some places of a list of identifiers is a list of them, each from
\* a place of its own (main.go: the filters of clusterIDs).
LEMMA AtPlaces ==
  ASSUME NEW T, NEW ids \in Seq(T), NEW places \in SUBSET DOMAIN ids
  PROVE  /\ At(ids, places) \in Seq(T)
         /\ \A k \in DOMAIN At(ids, places) :
              /\ InOrder(places)[k] \in places
              /\ At(ids, places)[k] = ids[InOrder(places)[k]]
         /\ \A i, k \in DOMAIN At(ids, places) :
              InOrder(places)[i] = InOrder(places)[k] => i = k
<1> DEFINE n == Len(ids)
           c == Cardinality(places)
           f == InOrder(places)
<1>1. n \in Nat /\ DOMAIN ids = 1..n /\ ids \in [1..n -> T]
  OBVIOUS
<1>2. Ordered(f, places) /\ c \in Nat
  BY <1>1, InOrderIsOrdered
<1>3. /\ f \in [1..c -> places]
      /\ \A i, k \in 1..c : i < k => f[i] < f[k]
  BY <1>2 DEF Ordered
<1>4. At(ids, places) = [k \in 1..c |-> ids[f[k]]]
  BY DEF At
<1> HIDE DEF n, c, f
<1>5. \A k \in 1..c : f[k] \in places /\ f[k] \in Nat /\ ids[f[k]] \in T
  <2>1. \A x \in places : x \in Nat /\ ids[x] \in T
    BY <1>1
  <2> QED
    BY <1>3, <2>1
<1>6. At(ids, places) \in Seq(T) /\ DOMAIN At(ids, places) = 1..c
  BY <1>2, <1>4, <1>5
<1>7. \A i, k \in 1..c : f[i] = f[k] => i = k
  <2> SUFFICES ASSUME NEW i \in 1..c, NEW k \in 1..c, f[i] = f[k]
               PROVE  i = k
    OBVIOUS
  <2>1. i \in Nat /\ k \in Nat /\ (i < k \/ k < i \/ i = k)
    BY <1>2
  <2> QED
    BY <1>3, <1>5, <2>1
<1> QED
  BY <1>4, <1>5, <1>6, <1>7 DEF f
\* A finite set of clusters can be made a list (hive.go: the clusters of the
\* shards).
LEMMA SetIsList ==
  ASSUME NEW S, IsFiniteSet(S)
  PROVE  /\ SetToSeq(S) \in Seq(S)
         /\ ToSet(SetToSeq(S)) \subseteq S
<1> DEFINE n == Cardinality(S)
<1>1. n \in Nat /\ ExistsBijection(1..n, S)
  BY FS_CardinalityType
<1>2. PICK f : f \in Bijection(1..n, S)
  BY <1>1 DEF ExistsBijection
<1>3. f \in [1..n -> S] /\ IsInjective(f)
  BY <1>2 DEF Bijection, Injection, IsInjective
<1>4. SetToSeq(S) \in [1..n -> S]
  BY <1>3 DEF SetToSeq
<1> HIDE DEF n
<1>5. SetToSeq(S) \in Seq(S)
  BY <1>1, <1>4
<1> QED
  BY <1>4, <1>5 DEF ToSet

\* A list of identifiers that holds no other ones than the list did, and no
\* cluster twice if the list did not.
NarrowerThan(ids, new) ==
  /\ new \in Seq(Tokens)
  /\ ToSet(new) \subseteq ToSet(ids)
  /\ Once(ids) => Once(new)

\* The identifiers at some places of a list are a narrower list (main.go: the
\* filters of clusterIDs).
LEMMA AtNarrows ==
  ASSUME NEW ids \in Seq(Tokens), NEW places \in SUBSET DOMAIN ids
  PROVE  /\ NarrowerThan(ids, At(ids, places))
         /\ \A t \in ToSet(At(ids, places)) : \E i \in places : t = ids[i]
<1>1. /\ At(ids, places) \in Seq(Tokens)
      /\ \A k \in DOMAIN At(ids, places) :
           /\ InOrder(places)[k] \in places
           /\ At(ids, places)[k] = ids[InOrder(places)[k]]
      /\ \A i, k \in DOMAIN At(ids, places) :
           InOrder(places)[i] = InOrder(places)[k] => i = k
  BY AtPlaces
<1> DEFINE new == At(ids, places)
           f == InOrder(places)
<1> HIDE DEF new, f
<1>2. Once(ids) => Once(new)
  BY <1>1 DEF Once, new, f
<1>3. \A t \in ToSet(new) : \E i \in places : t = ids[i]
  BY <1>1 DEF ToSet, new, f
<1>4. ToSet(new) \subseteq ToSet(ids)
  BY <1>3 DEF ToSet
<1> QED
  BY <1>1, <1>2, <1>3, <1>4 DEF NarrowerThan, new

\* A filter leaves identifiers that are wanted and were there (main.go: the
\* filters of clusterIDs).
LEMMA KeepNarrows ==
  ASSUME SelectionTypes, NEW wanted
  PROVE  /\ NarrowerThan(clusterIDs, Keep(wanted))
         /\ ToSet(Keep(wanted)) \subseteq wanted
<1> DEFINE places == {i \in DOMAIN clusterIDs : clusterIDs[i] \in wanted}
<1>1. clusterIDs \in Seq(Tokens) /\ places \in SUBSET DOMAIN clusterIDs
  BY DEF SelectionTypes
<1>2. /\ NarrowerThan(clusterIDs, At(clusterIDs, places))
      /\ \A t \in ToSet(At(clusterIDs, places)) :
           \E i \in places : t = clusterIDs[i]
  <2> HIDE DEF places
  <2> QED
    BY <1>1, AtNarrows
<1> QED
  BY <1>2 DEF Keep

\* No filter makes a list longer or adds a cluster (main.go: the filters of
\* clusterIDs).
LEMMA NarrowKeeps ==
  ASSUME SelectionInv, NarrowerThan(clusterIDs, clusterIDs'),
         UNCHANGED <<kept, discovered>>, phase' \in Phases, phase' # "resolve",
         phase \in Ahead("topology"),
         phase' \in Ahead("owner") =>
           \/ phase \in Ahead("owner")
           \/ list # <<>> /\ flags.byHive => Chosen' \subseteq discovered
  PROVE  /\ Chosen' \subseteq Chosen
         /\ ToSet(clusterIDs') \subseteq Tokens /\ clusterIDs' \in Seq(Tokens)
         /\ Resolved' /\ Narrowed'
<1>1. ToSet(clusterIDs') \subseteq ToSet(clusterIDs)
  BY DEF NarrowerThan
<1>2. Chosen' \subseteq Chosen
  BY <1>1 DEF Chosen
<1>3. Resolved'
  BY <1>1 DEF SelectionInv, Resolved, NarrowerThan, kept
<1>4. Narrowed'
  BY <1>2 DEF SelectionInv, Narrowed, kept
<1> QED
  BY <1>1, <1>2, <1>3, <1>4
  DEF SelectionInv, SelectionTypes, TypeOK, NarrowerThan
\* After resolution a list holds internal ids only, each once, of clusters it
\* named before (main.go: the `seen` map of resolvedIDs).
LEMMA FirstsAreOnce ==
  ASSUME NEW ids \in Seq(Tokens)
  PROVE  /\ FirstOfEach(ids) \in Seq(Tokens)
         /\ \A t \in ToSet(FirstOfEach(ids)) :
              t.id /\ \E i \in DOMAIN ids : t.cluster = ids[i].cluster
         /\ Once(FirstOfEach(ids))
<1> DEFINE all == Internals(ids)
           firsts == {i \in DOMAIN ids : \A k \in 1..(i - 1) :
                        ids[k].cluster # ids[i].cluster}
<1>1. /\ all \in Seq(Tokens) /\ DOMAIN all = DOMAIN ids
      /\ \A i \in DOMAIN ids : all[i].id /\ all[i].cluster = ids[i].cluster
  <2>1. \A i \in DOMAIN ids : ids[i] \in Tokens
    OBVIOUS
  <2>2. \A i \in DOMAIN ids :
          /\ Internal(ids[i].cluster) \in Tokens
          /\ Internal(ids[i].cluster).id
          /\ Internal(ids[i].cluster).cluster = ids[i].cluster
    BY <2>1 DEF Internal, Tokens
  <2> QED
    BY <2>2 DEF Internals
<1>2. firsts \in SUBSET DOMAIN all
  BY <1>1
<1>3. \A i, k \in firsts : ids[i].cluster = ids[k].cluster => i = k
  <2> SUFFICES ASSUME NEW i \in firsts, NEW k \in firsts,
                      ids[i].cluster = ids[k].cluster
               PROVE  i = k
    OBVIOUS
  <2>1. i \in Nat /\ k \in Nat /\ i >= 1 /\ k >= 1
    OBVIOUS
  <2>2. ~(i < k)
    <3>1. i < k => i \in 1..(k - 1)
      BY <2>1
    <3> QED
      BY <3>1
  <2>3. ~(k < i)
    <3>1. k < i => k \in 1..(i - 1)
      BY <2>1
    <3> QED
      BY <3>1
  <2> QED
    BY <2>1, <2>2, <2>3
<1>4. FirstOfEach(ids) = At(all, firsts)
  BY DEF FirstOfEach
<1> HIDE DEF all, firsts
<1>5. /\ At(all, firsts) \in Seq(Tokens)
      /\ \A k \in DOMAIN At(all, firsts) :
           /\ InOrder(firsts)[k] \in firsts
           /\ At(all, firsts)[k] = all[InOrder(firsts)[k]]
      /\ \A i, k \in DOMAIN At(all, firsts) :
           InOrder(firsts)[i] = InOrder(firsts)[k] => i = k
  BY <1>1, <1>2, AtPlaces
<1>6. \A k \in DOMAIN At(all, firsts) :
        /\ InOrder(firsts)[k] \in DOMAIN ids
        /\ At(all, firsts)[k].id
        /\ At(all, firsts)[k].cluster = ids[InOrder(firsts)[k]].cluster
  BY <1>1, <1>2, <1>5
<1>7. Once(At(all, firsts))
  BY <1>3, <1>5, <1>6 DEF Once
<1> QED
  BY <1>4, <1>5, <1>6, <1>7 DEF ToSet

-----------------------------------------------------------------------------
(***************************************************************************)
(* The parts of main().                                                    *)
(***************************************************************************)
\* The internal id of a cluster is an identifier of it (main.go: the keys of
\* clusterNames).
LEMMA InternalIsToken ==
  ASSUME NEW c \in Clusters
  PROVE  Internal(c) \in Tokens /\ Internal(c).id /\ Internal(c).cluster = c
BY DEF Internal, Tokens

\* The identifiers are the first fields of the lines (main.go:
\* readClusterList).
LEMMA ReadKeeps ==
  ASSUME SelectionInv, ReadClusterList
  PROVE  SelectionInv'
<1> DEFINE Lines == [id : BOOLEAN, cluster : Clusters \union {Stranger},
                     named : BOOLEAN]
<1>1. list \in Seq(Lines) /\ list' = list /\ phase' = "resolve"
  BY SelectionAssumption
  DEF SelectionInv, SelectionTypes, ReadClusterList, kept
<1>2. \A i \in DOMAIN list : /\ TokenOf(list[i]) \in Tokens
                             /\ TokenOf(list[i]).cluster = list[i].cluster
  <2>1. \A i \in DOMAIN list : list[i] \in Lines
    <3> HIDE DEF Lines
    <3> QED
      BY <1>1
  <2> QED
    BY <2>1 DEF TokenOf, Tokens
<1>3. clusterIDs' = [i \in DOMAIN list |-> TokenOf(list[i])]
  BY DEF ReadClusterList
<1>4. clusterIDs' \in Seq(Tokens)
  BY <1>1, <1>2, <1>3
<1>5. SelectionTypes'
  <2>1. ToSet(clusterIDs') \subseteq Tokens
    BY <1>2, <1>3 DEF ToSet
  <2>2. named' \subseteq Tokens
    BY <1>2 DEF ReadClusterList
  <2> QED
    BY <1>1, <1>4, <2>1, <2>2
    DEF SelectionInv, SelectionTypes, TypeOK, Phases, ReadClusterList, kept
<1>6. Resolved'
  BY <1>1, <1>3 DEF Resolved, Ahead, Phases
<1>7. Narrowed'
  BY <1>1, <1>2, <1>3 DEF Narrowed, Chosen, ToSet, Ahead
<1>8. Filtered'
  BY <1>1 DEF Filtered, Ahead
<1>9. Named'
  <2>1. discovered = {} /\ discovered' = {}
    BY DEF SelectionInv, Started, ReadClusterList, Ahead
  <2> QED
    BY <1>1, <2>1 DEF Named, ReadClusterList
<1>10. Started'
  BY DEF SelectionInv, Started, ReadClusterList, Ahead
<1> QED
  BY <1>5, <1>6, <1>7, <1>8, <1>9, <1>10 DEF SelectionInv
\* A list that holds nothing but internal ids stays; any other one is resolved
\* as a whole (main.go: "Resolve cluster IDs").
LEMMA ResolveKeeps ==
  ASSUME SelectionInv, ResolveIDs
  PROVE  SelectionInv'
<1>1. /\ clusterIDs \in Seq(Tokens)
      /\ clusterIDs = [i \in DOMAIN list |-> TokenOf(list[i])]
      /\ phase = "resolve" /\ phase' = "topology"
      /\ UNCHANGED <<list, flags, outage, named, topology, discovered>>
  BY DEF SelectionInv, SelectionTypes, Resolved, ResolveIDs, kept
<1>2. \A i \in DOMAIN list : clusterIDs[i].id = list[i].id
  BY <1>1 DEF TokenOf
<1>3. /\ clusterIDs' \in Seq(Tokens)
      /\ \A t \in ToSet(clusterIDs') : t.id
      /\ Chosen' \subseteq Chosen
      /\ (\E i \in DOMAIN list : ~list[i].id) => Once(clusterIDs')
  <2>1. CASE ~NeedsResolve
    <3>1. clusterIDs' = clusterIDs
      BY <2>1 DEF ResolveIDs
    <3>2. \A i \in DOMAIN clusterIDs : clusterIDs[i].id
      BY <2>1 DEF NeedsResolve
    <3> QED
      BY <1>1, <1>2, <3>1, <3>2 DEF ToSet, Chosen
  <2>2. CASE NeedsResolve
    <3>1. PICK lost : /\ lost \subseteq DOMAIN clusterIDs
                      /\ clusterIDs' =
                           FirstOfEach(
                             At(clusterIDs, DOMAIN clusterIDs \ lost))
      BY <2>2 DEF ResolveIDs
    <3> DEFINE left == DOMAIN clusterIDs \ lost
               ids == At(clusterIDs, left)
    <3>2. /\ ids \in Seq(Tokens) /\ ToSet(ids) \subseteq ToSet(clusterIDs)
      <4>1. left \in SUBSET DOMAIN clusterIDs
        OBVIOUS
      <4> HIDE DEF left
      <4> QED
        BY <1>1, <4>1, AtNarrows DEF NarrowerThan
    <3> HIDE DEF ids
    <3>3. /\ FirstOfEach(ids) \in Seq(Tokens)
          /\ \A t \in ToSet(FirstOfEach(ids)) :
               t.id /\ \E i \in DOMAIN ids : t.cluster = ids[i].cluster
          /\ Once(FirstOfEach(ids))
      BY <3>2, FirstsAreOnce
    <3>4. clusterIDs' = FirstOfEach(ids)
      BY <3>1 DEF ids
    <3>5. Chosen' \subseteq Chosen
      <4>1. \A i \in DOMAIN ids : ids[i] \in ToSet(clusterIDs)
        BY <3>2 DEF ToSet
      <4> QED
        BY <3>3, <3>4, <4>1 DEF Chosen
    <3> QED
      BY <3>3, <3>4, <3>5
  <2> QED
    BY <2>1, <2>2
<1>4. SelectionTypes'
  <2>1. ToSet(clusterIDs') \subseteq Tokens
    BY <1>3 DEF ToSet
  <2> QED
    BY <1>1, <1>3, <2>1 DEF SelectionInv, SelectionTypes, TypeOK, Phases
<1>5. Resolved'
  BY <1>1, <1>3 DEF Resolved
<1>6. Narrowed' /\ Filtered' /\ Started'
  BY <1>1, <1>3 DEF SelectionInv, Narrowed, Filtered, Started, Ahead
<1>7. Named'
  BY <1>1 DEF SelectionInv, Named, Ahead, Phases
<1> QED
  BY <1>4, <1>5, <1>6, <1>7 DEF SelectionInv

\* Without an outage the fleet is indexed (topology.go: FetchTopology).
LEMMA TopologyKeeps ==
  ASSUME SelectionInv, FetchTopology
  PROVE  SelectionInv'
<1>1. /\ phase = "topology" /\ phase' \in {"discover", "owner"}
      /\ flags.byHive => phase' = "discover"
      /\ UNCHANGED <<list, flags, outage, clusterIDs, named, discovered>>
      /\ topology' \in {"nil", "bare", "full"}
      /\ ~outage => topology' = "full"
  BY DEF FetchTopology, kept
<1>2. SelectionTypes'
  BY <1>1 DEF SelectionInv, SelectionTypes, TypeOK, Phases
<1>3. Resolved'
  BY <1>1 DEF SelectionInv, Resolved, Ahead, Phases
<1>4. Narrowed' /\ Filtered' /\ Started'
  BY <1>1
  DEF SelectionInv, Narrowed, Filtered, Started, Ahead, Chosen
<1>5. Named'
  BY <1>1 DEF SelectionInv, Named, Ahead, Phases, Excluded
<1> QED
  BY <1>2, <1>3, <1>4, <1>5 DEF SelectionInv

\* What the shards change besides the list: their clusters have a name
\* (main.go: clusterNames).
LEMMA DiscoverRest ==
  ASSUME SelectionInv, DiscoverFromHives, clusterIDs' \in Seq(Tokens),
         ToSet(clusterIDs') \subseteq {Internal(c) : c \in discovered'},
         Resolved', Narrowed'
  PROVE  SelectionInv'
<1>1. /\ phase = "discover" /\ phase' = "owner"
      /\ UNCHANGED <<kept, topology>>
      /\ discovered' \subseteq Clusters
      /\ named' = named \union {Internal(c) : c \in discovered'}
  BY DEF DiscoverFromHives, NamesWithShards
<1>2. {Internal(c) : c \in discovered'} \subseteq Tokens
  BY <1>1, InternalIsToken
<1>3. SelectionTypes'
  BY <1>1, <1>2 DEF SelectionInv, SelectionTypes, TypeOK, Phases, kept
<1>4. Filtered' /\ Started'
  BY <1>1 DEF SelectionInv, Filtered, Started, Ahead, kept
<1>5. Named'
  BY <1>1 DEF SelectionInv, Named, Ahead, Phases, kept
<1> QED
  BY <1>3, <1>4, <1>5 DEF SelectionInv

\* The shards give the list, or narrow the list of the file (hive.go; main.go:
\* discoveredIDs).
LEMMA DiscoverKeeps ==
  ASSUME SelectionInv, DiscoverFromHives
  PROVE  SelectionInv'
<1>1. /\ phase = "discover" /\ phase' = "owner"
      /\ UNCHANGED <<kept, topology>>
      /\ discovered' \subseteq Clusters
      /\ clusterIDs' = DiscoveredIDs(discovered')
      /\ named' = named \union {Internal(c) : c \in discovered'}
  BY DEF DiscoverFromHives, NamesWithShards
<1> DEFINE internal == {Internal(c) : c \in discovered'}
<1>2. /\ internal \subseteq Tokens
      /\ \A t \in internal : t.id /\ t.cluster \in discovered'
  <2>1. \A c \in discovered' :
          Internal(c) \in Tokens /\ Internal(c).id /\ Internal(c).cluster = c
    BY <1>1, InternalIsToken
  <2> QED
    BY <2>1
<1>3. CASE list # <<>>
  <2>1. /\ NarrowerThan(clusterIDs, clusterIDs')
        /\ ToSet(clusterIDs') \subseteq internal
    BY <1>1, <1>3, KeepNarrows DEF SelectionInv, DiscoveredIDs
  <2>2. Chosen' \subseteq Chosen
    BY <2>1 DEF NarrowerThan, Chosen
  <2>3. Chosen' \subseteq discovered'
    BY <1>2, <2>1 DEF Chosen
  <2>4. Resolved'
    BY <1>1, <2>1
    DEF SelectionInv, Resolved, NarrowerThan, kept, Ahead, Phases
  <2>5. Narrowed'
    BY <1>1, <2>2, <2>3 DEF SelectionInv, Narrowed, kept
  <2> QED
    BY <2>1, <2>4, <2>5, DiscoverRest, <1>2 DEF NarrowerThan
<1>4. CASE list = <<>>
  <2>1. IsFiniteSet(internal)
    <3>1. IsFiniteSet(discovered')
      BY <1>1, SelectionAssumption, FS_Subset
    <3> DEFINE f == [c \in discovered' |-> Internal(c)]
    <3>2. f \in Surjection(discovered', internal)
      BY DEF Surjection
    <3> HIDE DEF f, internal
    <3> QED
      BY <3>1, <3>2, FS_Surjection
  <2>2. clusterIDs' \in Seq(internal) /\ ToSet(clusterIDs') \subseteq internal
    <3>1. clusterIDs' = SetToSeq(internal)
      BY <1>1, <1>4 DEF DiscoveredIDs
    <3> HIDE DEF internal
    <3> QED
      BY <2>1, <3>1, SetIsList
  <2>3. clusterIDs' \in Seq(Tokens)
    <3> HIDE DEF internal
    <3> QED
      BY <1>2, <2>2
  <2>4. Resolved'
    BY <1>1, <1>2, <1>4, <2>2 DEF Resolved, kept
  <2>5. Narrowed'
    BY <1>1, <1>4 DEF Narrowed, kept
  <2> QED
    BY <1>2, <2>2, <2>3, <2>4, <2>5, DiscoverRest
<1> QED
  BY <1>3, <1>4
\* What a filter leaves of a list is typed, resolved and narrowed as the list
\* was (main.go: the filters of clusterIDs).
LEMMA FilterKeeps ==
  ASSUME SelectionInv, phase \in Ahead("owner") \ {"done"},
         phase' \in Ahead("sector"),
         NarrowerThan(clusterIDs, clusterIDs'),
         UNCHANGED <<kept, named, topology, discovered>>
  PROVE  /\ SelectionTypes' /\ Started' /\ Resolved' /\ Narrowed'
         /\ Chosen' \subseteq Chosen
         /\ ToSet(clusterIDs') \subseteq ToSet(clusterIDs)
<1>1. /\ phase' \in Phases /\ phase' # "resolve" /\ phase \in Ahead("topology")
      /\ phase' \in Ahead("owner")
  BY DEF Ahead, Phases
<1>2. /\ Chosen' \subseteq Chosen
      /\ ToSet(clusterIDs') \subseteq Tokens /\ clusterIDs' \in Seq(Tokens)
      /\ Resolved' /\ Narrowed'
  BY <1>1, NarrowKeeps
<1>3. SelectionTypes' /\ Started'
  BY <1>1, <1>2
  DEF SelectionInv, SelectionTypes, TypeOK, Started, kept
<1> QED
  BY <1>2, <1>3 DEF NarrowerThan

\* A list that no filter touches is as narrow as it was.
LEMMA SameIsNarrow ==
  ASSUME SelectionInv
  PROVE  NarrowerThan(clusterIDs, clusterIDs)
BY DEF NarrowerThan, SelectionInv, SelectionTypes

\* The filter by owner (ocm.go: FilterByOwnerDomain).
LEMMA OwnerKeeps ==
  ASSUME SelectionInv, OwnerFilter
  PROVE  SelectionInv'
<1> DEFINE owned == {t \in Tokens : t.cluster \in Owned}
<1>1. /\ phase = "owner" /\ phase' = "sector"
      /\ UNCHANGED <<kept, named, topology, discovered>>
      /\ clusterIDs' = clusterIDs \/ clusterIDs' = Keep(owned)
      /\ flags.owner /\ ~outage => clusterIDs' = Keep(owned)
  BY DEF OwnerFilter
<1>2. /\ NarrowerThan(clusterIDs, Keep(owned))
      /\ ToSet(Keep(owned)) \subseteq owned
  BY KeepNarrows DEF SelectionInv
<1>3. NarrowerThan(clusterIDs, clusterIDs')
  BY <1>1, <1>2, SameIsNarrow
<1>4. /\ SelectionTypes' /\ Started' /\ Resolved' /\ Narrowed'
      /\ ToSet(clusterIDs') \subseteq ToSet(clusterIDs)
  BY <1>1, <1>3, FilterKeeps DEF Ahead
<1>5. flags.owner /\ ~outage => Chosen' \subseteq Owned
  BY <1>1, <1>2 DEF Chosen
<1>6. Filtered'
  BY <1>1, <1>5 DEF SelectionInv, Filtered, Ahead, kept
<1>7. Named'
  BY <1>1 DEF SelectionInv, Named, Ahead, Phases, kept
<1> QED
  BY <1>4, <1>6, <1>7 DEF SelectionInv

\* The filter by sector (main.go: sectorClusters, FilterBySector).
LEMMA SectorKeeps ==
  ASSUME SelectionInv, SectorFilter
  PROVE  SelectionInv'
<1>1. /\ phase = "sector" /\ phase' = "name"
      /\ UNCHANGED <<kept, named, topology, discovered>>
      /\ clusterIDs' = clusterIDs \/ clusterIDs' = Keep(InSector)
      /\ topology = "full" /\ flags.sector \in Sectors =>
           clusterIDs' = Keep(InSector)
  BY DEF SectorFilter
<1>2. /\ NarrowerThan(clusterIDs, Keep(InSector))
      /\ ToSet(Keep(InSector)) \subseteq InSector
  BY KeepNarrows DEF SelectionInv
<1>3. NarrowerThan(clusterIDs, clusterIDs')
  BY <1>1, <1>2, SameIsNarrow
<1>4. /\ SelectionTypes' /\ Started' /\ Resolved' /\ Narrowed'
      /\ Chosen' \subseteq Chosen
  BY <1>1, <1>3, FilterKeeps DEF Ahead
<1>5. ~outage => topology = "full"
  BY <1>1 DEF SelectionInv, Filtered, Ahead
<1>6. ~outage /\ flags.sector \in Sectors =>
        \A c \in Chosen' : c # Stranger /\ SectorOf[c] = flags.sector
  BY <1>1, <1>2, <1>5 DEF Chosen, InSector
<1>7. Filtered'
  BY <1>1, <1>4, <1>6 DEF SelectionInv, Filtered, Ahead, kept
<1>8. Named'
  BY <1>1 DEF SelectionInv, Named, Ahead, Phases, kept
<1> QED
  BY <1>4, <1>7, <1>8 DEF SelectionInv

\* The filter by name (main.go: excludeRe).
LEMMA NameKeeps ==
  ASSUME SelectionInv, NameFilter
  PROVE  SelectionInv'
<1> DEFINE rest == Tokens \ Excluded
<1>1. /\ phase = "name" /\ phase' = "done"
      /\ UNCHANGED <<kept, named, topology, discovered>>
      /\ clusterIDs' = clusterIDs \/ clusterIDs' = Keep(rest)
      /\ flags.exclude => clusterIDs' = Keep(rest)
  BY DEF NameFilter
<1>2. /\ NarrowerThan(clusterIDs, Keep(rest))
      /\ ToSet(Keep(rest)) \subseteq rest
  BY KeepNarrows DEF SelectionInv
<1>3. NarrowerThan(clusterIDs, clusterIDs')
  BY <1>1, <1>2, SameIsNarrow
<1>4. /\ SelectionTypes' /\ Started' /\ Resolved' /\ Narrowed'
      /\ Chosen' \subseteq Chosen
  BY <1>1, <1>3, FilterKeeps DEF Ahead
<1>5. Filtered'
  BY <1>1, <1>4 DEF SelectionInv, Filtered, Ahead, kept
<1>6. Excluded' = Excluded
  BY <1>1 DEF Excluded
<1>7. flags.exclude => \A t \in ToSet(clusterIDs') : t \notin Excluded
  BY <1>1, <1>2
<1>8. Named'
  BY <1>1, <1>6, <1>7 DEF SelectionInv, Named, Ahead, Phases, kept
<1> QED
  BY <1>4, <1>5, <1>8 DEF SelectionInv

\* No part of main() breaks what is known of the list.
LEMMA StepKeepsSelection == SelectionInv /\ [Next]_vars => SelectionInv'
<1> SUFFICES ASSUME SelectionInv, [Next]_vars
             PROVE  SelectionInv'
  OBVIOUS
<1>1. CASE UNCHANGED vars
  BY <1>1
  DEF vars, SelectionInv, SelectionTypes, TypeOK, Started, Resolved, Narrowed,
      Filtered, Named, Chosen, Excluded
<1> QED
  BY <1>1, ReadKeeps, ResolveKeeps, TopologyKeeps, DiscoverKeeps, OwnerKeeps,
     SectorKeeps, NameKeeps DEF Next

\* Before the file is read the list is empty.
LEMMA InitSelection == Init => SelectionInv
BY DEF Init, SelectionInv, SelectionTypes, TypeOK, Started, Resolved, Narrowed,
       Filtered, Named, Chosen, Excluded, Ahead, Phases, ToSet

\* What is known of the list holds throughout.
LEMMA SelectionInvariant == Spec => []SelectionInv
BY InitSelection, StepKeepsSelection, PTL DEF Spec

-----------------------------------------------------------------------------
(***************************************************************************)
(* The theorems.                                                           *)
(***************************************************************************)
\* The locals of main() that hold the selection keep their types (main.go:
\* clusterIDs, clusterNames, fleetTopo, discoveredIDs).
THEOREM SelectionTyped == Spec => []TypeOK
<1>1. SelectionInv => TypeOK
  BY DEF SelectionInv, SelectionTypes
<1> QED
  BY <1>1, SelectionInvariant, PTL

\* A run works on internal ids, and on no cluster twice when its list had to
\* be resolved, for lists of any length (main.go: resolvedIDs, `seen`).
THEOREM ResolvedIDs == Spec => []IDsAreResolved
<1>1. SelectionInv => IDsAreResolved
  BY DEF SelectionInv, Resolved, IDsAreResolved, OnlyInternalIDs, ResolvedOnce,
         Done, Once, Ahead, Phases
<1> QED
  BY <1>1, SelectionInvariant, PTL

\* A list and --by-hive together choose clusters of both only (main.go:
\* discoveredIDs).
THEOREM ListAndShards == Spec => []ListAndHive
<1>1. SelectionInv => ListAndHive
  BY DEF SelectionInv, Narrowed, ListAndHive, Done, Ahead
<1> QED
  BY <1>1, SelectionInvariant, PTL

\* The clusters of a run have the owner and the sector asked for when the
\* lookups are answered, and never an excluded name that was kept for them
\* (main.go: --owner-domain, --sector, --exclude).
THEOREM FiltersHold == Spec => []FiltersNarrow
<1>1. SelectionInv => FiltersHonoured
  BY DEF SelectionInv, Filtered, FiltersHonoured, Done, Ahead
<1>2. SelectionInv => ExcludedNeverChosen
  <2> SUFFICES ASSUME SelectionInv, Done, flags.exclude,
                      NEW c \in Chosen \intersect NameExcluded
               PROVE  /\ c \notin discovered
                      /\ \A i \in DOMAIN list : list[i].cluster = c =>
                           ~list[i].id \/ ~list[i].named
    BY DEF ExcludedNeverChosen
  <2>1. PICK t \in ToSet(clusterIDs) : t.cluster = c
    BY DEF Chosen
  <2>2. t \in Tokens /\ t.id /\ t \notin Excluded
    BY DEF SelectionInv, SelectionTypes, TypeOK, Resolved, Named, Done, Ahead,
           Phases
  <2>3. t = Internal(c)
    BY <2>1, <2>2 DEF Tokens, Internal
  <2>4. t \notin named
    BY <2>1, <2>2 DEF Excluded
  <2>5. c \notin discovered
    BY <2>3, <2>4 DEF SelectionInv, Named
  <2>6. ASSUME NEW i \in DOMAIN list, list[i].cluster = c, list[i].id,
               list[i].named
        PROVE  FALSE
    <3>1. TokenOf(list[i]) \in named
      BY <2>6 DEF SelectionInv, Named, Done, Ahead, Phases
    <3>2. list[i].id = TRUE
      <4>1. list \in Seq([id : BOOLEAN, cluster : Clusters \union {Stranger},
                          named : BOOLEAN])
        BY SelectionAssumption DEF SelectionInv, SelectionTypes
      <4> QED
        BY <2>6, <4>1
    <3>3. TokenOf(list[i]) = Internal(c)
      BY <2>6, <3>2 DEF TokenOf, Internal
    <3> QED
      BY <2>3, <2>4, <3>1, <3>3
  <2> QED
    BY <2>5, <2>6
<1> QED
  BY <1>1, <1>2, SelectionInvariant, PTL DEF FiltersNarrow

-----------------------------------------------------------------------------
(***************************************************************************)
(* Lists and their places.                                                 *)
(***************************************************************************)
\* A list is a list of its own elements (pipeline.go: the slices of names).
LEMMA ListOfItself ==
  ASSUME NEW S, NEW s \in Seq(S)
  PROVE  s \in Seq(ToSet(s)) /\ ToSet(s) \subseteq S
<1>1. s \in [1..Len(s) -> S] /\ Len(s) \in Nat /\ DOMAIN s = 1..Len(s)
  OBVIOUS
<1>2. \A i \in 1..Len(s) : s[i] \in ToSet(s) /\ s[i] \in S
  BY <1>1 DEF ToSet
<1>3. s \in [1..Len(s) -> ToSet(s)]
  BY <1>1, <1>2
<1>4. s \in Seq(ToSet(s))
  BY <1>1, <1>3
<1>5. ToSet(s) \subseteq S
  BY <1>1, <1>2 DEF ToSet
<1> QED
  BY <1>4, <1>5

\* Appending to a list adds one element after the others (pipeline.go: append).
LEMMA AppendAdds ==
  ASSUME NEW s, s \in Seq(ToSet(s)), NEW x
  PROVE  /\ Append(s, x) \in Seq(ToSet(Append(s, x)))
         /\ ToSet(Append(s, x)) = ToSet(s) \cup {x}
         /\ Len(Append(s, x)) = Len(s) + 1 /\ Len(s) \in Nat
         /\ \A i \in 1..Len(s) : Append(s, x)[i] = s[i]
         /\ Append(s, x)[Len(s) + 1] = x
<1> DEFINE T == ToSet(s) \cup {x}
           r == Append(s, x)
<1>1. s \in Seq(T) /\ x \in T
  <2>1. s \in [1..Len(s) -> ToSet(s)] /\ Len(s) \in Nat
    OBVIOUS
  <2>2. s \in [1..Len(s) -> T]
    BY <2>1
  <2> QED
    BY <2>1, <2>2
<1> HIDE DEF T
<1>2. /\ r \in Seq(T) /\ Len(r) = Len(s) + 1 /\ Len(s) \in Nat
      /\ DOMAIN r = 1..(Len(s) + 1) /\ DOMAIN s = 1..Len(s)
      /\ \A i \in 1..Len(s) : r[i] = s[i]
      /\ r[Len(s) + 1] = x
  BY <1>1
<1> HIDE DEF r
<1>3. ToSet(r) = ToSet(s) \cup {x}
  <2>1. \A i \in DOMAIN r : i \in DOMAIN s \/ i = Len(s) + 1
    BY <1>2
  <2>2. DOMAIN s \subseteq DOMAIN r /\ Len(s) + 1 \in DOMAIN r
    BY <1>2
  <2> QED
    BY <1>2, <2>1, <2>2 DEF ToSet
<1>4. r \in Seq(ToSet(r))
  BY <1>2, ListOfItself
<1> QED
  BY <1>2, <1>3, <1>4 DEF r

\* What follows the head of a list (pipeline.go: the loop over the levels).
LEMMA TailRest ==
  ASSUME NEW s, s \in Seq(ToSet(s)), s # <<>>
  PROVE  /\ Tail(s) \in Seq(ToSet(Tail(s)))
         /\ ToSet(Tail(s)) \subseteq ToSet(s)
         /\ Head(s) \in ToSet(s) /\ Head(s) = s[1] /\ 1 \in DOMAIN s
         /\ \A i \in DOMAIN Tail(s) :
              /\ i \in Nat /\ i >= 1 /\ i + 1 \in DOMAIN s
              /\ Tail(s)[i] = s[i + 1]
         /\ \A i \in DOMAIN s : i # 1 =>
              /\ i \in Nat /\ i - 1 \in DOMAIN Tail(s)
              /\ Tail(s)[i - 1] = s[i]
<1>1. /\ Len(s) \in Nat /\ Len(s) > 0 /\ DOMAIN s = 1..Len(s)
      /\ Tail(s) \in Seq(ToSet(s)) /\ Len(Tail(s)) = Len(s) - 1
      /\ DOMAIN Tail(s) = 1..(Len(s) - 1)
      /\ \A i \in 1..(Len(s) - 1) : Tail(s)[i] = s[i + 1]
      /\ Head(s) = s[1]
  OBVIOUS
<1>2. Tail(s) \in Seq(ToSet(Tail(s))) /\ ToSet(Tail(s)) \subseteq ToSet(s)
  BY <1>1, ListOfItself
<1>3. \A i \in DOMAIN Tail(s) :
        /\ i \in Nat /\ i >= 1 /\ i + 1 \in DOMAIN s
        /\ Tail(s)[i] = s[i + 1]
  BY <1>1
<1>4. \A i \in DOMAIN s : i # 1 =>
        /\ i \in Nat /\ i - 1 \in DOMAIN Tail(s)
        /\ Tail(s)[i - 1] = s[i]
  <2> SUFFICES ASSUME NEW i \in DOMAIN s, i # 1
               PROVE  /\ i \in Nat /\ i - 1 \in DOMAIN Tail(s)
                      /\ Tail(s)[i - 1] = s[i]
    OBVIOUS
  <2>1. i \in Nat /\ i - 1 \in 1..(Len(s) - 1) /\ (i - 1) + 1 = i
    BY <1>1
  <2> QED
    BY <1>1, <2>1
<1>5. 1 \in DOMAIN s /\ Head(s) \in ToSet(s)
  BY <1>1 DEF ToSet
<1> QED
  BY <1>1, <1>2, <1>3, <1>4, <1>5

\* Going through as many places as a set has elements, never an element twice,
\* meets all of them (pipeline.go: the loops over the groups of a level).
LEMMA EachIsMet ==
  ASSUME NEW S, IsFiniteSet(S), NEW f \in [1..Cardinality(S) -> S],
         \A i, k \in 1..Cardinality(S) : i < k => f[i] # f[k]
  PROVE  \A x \in S : \E i \in 1..Cardinality(S) : f[i] = x
<1> DEFINE c == Cardinality(S)
<1>1. c \in Nat
  BY FS_CardinalityType
<1>2. IsFiniteSet(1..c) /\ Cardinality(1..c) = c
  <2>1. 1 \in Int /\ c \in Int
    BY <1>1
  <2> HIDE DEF c
  <2>2. IsFiniteSet(1..c) /\ Cardinality(1..c) = IF 1 > c THEN 0 ELSE c - 1 + 1
    BY <2>1, FS_Interval
  <2> QED
    BY <1>1, <2>2
<1>3. \A i, k \in 1..c : f[i] = f[k] => i = k
  <2> SUFFICES ASSUME NEW i \in 1..c, NEW k \in 1..c, f[i] = f[k]
               PROVE  i = k
    OBVIOUS
  <2> HIDE DEF c
  <2>1. i \in Nat /\ k \in Nat /\ (i < k \/ k < i \/ i = k)
    BY <1>1
  <2> QED
    BY <2>1 DEF c
<1>4. f \in Injection(1..c, S)
  BY <1>3 DEF Injection, IsInjective
<1>5. f \in Surjection(1..c, S)
  <2>1. Cardinality(1..c) = Cardinality(S)
    BY <1>2
  <2> HIDE DEF c
  <2> QED
    BY <1>4, <2>1, FS_Injection
<1> QED
  BY <1>5 DEF Surjection

\* A filter finds all that there is at its places (pipeline.go and resolver.go:
\* the loops with a condition).
LEMMA AtHolds ==
  ASSUME NEW T, NEW s \in Seq(T), NEW places \in SUBSET DOMAIN s
  PROVE  /\ At(s, places) \in Seq(T)
         /\ ToSet(At(s, places)) = {s[i] : i \in places}
<1> DEFINE n == Len(s)
           c == Cardinality(places)
           f == InOrder(places)
           r == At(s, places)
<1>1. n \in Nat /\ DOMAIN s = 1..n
  OBVIOUS
<1>2. Ordered(f, places) /\ c \in Nat /\ IsFiniteSet(places)
  BY <1>1, InOrderIsOrdered, OrderExists
<1>3. r \in Seq(T) /\ \A k \in DOMAIN r : f[k] \in places /\ r[k] = s[f[k]]
  BY AtPlaces
<1>4. DOMAIN r = 1..c
  BY DEF At
<1>5. \A x \in places : \E k \in 1..c : f[k] = x
  <2>1. f \in [1..c -> places] /\ \A i, k \in 1..c : i < k => f[i] < f[k]
    BY <1>2 DEF Ordered
  <2>2. \A x \in places : x \in Nat
    BY <1>1
  <2>3. \A i, k \in 1..c : i < k => f[i] # f[k]
    <3> HIDE DEF c, f
    <3> QED
      BY <2>1, <2>2
  <2> HIDE DEF f
  <2> QED
    BY <1>2, <2>1, <2>3, EachIsMet
<1> HIDE DEF r, f, c
<1>6. \A i \in places : \E k \in DOMAIN r : r[k] = s[i]
  BY <1>3, <1>4, <1>5
<1>7. ToSet(r) = {s[i] : i \in places}
  BY <1>3, <1>6 DEF ToSet
<1> QED
  BY <1>3, <1>7 DEF r

\* A loop that finds something has a first and a last find (resolver.go:
\* matchTarget; pipeline.go: nodeByName).
LEMMA FirstAndLast ==
  ASSUME NEW n \in Nat, NEW S \in SUBSET (1..n), S # {}
  PROVE  /\ Min(S) \in S /\ \A y \in S : Min(S) <= y
         /\ Max(S) \in S /\ \A y \in S : y <= Max(S)
<1> DEFINE c == Cardinality(S)
           f == InOrder(S)
<1>1. Ordered(f, S) /\ c \in Nat /\ IsFiniteSet(S)
  BY InOrderIsOrdered, OrderExists
<1>2. f \in [1..c -> S] /\ \A i, k \in 1..c : i < k => f[i] < f[k]
  BY <1>1 DEF Ordered
<1>3. \A x \in S : x \in Nat
  OBVIOUS
<1>4. \A x \in S : \E i \in 1..c : f[i] = x
  <2>1. \A i, k \in 1..c : i < k => f[i] # f[k]
    <3> SUFFICES ASSUME NEW i \in 1..c, NEW k \in 1..c, i < k
                 PROVE  f[i] # f[k]
      OBVIOUS
    <3> HIDE DEF c, f
    <3>1. f[i] \in S /\ f[k] \in S /\ f[i] < f[k]
      BY <1>2
    <3>2. \A x, y \in Nat : x < y => x # y
      OBVIOUS
    <3> QED
      BY <1>3, <3>1, <3>2
  <2> HIDE DEF f
  <2> QED
    BY <1>1, <1>2, <2>1, EachIsMet
<1> HIDE DEF c, f
<1>5. 1 \in 1..c /\ c \in 1..c
  <2>1. PICK i \in 1..c : TRUE
    BY <1>4
  <2> QED
    BY <1>1, <2>1
<1>6. f[1] \in S /\ f[c] \in S
  BY <1>2, <1>5
<1>7. \A y \in S : f[1] <= y /\ y <= f[c]
  <2> SUFFICES ASSUME NEW y \in S
               PROVE  f[1] <= y /\ y <= f[c]
    OBVIOUS
  <2>1. PICK i \in 1..c : f[i] = y
    BY <1>4
  <2>2. (i = 1 \/ 1 < i) /\ (i = c \/ i < c)
    BY <1>1
  <2>3. y \in Nat /\ f[1] \in Nat /\ f[c] \in Nat
    BY <1>3, <1>6
  <2>4. f[1] <= f[i]
    BY <1>2, <1>5, <2>1, <2>2, <2>3
  <2>5. f[i] <= f[c]
    BY <1>2, <1>5, <2>1, <2>2, <2>3
  <2> QED
    BY <2>1, <2>4, <2>5
<1>8. Min(S) \in S /\ \A y \in S : Min(S) <= y
  BY <1>6, <1>7 DEF Min
<1>9. Max(S) \in S /\ \A y \in S : Max(S) >= y
  <2>1. \A y \in S : f[c] >= y
    BY <1>3, <1>6, <1>7
  <2> QED
    BY <1>6, <2>1 DEF Max
<1> QED
  BY <1>3, <1>8, <1>9

-----------------------------------------------------------------------------
(***************************************************************************)
(* The channels between targets.                                           *)
(***************************************************************************)
\* There are as many targets as names of nodes (pipeline.go: the pipeline's
\* Nodes).
LEMMA TargetsAreFinite ==
  ASSUME nodes \in Seq(ToSet(nodes))
  PROVE  /\ IsFiniteSet(Targets)
         /\ \A i \in DOMAIN nodes : nodes[i].name \in Targets
         /\ \A n \in Targets : \E i \in DOMAIN nodes : nodes[i].name = n
<1> DEFINE c == Len(nodes)
           f == [i \in 1..c |-> nodes[i].name]
<1>1. c \in Nat /\ DOMAIN nodes = 1..c
  OBVIOUS
<1>2. ToSet(nodes) = {nodes[i] : i \in 1..c}
  BY <1>1 DEF ToSet
<1> HIDE DEF c
<1>3. \A i \in 1..c : f[i] = nodes[i].name /\ nodes[i].name \in Targets
  BY <1>2 DEF Targets
<1>4. \A n \in Targets : \E i \in 1..c : f[i] = n
  BY <1>2 DEF Targets
<1>5. f \in Surjection(1..c, Targets)
  <2>1. f \in [1..c -> Targets]
    BY <1>3
  <2> HIDE DEF f
  <2> QED
    BY <1>4, <2>1 DEF Surjection
<1>6. IsFiniteSet(1..c)
  BY <1>1, FS_Interval
<1>7. IsFiniteSet(Targets)
  <2> HIDE DEF f
  <2> QED
    BY <1>5, <1>6, FS_Surjection
<1> QED
  BY <1>1, <1>3, <1>4, <1>7

\* S holds what waits for p, and what waits for one of S.
Follows(S, p) == \A e \in Edges : e[1] \in S \cup {p} => e[2] \in S

LEMMA ReachesIs ==
  ASSUME NEW p, NEW n
  PROVE  <<p, n>> \in Reaches <=>
           /\ p \in Targets /\ n \in Targets
           /\ \A S \in SUBSET Targets : Follows(S, p) => n \in S
BY DEF Reaches, Follows

\* One channel is a chain (pipeline.go: buildEdges).
LEMMA EdgeReaches ==
  ASSUME NEW p, NEW n, <<p, n>> \in Edges
  PROVE  <<p, n>> \in Reaches
<1>1. p \in Targets /\ n \in Targets
  BY DEF Edges
<1>2. \A S \in SUBSET Targets : Follows(S, p) => n \in S
  BY DEF Follows
<1> QED
  BY <1>1, <1>2, ReachesIs

\* Two chains make one (pipeline.go: buildStages).
LEMMA ReachesOn ==
  ASSUME NEW p, NEW m, NEW n, <<p, m>> \in Reaches, <<m, n>> \in Reaches
  PROVE  <<p, n>> \in Reaches
<1>1. /\ p \in Targets /\ n \in Targets
      /\ \A S \in SUBSET Targets : Follows(S, p) => m \in S
      /\ \A S \in SUBSET Targets : Follows(S, m) => n \in S
  BY ReachesIs
<1>2. ASSUME NEW S \in SUBSET Targets, Follows(S, p)
      PROVE  n \in S
  <2>1. m \in S
    BY <1>1, <1>2
  <2>2. Follows(S, m)
    BY <1>2, <2>1 DEF Follows
  <2> QED
    BY <1>1, <2>2
<1> QED
  BY <1>1, <1>2, ReachesIs

LEMMA TangledIs ==
  ASSUME NEW n
  PROVE  n \in Tangled <=>
           /\ n \in Targets
           /\ \E c \in Targets :
                <<c, c>> \in Reaches /\ (c = n \/ <<c, n>> \in Reaches)
BY DEF Tangled

\* Behind a target of a cycle everything is tangled (pipeline.go: the targets
\* left at the end).
LEMMA TangledOn ==
  ASSUME NEW m \in Tangled, NEW n, <<m, n>> \in Reaches
  PROVE  n \in Tangled
<1>1. PICK c \in Targets :
        <<c, c>> \in Reaches /\ (c = m \/ <<c, m>> \in Reaches)
  BY TangledIs
<1>2. <<c, n>> \in Reaches
  BY <1>1, ReachesOn
<1>3. n \in Targets
  BY ReachesIs
<1> QED
  BY <1>1, <1>2, <1>3, TangledIs

\* Where each of some targets waits for one of them, all are tangled: walking
\* back from one of them must come around (pipeline.go: what the waves leave).
LEMMA WaitersAreTangled ==
  ASSUME nodes \in Seq(ToSet(nodes)), NEW U \in SUBSET Targets,
         \A n \in U : \E p \in U : <<p, n>> \in Edges
  PROVE  U \subseteq Tangled
<1> DEFINE Behind(n) == {p \in U : <<p, n>> \in Reaches}
<1> SUFFICES ASSUME NEW n \in U
             PROVE  n \in Tangled
  OBVIOUS
<1> DEFINE W == {n} \cup Behind(n)
           All == {Behind(m) : m \in W}
<1>1. IsFiniteSet(U) /\ \A T \in SUBSET U : IsFiniteSet(T)
  BY TargetsAreFinite, FS_Subset
<1>2. All \subseteq FiniteSubsetsOf(U) /\ All # {}
  BY <1>1 DEF FiniteSubsetsOf
<1>3. IsWellFoundedOn(StrictSubsetOrdering(U), FiniteSubsetsOf(U))
  BY FS_StrictSubsetOrderingWellFounded
<1>4. PICK T \in All : \A R \in All : <<R, T>> \notin StrictSubsetOrdering(U)
  <2> HIDE DEF All
  <2> QED
    BY <1>2, <1>3, WFMin
<1>5. PICK m \in W : T = Behind(m)
  BY <1>4
<1>6. m \in U /\ (m = n \/ <<m, n>> \in Reaches)
  BY <1>5
<1>7. PICK p \in U : <<p, m>> \in Edges
  BY <1>6
<1>8. <<p, m>> \in Reaches
  BY <1>7, EdgeReaches
<1>9. <<p, n>> \in Reaches
  BY <1>6, <1>8, ReachesOn
<1>10. Behind(p) \subseteq Behind(m)
  BY <1>8, ReachesOn
<1>11. Behind(p) \in All
  BY <1>9
<1>12. Behind(p) = Behind(m)
  <2>1. <<Behind(p), Behind(m)>> \notin StrictSubsetOrdering(U)
    BY <1>4, <1>5, <1>11
  <2>2. Behind(p) \in SUBSET U /\ Behind(m) \in SUBSET U
    OBVIOUS
  <2> HIDE DEF Behind
  <2> QED
    BY <1>10, <2>1, <2>2 DEF StrictSubsetOrdering
<1>13. p \in Behind(p)
  BY <1>8, <1>12
<1>14. <<p, p>> \in Reaches
  BY <1>13
<1> QED
  BY <1>9, <1>14, TangledIs

\* The channels are those of the nodes (pipeline.go: buildEdges).
LEMMA SameNodes ==
  ASSUME nodes' = nodes
  PROVE  /\ Targets' = Targets /\ Edges' = Edges /\ Reaches' = Reaches
         /\ Tangled' = Tangled
         /\ \A n : DependsOn(n)' = DependsOn(n)
         /\ \A n : KindOf(n)' = KindOf(n)
<1>1. Targets' = Targets
  BY DEF Targets
<1>2. \A ch : Publisher(ch)' = Publisher(ch)
  BY DEF Publisher
<1>3. Edges' = Edges
  BY <1>1, <1>2 DEF Edges
<1>4. Reaches' = Reaches
  BY <1>1, <1>3 DEF Reaches
<1>5. Tangled' = Tangled
  BY <1>1, <1>4 DEF Tangled
<1>6. \A n : DependsOn(n)' = DependsOn(n)
  BY <1>1, <1>3 DEF DependsOn
<1>7. \A n : KindOf(n)' = KindOf(n)
  BY DEF KindOf, NodeOf
<1> QED
  BY <1>1, <1>3, <1>4, <1>5, <1>6, <1>7

-----------------------------------------------------------------------------
(***************************************************************************)
(* The target of a shard.                                                  *)
(***************************************************************************)
\* The targets of a file that are in force are a list (resolver.go:
\* fetchTargets).
LEMMA ActiveIsList ==
  ASSUME PromotionTypeOK, NEW m \in ToSet(Methods)
  PROVE  /\ Active(m) \in Seq(ToSet(Active(m)))
         /\ ToSet(Active(m)) \subseteq ToSet(files[m])
         /\ \A t \in ToSet(Active(m)) :
              t.hive \in DOMAIN HiveEnv \cup {NoShard}
<1> DEFINE s == files[m]
           places == {i \in DOMAIN s : ~s[i].off}
<1>1. /\ s \in Seq(ToSet(s))
      /\ \A t \in ToSet(s) : t.hive \in DOMAIN HiveEnv \cup {NoShard}
  BY PromotionAssumption DEF PromotionTypeOK
<1>2. Active(m) = At(s, places) /\ places \in SUBSET DOMAIN s
  BY DEF Active
<1> HIDE DEF s, places
<1>3. At(s, places) \in Seq(ToSet(s))
  BY <1>1, <1>2, AtHolds
<1> QED
  BY <1>1, <1>2, <1>3, ListOfItself DEF s

\* The shard's own target is the first answer of a file that has one
\* (resolver.go: matchTarget).
LEMMA OwnTargetMatches ==
  ASSUME NEW targets, targets \in Seq(ToSet(targets)), NEW shard,
         shard \in DOMAIN HiveEnv, \E t \in ToSet(targets) : t.hive = shard
  PROVE  /\ matchTarget(targets, shard).hive = shard
         /\ matchTarget(targets, shard) # Nobody
<1> DEFINE own == {i \in DOMAIN targets : targets[i].hive = shard}
           first == FirstThat(targets, LAMBDA t : t.hive = shard)
           byName == [i \in 1..Len(Names(shard)) |->
                        FirstThat(targets,
                                  LAMBDA t : t.name = Names(shard)[i])]
           byNumber == FirstThat(targets, LAMBDA t : SameNumber(t.name, shard))
           answers == <<first>> \o byName \o <<byNumber>>
           some == {i \in DOMAIN answers : answers[i] # Nobody}
<1>1. matchTarget(targets, shard) =
        IF some = {} THEN Nobody ELSE answers[Min(some)]
  BY DEF matchTarget, FirstAnswer
<1>2. Len(targets) \in Nat /\ DOMAIN targets = 1..Len(targets)
  OBVIOUS
<1>3. own # {} /\ own \in SUBSET (1..Len(targets))
  BY <1>2 DEF ToSet
<1>4. Min(own) \in own
  <2> HIDE DEF own
  <2> QED
    BY <1>2, <1>3, FirstAndLast
<1>5. first = [name |-> targets[Min(own)].name, hive |-> shard]
  BY <1>3, <1>4 DEF FirstThat
<1>6. first # Nobody /\ first.hive = shard
  <2> HIDE DEF first
  <2>1. shard # NoShard
    BY PromotionAssumption
  <2> QED
    BY <1>5, <2>1 DEF Nobody
<1>7. Len(Names(shard)) \in Nat
  BY PromotionAssumption
<1> DEFINE All == {first, byNumber} \cup
                    {byName[i] : i \in 1..Len(Names(shard))}
<1>8. first \in All /\ byNumber \in All /\ byName \in Seq(All)
  <2> DEFINE k == Len(Names(shard))
  <2>1. byName \in [1..k -> All] /\ k \in Nat
    BY <1>7
  <2> HIDE DEF byName, All, k
  <2>2. byName \in Seq(All)
    BY <2>1
  <2> QED
    BY <2>2 DEF All
<1> HIDE DEF own, first, byName, byNumber, All
<1>9. /\ answers \in Seq(All) /\ Len(answers) \in Nat
      /\ DOMAIN answers = 1..Len(answers)
      /\ 1 \in DOMAIN answers /\ answers[1] = first
  BY <1>8
<1> HIDE DEF answers
<1>10. 1 \in some /\ some \in SUBSET (1..Len(answers))
  BY <1>6, <1>9
<1> HIDE DEF some
<1>11. Min(some) \in some /\ \A y \in some : Min(some) <= y
  BY <1>9, <1>10, FirstAndLast
<1>12. Min(some) = 1
  <2>1. Min(some) \in 1..Len(answers)
    BY <1>10, <1>11
  <2> QED
    BY <1>9, <1>10, <1>11, <2>1
<1> QED
  BY <1>1, <1>6, <1>9, <1>10, <1>12

\* Of two answers the first is taken, if it is one (resolver.go:
\* ResolveTarget).
LEMMA FirstOfTwo ==
  ASSUME NEW a, NEW b
  PROVE  /\ a # Nobody => FirstAnswer(<<a, b>>) = a
         /\ a = Nobody /\ b # Nobody => FirstAnswer(<<a, b>>) = b
<1> DEFINE n == 2
           answers == <<a, b>>
           some == {i \in DOMAIN answers : answers[i] # Nobody}
<1>1. FirstAnswer(<<a, b>>) = IF some = {} THEN Nobody ELSE answers[Min(some)]
  BY DEF FirstAnswer
<1>2. some \in SUBSET (1..n) /\ n \in Nat
  OBVIOUS
<1>3. some # {} => Min(some) \in some /\ \A y \in some : Min(some) <= y
  <2> HIDE DEF n, some
  <2> QED
    BY <1>2, FirstAndLast
<1>4. CASE a # Nobody
  <2>1. 1 \in some
    BY <1>4
  <2>2. Min(some) \in some /\ Min(some) <= 1
    BY <1>3, <2>1
  <2>3. Min(some) \in {1, 2}
    BY <2>2
  <2>4. Min(some) = 1
    BY <2>2, <2>3
  <2> QED
    BY <1>1, <1>4, <2>1, <2>4
<1>5. CASE a = Nobody /\ b # Nobody
  <2>1. 2 \in some /\ 1 \notin some
    BY <1>5
  <2>2. Min(some) \in some
    BY <1>3, <2>1
  <2>3. Min(some) = 2
    BY <2>1, <2>2
  <2> QED
    BY <1>1, <1>5, <2>1, <2>3
<1> QED
  BY <1>4, <1>5

-----------------------------------------------------------------------------
(***************************************************************************)
(* Reading the files.                                                      *)
(***************************************************************************)
\* The steps of BuildPipeline while it reads (pipeline.go: BuildPipeline).
LEMMA StepsAre ==
  /\ ToSet(Methods) = {"PKO", "OLM", "e2e"}
  /\ ReadingSteps = {"PKO", "OLM", "e2e", "PKO targets", "OLM targets",
                     "e2e targets"}
  /\ \A m \in ToSet(Methods) :
       Reading(m) \in ReadingSteps /\ After(m) \in ReadingSteps \cup {"seed"}
<1>1. ToSet(Methods) = {"PKO", "OLM", "e2e"}
  BY DEF ToSet, Methods
<1>2. ReadingSteps = {"PKO", "OLM", "e2e", "PKO targets", "OLM targets",
                      "e2e targets"}
  BY <1>1 DEF ReadingSteps, Reading
<1> QED
  BY <1>1, <1>2 DEF Reading, After

\* Before the first wave there is nothing to be out of order (pipeline.go:
\* buildStages).
LEMMA NothingLaid ==
  ASSUME waves' = <<>>, stages' = <<>>
  PROVE  Apart' /\ OfOneKind' /\ Sorted'
<1>1. DOMAIN waves' = {} /\ DOMAIN stages' = {}
  OBVIOUS
<1> QED
  BY <1>1 DEF Apart, OfOneKind, Sorted

\* As long as files are read there are no waves (pipeline.go: BuildPipeline).
LEMMA ReadingLaysNothing ==
  ASSUME InTurn, step \in ReadingSteps, step' \in ReadingSteps \cup {"seed"},
         UNCHANGED <<waves, stages>>
  PROVE  /\ Apart' /\ OfOneKind' /\ Sorted' /\ InTurn'
         /\ waves' = <<>> /\ stages' = <<>>
<1>1. waves' = <<>> /\ stages' = <<>>
  BY DEF InTurn
<1>2. InTurn'
  BY <1>1, StepsAre DEF InTurn
<1> QED
  BY <1>1, <1>2, NothingLaid

LEMMA NoWavesTyped ==
  /\ <<>> \in Seq(ToSet(<<>>))
  /\ ToSet(<<>>) = {}
BY DEF ToSet

\* PromotionInit describes a pipeline (pipeline.go: BuildPipeline).
LEMMA InitLayout == PromotionInit => LayoutInv
<1> SUFFICES ASSUME PromotionInit
             PROVE  LayoutInv
  OBVIOUS
<1>1. todo = <<>> /\ nodes = <<>> /\ waves = <<>> /\ stages = <<>>
  BY DEF PromotionInit
<1>2. DOMAIN waves = {} /\ DOMAIN stages = {}
  BY <1>1
<1>3. step = "PKO" /\ step \in ReadingSteps
  BY StepsAre DEF PromotionInit
<1>4. PromotionTypeOK
  <2>1. /\ \A s \in {todo, nodes, waves, stages} :
             s \in Seq(ToSet(s)) /\ ToSet(s) = {}
    BY <1>1, NoWavesTyped
  <2>2. /\ files \in Files /\ faults = 0
        /\ envCache = [h \in DOMAIN HiveEnv |-> Unknown]
    BY DEF PromotionInit
  <2>3. faults \in 0..MaxFaults
    <3>1. MaxFaults \in Nat
      BY PromotionAssumption
    <3> QED
      BY <2>2, <3>1
  <2>4. /\ todo \in Seq(ToSet(todo)) /\ nodes \in Seq(ToSet(nodes))
        /\ waves \in Seq(ToSet(waves)) /\ stages \in Seq(ToSet(stages))
    BY <2>1
  <2>5. ToSet(todo) = {} /\ ToSet(nodes) = {} /\ ToSet(waves) = {}
    BY <2>1
  <2>6. /\ DOMAIN envCache = DOMAIN HiveEnv
        /\ \A h \in DOMAIN HiveEnv : envCache[h] \in {Unknown, HiveEnv[h]}
    BY <2>2
  <2> QED
    BY <1>3, <2>2, <2>3, <2>4, <2>5, <2>6 DEF PromotionTypeOK
<1>5. Apart /\ OfOneKind /\ Sorted
  BY <1>2 DEF Apart, OfOneKind, Sorted
<1>6. InTurn
  BY <1>1, <1>3 DEF InTurn
<1> QED
  BY <1>4, <1>5, <1>6 DEF LayoutInv

\* A file is read, or its error dropped (resolver.go: fetchTargets).
LEMMA ReadFileKeeps ==
  ASSUME LayoutInv, ReadFile
  PROVE  LayoutInv'
<1>1. PromotionTypeOK /\ InTurn
  BY DEF LayoutInv
<1>2. /\ step \in ToSet(Methods) /\ step \in ReadingSteps
      /\ step' \in ReadingSteps \cup {"seed"}
  BY StepsAre DEF ReadFile, ReadingSteps
<1>3. Apart' /\ OfOneKind' /\ Sorted' /\ InTurn'
  BY <1>1, <1>2, ReadingLaysNothing DEF ReadFile
<1>4. /\ todo' \in Seq(ToSet(todo'))
      /\ \A t \in ToSet(todo') : t.hive \in DOMAIN HiveEnv \cup {NoShard}
  BY <1>1, <1>2, ActiveIsList DEF ReadFile, PromotionTypeOK
<1>5. faults' \in 0..MaxFaults
  BY <1>1, PromotionAssumption DEF ReadFile, PromotionTypeOK
<1>6. Targets' = Targets
  BY DEF ReadFile, Targets
<1>7. PromotionTypeOK'
  BY <1>1, <1>2, <1>4, <1>5, <1>6 DEF ReadFile, PromotionTypeOK
<1> QED
  BY <1>3, <1>7 DEF LayoutInv

\* The cache answers what app-interface says or nothing (resolver.go:
\* ResolveHiveEnv).
LEMMA CacheIsTrue ==
  ASSUME PromotionTypeOK, NEW h \in DOMAIN HiveEnv \cup {NoShard}, NEW env,
         ResolveHiveEnv(h, env)
  PROVE  /\ DOMAIN envCache' = DOMAIN HiveEnv
         /\ \A g \in DOMAIN HiveEnv : envCache'[g] \in {Unknown, HiveEnv[g]}
         /\ faults' \in 0..MaxFaults
<1>1. /\ DOMAIN envCache = DOMAIN HiveEnv
      /\ \A g \in DOMAIN HiveEnv : envCache[g] \in {Unknown, HiveEnv[g]}
      /\ faults \in 0..MaxFaults /\ MaxFaults \in Nat
  BY PromotionAssumption DEF PromotionTypeOK
<1>2. CASE UNCHANGED <<envCache, faults>>
  BY <1>1, <1>2
<1>3. CASE /\ h \in DOMAIN HiveEnv
           /\ envCache' = [envCache EXCEPT ![h] = HiveEnv[h]]
           /\ UNCHANGED faults
  BY <1>1, <1>3
<1>4. CASE faults < MaxFaults /\ faults' = faults + 1 /\ UNCHANGED envCache
  BY <1>1, <1>4
<1> QED
  BY <1>2, <1>3, <1>4 DEF ResolveHiveEnv

\* A target of the file becomes a node (pipeline.go: BuildPipeline).
LEMMA TargetKeeps ==
  ASSUME LayoutInv, NEW m \in ToSet(Methods), Target(m)
  PROVE  LayoutInv'
<1>1. PromotionTypeOK /\ InTurn
  BY DEF LayoutInv
<1>2. step \in ReadingSteps /\ step' = step /\ todo # <<>>
  BY StepsAre DEF Target
<1>3. /\ Apart' /\ OfOneKind' /\ Sorted' /\ InTurn'
      /\ waves' = <<>> /\ stages' = <<>>
  BY <1>1, <1>2, ReadingLaysNothing DEF Target
<1> DEFINE t == Head(todo)
<1>4. /\ t \in ToSet(todo) /\ todo' \in Seq(ToSet(todo'))
      /\ ToSet(todo') \subseteq ToSet(todo)
  BY <1>1, <1>2, TailRest DEF Target, PromotionTypeOK
<1>5. t.hive \in DOMAIN HiveEnv \cup {NoShard}
  BY <1>1, <1>4 DEF PromotionTypeOK
<1>6. PICK env : /\ ResolveHiveEnv(t.hive, env)
                 /\ nodes' = Append(nodes, [name |-> t.name, hive |-> t.hive,
                       method |-> m, env |-> resolveEnv(env, t.name),
                       publish |-> t.publish, subscribe |-> t.subscribe])
  BY DEF Target
<1> HIDE DEF t
<1>7. PICK n : n.method = m /\ nodes' = Append(nodes, n)
  BY <1>6
<1>8. /\ nodes' \in Seq(ToSet(nodes'))
      /\ \A k \in ToSet(nodes') : k.method \in ToSet(Methods)
  BY <1>1, <1>7, AppendAdds DEF PromotionTypeOK
<1>9. /\ DOMAIN envCache' = DOMAIN HiveEnv
      /\ \A g \in DOMAIN HiveEnv : envCache'[g] \in {Unknown, HiveEnv[g]}
      /\ faults' \in 0..MaxFaults
  BY <1>1, <1>5, <1>6, CacheIsTrue
<1>10. PromotionTypeOK'
  <2>1. files' = files
    BY DEF Target
  <2> QED
    BY <1>1, <1>2, <1>3, <1>4, <1>8, <1>9, <2>1, NoWavesTyped
    DEF PromotionTypeOK
<1> QED
  BY <1>3, <1>10 DEF LayoutInv

\* The next file follows (pipeline.go: BuildPipeline).
LEMMA FileDoneKeeps ==
  ASSUME LayoutInv, NEW m \in ToSet(Methods), FileDone(m)
  PROVE  LayoutInv'
<1>1. PromotionTypeOK /\ InTurn
  BY DEF LayoutInv
<1>2. step \in ReadingSteps /\ step' \in ReadingSteps \cup {"seed"}
  BY StepsAre DEF FileDone
<1>3. Apart' /\ OfOneKind' /\ Sorted' /\ InTurn'
  BY <1>1, <1>2, ReadingLaysNothing DEF FileDone
<1>4. Targets' = Targets
  BY DEF FileDone, Targets
<1>5. PromotionTypeOK'
  BY <1>1, <1>2, <1>4 DEF FileDone, PromotionTypeOK
<1> QED
  BY <1>3, <1>5 DEF LayoutInv

-----------------------------------------------------------------------------
(***************************************************************************)
(* The waves.                                                              *)
(***************************************************************************)
LEMMA PlacedIs ==
  ASSUME waves \in Seq(ToSet(waves)), NEW n
  PROVE  n \in Placed <=> \E i \in DOMAIN waves : n \in ToSet(waves[i])
<1>1. DOMAIN waves = 1..Len(waves)
  OBVIOUS
<1> QED
  BY <1>1 DEF Placed

\* A further wave, of targets none of which is placed yet and each of which is
\* tangled or waits for placed ones only, keeps all in order (pipeline.go:
\* levels = append(levels, ...)).
LEMMA WaveAdded ==
  ASSUME LayoutInv, stages = <<>>, UNCHANGED <<nodes, stages>>,
         NEW wave, wave \in Seq(Targets), waves' = Append(waves, wave),
         \A n \in ToSet(wave) :
           /\ n \notin Placed
           /\ n \notin Tangled => DependsOn(n) \subseteq Placed
  PROVE  /\ Apart' /\ OfOneKind' /\ Sorted'
         /\ waves' \in Seq(ToSet(waves'))
         /\ \A w \in ToSet(waves') : w \in Seq(Targets')
         /\ \A n : n \in Placed' <=> n \in Placed \/ n \in ToSet(wave)
<1> DEFINE c == Len(waves)
<1>1. /\ PromotionTypeOK /\ Apart /\ Sorted
      /\ waves \in Seq(ToSet(waves))
      /\ \A w \in ToSet(waves) : w \in Seq(Targets)
  BY DEF LayoutInv, PromotionTypeOK
<1>2. /\ waves' \in Seq(ToSet(waves'))
      /\ ToSet(waves') = ToSet(waves) \cup {wave}
      /\ Len(waves') = c + 1 /\ c \in Nat
      /\ \A i \in 1..c : waves'[i] = waves[i]
      /\ waves'[c + 1] = wave
  BY <1>1, AppendAdds
<1>3. DOMAIN waves = 1..c /\ DOMAIN waves' = 1..(c + 1)
  BY <1>1, <1>2
<1> HIDE DEF c
<1>4. /\ \A i \in DOMAIN waves' : i = c + 1 \/ i \in DOMAIN waves
      /\ \A i \in DOMAIN waves :
           /\ i \in DOMAIN waves' /\ i # c + 1 /\ i < c + 1
           /\ waves'[i] = waves[i]
      /\ c + 1 \in DOMAIN waves'
  BY <1>2, <1>3
<1>5. \A n : n \in Placed <=> \E i \in DOMAIN waves : n \in ToSet(waves[i])
  BY <1>1, PlacedIs
<1>6. \A n : n \in Placed' <=> \E i \in DOMAIN waves' : n \in ToSet(waves'[i])
  BY <1>2 DEF Placed
<1>7. \A n : n \in Placed' <=> n \in Placed \/ n \in ToSet(wave)
  BY <1>2, <1>4, <1>5, <1>6
<1>8. /\ Tangled' = Tangled /\ Targets' = Targets
      /\ \A n : DependsOn(n)' = DependsOn(n)
  BY SameNodes
<1>9. DOMAIN stages = {} /\ stages' = stages
  OBVIOUS
<1>10. Apart'
  <2>1. ASSUME NEW i \in DOMAIN waves', NEW k \in DOMAIN waves', i # k
        PROVE  ToSet(waves'[i]) \cap ToSet(waves'[k]) = {}
    <3>1. CASE i \in DOMAIN waves /\ k \in DOMAIN waves
      BY <1>1, <1>4, <2>1, <3>1 DEF Apart
    <3>2. CASE i = c + 1 /\ k \in DOMAIN waves
      BY <1>2, <1>4, <1>5, <3>2
    <3>3. CASE k = c + 1 /\ i \in DOMAIN waves
      BY <1>2, <1>4, <1>5, <3>3
    <3> QED
      BY <1>4, <2>1, <3>1, <3>2, <3>3
  <2> QED
    BY <1>9, <2>1 DEF Apart
<1>11. OfOneKind'
  BY <1>9 DEF OfOneKind
<1>12. Sorted'
  <2> SUFFICES ASSUME NEW i \in DOMAIN waves', NEW n \in ToSet(waves'[i]),
                      n \notin Tangled, NEW p \in DependsOn(n)
               PROVE  \E k \in DOMAIN waves' : k < i /\ p \in ToSet(waves'[k])
    BY <1>8, <1>9 DEF Sorted
  <2>1. CASE i = c + 1
    <3>1. p \in Placed
      BY <1>2, <2>1
    <3>2. PICK k \in DOMAIN waves : p \in ToSet(waves[k])
      BY <1>5, <3>1
    <3> QED
      BY <1>4, <2>1, <3>2
  <2>2. CASE i \in DOMAIN waves
    <3>1. waves'[i] = waves[i]
      BY <1>4, <2>2
    <3>2. \/ StagesWith(p) # {}
          \/ \E k \in DOMAIN waves : k < i /\ p \in ToSet(waves[k])
      BY <1>1, <2>2, <3>1 DEF Sorted
    <3>3. StagesWith(p) = {}
      BY <1>9 DEF StagesWith
    <3>4. PICK k \in DOMAIN waves : k < i /\ p \in ToSet(waves[k])
      BY <3>2, <3>3
    <3> QED
      BY <1>4, <3>4
  <2> QED
    BY <1>4, <2>1, <2>2
<1> QED
  BY <1>1, <1>2, <1>7, <1>8, <1>10, <1>11, <1>12

\* The layout stays when nothing of it changes (pipeline.go: buildStages).
LEMMA SameLayout ==
  ASSUME LayoutInv, UNCHANGED <<nodes, waves, stages>>
  PROVE  /\ Apart' /\ OfOneKind' /\ Sorted' /\ Placed' = Placed
         /\ Targets' = Targets /\ Tangled' = Tangled
         /\ \A n : StagesWith(n)' = StagesWith(n)
<1>1. /\ Tangled' = Tangled /\ Targets' = Targets
      /\ \A n : DependsOn(n)' = DependsOn(n)
      /\ \A n : KindOf(n)' = KindOf(n)
  BY SameNodes
<1>2. Placed' = Placed
  BY DEF Placed
<1>3. \A n : StagesWith(n)' = StagesWith(n)
  BY DEF StagesWith
<1>4. Apart'
  BY DEF LayoutInv, Apart
<1>5. OfOneKind'
  BY <1>1 DEF LayoutInv, OfOneKind
<1>6. Sorted'
  BY <1>1, <1>3 DEF LayoutInv, Sorted
<1> QED
  BY <1>1, <1>2, <1>3, <1>4, <1>5, <1>6

\* The targets that have become ready are a wave; when there are none, what is
\* left is tangled (pipeline.go: the loop over the queue).
LEMMA WaveKeeps ==
  ASSUME LayoutInv, Wave
  PROVE  LayoutInv'
<1> DEFINE names == [i \in DOMAIN nodes |-> nodes[i].name]
           ready == {i \in DOMAIN nodes : Ready(nodes[i])}
           next == At(names, ready)
<1>1. /\ PromotionTypeOK /\ InTurn /\ step = "seed" /\ stages = <<>>
      /\ nodes \in Seq(ToSet(nodes))
  BY DEF LayoutInv, InTurn, PromotionTypeOK, Wave
<1>2. names \in Seq(Targets) /\ DOMAIN names = DOMAIN nodes
  <2>1. /\ Len(nodes) \in Nat /\ DOMAIN nodes = 1..Len(nodes)
        /\ \A i \in DOMAIN nodes : nodes[i].name \in Targets
    BY <1>1, TargetsAreFinite
  <2>2. names \in [1..Len(nodes) -> Targets]
    BY <2>1
  <2> HIDE DEF names
  <2>3. names \in Seq(Targets)
    BY <2>1, <2>2
  <2> QED
    BY <2>3 DEF names
<1>3. ready \in SUBSET DOMAIN names
  BY <1>2
<1>4. next \in Seq(Targets) /\ ToSet(next) = {names[i] : i \in ready}
  <2> HIDE DEF names, ready
  <2> QED
    BY <1>2, <1>3, AtHolds
<1>5. \A n \in ToSet(next) : n \notin Placed /\ DependsOn(n) \subseteq Placed
  BY <1>4 DEF Ready
<1>6. \/ /\ next # <<>> /\ waves' = Append(waves, next) /\ step' = step
      \/ /\ next = <<>> /\ step' = "rest" /\ waves' = waves
  BY DEF Wave
<1>7. UNCHANGED <<files, todo, envCache, nodes, stages, found, faults>>
  BY DEF Wave
<1>8. CASE next = <<>> /\ step' = "rest" /\ waves' = waves
  <2>1. Targets \ Placed \subseteq Tangled
    <3> DEFINE U == Targets \ Placed
    <3>1. ready = {}
      BY <1>4, <1>8, NoWavesTyped
    <3>2. ASSUME NEW n \in U
          PROVE  \E p \in U : <<p, n>> \in Edges
      <4>1. PICK i \in DOMAIN nodes : nodes[i].name = n
        BY <1>1, TargetsAreFinite
      <4>2. ~(DependsOn(n) \subseteq Placed)
        BY <3>1, <4>1 DEF Ready
      <4> QED
        BY <4>2 DEF DependsOn
    <3> HIDE DEF U
    <3>3. U \in SUBSET Targets
      BY DEF U
    <3>4. U \subseteq Tangled
      BY <1>1, <3>2, <3>3, WaitersAreTangled
    <3> QED
      BY <3>4 DEF U
  <2>2. /\ Apart' /\ OfOneKind' /\ Sorted' /\ Placed' = Placed
        /\ Targets' = Targets /\ Tangled' = Tangled
    BY <1>7, <1>8, SameLayout
  <2>3. InTurn'
    BY <1>1, <1>7, <1>8, <2>1, <2>2, StepsAre DEF InTurn
  <2>4. PromotionTypeOK'
    BY <1>1, <1>7, <1>8, <2>2, StepsAre DEF PromotionTypeOK
  <2> QED
    BY <2>2, <2>3, <2>4 DEF LayoutInv
<1>9. CASE waves' = Append(waves, next) /\ step' = step
  <2> HIDE DEF next
  <2>1. /\ Apart' /\ OfOneKind' /\ Sorted'
        /\ waves' \in Seq(ToSet(waves'))
        /\ \A w \in ToSet(waves') : w \in Seq(Targets')
    BY <1>1, <1>4, <1>5, <1>7, <1>9, WaveAdded
  <2>2. InTurn'
    BY <1>1, <1>7, <1>9, StepsAre DEF InTurn
  <2>3. PromotionTypeOK'
    BY <1>1, <1>7, <1>9, <2>1, StepsAre DEF PromotionTypeOK
  <2> QED
    BY <2>1, <2>2, <2>3 DEF LayoutInv
<1> HIDE DEF next
<1> QED
  BY <1>6, <1>8, <1>9

\* The targets left get a wave each (pipeline.go: the nodes not placed).
LEMMA RestKeeps ==
  ASSUME LayoutInv, Rest
  PROVE  LayoutInv'
<1> DEFINE left == {i \in DOMAIN nodes : nodes[i].name \notin Placed}
           wave == <<nodes[Min(left)].name>>
<1>1. /\ PromotionTypeOK /\ InTurn /\ step = "rest" /\ stages = <<>>
      /\ nodes \in Seq(ToSet(nodes)) /\ Targets \ Placed \subseteq Tangled
  BY DEF LayoutInv, InTurn, PromotionTypeOK, Rest
<1>2. \/ left # {} /\ waves' = Append(waves, wave) /\ step' = step
      \/ left = {} /\ step' = "stages" /\ waves' = waves
  BY DEF Rest
<1>3. UNCHANGED <<files, todo, envCache, nodes, stages, found, faults>>
  BY DEF Rest
<1>4. CASE left # {} /\ waves' = Append(waves, wave) /\ step' = step
  <2>1. Min(left) \in left
    <3>1. Len(nodes) \in Nat /\ left \in SUBSET (1..Len(nodes))
      BY <1>1
    <3> HIDE DEF left
    <3> QED
      BY <1>4, <3>1, FirstAndLast
  <2> DEFINE n == nodes[Min(left)].name
  <2>2. n \in Targets /\ n \notin Placed
    BY <1>1, <2>1, TargetsAreFinite
  <2> HIDE DEF n
  <2>3. wave = <<n>> /\ ToSet(<<n>>) = {n} /\ <<n>> \in Seq(Targets)
    <3>1. wave = <<n>>
      BY DEF n
    <3> HIDE DEF wave
    <3> QED
      BY <2>2, <3>1 DEF ToSet
  <2> HIDE DEF wave
  <2>4. wave \in Seq(Targets) /\ \A x \in ToSet(wave) : x = n
    BY <2>3
  <2>5. /\ Apart' /\ OfOneKind' /\ Sorted'
        /\ waves' \in Seq(ToSet(waves'))
        /\ \A w \in ToSet(waves') : w \in Seq(Targets')
        /\ \A x : x \in Placed' <=> x \in Placed \/ x \in ToSet(wave)
    BY <1>1, <1>3, <1>4, <2>2, <2>4, WaveAdded
  <2>6. Tangled' = Tangled /\ Targets' = Targets
    BY <1>3, SameNodes
  <2>7. InTurn'
    BY <1>1, <1>3, <1>4, <2>5, <2>6, StepsAre DEF InTurn
  <2>8. PromotionTypeOK'
    BY <1>1, <1>3, <1>4, <2>5, StepsAre DEF PromotionTypeOK
  <2> QED
    BY <2>5, <2>7, <2>8 DEF LayoutInv
<1>5. CASE left = {} /\ step' = "stages" /\ waves' = waves
  <2>1. Targets \subseteq Placed
    BY <1>1, <1>5, TargetsAreFinite
  <2>2. /\ Apart' /\ OfOneKind' /\ Sorted' /\ Placed' = Placed
        /\ Targets' = Targets /\ Tangled' = Tangled
    BY <1>3, <1>5, SameLayout
  <2>3. InTurn'
    BY <1>1, <1>5, <2>1, <2>2, StepsAre DEF InTurn
  <2>4. PromotionTypeOK'
    BY <1>1, <1>3, <1>5, <2>2, StepsAre DEF PromotionTypeOK
  <2> QED
    BY <2>2, <2>3, <2>4 DEF LayoutInv
<1> HIDE DEF wave, left
<1> QED
  BY <1>2, <1>4, <1>5

-----------------------------------------------------------------------------
(***************************************************************************)
(* The stages.                                                             *)
(***************************************************************************)
\* The environment and the kind a stage is named for (pipeline.go: groupKey).
KindShown(stage) == [env |-> stage.env, e2e |-> stage.e2e]

\* The stages of a wave show its targets, each in the one stage of its
\* environment and kind (pipeline.go: the groups of a level).
LEMMA StagesShowWave ==
  ASSUME NEW wave, wave \in Seq(Targets),
         NEW order \in OrdersOf(KindsOf(wave)),
         NEW new, new = StagesOf(wave, order)
  PROVE  /\ new \in Seq(ToSet(new)) /\ Len(new) \in Nat
         /\ DOMAIN new = 1..Len(new)
         /\ \A i \in DOMAIN new : \A n :
              n \in ToSet(new[i].members) <=>
                n \in ToSet(wave) /\ KindOf(n) = KindShown(new[i])
         /\ \A i, k \in DOMAIN new :
              i # k => KindShown(new[i]) # KindShown(new[k])
         /\ \A n \in ToSet(wave) :
              \E i \in DOMAIN new : n \in ToSet(new[i].members)
<1> DEFINE kinds == KindsOf(wave)
           c == Cardinality(kinds)
           Members(i) == At(wave, {k \in DOMAIN wave :
                                     KindOf(wave[k]) = order[i]})
<1>1. IsFiniteSet(kinds) /\ c \in Nat
  <2> DEFINE m == Len(wave)
             f == [k \in 1..m |-> KindOf(wave[k])]
  <2>1. m \in Nat /\ DOMAIN wave = 1..m
    OBVIOUS
  <2>2. ToSet(wave) = {wave[k] : k \in 1..m}
    BY <2>1 DEF ToSet
  <2> HIDE DEF m
  <2>3. \A k \in 1..m : f[k] = KindOf(wave[k]) /\ KindOf(wave[k]) \in kinds
    BY <2>2 DEF KindsOf
  <2>4. \A x \in kinds : \E k \in 1..m : f[k] = x
    BY <2>2 DEF KindsOf
  <2>5. f \in [1..m -> kinds]
    BY <2>3
  <2> HIDE DEF f, kinds
  <2>6. f \in Surjection(1..m, kinds)
    BY <2>4, <2>5 DEF Surjection
  <2>7. IsFiniteSet(1..m)
    BY <2>1, FS_Interval
  <2>8. IsFiniteSet(kinds)
    BY <2>6, <2>7, FS_Surjection
  <2> QED
    BY <2>8, FS_CardinalityType
<1>2. /\ order \in [1..c -> kinds]
      /\ \A i, k \in 1..c : i < k => order[i] # order[k]
  BY DEF OrdersOf
<1>3. \A x \in kinds : \E i \in 1..c : order[i] = x
  <2> HIDE DEF kinds
  <2> QED
    BY <1>1, <1>2, EachIsMet
<1>4. \A x \in kinds : x = [env |-> x.env, e2e |-> x.e2e]
  BY DEF KindsOf, KindOf
<1>5. new = [i \in 1..c |-> [env |-> order[i].env, e2e |-> order[i].e2e,
                             members |-> Members(i)]]
  BY <1>2 DEF StagesOf
<1>6. \A i \in 1..c : \A n :
        n \in ToSet(Members(i)) <=> n \in ToSet(wave) /\ KindOf(n) = order[i]
  <2> SUFFICES ASSUME NEW i \in 1..c, NEW n
               PROVE  n \in ToSet(Members(i)) <=>
                        n \in ToSet(wave) /\ KindOf(n) = order[i]
    OBVIOUS
  <2> DEFINE places == {k \in DOMAIN wave : KindOf(wave[k]) = order[i]}
  <2>1. places \in SUBSET DOMAIN wave
    OBVIOUS
  <2>2. ToSet(At(wave, places)) = {wave[k] : k \in places}
    <3> HIDE DEF places
    <3> QED
      BY <2>1, AtHolds
  <2> QED
    BY <2>2 DEF ToSet
<1> HIDE DEF Members, c
<1>7. \A i \in 1..c :
        /\ order[i] \in kinds /\ KindShown(new[i]) = order[i]
        /\ new[i].members = Members(i)
  BY <1>2, <1>4, <1>5 DEF KindShown
<1>8. /\ new \in Seq(ToSet(new)) /\ Len(new) = c /\ DOMAIN new = 1..c
  <2>1. DOMAIN new = 1..c
    BY <1>5
  <2>2. \A i \in 1..c : new[i] \in ToSet(new)
    BY <2>1 DEF ToSet
  <2>3. new \in [1..c -> ToSet(new)]
    BY <1>5, <2>2
  <2>4. new \in Seq(ToSet(new))
    BY <1>1, <2>3
  <2>5. Len(new) = c
    BY <1>1, <2>1, <2>4
  <2> QED
    BY <2>1, <2>4, <2>5
<1>9. \A i, k \in 1..c : i # k => order[i] # order[k]
  <2> SUFFICES ASSUME NEW i \in 1..c, NEW k \in 1..c, i # k
               PROVE  order[i] # order[k]
    OBVIOUS
  <2>1. i < k \/ k < i
    BY <1>1
  <2> QED
    BY <1>2, <2>1
<1>10. \A n \in ToSet(wave) : \E i \in 1..c : KindOf(n) = order[i]
  <2>1. \A n \in ToSet(wave) : KindOf(n) \in kinds
    BY DEF KindsOf
  <2> HIDE DEF kinds
  <2> QED
    BY <1>3, <2>1
<1> HIDE DEF kinds
<1> QED
  BY <1>1, <1>6, <1>7, <1>8, <1>9, <1>10

\* The stages of the next wave follow those made (pipeline.go: buildStages).
LEMMA StageKeeps ==
  ASSUME LayoutInv, Stage
  PROVE  LayoutInv'
<1>1. /\ PromotionTypeOK /\ Apart /\ OfOneKind /\ Sorted /\ InTurn
      /\ step = "stages"
  BY DEF LayoutInv, Stage
<1>2. UNCHANGED <<files, todo, envCache, nodes, found, faults>>
  BY DEF Stage
<1>3. /\ Targets' = Targets /\ Tangled' = Tangled
      /\ \A n : DependsOn(n)' = DependsOn(n)
      /\ \A n : KindOf(n)' = KindOf(n)
  BY <1>2, SameNodes
<1>4. /\ waves \in Seq(ToSet(waves))
      /\ \A w \in ToSet(waves) : w \in Seq(Targets)
      /\ stages \in Seq(ToSet(stages))
  BY <1>1 DEF PromotionTypeOK
<1>5. \A n : n \in Placed <=> \E i \in DOMAIN waves : n \in ToSet(waves[i])
  BY <1>4, PlacedIs
<1>6. CASE waves = <<>>
  <2>1. step' = "done" /\ UNCHANGED <<waves, stages>>
    BY <1>6 DEF Stage
  <2>2. /\ Apart' /\ OfOneKind' /\ Sorted' /\ Placed' = Placed
        /\ \A n : StagesWith(n)' = StagesWith(n)
    BY <1>2, <2>1, SameLayout
  <2>3. InTurn'
    BY <1>1, <1>3, <1>6, <2>1, <2>2, StepsAre DEF InTurn
  <2>4. PromotionTypeOK'
    BY <1>1, <1>2, <1>3, <2>1, StepsAre DEF PromotionTypeOK
  <2> QED
    BY <2>2, <2>3, <2>4 DEF LayoutInv
<1>7. CASE waves # <<>>
  <2> DEFINE w == Head(waves)
             s == Len(stages)
  <2>1. /\ waves' = Tail(waves) /\ step' = step
        /\ \E order \in OrdersOf(KindsOf(w)) :
             stages' = stages \o StagesOf(w, order)
    BY <1>7 DEF Stage
  <2>2. PICK order \in OrdersOf(KindsOf(w)) :
          stages' = stages \o StagesOf(w, order)
    BY <2>1
  <2>3. /\ waves' \in Seq(ToSet(waves'))
        /\ ToSet(waves') \subseteq ToSet(waves)
        /\ w \in ToSet(waves) /\ w = waves[1] /\ 1 \in DOMAIN waves
        /\ \A i \in DOMAIN waves' :
             /\ i \in Nat /\ i >= 1 /\ i + 1 \in DOMAIN waves
             /\ waves'[i] = waves[i + 1]
        /\ \A i \in DOMAIN waves : i # 1 =>
             /\ i \in Nat /\ i - 1 \in DOMAIN waves'
             /\ waves'[i - 1] = waves[i]
    BY <1>4, <1>7, <2>1, TailRest
  <2>4. w \in Seq(Targets)
    BY <1>4, <2>3
  <2>5. PICK new : new = StagesOf(w, order)
    OBVIOUS
  <2> HIDE DEF w
  <2>6. /\ new \in Seq(ToSet(new)) /\ Len(new) \in Nat
        /\ DOMAIN new = 1..Len(new)
        /\ \A i \in DOMAIN new : \A n :
             n \in ToSet(new[i].members) <=>
               n \in ToSet(w) /\ KindOf(n) = KindShown(new[i])
        /\ \A i, k \in DOMAIN new :
             i # k => KindShown(new[i]) # KindShown(new[k])
        /\ \A n \in ToSet(w) :
             \E i \in DOMAIN new : n \in ToSet(new[i].members)
    BY <2>2, <2>4, <2>5, StagesShowWave
  <2>7. s \in Nat /\ DOMAIN stages = 1..s
    BY <1>4
  <2>8. /\ stages' \in Seq(ToSet(stages'))
        /\ \A i \in DOMAIN stages :
             i \in DOMAIN stages' /\ stages'[i] = stages[i]
        /\ \A k \in DOMAIN new :
             s + k \in DOMAIN stages' /\ stages'[s + k] = new[k]
        /\ \A i \in DOMAIN stages' :
             i \in DOMAIN stages \/ \E k \in DOMAIN new : i = s + k
    <3> DEFINE T == ToSet(stages) \cup ToSet(new)
    <3>1. stages \in Seq(T) /\ new \in Seq(T)
      <4>1. /\ stages \in [1..s -> ToSet(stages)]
            /\ new \in [1..Len(new) -> ToSet(new)]
        BY <1>4, <2>6
      <4> HIDE DEF s
      <4>2. stages \in [1..s -> T] /\ new \in [1..Len(new) -> T]
        BY <4>1
      <4> HIDE DEF T
      <4> QED
        BY <2>6, <2>7, <4>2
    <3> HIDE DEF T
    <3>2. /\ stages \o new \in Seq(T)
          /\ Len(stages \o new) = s + Len(new)
          /\ \A i \in 1..s : (stages \o new)[i] = stages[i]
          /\ \A k \in 1..Len(new) : (stages \o new)[s + k] = new[k]
      BY <3>1
    <3> DEFINE all == stages \o new
    <3>3. all = stages'
      BY <2>2, <2>5
    <3> HIDE DEF all, s
    <3>4. DOMAIN stages' = 1..(s + Len(new))
      BY <3>2, <3>3 DEF all
    <3>5. stages' \in Seq(ToSet(stages'))
      BY <3>2, <3>3, ListOfItself DEF all
    <3>6. \A i \in 1..(s + Len(new)) :
            i \in 1..s \/ (i - s \in 1..Len(new) /\ i = s + (i - s))
      BY <2>6, <2>7
    <3>7. \A i \in 1..s : i \in 1..(s + Len(new)) /\ stages'[i] = stages[i]
      BY <2>6, <2>7, <3>2, <3>3 DEF all
    <3>8. \A k \in 1..Len(new) :
            s + k \in 1..(s + Len(new)) /\ stages'[s + k] = new[k]
      BY <2>6, <2>7, <3>2, <3>3 DEF all
    <3> QED
      BY <2>6, <2>7, <3>4, <3>5, <3>6, <3>7, <3>8
  <2>9. /\ \A i \in DOMAIN stages : i \in Nat
        /\ \A i \in DOMAIN stages : \A k \in DOMAIN new : i < s + k
        /\ \A i, k \in DOMAIN new : s + i = s + k => i = k
    BY <2>6, <2>7
  <2> HIDE DEF s
  <2>10. \A k \in DOMAIN waves' : ToSet(w) \cap ToSet(waves'[k]) = {}
    <3> SUFFICES ASSUME NEW k \in DOMAIN waves'
                 PROVE  ToSet(w) \cap ToSet(waves'[k]) = {}
      OBVIOUS
    <3>1. k + 1 \in DOMAIN waves /\ k + 1 # 1 /\ waves'[k] = waves[k + 1]
      BY <2>3
    <3> QED
      BY <1>1, <2>3, <3>1 DEF Apart
  <2>11. Apart'
    <3>1. ASSUME NEW i \in DOMAIN waves', NEW k \in DOMAIN waves', i # k
          PROVE  ToSet(waves'[i]) \cap ToSet(waves'[k]) = {}
      <4>1. /\ i + 1 \in DOMAIN waves /\ k + 1 \in DOMAIN waves
            /\ i + 1 # k + 1
            /\ waves'[i] = waves[i + 1] /\ waves'[k] = waves[k + 1]
        BY <2>3, <3>1
      <4> QED
        BY <1>1, <4>1 DEF Apart
    <3>2. ASSUME NEW i \in DOMAIN stages', NEW k \in DOMAIN waves'
          PROVE  ToSet(stages'[i].members) \cap ToSet(waves'[k]) = {}
      <4>1. CASE i \in DOMAIN stages
        <5>1. k + 1 \in DOMAIN waves /\ waves'[k] = waves[k + 1]
          BY <2>3
        <5> QED
          BY <1>1, <2>8, <4>1, <5>1 DEF Apart
      <4>2. ASSUME NEW j \in DOMAIN new, i = s + j
            PROVE  ToSet(stages'[i].members) \subseteq ToSet(w)
        BY <2>6, <2>8, <4>2
      <4> QED
        BY <2>8, <2>10, <4>1, <4>2
    <3>3. ASSUME NEW i \in DOMAIN stages, NEW j \in DOMAIN new
          PROVE  ToSet(stages[i].members) \cap ToSet(new[j].members) = {}
      BY <1>1, <2>3, <2>6 DEF Apart
    <3>4. ASSUME NEW i \in DOMAIN new, NEW j \in DOMAIN new, i # j
          PROVE  ToSet(new[i].members) \cap ToSet(new[j].members) = {}
      BY <2>6, <3>4
    <3>5. ASSUME NEW i \in DOMAIN stages', NEW k \in DOMAIN stages', i # k
          PROVE  ToSet(stages'[i].members) \cap ToSet(stages'[k].members) = {}
      <4>1. CASE i \in DOMAIN stages /\ k \in DOMAIN stages
        BY <1>1, <2>8, <3>5, <4>1 DEF Apart
      <4>2. CASE i \in DOMAIN stages /\ \E j \in DOMAIN new : k = s + j
        BY <2>8, <3>3, <4>2
      <4>3. CASE k \in DOMAIN stages /\ \E j \in DOMAIN new : i = s + j
        BY <2>8, <3>3, <4>3
      <4>4. CASE /\ \E j \in DOMAIN new : i = s + j
                 /\ \E j \in DOMAIN new : k = s + j
        BY <2>8, <3>4, <3>5, <4>4
      <4> QED
        BY <2>8, <4>1, <4>2, <4>3, <4>4
    <3> QED
      BY <3>1, <3>2, <3>5 DEF Apart
  <2>12. ToSet(w) \subseteq Targets
    BY <2>4 DEF ToSet
  <2>13. OfOneKind'
    <3> SUFFICES ASSUME NEW i \in DOMAIN stages',
                        NEW n \in ToSet(stages'[i].members)
                 PROVE  n \in Targets /\ KindOf(n) = KindShown(stages'[i])
      BY <1>3 DEF OfOneKind, KindShown
    <3>1. CASE i \in DOMAIN stages
      BY <1>1, <2>8, <3>1 DEF OfOneKind, KindShown
    <3>2. CASE \E j \in DOMAIN new : i = s + j
      BY <2>6, <2>8, <2>12, <3>2
    <3> QED
      BY <2>8, <3>1, <3>2
  <2>14. /\ \A n : StagesWith(n) \subseteq StagesWith(n)'
         /\ \A n \in ToSet(w) : StagesWith(n)' # {}
    BY <2>6, <2>8 DEF StagesWith
  <2>15. Sorted'
    <3>1. ASSUME NEW i \in DOMAIN waves', NEW n \in ToSet(waves'[i]),
                 n \notin Tangled, NEW p \in DependsOn(n)
          PROVE  \/ StagesWith(p)' # {}
                 \/ \E k \in DOMAIN waves' : k < i /\ p \in ToSet(waves'[k])
      <4>1. /\ i + 1 \in DOMAIN waves /\ waves'[i] = waves[i + 1] /\ i \in Nat
        BY <2>3
      <4>2. \/ StagesWith(p) # {}
            \/ \E k \in DOMAIN waves : k < i + 1 /\ p \in ToSet(waves[k])
        BY <1>1, <3>1, <4>1 DEF Sorted
      <4>3. ASSUME NEW k \in DOMAIN waves, k < i + 1, p \in ToSet(waves[k])
            PROVE  \/ p \in ToSet(w)
                   \/ k - 1 \in DOMAIN waves' /\ k - 1 < i
                        /\ p \in ToSet(waves'[k - 1])
        <5>1. CASE k = 1
          BY <2>3, <4>3, <5>1
        <5>2. CASE k # 1
          BY <2>3, <4>1, <4>3, <5>2
        <5> QED
          BY <5>1, <5>2
      <4> QED
        BY <2>14, <4>2, <4>3
    <3>2. ASSUME NEW i \in DOMAIN stages', NEW n \in ToSet(stages'[i].members),
                 n \notin Tangled, NEW p \in DependsOn(n)
          PROVE  \E k \in StagesWith(p)' : k < i
      <4>1. CASE i \in DOMAIN stages
        <5>1. \E k \in StagesWith(p) : k < i
          BY <1>1, <2>8, <3>2, <4>1 DEF Sorted
        <5> QED
          BY <2>14, <5>1
      <4>2. ASSUME NEW j \in DOMAIN new, i = s + j
            PROVE  \E k \in StagesWith(p)' : k < i
        <5>1. n \in ToSet(waves[1]) /\ 1 \in DOMAIN waves
          BY <2>3, <2>6, <2>8, <4>2
        <5>2. \/ StagesWith(p) # {}
              \/ \E k \in DOMAIN waves : k < 1 /\ p \in ToSet(waves[k])
          BY <1>1, <3>2, <5>1 DEF Sorted
        <5>3. \A k \in DOMAIN waves : ~(k < 1)
          BY <1>4
        <5>4. PICK k \in StagesWith(p) : TRUE
          BY <5>2, <5>3
        <5>5. k \in DOMAIN stages
          BY DEF StagesWith
        <5> QED
          BY <2>9, <2>14, <4>2, <5>4, <5>5
      <4> QED
        BY <2>8, <4>1, <4>2
    <3> QED
      BY <1>3, <3>1, <3>2 DEF Sorted
  <2>16. \A n \in Targets : n \in Placed' \/ StagesWith(n)' # {}
    <3> SUFFICES ASSUME NEW n \in Targets
                 PROVE  n \in Placed' \/ StagesWith(n)' # {}
      OBVIOUS
    <3>1. n \in Placed \/ StagesWith(n) # {}
      BY <1>1 DEF InTurn
    <3>2. CASE StagesWith(n) # {}
      BY <2>14, <3>2
    <3>3. CASE n \in Placed
      <4>1. PICK i \in DOMAIN waves : n \in ToSet(waves[i])
        BY <1>5, <3>3
      <4>2. CASE i = 1
        BY <2>3, <2>14, <4>1, <4>2
      <4>3. CASE i # 1
        <5>1. i - 1 \in DOMAIN waves' /\ n \in ToSet(waves'[i - 1])
          BY <2>3, <4>1, <4>3
        <5>2. DOMAIN waves' = 1..Len(waves')
          BY <2>3
        <5> QED
          BY <5>1, <5>2 DEF Placed
      <4> QED
        BY <4>2, <4>3
    <3> QED
      BY <3>1, <3>2, <3>3
  <2>17. InTurn'
    BY <1>1, <1>3, <2>1, <2>16, StepsAre DEF InTurn
  <2>18. PromotionTypeOK'
    <3>1. \A v \in ToSet(waves') : v \in Seq(Targets)
      BY <1>4, <2>3
    <3> QED
      BY <1>1, <1>2, <1>3, <2>1, <2>3, <2>8, <3>1 DEF PromotionTypeOK
  <2> QED
    BY <2>11, <2>13, <2>15, <2>17, <2>18 DEF LayoutInv
<1> QED
  BY <1>6, <1>7

-----------------------------------------------------------------------------
(***************************************************************************)
(* The pipeline as a whole.                                                *)
(***************************************************************************)
PromotionInv == LayoutInv /\ OwnTargetFirst

\* The target a version is judged against (resolver.go: ResolveTarget).
LEMMA ResolveFindsOwn ==
  ASSUME PromotionTypeOK, NEW shard \in DOMAIN HiveEnv, ResolveTarget(shard)
  PROVE  OwnTargetFirst'
<1> DEFINE Own(m) == \E t \in ToSet(Active(m)) : t.hive = shard
           Ask(read, m) == IF m \in read THEN matchTarget(Active(m), shard)
                                         ELSE Nobody
<1>1. PICK read \in SUBSET {"PKO", "OLM"} :
        found' = [shard |-> shard, read |-> read,
                  target |-> FirstAnswer(<<Ask(read, "PKO"),
                                           Ask(read, "OLM")>>)]
  BY DEF ResolveTarget
<1>2. \A m : Active(m)' = Active(m)
  BY DEF ResolveTarget, Active
<1>3. \A m \in {"PKO", "OLM"} : m \in read /\ Own(m) =>
        Ask(read, m) # Nobody /\ Ask(read, m).hive = shard
  <2> SUFFICES ASSUME NEW m \in {"PKO", "OLM"}, m \in read, Own(m)
               PROVE  Ask(read, m) # Nobody /\ Ask(read, m).hive = shard
    OBVIOUS
  <2>1. m \in ToSet(Methods)
    BY StepsAre
  <2>2. Active(m) \in Seq(ToSet(Active(m)))
    BY <2>1, ActiveIsList
  <2> QED
    BY <2>2, OwnTargetMatches
<1>4. "PKO" \notin read => Ask(read, "PKO") = Nobody
  OBVIOUS
<1>5. ASSUME \/ "PKO" \in read /\ Own("PKO")
             \/ "OLM" \in read /\ Own("OLM") /\ "PKO" \notin read
      PROVE  FirstAnswer(<<Ask(read, "PKO"), Ask(read, "OLM")>>).hive = shard
  <2> HIDE DEF Ask
  <2> QED
    BY <1>3, <1>4, <1>5, FirstOfTwo
<1>6. found'.shard = shard /\ found'.read = read
      /\ found'.target = FirstAnswer(<<Ask(read, "PKO"), Ask(read, "OLM")>>)
  BY <1>1
<1> HIDE DEF Ask
<1> QED
  BY <1>2, <1>5, <1>6 DEF OwnTargetFirst

\* Asking for a target changes nothing of the report (resolver.go:
\* ResolveTarget).
LEMMA ResolveKeepsLayout ==
  ASSUME LayoutInv, NEW shard \in DOMAIN HiveEnv, ResolveTarget(shard)
  PROVE  LayoutInv'
<1>1. PromotionTypeOK /\ InTurn /\ step = "done" /\ step' = "asked"
  BY DEF LayoutInv, ResolveTarget
<1>2. UNCHANGED <<files, todo, nodes, waves, stages, faults>>
  BY DEF ResolveTarget
<1>3. /\ Apart' /\ OfOneKind' /\ Sorted' /\ Targets' = Targets
  BY <1>2, SameLayout
<1>4. InTurn'
  BY <1>1, StepsAre DEF InTurn
<1>5. PICK resolved \in SUBSET DOMAIN HiveEnv :
        envCache' = [h \in DOMAIN envCache |->
                       IF h \in resolved THEN HiveEnv[h] ELSE envCache[h]]
  <2>1. \A m \in {"PKO", "OLM"} : \A t \in ToSet(Active(m)) :
          t.hive \in DOMAIN HiveEnv \cup {NoShard}
    BY <1>1, StepsAre, ActiveIsList
  <2> QED
    BY <2>1 DEF ResolveTarget
<1>6. /\ DOMAIN envCache' = DOMAIN HiveEnv
      /\ \A h \in DOMAIN HiveEnv : envCache'[h] \in {Unknown, HiveEnv[h]}
  BY <1>1, <1>5 DEF PromotionTypeOK
<1>7. PromotionTypeOK'
  BY <1>1, <1>2, <1>3, <1>6 DEF PromotionTypeOK
<1> QED
  BY <1>3, <1>4, <1>7 DEF LayoutInv

\* The target found stays as long as it is not asked for (resolver.go:
\* ResolveTarget).
LEMMA FoundStays ==
  ASSUME OwnTargetFirst, UNCHANGED <<files, found>>,
         step' = "asked" => step = "asked"
  PROVE  OwnTargetFirst'
<1>1. \A m : Active(m)' = Active(m)
  BY DEF Active
<1> QED
  BY <1>1 DEF OwnTargetFirst

\* Every step of the pipeline keeps the invariant (pipeline.go: BuildPipeline).
LEMMA StepKeepsPromotion ==
  PromotionInv /\ [PromotionNext]_promotionVars => PromotionInv'
<1> SUFFICES ASSUME LayoutInv, OwnTargetFirst, [PromotionNext]_promotionVars
             PROVE  LayoutInv' /\ OwnTargetFirst'
  BY DEF PromotionInv
<1>0. PromotionTypeOK
  BY DEF LayoutInv
<1>1. CASE ReadFile
  <2>1. UNCHANGED <<files, found>> /\ step' # "asked"
    BY <1>1, StepsAre DEF ReadFile
  <2> QED
    BY <1>1, <2>1, ReadFileKeeps, FoundStays
<1>2. ASSUME NEW m \in ToSet(Methods), Target(m)
      PROVE  LayoutInv' /\ OwnTargetFirst'
  <2>1. UNCHANGED <<files, found>> /\ step' = step
    BY <1>2 DEF Target
  <2> QED
    BY <1>2, <2>1, TargetKeeps, FoundStays
<1>3. ASSUME NEW m \in ToSet(Methods), FileDone(m)
      PROVE  LayoutInv' /\ OwnTargetFirst'
  <2>1. UNCHANGED <<files, found>> /\ step' # "asked"
    BY <1>3, StepsAre DEF FileDone
  <2> QED
    BY <1>3, <2>1, FileDoneKeeps, FoundStays
<1>4. CASE Wave
  <2>1. UNCHANGED <<files, found>> /\ step' # "asked"
    BY <1>4 DEF Wave
  <2> QED
    BY <1>4, <2>1, WaveKeeps, FoundStays
<1>5. CASE Rest
  <2>1. UNCHANGED <<files, found>> /\ step' # "asked"
    BY <1>5 DEF Rest
  <2> QED
    BY <1>5, <2>1, RestKeeps, FoundStays
<1>6. CASE Stage
  <2>1. UNCHANGED <<files, found>> /\ step' # "asked"
    BY <1>6 DEF Stage
  <2> QED
    BY <1>6, <2>1, StageKeeps, FoundStays
<1>7. ASSUME NEW shard \in DOMAIN HiveEnv, ResolveTarget(shard)
      PROVE  LayoutInv' /\ OwnTargetFirst'
  BY <1>0, <1>7, ResolveKeepsLayout, ResolveFindsOwn
<1>8. CASE UNCHANGED promotionVars
  <2>1. UNCHANGED <<files, step, todo, envCache, nodes, waves, stages, found,
                    faults>>
    BY <1>8 DEF promotionVars
  <2>2. /\ Apart' /\ OfOneKind' /\ Sorted' /\ Placed' = Placed
        /\ Targets' = Targets /\ Tangled' = Tangled
        /\ \A n : StagesWith(n)' = StagesWith(n)
    BY <2>1, SameLayout
  <2>3. PromotionTypeOK'
    BY <1>0, <2>1, <2>2 DEF PromotionTypeOK
  <2>4. InTurn'
    BY <2>1, <2>2 DEF LayoutInv, InTurn
  <2> QED
    BY <2>1, <2>2, <2>3, <2>4, FoundStays DEF LayoutInv
<1> QED
  BY <1>1, <1>2, <1>3, <1>4, <1>5, <1>6, <1>7, <1>8 DEF PromotionNext

\* The layout is sound and the own target is first, always (pipeline.go:
\* BuildPipeline; resolver.go: ResolveTarget).
LEMMA PromotionInvariant == PromotionSpec => []PromotionInv
<1>1. PromotionInit => PromotionInv
  <2>1. PromotionInit => OwnTargetFirst
    BY DEF PromotionInit, OwnTargetFirst
  <2> QED
    BY <2>1, InitLayout DEF PromotionInv
<1> QED
  BY <1>1, StepKeepsPromotion, PTL DEF PromotionSpec

\* The pipeline keeps its shapes, and the cache of environments never holds
\* another environment than the shard's (resolver.go: ResolveHiveEnv).
THEOREM PromotionTyped == PromotionSpec => []PromotionTypeOK
<1>1. PromotionInv => PromotionTypeOK
  BY DEF PromotionInv, LayoutInv
<1> QED
  BY <1>1, PromotionInvariant, PTL

\* The stages of the finished report show every target, and no target twice
\* (pipeline.go: buildStages).
LEMMA ShownOnce ==
  ASSUME LayoutInv, step = "done", NEW n \in Targets
  PROVE  \E i \in DOMAIN stages :
           /\ StagesWith(n) = {i}
           /\ KindOf(n) = [env |-> stages[i].env, e2e |-> stages[i].e2e]
<1>1. /\ Apart /\ OfOneKind /\ InTurn /\ waves \in Seq(ToSet(waves))
      /\ waves = <<>>
  BY DEF LayoutInv, PromotionTypeOK, InTurn
<1>2. n \notin Placed
  <2>1. DOMAIN waves = {}
    BY <1>1
  <2> QED
    BY <1>1, <2>1, PlacedIs
<1>3. PICK i \in StagesWith(n) : TRUE
  BY <1>1, <1>2 DEF InTurn
<1>4. i \in DOMAIN stages /\ n \in ToSet(stages[i].members)
  BY DEF StagesWith
<1>5. \A k \in StagesWith(n) : k = i
  BY <1>1, <1>4 DEF StagesWith, Apart
<1> QED
  BY <1>1, <1>4, <1>5 DEF OfOneKind

\* Every target read is shown once, in a stage of its environment and kind,
\* however many targets share a name and wherever channels go around in circles
\* (pipeline.go: buildStages).
THEOREM TargetsShownOnce == PromotionSpec => []EveryTargetOnce
<1>1. LayoutInv => EveryTargetOnce
  <2> SUFFICES ASSUME LayoutInv, step = "done", NEW n \in Targets
               PROVE  /\ Cardinality(StagesWith(n)) = 1
                      /\ \A i \in StagesWith(n) :
                            /\ stages[i].env = NodeOf(n).env
                            /\ stages[i].e2e = (NodeOf(n).method = "e2e")
    BY DEF EveryTargetOnce
  <2>1. PICK i \in DOMAIN stages :
          /\ StagesWith(n) = {i}
          /\ KindOf(n) = [env |-> stages[i].env, e2e |-> stages[i].e2e]
    BY ShownOnce
  <2>2. Cardinality({i}) = 1
    BY FS_Singleton
  <2>3. stages[i].env = NodeOf(n).env
    BY <2>1 DEF KindOf
  <2>4. stages[i].e2e = (NodeOf(n).method = "e2e")
    BY <2>1 DEF KindOf
  <2> QED
    BY <2>1, <2>2, <2>3, <2>4
<1>2. PromotionInv => EveryTargetOnce
  BY <1>1 DEF PromotionInv
<1> QED
  BY <1>2, PromotionInvariant, PTL

\* The report shows a target later than all it is promoted from, along chains
\* of any length, unless a cycle is in the way (pipeline.go: buildStages).
THEOREM LaterThanSources == PromotionSpec => []PromotedLater
<1>1. LayoutInv => PromotedLater
  <2> SUFFICES ASSUME LayoutInv, step = "done",
                      NEW r \in Reaches, r[2] \notin Tangled,
                      NEW i \in StagesWith(r[1]), NEW k \in StagesWith(r[2])
               PROVE  i < k
    BY DEF PromotedLater
  <2> DEFINE p == r[1]
             n == r[2]
             S == {m \in Targets : m \in Tangled \/
                     \A j \in StagesWith(m) : i < j}
  <2>1. p \in Targets /\ n \in Targets /\ r = <<p, n>>
    BY DEF Reaches
  <2>2. Sorted /\ stages \in Seq(ToSet(stages))
    BY DEF LayoutInv, PromotionTypeOK
  <2>3. Follows(S, p)
    <3> SUFFICES ASSUME NEW e \in Edges, e[1] \in S \cup {p}
                 PROVE  e[2] \in S
      BY DEF Follows
    <3>1. /\ e[1] \in Targets /\ e[2] \in Targets /\ e = <<e[1], e[2]>>
      BY DEF Edges
    <3>2. <<e[1], e[2]>> \in Reaches
      BY <3>1, EdgeReaches
    <3>3. CASE e[2] \in Tangled
      BY <3>1, <3>3
    <3>4. CASE e[2] \notin Tangled
      <4>1. e[1] \notin Tangled
        BY <3>2, <3>4, TangledOn
      <4>2. ASSUME NEW j \in StagesWith(e[2])
            PROVE  i < j
        <5>1. j \in DOMAIN stages /\ e[2] \in ToSet(stages[j].members)
          BY DEF StagesWith
        <5>2. e[1] \in DependsOn(e[2])
          BY <3>1 DEF DependsOn
        <5>3. PICK h \in StagesWith(e[1]) : h < j
          BY <2>2, <3>4, <5>1, <5>2 DEF Sorted
        <5>4. i \in Nat /\ h \in Nat /\ j \in Nat
          <6>1. \A x \in DOMAIN stages : x \in Nat
            BY <2>2
          <6> QED
            BY <6>1 DEF StagesWith
        <5>5. i <= h
          <6>1. CASE e[1] = p
            <7>1. PICK x : StagesWith(p) = {x}
              BY <2>1, ShownOnce
            <7> QED
              BY <5>4, <6>1, <7>1
          <6>2. CASE e[1] # p
            BY <4>1, <5>4, <6>2
          <6> QED
            BY <6>1, <6>2
        <5> QED
          BY <5>3, <5>4, <5>5
      <4> QED
        BY <3>1, <4>2
    <3> QED
      BY <3>3, <3>4
  <2>4. n \in S
    <3>1. S \in SUBSET Targets
      OBVIOUS
    <3> HIDE DEF S
    <3> QED
      BY <2>1, <2>3, <3>1, ReachesIs
  <2> QED
    BY <2>4
<1>2. PromotionInv => PromotedLater
  BY <1>1 DEF PromotionInv
<1> QED
  BY <1>2, PromotionInvariant, PTL

\* When a file that is read has the shard's own target, and no file before it
\* was read, that target is the answer (resolver.go: matchTarget).
THEOREM OwnTargetIsFirst == PromotionSpec => []OwnTargetFirst
<1>1. PromotionInv => OwnTargetFirst
  BY DEF PromotionInv
<1> QED
  BY <1>1, PromotionInvariant, PTL
=============================================================================
