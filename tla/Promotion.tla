------------------------------ MODULE Promotion -----------------------------
(***************************************************************************)
(* An operator's promotion pipeline (pkg/saas).  BuildPipeline reads the   *)
(* PKO, OLM and e2e SAAS files of app-interface in turn, resolves the      *)
(* environment of each target's hive shard through a cache, connects the   *)
(* targets by the channels they publish and subscribe, and sorts them into *)
(* waves and stages.  A file or an environment that cannot be read is left *)
(* out without a word.  A check then asks ResolveTarget for the target of  *)
(* its shard, which reads the deploy files once more.                      *)
(***************************************************************************)
EXTENDS Integers, Sequences, FiniteSets, SequencesExt, Places

CONSTANTS
    Files,           \* the contents of the SAAS files that may be found
    HiveEnv,         \* HiveEnv[h] : the environment of a shard
    NameEnv(_),      \* the environment a target's name suggests
    Names(_),        \* names matchTarget tries for a shard, in order
    SameNumber(_,_), \* do a target's name and a shard share their number?
    MaxFaults        \* files and environments that cannot be read

Unknown == ""
NoShard == ""
Methods == <<"PKO", "OLM", "e2e">>

\* A target is on a shard, or its namespace names none.
ASSUME PromotionAssumption ==
    /\ MaxFaults \in Nat
    /\ NoShard \notin DOMAIN HiveEnv
    /\ \A f \in Files : \A m \in ToSet(Methods) :
          /\ f[m] \in Seq(ToSet(f[m]))
          /\ \A t \in ToSet(f[m]) : t.hive \in DOMAIN HiveEnv \cup {NoShard}
    /\ \A shard \in DOMAIN HiveEnv : Names(shard) \in Seq(ToSet(Names(shard)))

VARIABLES
    files,     \* the files: for each method its targets
    step,      \* where BuildPipeline is
    todo,      \* targets of the file being read
    envCache,  \* shard -> environment, or Unknown
    nodes,     \* targets read so far, in order
    waves,     \* topological levels, in order
    stages,    \* the stages of the report, in order
    found,     \* what ResolveTarget answered, and about what
    faults     \* reads that failed

promotionVars ==
    <<files, step, todo, envCache, nodes, waves, stages, found, faults>>

Nobody == [name |-> "", hive |-> NoShard]
Envs == <<"integration", "stage", "production">>

\* The targets of a file are being read.
Reading(m) == CASE m = "PKO" -> "PKO targets" [] m = "OLM" -> "OLM targets"
                [] m = "e2e" -> "e2e targets"
After(m) == CASE m = "PKO" -> "OLM" [] m = "OLM" -> "e2e"
              [] m = "e2e" -> "seed"

PromotionInit ==
    /\ files \in Files
    /\ step = "PKO"
    /\ todo = <<>>
    /\ envCache = [h \in DOMAIN HiveEnv |-> Unknown]
    /\ nodes = <<>> /\ waves = <<>> /\ stages = <<>>
    /\ found = [shard |-> "", read |-> {}, target |-> Nobody]
    /\ faults = 0

-----------------------------------------------------------------------------
(* Reading *)

\* A target that is deleted or disabled, or of a template of another
\* repository, is no target.
Active(m) == At(files[m], {i \in DOMAIN files[m] : ~files[m][i].off})

\* fetchTargets and fetchE2ETargets: the file is read, or its error dropped.
ReadFile ==
    /\ step \in ToSet(Methods)
    /\ \/ /\ todo' = Active(step)
          /\ step' = Reading(step)
          /\ UNCHANGED faults
       \/ /\ faults < MaxFaults
          /\ faults' = faults + 1
          /\ step' = After(step)
          /\ UNCHANGED todo
    /\ UNCHANGED <<files, envCache, nodes, waves, stages, found>>

\* resolveEnv: the resolved environment, or the name's suggestion.
resolveEnv(env, name) == IF env # Unknown THEN env ELSE NameEnv(name)

\* ResolveHiveEnv: the cached environment, or one fetched and kept; a fetch
\* that fails answers Unknown and keeps nothing.
ResolveHiveEnv(h, env) ==
    IF h = NoShard
    THEN env = Unknown /\ UNCHANGED <<envCache, faults>>
    ELSE IF envCache[h] # Unknown
    THEN env = envCache[h] /\ UNCHANGED <<envCache, faults>>
    ELSE \/ /\ env = HiveEnv[h]
            /\ envCache' = [envCache EXCEPT ![h] = env]
            /\ UNCHANGED faults
         \/ /\ env = Unknown
            /\ faults < MaxFaults
            /\ faults' = faults + 1
            /\ UNCHANGED envCache

\* One target of the file becomes a node of the pipeline.
Target(m) ==
    /\ step = Reading(m)
    /\ todo # <<>>
    /\ LET t == Head(todo)
       IN  \E env \in {HiveEnv[h] : h \in DOMAIN HiveEnv} \cup {Unknown} :
              /\ ResolveHiveEnv(t.hive, env)
              /\ nodes' = Append(nodes, [name |-> t.name, hive |-> t.hive,
                            method |-> m, env |-> resolveEnv(env, t.name),
                            publish |-> t.publish,
                            subscribe |-> t.subscribe])
    /\ todo' = Tail(todo)
    /\ UNCHANGED <<files, step, waves, stages, found>>

FileDone(m) ==
    /\ step = Reading(m)
    /\ todo = <<>>
    /\ step' = After(m)
    /\ UNCHANGED <<files, todo, envCache, nodes, waves, stages, found, faults>>

-----------------------------------------------------------------------------
(* Edges, waves and stages *)

Targets == {n.name : n \in ToSet(nodes)}

\* The last node in reading order that publishes a channel, if any.
Publisher(ch) ==
    LET all == {i \in DOMAIN nodes : ch \in nodes[i].publish}
    IN  IF all = {} THEN "" ELSE nodes[Max(all)].name

\* buildEdges: the pairs of names that some channel connects.
Edges ==
    {e \in Targets \X Targets :
        \E n \in ToSet(nodes) : \E ch \in n.subscribe :
            e[1] = Publisher(ch) /\ e[2] = n.name}

DependsOn(name) == {p \in Targets : <<p, name>> \in Edges}

Placed == UNION {ToSet(waves[i]) : i \in 1..Len(waves)}

\* Mutant: a target is ready once one of the targets it waits for is placed.
ReadyOnOne(n) ==
    /\ n.name \notin Placed
    /\ DependsOn(n.name) = {} \/ DependsOn(n.name) \cap Placed # {}

\* A target not placed yet is ready once all it depends on is placed.
Ready(n) == n.name \notin Placed /\ DependsOn(n.name) \subseteq Placed

\* The roots first, then wave after wave of the targets that became ready.
\* A target that waits for itself never becomes ready.
Wave ==
    /\ step = "seed"
    /\ LET names == [i \in DOMAIN nodes |-> nodes[i].name]
           next == At(names, {i \in DOMAIN nodes : Ready(nodes[i])})
       IN  IF next # <<>>
           THEN waves' = Append(waves, next) /\ UNCHANGED step
           ELSE step' = "rest" /\ UNCHANGED waves
    /\ UNCHANGED <<files, todo, envCache, nodes, stages, found, faults>>

\* Mutant: the targets of a cycle are dropped.
RestDropped ==
    /\ step = "rest"
    /\ step' = "stages"
    /\ UNCHANGED <<files, todo, envCache, nodes, waves, stages, found, faults>>

\* The targets of a cycle and those behind it, one wave each, at the end.
Rest ==
    /\ step = "rest"
    /\ LET left == {i \in DOMAIN nodes : nodes[i].name \notin Placed}
       IN  IF left # {}
           THEN waves' = Append(waves, <<nodes[Min(left)].name>>)
                /\ UNCHANGED step
           ELSE step' = "stages" /\ UNCHANGED waves
    /\ UNCHANGED <<files, todo, envCache, nodes, stages, found, faults>>

\* nodeByName: the last node of a name.
NodeOf(name) == nodes[Max({i \in DOMAIN nodes : nodes[i].name = name})]

\* The targets of a wave that share an environment and a kind are one stage.
KindOf(name) == [env |-> NodeOf(name).env, e2e |-> NodeOf(name).method = "e2e"]
KindsOf(wave) == {KindOf(name) : name \in ToSet(wave)}

\* The known environments come in order, deploys before tests, and the others
\* after them.
Precedes(k, l) ==
    \E i \in DOMAIN Envs :
        /\ k.env = Envs[i]
        /\ \/ l.env \notin ToSet(Envs)
           \/ l.env = k.env /\ ~k.e2e /\ l.e2e
           \/ \E j \in DOMAIN Envs : i < j /\ l.env = Envs[j]

\* The orders the stages of a wave may have: the other environments come as the
\* map of groups is iterated.
OrdersOf(kinds) ==
    {order \in [1..Cardinality(kinds) -> kinds] :
        \A i, j \in DOMAIN order :
            i < j => order[i] # order[j] /\ ~Precedes(order[j], order[i])}

StagesOf(wave, order) ==
    [i \in DOMAIN order |->
        [env |-> order[i].env, e2e |-> order[i].e2e,
         members |-> At(wave, {k \in DOMAIN wave :
                                  KindOf(wave[k]) = order[i]})]]

\* buildStages goes on with the next wave.
Stage ==
    /\ step = "stages"
    /\ IF waves # <<>>
       THEN /\ \E order \in OrdersOf(KindsOf(Head(waves))) :
                  stages' = stages \o StagesOf(Head(waves), order)
            /\ waves' = Tail(waves)
            /\ UNCHANGED step
       ELSE step' = "done" /\ UNCHANGED <<waves, stages>>
    /\ UNCHANGED <<files, todo, envCache, nodes, found, faults>>

-----------------------------------------------------------------------------
(* The target of a shard *)

FirstThat(targets, Sel(_)) ==
    LET some == {i \in DOMAIN targets : Sel(targets[i])}
    IN  IF some = {} THEN Nobody
        ELSE [name |-> targets[Min(some)].name,
              hive |-> targets[Min(some)].hive]

\* The first answer of a list that is one.
FirstAnswer(answers) ==
    LET some == {i \in DOMAIN answers : answers[i] # Nobody}
    IN  IF some = {} THEN Nobody ELSE answers[Min(some)]

\* Mutant: the names are tried before the shard of the namespace.
matchTargetByName(targets, shard) ==
    FirstAnswer([i \in 1..Len(Names(shard)) |->
                    FirstThat(targets, LAMBDA t : t.name = Names(shard)[i])]
                \o <<FirstThat(targets, LAMBDA t : t.hive = shard),
                     FirstThat(targets, LAMBDA t :
                        SameNumber(t.name, shard))>>)

\* matchTarget: by the shard of the namespace, by name, by number.
matchTarget(targets, shard) ==
    FirstAnswer(<<FirstThat(targets, LAMBDA t : t.hive = shard)>>
                \o [i \in 1..Len(Names(shard)) |->
                    FirstThat(targets, LAMBDA t : t.name = Names(shard)[i])]
                \o <<FirstThat(targets, LAMBDA t :
                        SameNumber(t.name, shard))>>)

\* ResolveTarget: the PKO file, and the OLM file when it has no answer. A file
\* that is read resolves the environments of its targets on the way.
ResolveTarget(shard) ==
    /\ step = "done"
    /\ \E read \in SUBSET {"PKO", "OLM"} :
          LET Ask(m) == IF m \in read THEN matchTarget(Active(m), shard)
                                      ELSE Nobody
              asked == IF Ask("PKO") = Nobody THEN {"PKO", "OLM"} ELSE {"PKO"}
              hives == UNION {{t.hive : t \in ToSet(Active(m))} :
                                m \in asked \cap read}
          IN  /\ found' = [shard |-> shard, read |-> read,
                           target |-> FirstAnswer(<<Ask("PKO"), Ask("OLM")>>)]
              /\ \E resolved \in SUBSET (hives \ {NoShard}) :
                    envCache' = [h \in DOMAIN envCache |->
                        IF h \in resolved THEN HiveEnv[h] ELSE envCache[h]]
    /\ step' = "asked"
    /\ UNCHANGED <<files, todo, nodes, waves, stages, faults>>

PromotionNext ==
    \/ ReadFile
    \/ \E m \in ToSet(Methods) : Target(m) \/ FileDone(m)
    \/ Wave \/ Rest \/ Stage
    \/ \E shard \in DOMAIN HiveEnv : ResolveTarget(shard)

PromotionSpec == PromotionInit /\ [][PromotionNext]_promotionVars

-----------------------------------------------------------------------------

ReadingSteps == ToSet(Methods) \cup {Reading(m) : m \in ToSet(Methods)}

\* The variables keep their shapes, and the cache holds what app-interface
\* says of a shard or nothing.
PromotionTypeOK ==
    /\ files \in Files
    /\ step \in ReadingSteps \cup {"seed", "rest", "stages", "done", "asked"}
    /\ todo \in Seq(ToSet(todo))
    /\ \A t \in ToSet(todo) : t.hive \in DOMAIN HiveEnv \cup {NoShard}
    /\ DOMAIN envCache = DOMAIN HiveEnv
    /\ \A h \in DOMAIN HiveEnv : envCache[h] \in {Unknown, HiveEnv[h]}
    /\ nodes \in Seq(ToSet(nodes))
    /\ \A n \in ToSet(nodes) : n.method \in ToSet(Methods)
    /\ waves \in Seq(ToSet(waves))
    /\ \A wave \in ToSet(waves) : wave \in Seq(Targets)
    /\ stages \in Seq(ToSet(stages))
    /\ faults \in 0..MaxFaults

\* The stages that show a target.
StagesWith(name) == {i \in DOMAIN stages : name \in ToSet(stages[i].members)}

\* The pairs of targets that a chain of channels connects: the
\* second is in every set that holds what waits for the first or for one of the
\* set.
Reaches ==
    {r \in Targets \X Targets :
        \A S \in SUBSET Targets :
            (\A e \in Edges : e[1] \in S \cup {r[1]} => e[2] \in S)
              => r[2] \in S}

\* The targets of a cycle, and those behind one.
Tangled ==
    LET reaches == Reaches
    IN  {n \in Targets : \E c \in Targets :
            <<c, c>> \in reaches /\ (c = n \/ <<c, n>> \in reaches)}

\* The report shows a target in a later stage than every target it is
\* promoted from, along whole chains of channels, whichever files and
\* environments could not be read and whatever names two files share; only
\* the targets of a cycle and behind it are in no order.
PromotedLater ==
    step = "done" =>
        LET tangled == Tangled
        IN  \A r \in Reaches : r[2] \notin tangled =>
                \A i \in StagesWith(r[1]), k \in StagesWith(r[2]) : i < k

\* Every target that was read is in one stage only, of the environment and
\* kind of its node, targets of a cycle included.
EveryTargetOnce ==
    step = "done" => \A name \in Targets :
        /\ Cardinality(StagesWith(name)) = 1
        /\ \A i \in StagesWith(name) :
              /\ stages[i].env = NodeOf(name).env
              /\ stages[i].e2e = (NodeOf(name).method = "e2e")

\* No target is in two of the stages made and the waves to come.
Apart ==
    /\ \A i, k \in DOMAIN waves :
          i # k => ToSet(waves[i]) \cap ToSet(waves[k]) = {}
    /\ \A i \in DOMAIN stages, k \in DOMAIN waves :
          ToSet(stages[i].members) \cap ToSet(waves[k]) = {}
    /\ \A i, k \in DOMAIN stages : i # k =>
          ToSet(stages[i].members) \cap ToSet(stages[k].members) = {}

\* A stage shows targets that were read, of its environment and kind.
OfOneKind ==
    \A i \in DOMAIN stages : \A name \in ToSet(stages[i].members) :
        /\ name \in Targets
        /\ KindOf(name) = [env |-> stages[i].env, e2e |-> stages[i].e2e]

\* Outside of cycles, what a target waits for is in an earlier stage or wave.
Sorted ==
    LET tangled == Tangled
        Waits(n) == IF n \in tangled THEN {} ELSE DependsOn(n)
    IN  /\ \A i \in DOMAIN waves : \A n \in ToSet(waves[i]) :
              \A p \in Waits(n) :
                 \/ StagesWith(p) # {}
                 \/ \E k \in DOMAIN waves : k < i /\ p \in ToSet(waves[k])
        /\ \A i \in DOMAIN stages : \A n \in ToSet(stages[i].members) :
              \A p \in Waits(n) : \E k \in StagesWith(p) : k < i

\* The waves are made of the nodes, and the stages of the waves; what no wave
\* took is tangled, and nothing is lost.
InTurn ==
    /\ step \in ReadingSteps => waves = <<>>
    /\ step \in ReadingSteps \cup {"seed", "rest"} => stages = <<>>
    /\ step = "rest" => Targets \ Placed \subseteq Tangled
    /\ step \in {"stages", "done"} =>
          \A n \in Targets : n \in Placed \/ StagesWith(n) # {}
    /\ step = "done" => waves = <<>>

LayoutInv == PromotionTypeOK /\ Apart /\ OfOneKind /\ Sorted /\ InTurn

\* A version is judged against the shard's own target when the first file
\* that answers has one; a name or a number that fits better changes nothing.
OwnTargetFirst ==
    step = "asked" =>
        LET own(m) == m \in found.read /\ \E t \in ToSet(Active(m)) :
                                              t.hive = found.shard
        IN  own("PKO") \/ (own("OLM") /\ "PKO" \notin found.read)
            => found.target.hive = found.shard
=============================================================================
