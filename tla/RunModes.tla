------------------------------ MODULE RunModes ------------------------------
(***************************************************************************)
(* The start of cmd/healthcheck/main.go: the config file and the flags,    *)
(* the client of the cluster manager, the decision about elevation, and    *)
(* the clients of managed and hive clusters made under it.                 *)
(*                                                                         *)
(* The steps are those of one thread; what varies is the command line, the *)
(* config files and what the remote side answers.  The clients of the      *)
(* cluster manager are built by OcmClient.  One managed and one hive       *)
(* client stand for all of them: each is made from the same values.        *)
(***************************************************************************)
EXTENDS OcmClient

CONSTANTS
  ConfigChoices,  \* [arg, given, found]: where --config is, its file, and the
                  \* file of the search path, as [state, noElevate, reason]
  FlagChoices,    \* [noElevate, elevate, reason]
  ScopeChoices,   \* [list, byHive, saasOnly, managedOps, hiveOps]
  OcmChoices,     \* [file, url]: --ocm-config and --ocm-url, "" for none
  MaxFound        \* bound: clusters that hive discovery finds

Settled == [state : {"absent", "good", "bad"}, noElevate : BOOLEAN,
            reason : STRING]

ASSUME ModesAssumption ==
  /\ ConfigChoices \subseteq [arg : {"none", "middle", "last"},
                              given : Settled, found : Settled]
  /\ FlagChoices \subseteq [noElevate : {"unset", "yes", "no"},
                            elevate : BOOLEAN, reason : STRING]
  /\ ScopeChoices \subseteq [list : Nat, byHive : BOOLEAN, saasOnly : BOOLEAN,
                             managedOps : BOOLEAN, hiveOps : BOOLEAN]
  /\ OcmChoices \subseteq [file : BOOLEAN, url : OcmUrls]
  /\ MaxFound \in Nat

DefaultReason == "operator health check"
AutoReason == "SREP-operator-health-check"
\* The reasons there may be for elevation: typed, configured or built in.
Reasons ==
  {"", DefaultReason, AutoReason} \union {f.reason : f \in FlagChoices}
    \union UNION {{c.given.reason, c.found.reason} : c \in ConfigChoices}

EmptyCfg == [noElevate |-> FALSE, reason |-> ""]
ProdOptions == [NoOptions EXCEPT !.url = "api"]

VARIABLES
  phase,      \* where main() is
  cfgs,       \* the choice of config files
  flags,      \* the flags about elevation, as typed
  scope,      \* the flags about clusters and the scopes of the operators
  ocm,        \* the flags about the cluster manager
  cfg,        \* what config.Load returned
  noElevate,  \* the local of that name, a flag first, then the decision
  elevate,    \* the local of that name
  explicit,   \* explicitElevate
  reason,     \* the local of that name
  primary,    \* ocmClient
  hiveOCM,    \* the shared hive client, NoClient before it is built
  clusters,   \* len(clusterIDs)
  conns       \* clients of clusters: [kind, url, elevated, reason]

inputs == <<cfgs, flags, scope, ocm>>
decision == <<noElevate, elevate, explicit, reason>>
modeVars == <<phase, inputs, cfg, decision, primary, hiveOCM, clusters, conns>>
vars == <<ocmVars, modeVars>>

Phases == {"config", "flags", "arguments", "ocm", "elevation", "prodOcm",
           "discovery", "discoveryOcm", "managed", "hive", "hiveOcm",
           "done", "exit"}

Go(p) == phase' = p

(***************************************************************************)
(* Config file and flags.                                                  *)
(***************************************************************************)
\* The scan for --config does not look at the last argument.  A file that
\* cannot be read is skipped.
ConfigFound(c) == IF c.arg = "middle" THEN c.given ELSE c.found

\* A missing file is an empty config, not an error.
Settings(f) ==
  IF f.state = "absent" THEN EmptyCfg
  ELSE [noElevate |-> f.noElevate, reason |-> f.reason]

LoadConfig ==
  /\ phase = "config"
  /\ ConfigFound(cfgs).state # "bad"
  /\ cfg' = Settings(ConfigFound(cfgs))
  /\ Go("flags")
  /\ UNCHANGED <<ocmVars, inputs, decision, primary, hiveOCM, clusters, conns>>

ConfigError ==
  /\ phase = "config"
  /\ ConfigFound(cfgs).state = "bad"
  /\ Go("exit")
  /\ UNCHANGED <<ocmVars, inputs, cfg, decision, primary, hiveOCM, clusters,
                 conns>>

\* A flag that is not given has the default of the config file.
ParseFlags ==
  /\ phase = "flags"
  /\ noElevate' = IF flags.noElevate = "unset" THEN cfg.noElevate
                  ELSE flags.noElevate = "yes"
  /\ elevate' = flags.elevate
  /\ reason' = IF flags.reason = "unset" THEN cfg.reason ELSE flags.reason
  /\ Go("arguments")
  /\ UNCHANGED <<ocmVars, inputs, cfg, explicit, primary, hiveOCM, clusters,
                 conns>>

\* Clusters of the list are read here; hive discovery has not run yet.
CheckArguments ==
  /\ phase = "arguments"
  /\ scope.list > 0 \/ scope.byHive \/ scope.saasOnly \/ ~scope.managedOps
  /\ clusters' = IF scope.saasOnly THEN 0 ELSE scope.list
  /\ Go("ocm")
  /\ UNCHANGED <<ocmVars, inputs, cfg, decision, primary, hiveOCM, conns>>

NoClusterSource ==
  /\ phase = "arguments"
  /\ scope.list = 0 /\ ~scope.byHive /\ ~scope.saasOnly /\ scope.managedOps
  /\ Go("exit")
  /\ UNCHANGED <<ocmVars, inputs, cfg, decision, primary, hiveOCM, clusters,
                 conns>>

(***************************************************************************)
(* Clients of the cluster manager.                                         *)
(***************************************************************************)
PrimaryOptions ==
  [file |-> ocm.file, url |-> ocm.url, clusters |-> clusters,
   operators |-> 1, parallel |-> 1]

\* A client is being built: step is "idle" again when its result was used.
Building ==
  /\ phase \in {"ocm", "prodOcm", "discoveryOcm", "hiveOcm"}
  /\ \/ /\ step = "idle"
        /\ LET o == IF phase = "ocm" THEN PrimaryOptions ELSE ProdOptions
           IN  StartClient(o) \/ StartFails(o)
     \/ ClientStep
  /\ UNCHANGED modeVars

Used == step' = "idle" /\ UNCHANGED <<files, opts, config, env, login, client>>

PrimaryReady ==
  /\ phase = "ocm" /\ step = "built" /\ Used
  /\ primary' = client
  /\ Go("elevation")
  /\ UNCHANGED <<inputs, cfg, decision, hiveOCM, clusters, conns>>

PrimaryFails ==
  /\ phase = "ocm" /\ step = "failed" /\ Used
  /\ Go("exit")
  /\ UNCHANGED <<inputs, cfg, decision, primary, hiveOCM, clusters, conns>>

\* The client that resolves console URLs; the run goes on without it.
ProdDone ==
  /\ phase = "prodOcm" /\ step \in {"built", "failed"} /\ Used
  /\ Go(IF scope.byHive /\ ~scope.saasOnly /\ scope.managedOps
          THEN "discoveryOcm" ELSE "managed")
  /\ UNCHANGED <<inputs, cfg, decision, primary, hiveOCM, clusters, conns>>

\* getHiveOCM: the client is built once and shared.
HiveOcmReady ==
  /\ phase \in {"discoveryOcm", "hiveOcm"} /\ step = "built" /\ Used
  /\ hiveOCM' = client
  /\ Go(IF phase = "discoveryOcm" THEN "discovery" ELSE "hive")
  /\ UNCHANGED <<inputs, cfg, decision, primary, clusters, conns>>

HiveOcmFails ==
  /\ phase \in {"discoveryOcm", "hiveOcm"} /\ step = "failed" /\ Used
  /\ Go(IF phase = "discoveryOcm" THEN "exit" ELSE "done")
  /\ UNCHANGED <<inputs, cfg, decision, primary, hiveOCM, clusters, conns>>

(***************************************************************************)
(* Elevation.                                                              *)
(***************************************************************************)
NoTicket == reason \in {"", DefaultReason, cfg.reason}

\* Mutant: explicitElevate is captured after the automatic elevation.
DecideCaptureLate ==
  /\ ~(~noElevate /\ elevate /\ NoTicket)
  /\ elevate' = (~noElevate /\ (elevate \/ ~IsProduction(primary)))
  /\ explicit' = elevate'
  /\ noElevate' = ~elevate'
  /\ reason' = IF reason = "" THEN DefaultReason ELSE reason

\* The refusal wins; an explicit request needs a ticket; outside production
\* elevation is automatic, with a reason of its own.
Decide ==
  LET automatic == ~noElevate /\ ~elevate /\ ~IsProduction(primary)
  IN  /\ ~(~noElevate /\ elevate /\ NoTicket)
      /\ explicit' = elevate
      /\ elevate' = (automatic \/ (elevate /\ ~noElevate))
      /\ noElevate' = ~elevate'
      /\ reason' = IF automatic /\ reason \in {"", cfg.reason} THEN AutoReason
                   ELSE IF reason = "" THEN DefaultReason
                   ELSE reason

DecideElevation ==
  /\ phase = "elevation"
  /\ Decide
  /\ Go("prodOcm")
  /\ UNCHANGED <<ocmVars, inputs, cfg, primary, hiveOCM, clusters, conns>>

TicketMissing ==
  /\ phase = "elevation"
  /\ ~noElevate /\ elevate /\ NoTicket
  /\ Go("exit")
  /\ UNCHANGED <<ocmVars, inputs, cfg, decision, primary, hiveOCM, clusters,
                 conns>>

(***************************************************************************)
(* Clients of clusters: ConnectToClusterWithConn.                          *)
(***************************************************************************)
\* Elevated clients exist when elevation is allowed, a reason is given and the
\* elevated login succeeds.
Connected(kind, manager, refuse) ==
  {[kind |-> kind, url |-> manager.url, elevated |-> e, reason |-> reason] :
     e \in {FALSE, ~refuse /\ reason # ""}}

HiveConnections == Connected("hive", hiveOCM, ~explicit)

\* Hive shards list their clusters, which replace the list or narrow it; a
\* shard that cannot be reached is left out.
Discover ==
  /\ phase = "discovery"
  /\ \/ \E c \in HiveConnections : conns' = conns \union {c}
     \/ UNCHANGED conns
  /\ \E n \in 0..MaxFound :
       /\ scope.list > 0 => n <= clusters
       /\ clusters' = n
  /\ Go("managed")
  /\ UNCHANGED <<ocmVars, inputs, cfg, decision, primary, hiveOCM>>

\* No hive shard matches the pattern.
NothingDiscovered ==
  /\ phase = "discovery"
  /\ Go("exit")
  /\ UNCHANGED <<ocmVars, inputs, cfg, decision, primary, hiveOCM, clusters,
                 conns>>

\* Mutant: the hive pass does not build the shared client.
AfterManagedSharedOnly == IF ~scope.hiveOps THEN "done" ELSE "hive"

AfterManaged ==
  IF ~scope.hiveOps THEN "done"
  ELSE IF hiveOCM = NoClient THEN "hiveOcm" ELSE "hive"

ConnectManaged ==
  /\ phase = "managed" /\ clusters > 0 /\ scope.managedOps
  /\ \E c \in Connected("managed", primary, noElevate) :
       conns' = conns \union {c}
  /\ Go(AfterManaged)
  /\ UNCHANGED <<ocmVars, inputs, cfg, decision, primary, hiveOCM, clusters>>

\* No cluster, or none that can be reached.
NoManaged ==
  /\ phase = "managed"
  /\ Go(AfterManaged)
  /\ UNCHANGED <<ocmVars, inputs, cfg, decision, primary, hiveOCM, clusters,
                 conns>>

ConnectHive ==
  /\ phase = "hive"
  /\ \E c \in HiveConnections : conns' = conns \union {c}
  /\ Go("done")
  /\ UNCHANGED <<ocmVars, inputs, cfg, decision, primary, hiveOCM, clusters>>

NoHive ==
  /\ phase = "hive"
  /\ Go("done")
  /\ UNCHANGED <<ocmVars, inputs, cfg, decision, primary, hiveOCM, clusters,
                 conns>>

Init ==
  /\ OcmInit
  /\ phase = "config"
  /\ cfgs \in ConfigChoices /\ flags \in FlagChoices /\ scope \in ScopeChoices
  /\ ocm \in OcmChoices
  /\ cfg = EmptyCfg
  /\ noElevate = FALSE /\ elevate = FALSE /\ explicit = FALSE /\ reason = ""
  /\ primary = NoClient /\ hiveOCM = NoClient
  /\ clusters = 0 /\ conns = {}

Next ==
  \/ LoadConfig \/ ConfigError \/ ParseFlags
  \/ CheckArguments \/ NoClusterSource
  \/ Building \/ PrimaryReady \/ PrimaryFails \/ ProdDone
  \/ HiveOcmReady \/ HiveOcmFails
  \/ DecideElevation \/ TicketMissing
  \/ Discover \/ NothingDiscovered
  \/ ConnectManaged \/ NoManaged \/ ConnectHive \/ NoHive

Spec == Init /\ [][Next]_vars

(***************************************************************************)
(* Properties.                                                             *)
(***************************************************************************)
\* The types of the locals of main().
TypeOK ==
  /\ phase \in Phases
  /\ cfg \in [noElevate : BOOLEAN, reason : Reasons]
  /\ noElevate \in BOOLEAN /\ elevate \in BOOLEAN /\ explicit \in BOOLEAN
  /\ reason \in Reasons
  /\ primary \in Clients \union {NoClient}
  /\ hiveOCM \in Clients \union {NoClient}
  /\ clusters \in Nat
  /\ conns \subseteq [kind : {"managed", "hive"}, url : Urls,
                      elevated : BOOLEAN, reason : Reasons]
  /\ OcmTypeOK

\* The refusal a user gives, on the command line or in the config file read.
Refused ==
  IF flags.noElevate = "unset" THEN cfg.noElevate ELSE flags.noElevate = "yes"

\* A reason the user typed for this run: none of the defaults.
Ticket(r) == r \notin {"", DefaultReason, AutoReason, cfg.reason}

Elevated(kinds) == {c \in conns : c.elevated /\ c.kind \in kinds}

\* With a refusal no managed cluster gets an elevated client, whatever else is
\* asked for (main.go, "--no-elevate always wins").
ManagedRefusalWins == Refused => Elevated({"managed"}) = {}

\* With a refusal no cluster at all gets an elevated client.
RefusalWins == Refused => Elevated({"managed", "hive"}) = {}

\* Unless elevation was refused, a hive cluster is elevated only under a
\* ticket: never by the automatic elevation of another environment
\* (main.go, "Hive clusters are always production").
HiveNeedsTicket ==
  ~Refused => \A c \in Elevated({"hive"}) : Ticket(c.reason)

\* A managed cluster of an environment called production is elevated only
\* under a ticket (main.go, "required for production").
ProductionNeedsTicket ==
  IsProduction(primary) =>
    \A c \in Elevated({"managed"}) : Ticket(c.reason)

\* Who is elevated was asked for or allowed, whatever flags, config, scope and
\* environments come together: a refusal holds for the managed clusters, and
\* production, hive clusters included, takes a ticket.
ElevationIsGranted ==
  ManagedRefusalWins /\ HiveNeedsTicket /\ ProductionNeedsTicket

(***************************************************************************)
(* Why they hold.                                                          *)
(***************************************************************************)
\* The choices on the command line stay as they were made, and the clients
\* that later phases use are there.
InputsFit ==
  /\ cfgs \in ConfigChoices /\ flags \in FlagChoices
  /\ scope \in ScopeChoices /\ ocm \in OcmChoices
  /\ phase \notin {"config", "flags", "arguments", "ocm", "exit"} =>
       primary \in Clients
  /\ phase \in {"discovery", "hive"} => hiveOCM \in Clients

ModeTypes == TypeOK /\ InputsFit /\ OcmInv

\* Before the decision no cluster is connected; once the flags are parsed, the
\* locals are what was typed, or the default of the config file.
Undecided == {"arguments", "ocm", "elevation"}

BeforeDecision ==
  /\ phase \in Undecided \union {"config", "flags"} => conns = {}
  /\ phase \in Undecided =>
       /\ noElevate = Refused /\ elevate = flags.elevate
       /\ reason = IF flags.reason = "unset" THEN cfg.reason ELSE flags.reason

\* What the decision leaves: a refusal stands, and what is elevated by an
\* explicit request, or in production, has a ticket.
Decided ==
  /\ Refused => noElevate
  /\ ~Refused /\ explicit => Ticket(reason)
  /\ IsProduction(primary) /\ ~noElevate => Ticket(reason)

\* Every client of a cluster was made from the decision, which nothing changes
\* afterwards.
AfterDecision ==
  /\ phase \notin Undecided \union {"config", "flags", "exit"} \/ conns # {} =>
       Decided
  /\ \A c \in conns :
       /\ c.reason = reason
       /\ c.elevated => IF c.kind = "managed" THEN ~noElevate ELSE explicit

ElevationInv == BeforeDecision /\ AfterDecision

\* Nobody types the reason of the automatic elevation as a ticket.
TicketsAreTyped == \A f \in FlagChoices : f.reason # AutoReason
=============================================================================
