----------------------------- MODULE OcmClient -----------------------------
(***************************************************************************)
(* NewClientWithOptions of pkg/ocm/ocm.go: how a client of the cluster     *)
(* manager comes by its configuration, its token and its environment.      *)
(*                                                                         *)
(* The process builds several clients one after the other (the client of   *)
(* the run, the one that resolves console URLs, the hive client), and all  *)
(* of them read and, through the ocm command, write the same files.        *)
(* Tokens are abstracted to the seconds they have left; 0 stands for an    *)
(* expired, missing or unreadable one, which the code treats alike.        *)
(***************************************************************************)
EXTENDS Integers

CONSTANTS
  FileChoices,  \* the config files there may be at the start, by name: the
                \* "active" one, the "given" one of --ocm-config, and the
                \* well-known files, by environment
  FreshLife     \* seconds a token has left after a login

Urls == {"api.integration", "api.stage", "api", "gateway"}
Envs == {"integration", "staging", "production"}

FileNames == {"active", "given"} \union Envs
Config == [url : Urls, left : Nat]

ASSUME OcmAssumption ==
  /\ \A choice \in FileChoices :
       /\ {"active", "given"} \subseteq DOMAIN choice
       /\ DOMAIN choice \subseteq FileNames
       /\ \A f \in DOMAIN choice : choice[f] \in Config
  /\ FreshLife \in Nat \ {0}

VARIABLES
  files,    \* the config files on disk, by name
  opts,     \* the Options of the client being built
  config,   \* the config it holds at this point
  env,      \* classifyEnv(config.URL), computed once
  step,     \* where NewClientWithOptions is
  login,    \* what refreshLogin returned, "none" when it was not called
  client    \* the client built last

ocmVars == <<files, opts, config, env, step, login, client>>

Steps == {"idle", "check", "expired", "ageing", "reload", "tryReload",
          "build", "built", "failed"}

Clients == [url : Urls, env : Envs \union Urls, left : Nat]

NoConfig == [url |-> "", left |-> 0]
NoOptions == [file |-> FALSE, url |-> "", clusters |-> 0, operators |-> 0,
              parallel |-> 0]
NoClient == [url |-> "", env |-> "", left |-> 0]

(***************************************************************************)
(* Names of environments.  An address outside the three environments is    *)
(* an environment of its own.                                              *)
(***************************************************************************)
urlAliases ==
  [production  |-> "api",             prod  |-> "api",
   staging     |-> "api.stage",       stage |-> "api.stage",
   integration |-> "api.integration", int   |-> "api.integration"]

\* The Options that name an address or an alias of one, "" for none.
OcmUrls == {""} \union Urls \union DOMAIN urlAliases
Requests == [file : BOOLEAN, url : OcmUrls, clusters : Nat, operators : Nat,
             parallel : Nat]

ResolveOCMURL(u) == IF u \in DOMAIN urlAliases THEN urlAliases[u] ELSE u

ClassifyEnv(u) ==
  CASE u = "api.integration" -> "integration"
    [] u = "api.stage"       -> "staging"
    [] u = "api"             -> "production"
    [] OTHER                 -> u

(***************************************************************************)
(* The validity of the token against the size of the run.                  *)
(***************************************************************************)
AtLeast(n, low) == IF n < low THEN low ELSE n

\* Seconds the run may take: 90 for each operator of each cluster, shared by
\* the parallel goroutines, and five minutes; ten minutes at least.
EstimatedRuntime(o) ==
  LET work == AtLeast(o.clusters, 1) * AtLeast(o.operators, 1) * 90
  IN  AtLeast((work \div AtLeast(o.parallel, 1)) + 300, 600)

(***************************************************************************)
(* The actions.                                                            *)
(***************************************************************************)
\* The file named by the options, or the active one, with the URL overridden.
BaseConfig(o) ==
  LET f == files[IF o.file THEN "given" ELSE "active"]
  IN  IF o.url = "" THEN f ELSE [f EXCEPT !.url = ResolveOCMURL(o.url)]

StartClient(o) ==
  /\ step \in {"idle", "built", "failed"}
  /\ opts' = o /\ login' = "none" /\ client' = NoClient
  /\ config' = BaseConfig(o)
  /\ env' = ClassifyEnv(config'.url)
  /\ step' = "check"
  /\ UNCHANGED files

\* The file cannot be read or parsed, or names no URL.
StartFails(o) ==
  /\ step \in {"idle", "built", "failed"}
  /\ opts' = o /\ login' = "none" /\ client' = NoClient
  /\ step' = "failed"
  /\ UNCHANGED <<files, config, env>>

CheckToken ==
  /\ step = "check"
  /\ step' = IF config.left = 0 THEN "expired"
             ELSE IF config.left <= EstimatedRuntime(opts) THEN "ageing"
             ELSE "build"
  /\ UNCHANGED <<files, opts, config, env, login, client>>

\* refreshLogin: `ocm token --refresh` renews the tokens of the active file;
\* when it fails, `ocm login --url` writes a new active file.
LoginSucceeds ==
  /\ login' = "ok"
  /\ \/ files' = [files EXCEPT !["active"].left = FreshLife]
     \/ files' = [files EXCEPT !["active"] =
                    [url |-> config.url, left |-> FreshLife]]

LoginFails == login' = "failed" /\ UNCHANGED files

\* Mutant: the error of refreshLogin is only logged.
RenewExpiredOrGoOn ==
  /\ step = "expired"
  /\ \/ LoginSucceeds /\ step' = "reload"
     \/ LoginFails /\ step' = "build"
  /\ UNCHANGED <<opts, config, env, client>>

RenewExpired ==
  /\ step = "expired"
  /\ \/ LoginSucceeds /\ step' = "reload"
     \/ LoginFails /\ step' = "failed"
  /\ UNCHANGED <<opts, config, env, client>>

\* The token may expire during the run: a failure keeps the current one.
RenewAgeing ==
  /\ step = "ageing"
  /\ \/ LoginSucceeds /\ step' = "tryReload"
     \/ LoginFails /\ step' = "build"
  /\ UNCHANGED <<opts, config, env, client>>

\* Mutant: the well-known file of production, whatever the environment.
ReloadedFromProduction ==
  IF "production" \in DOMAIN files THEN files["production"]
  ELSE files["active"]

\* reloadConfig: the well-known file of the environment, else the active one.
\* The overrides and the file of the options are not applied again.
Reloaded ==
  IF ClassifyEnv(config.url) \in DOMAIN files
    THEN files[ClassifyEnv(config.url)]
    ELSE files["active"]

Reload ==
  /\ step \in {"reload", "tryReload"}
  /\ config' = Reloaded
  /\ step' = "build"
  /\ UNCHANGED <<files, opts, env, login, client>>

ReloadFails ==
  /\ step \in {"reload", "tryReload"}
  /\ step' = IF step = "reload" THEN "failed" ELSE "build"
  /\ UNCHANGED <<files, opts, config, env, login, client>>

\* The client keeps the environment computed from the first config.
Build ==
  /\ step = "build"
  /\ client' = [url |-> config.url, env |-> env, left |-> config.left]
  /\ step' = "built"
  /\ UNCHANGED <<files, opts, config, env, login>>

BuildFails ==
  /\ step = "build"
  /\ step' = "failed"
  /\ UNCHANGED <<files, opts, config, env, login, client>>

IsProduction(c) == c.env = "production"

\* What NewClientWithOptions does after it was called.
ClientStep ==
  \/ CheckToken
  \/ RenewExpired
  \/ RenewAgeing
  \/ Reload
  \/ ReloadFails
  \/ Build
  \/ BuildFails

OcmInit ==
  /\ files \in FileChoices
  /\ opts = NoOptions /\ config = NoConfig /\ env = ""
  /\ step = "idle" /\ login = "none" /\ client = NoClient

(***************************************************************************)
(* Properties.                                                             *)
(***************************************************************************)
\* The types of the files and of the client of pkg/ocm/ocm.go.
OcmTypeOK ==
  /\ DOMAIN files \subseteq FileNames
  /\ \A f \in DOMAIN files : files[f] \in Config
  /\ opts \in Requests
  /\ config \in Config \union {NoConfig}
  /\ env \in Envs \union Urls \union {""}
  /\ step \in Steps
  /\ login \in {"none", "ok", "failed"}
  /\ client \in Clients \union {NoClient}

\* An expired token is renewed or NewClientWithOptions fails
\* (newClientFromConfig, "re-login required"); the one way to a client with an
\* expired token is a renewal that reloads the well-known file of the
\* environment, whose token nothing looks at.
NoExpiredClient ==
  step = "built" /\ client.left = 0 => login = "ok" /\ env \in DOMAIN files

\* A client whose token may not outlive the run exists only after a renewal
\* was tried (newClientFromConfig, "may expire during run - refreshing").
ShortTokenOnlyAfterRenewal ==
  step = "built" /\ client.left <= EstimatedRuntime(opts) => login # "none"

\* The token of a client was renewed, or its renewal tried, when it was due.
RenewedWhenDue == NoExpiredClient /\ ShortTokenOnlyAfterRenewal

\* The environment a client reports, which decides about elevation, is the one
\* its requests go to (Client.env against Client.url), across a renewal too,
\* when neither the file nor the URL was given on the command line.
EnvMatchesUrl ==
  step = "built" /\ ~opts.file /\ opts.url = "" =>
    client.env = ClassifyEnv(client.url)

(***************************************************************************)
(* Why they hold: what is known of a client at each step of its making.    *)
(***************************************************************************)
\* The steps from the first config of a client to its last.
Configured == {"check", "expired", "ageing", "reload", "tryReload", "build"}

\* The file the options name is there, and a config and its environment are
\* those of a file once there is one.
FilesThere ==
  /\ {"active", "given"} \subseteq DOMAIN files
  /\ step \in Configured => config \in Config /\ env \in Envs \union Urls
  /\ step = "built" => client \in Clients

\* A login is tried only when it is due; the token that needs none is alive,
\* and so is the one kept after a login or a reload that failed.
TokenSoFar ==
  /\ step \in {"check", "expired", "ageing"} => login = "none"
  /\ step \in {"ageing", "tryReload"} => config.left # 0
  /\ step \in {"reload", "tryReload"} =>
       login = "ok" /\ files["active"].left = FreshLife
  /\ step = "build" /\ login = "none" =>
       config.left > EstimatedRuntime(opts)
  /\ step = "build" /\ config.left = 0 => login = "ok" /\ env \in DOMAIN files

\* The environment is that of the config until the config is read again.
EnvSoFar ==
  step \in Configured \ {"build"} => env = ClassifyEnv(config.url)

OcmInv == OcmTypeOK /\ FilesThere /\ TokenSoFar /\ EnvSoFar /\ RenewedWhenDue

\* The well-known file of an environment is a login to it: envConfigFiles only
\* names it, and nothing reads the URL it holds.
WellNamed(choice) ==
  \A e \in Envs \intersect DOMAIN choice : ClassifyEnv(choice[e].url) = e

\* A renewal of the active file keeps its address, and a reload takes a file
\* of the same environment.
SameEnv ==
  /\ WellNamed(files)
  /\ step \in {"reload", "tryReload", "check", "expired", "ageing"}
       /\ ~opts.file /\ opts.url = "" => files["active"].url = config.url
  /\ step = "build" /\ ~opts.file /\ opts.url = "" =>
       env = ClassifyEnv(config.url)
  /\ EnvMatchesUrl
=============================================================================
