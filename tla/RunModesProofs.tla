--------------------------- MODULE RunModesProofs ---------------------------
(***************************************************************************)
(* Theorems about RunModes and the client of the cluster manager it        *)
(* builds, for every config file, command line and set of files on disk.   *)
(***************************************************************************)
EXTENDS RunModes, TLAPS

(***************************************************************************)
(* Addresses and environments.                                             *)
(***************************************************************************)
\* An address given on the command line is one of the known addresses
\* (ocm.go: urlAliases, ResolveOCMURL).
LEMMA UrlIsKnown ==
  ASSUME NEW u \in OcmUrls, u # ""
  PROVE  ResolveOCMURL(u) \in Urls
<1>1. DOMAIN urlAliases = {"production", "prod", "staging", "stage",
                           "integration", "int"}
  BY DEF urlAliases
<1>2. /\ urlAliases.production = "api" /\ urlAliases.prod = "api"
      /\ urlAliases.staging = "api.stage" /\ urlAliases.stage = "api.stage"
      /\ urlAliases.integration = "api.integration"
      /\ urlAliases.int = "api.integration"
  BY DEF urlAliases
<1>3. \A a \in DOMAIN urlAliases : urlAliases[a] \in Urls
  BY <1>1, <1>2 DEF Urls
<1> QED
  BY <1>3 DEF OcmUrls, ResolveOCMURL

\* An address outside the three environments is its own environment
\* (ocm.go: classifyEnv).
LEMMA EnvIsKnown ==
  ASSUME NEW u \in Urls
  PROVE  ClassifyEnv(u) \in Envs \union Urls
BY DEF ClassifyEnv, Urls, Envs

\* No environment has the name of the active file or of the given one
\* (ocm.go: envConfigFiles).
LEMMA EnvIsNoSlot ==
  ASSUME NEW u \in Urls
  PROVE  ClassifyEnv(u) \notin {"active", "given"}
BY DEF ClassifyEnv, Urls

\* A well-known file that is there has a config (ocm.go: reloadConfig).
LEMMA FileIsConfig ==
  ASSUME OcmInv, NEW f \in DOMAIN files
  PROVE  files[f] \in Config /\ files[f].url \in Urls /\ files[f].left \in Nat
BY DEF OcmInv, OcmTypeOK, Config

\* A bound from below is one of the two numbers (ocm.go: estimateRuntime).
LEMMA AtLeastIsNumber ==
  ASSUME NEW n \in Nat, NEW low \in Nat
  PROVE  AtLeast(n, low) \in Nat /\ AtLeast(n, low) >= low
BY DEF AtLeast

\* The estimate of the runtime is a number of seconds, ten minutes or more
\* (ocm.go: estimateRuntime).
LEMMA RuntimeIsNumber ==
  ASSUME NEW o \in Requests
  PROVE  EstimatedRuntime(o) \in Nat /\ EstimatedRuntime(o) >= 600
<1> DEFINE c == AtLeast(o.clusters, 1)
           n == AtLeast(o.operators, 1)
           p == AtLeast(o.parallel, 1)
           work == c * n * 90
           share == work \div p
<1>1. c \in Nat /\ n \in Nat /\ p \in Nat /\ p >= 1
  BY AtLeastIsNumber DEF Requests
<1> HIDE DEF c, n, p
<1>2. c * n \in Nat
  BY <1>1
<1>3. work \in Nat
  BY <1>2
<1> HIDE DEF work
<1>4. share \in Nat
  BY <1>1, <1>3
<1> HIDE DEF share
<1>5. AtLeast(share + 300, 600) \in Nat /\ AtLeast(share + 300, 600) >= 600
  BY <1>4, AtLeastIsNumber
<1> QED
  BY <1>5 DEF EstimatedRuntime, share, work, c, n, p

-----------------------------------------------------------------------------
(***************************************************************************)
(* The client: no step of its making breaks what is known of it.           *)
(***************************************************************************)
\* The config a client starts from is that of a file, at one of the known
\* addresses (ocm.go: NewClientWithOptions).
LEMMA BaseIsConfig ==
  ASSUME OcmInv, NEW o \in Requests
  PROVE  BaseConfig(o) \in Config
<1> DEFINE name == IF o.file THEN "given" ELSE "active"
<1>1. name \in DOMAIN files
  BY DEF OcmInv, FilesThere
<1>2. files[name] \in Config
  BY <1>1, FileIsConfig
<1>3. CASE o.url = ""
  BY <1>2, <1>3 DEF BaseConfig
<1>4. CASE o.url # ""
  <2>1. ResolveOCMURL(o.url) \in Urls
    BY <1>4, UrlIsKnown DEF Requests
  <2> DEFINE u == ResolveOCMURL(o.url)
             f == files[name]
  <2> HIDE DEF u, name
  <2>2. [f EXCEPT !.url = u] \in Config
    BY <1>2, <2>1 DEF Config, u
  <2> QED
    BY <1>4, <2>2 DEF BaseConfig, u, name
<1> QED
  BY <1>3, <1>4

\* A client is begun from a file (ocm.go: NewClientWithOptions).
LEMMA StartKeeps ==
  ASSUME OcmInv, NEW o \in Requests, StartClient(o)
  PROVE  OcmInv'
<1>1. config' \in Config
  BY BaseIsConfig DEF StartClient
<1>2. config'.url \in Urls
  BY <1>1 DEF Config
<1>3. env' = ClassifyEnv(config'.url) /\ env' \in Envs \union Urls
  BY <1>2, EnvIsKnown DEF StartClient
<1>4. OcmTypeOK'
  BY <1>1, <1>3 DEF StartClient, OcmInv, OcmTypeOK, Steps
<1>5. FilesThere'
  BY <1>1, <1>3 DEF StartClient, OcmInv, FilesThere, Configured
<1>6. TokenSoFar' /\ EnvSoFar' /\ RenewedWhenDue'
  BY <1>3 DEF StartClient, TokenSoFar, EnvSoFar, RenewedWhenDue,
              NoExpiredClient, ShortTokenOnlyAfterRenewal
<1> QED
  BY <1>4, <1>5, <1>6 DEF OcmInv

\* A client that has no config file fails (ocm.go: NewClientWithOptions).
LEMMA StartFailsKeeps ==
  ASSUME OcmInv, NEW o \in Requests, StartFails(o)
  PROVE  OcmInv'
BY DEF StartFails, OcmInv, OcmTypeOK, Steps, FilesThere, Configured,
       TokenSoFar, EnvSoFar, RenewedWhenDue, NoExpiredClient,
       ShortTokenOnlyAfterRenewal

\* A login writes the active file and no other (ocm.go: refreshLogin).
LEMMA LoginWrites ==
  ASSUME OcmInv, step \in Configured, LoginSucceeds
  PROVE  /\ DOMAIN files' = DOMAIN files
         /\ \A f \in DOMAIN files' : files'[f] \in Config
         /\ files'["active"].left = FreshLife
         /\ \A f \in DOMAIN files : f # "active" => files'[f] = files[f]
         /\ files'["active"].url \in {files["active"].url, config.url}
<1>1. "active" \in DOMAIN files /\ config \in Config
  BY DEF OcmInv, FilesThere
<1>2. FreshLife \in Nat /\ config.url \in Urls
  BY <1>1, OcmAssumption DEF Config
<1>3. files["active"] \in Config
  BY <1>1, FileIsConfig
<1> DEFINE old == [files["active"] EXCEPT !.left = FreshLife]
           new == [url |-> config.url, left |-> FreshLife]
<1>4. old \in Config /\ old.left = FreshLife /\ old.url = files["active"].url
  BY <1>2, <1>3 DEF Config
<1>5. new \in Config /\ new.left = FreshLife /\ new.url = config.url
  BY <1>2 DEF Config
<1>6. \/ files' = [files EXCEPT !["active"] = old]
      \/ files' = [files EXCEPT !["active"] = new]
  BY DEF LoginSucceeds
<1> HIDE DEF old, new
<1>7. PICK c \in {old, new} : files' = [files EXCEPT !["active"] = c]
  BY <1>6
<1>8. DOMAIN files' = DOMAIN files /\ files'["active"] = c
  BY <1>1, <1>7
<1>9. \A f \in DOMAIN files : f # "active" => files'[f] = files[f]
  BY <1>7
<1>10. \A f \in DOMAIN files' : files'[f] \in Config
  BY <1>4, <1>5, <1>8, <1>9, FileIsConfig
<1> QED
  BY <1>4, <1>5, <1>8, <1>9, <1>10

\* A client whose token is expired goes on only after a login (ocm.go:
\* newClientFromConfig).
LEMMA RenewKeeps ==
  ASSUME OcmInv, RenewExpired \/ RenewAgeing
  PROVE  OcmInv'
<1>1. step \in Configured /\ step \in {"expired", "ageing"}
  BY DEF RenewExpired, RenewAgeing, Configured
<1>2. CASE LoginSucceeds
  <2>1. OcmTypeOK'
    BY <1>1, <1>2, LoginWrites
    DEF RenewExpired, RenewAgeing, LoginSucceeds, LoginFails, OcmInv,
        OcmTypeOK, Steps
  <2>2. FilesThere'
    BY <1>1, <1>2, LoginWrites
    DEF RenewExpired, RenewAgeing, LoginSucceeds, LoginFails, OcmInv,
        FilesThere
  <2>3. TokenSoFar' /\ EnvSoFar' /\ RenewedWhenDue'
    BY <1>1, <1>2, LoginWrites
    DEF RenewExpired, RenewAgeing, LoginSucceeds, LoginFails, OcmInv,
        TokenSoFar, EnvSoFar, RenewedWhenDue, NoExpiredClient,
        ShortTokenOnlyAfterRenewal, Configured
  <2> QED
    BY <2>1, <2>2, <2>3 DEF OcmInv
<1>3. CASE LoginFails
  BY <1>1, <1>3
  DEF RenewExpired, RenewAgeing, LoginSucceeds, LoginFails, OcmInv, OcmTypeOK,
      Steps, FilesThere, TokenSoFar, EnvSoFar, RenewedWhenDue,
      NoExpiredClient, ShortTokenOnlyAfterRenewal, Configured
<1> QED
  BY <1>2, <1>3 DEF RenewExpired, RenewAgeing

\* The token is alive where no login is called for (ocm.go:
\* newClientFromConfig, estimateRuntime).
LEMMA CheckKeeps ==
  ASSUME OcmInv, CheckToken
  PROVE  OcmInv'
<1>1. config \in Config /\ config.left \in Nat
  BY DEF CheckToken, OcmInv, FilesThere, Configured, Config
<1>2. OcmTypeOK' /\ FilesThere'
  BY DEF CheckToken, OcmInv, OcmTypeOK, Steps, FilesThere, Configured
<1>3. EstimatedRuntime(opts) \in Int
  <2>1. opts \in Requests
    BY DEF OcmInv, OcmTypeOK
  <2> QED
    BY <2>1, RuntimeIsNumber
<1>4. TokenSoFar'
  BY <1>1, <1>3 DEF CheckToken, OcmInv, TokenSoFar
<1> QED
  BY <1>2, <1>4
  DEF CheckToken, OcmInv, EnvSoFar, RenewedWhenDue, NoExpiredClient,
      ShortTokenOnlyAfterRenewal, Configured

\* A config is read again from a file that is there, alive unless it is the
\* well-known file of the environment (ocm.go: reloadConfig).
LEMMA ReloadKeeps ==
  ASSUME OcmInv, Reload
  PROVE  OcmInv'
<1>1. /\ config \in Config /\ config.url \in Urls
      /\ env = ClassifyEnv(config.url) /\ env \in Envs \union Urls
      /\ "active" \in DOMAIN files
  BY DEF Reload, OcmInv, FilesThere, EnvSoFar, Configured, Config
<1>2. files["active"].left = FreshLife /\ login = "ok" /\ FreshLife # 0
  BY OcmAssumption DEF Reload, OcmInv, TokenSoFar
<1>3. config' \in Config
  BY <1>1, FileIsConfig DEF Reload, Reloaded
<1>4. config'.left = 0 => env \in DOMAIN files
  BY <1>1, <1>2 DEF Reload, Reloaded
<1>5. OcmTypeOK'
  BY <1>3 DEF Reload, OcmInv, OcmTypeOK, Steps
<1>6. FilesThere'
  BY <1>1, <1>3 DEF Reload, OcmInv, FilesThere, Configured
<1>7. TokenSoFar' /\ EnvSoFar' /\ RenewedWhenDue'
  BY <1>2, <1>4
  DEF Reload, TokenSoFar, EnvSoFar, Configured, RenewedWhenDue,
      NoExpiredClient, ShortTokenOnlyAfterRenewal
<1> QED
  BY <1>5, <1>6, <1>7 DEF OcmInv

\* After a reload that fails the client fails, or keeps a token that is alive
\* (ocm.go: newClientFromConfig).
LEMMA ReloadFailsKeeps ==
  ASSUME OcmInv, ReloadFails
  PROVE  OcmInv'
BY DEF ReloadFails, OcmInv, OcmTypeOK, Steps, FilesThere, Configured,
       TokenSoFar, EnvSoFar, RenewedWhenDue, NoExpiredClient,
       ShortTokenOnlyAfterRenewal

\* The client has the config the steps before left (ocm.go:
\* newClientFromConfig).
LEMMA BuildKeeps ==
  ASSUME OcmInv, Build
  PROVE  OcmInv'
<1>1. config \in Config /\ env \in Envs \union Urls
  BY DEF Build, OcmInv, FilesThere, Configured
<1>2. client' \in Clients /\ client'.left = config.left
  BY <1>1 DEF Build, Clients, Config
<1>3. OcmTypeOK' /\ FilesThere'
  BY <1>2 DEF Build, OcmInv, OcmTypeOK, Steps, FilesThere, Configured
<1>4. EstimatedRuntime(opts)' = EstimatedRuntime(opts)
  BY DEF Build
<1>5. config.left \in Nat /\ EstimatedRuntime(opts) \in Nat
  BY <1>1, RuntimeIsNumber DEF Config, OcmInv, OcmTypeOK
<1>6. RenewedWhenDue'
  BY <1>2, <1>4, <1>5
  DEF Build, OcmInv, TokenSoFar, RenewedWhenDue, NoExpiredClient,
      ShortTokenOnlyAfterRenewal
<1>7. TokenSoFar' /\ EnvSoFar'
  BY DEF Build, TokenSoFar, EnvSoFar, Configured
<1> QED
  BY <1>3, <1>6, <1>7 DEF OcmInv

\* The connection cannot be made (ocm.go: newClientFromConfig).
LEMMA BuildFailsKeeps ==
  ASSUME OcmInv, BuildFails
  PROVE  OcmInv'
BY DEF BuildFails, OcmInv, OcmTypeOK, Steps, FilesThere, Configured,
       TokenSoFar, EnvSoFar, RenewedWhenDue, NoExpiredClient,
       ShortTokenOnlyAfterRenewal

\* No step of the making of a client breaks what is known of it (ocm.go:
\* newClientFromConfig).
LEMMA ClientStepKeeps ==
  ASSUME OcmInv, ClientStep
  PROVE  OcmInv'
BY CheckKeeps, RenewKeeps, ReloadKeeps, ReloadFailsKeeps, BuildKeeps,
   BuildFailsKeeps DEF ClientStep

\* The steps of main() that build no client leave it alone (main.go: main).
LEMMA ClientStays ==
  ASSUME OcmInv, UNCHANGED ocmVars
  PROVE  OcmInv'
BY DEF ocmVars, OcmInv, OcmTypeOK, FilesThere, TokenSoFar, EnvSoFar,
       RenewedWhenDue, NoExpiredClient, ShortTokenOnlyAfterRenewal

\* The client that was built is taken over by main() (main.go: ocmClient).
LEMMA UsedKeeps ==
  ASSUME OcmInv, Used
  PROVE  OcmInv'
BY DEF Used, OcmInv, OcmTypeOK, Steps, FilesThere, Configured, TokenSoFar,
       EnvSoFar, RenewedWhenDue, NoExpiredClient, ShortTokenOnlyAfterRenewal
-----------------------------------------------------------------------------
(***************************************************************************)
(* The environment of a client, when the well-known files are what their   *)
(* names say.                                                              *)
(***************************************************************************)
\* A file that is not well known can be written without harm (ocm.go:
\* refreshLogin).
LEMMA LoginKeepsNames ==
  ASSUME OcmInv, SameEnv, step \in Configured, LoginSucceeds
  PROVE  WellNamed(files')
<1>1. \A e \in Envs : e # "active"
  BY DEF Envs
<1> QED
  BY <1>1, LoginWrites DEF SameEnv, WellNamed

\* A client made with no file and no address of the command line has those of
\* the active file (ocm.go: NewClientWithOptions).
LEMMA StartSameEnv ==
  ASSUME OcmInv, SameEnv, NEW o \in Requests, StartClient(o) \/ StartFails(o)
  PROVE  SameEnv'
BY DEF StartClient, StartFails, BaseConfig, SameEnv, EnvMatchesUrl

\* A login keeps the address of the active file, or writes that of the config,
\* which is the same (ocm.go: refreshLogin).
LEMMA RenewSameEnv ==
  ASSUME OcmInv, SameEnv, RenewExpired \/ RenewAgeing
  PROVE  SameEnv'
<1>1. step \in Configured /\ step \in {"expired", "ageing"}
  BY DEF RenewExpired, RenewAgeing, Configured
<1>2. env = ClassifyEnv(config.url)
  BY <1>1 DEF OcmInv, EnvSoFar
<1>3. CASE LoginSucceeds
  <2>1. WellNamed(files')
    BY <1>1, <1>3, LoginKeepsNames
  <2>2. files'["active"].url \in {files["active"].url, config.url}
    BY <1>1, <1>3, LoginWrites
  <2> QED
    BY <1>1, <1>2, <2>1, <2>2
    DEF RenewExpired, RenewAgeing, SameEnv, EnvMatchesUrl
<1>4. CASE LoginFails
  BY <1>1, <1>2, <1>4
  DEF LoginFails, RenewExpired, RenewAgeing, SameEnv, EnvMatchesUrl
<1> QED
  BY <1>3, <1>4 DEF RenewExpired, RenewAgeing

\* A config read again is of the environment of the first one (ocm.go:
\* reloadConfig).
LEMMA ReloadSameEnv ==
  ASSUME OcmInv, SameEnv, Reload
  PROVE  SameEnv'
<1>1. /\ config.url \in Urls /\ config \in Config
      /\ env = ClassifyEnv(config.url)
  BY DEF Reload, OcmInv, FilesThere, EnvSoFar, Configured, Config
<1>2. ASSUME ~opts.file, opts.url = ""
      PROVE  env = ClassifyEnv(config'.url)
  <2>1. CASE env \notin DOMAIN files
    BY <1>1, <1>2, <2>1 DEF Reload, Reloaded, SameEnv
  <2>2. CASE env \in DOMAIN files
    <3>1. env \in FileNames /\ env \notin {"active", "given"}
      BY <1>1, <2>2, EnvIsNoSlot DEF OcmInv, OcmTypeOK
    <3>2. env \in Envs
      BY <3>1 DEF FileNames
    <3> QED
      BY <1>1, <2>2, <3>2 DEF Reload, Reloaded, SameEnv, WellNamed
  <2> QED
    BY <2>1, <2>2
<1> QED
  BY <1>2 DEF Reload, SameEnv, EnvMatchesUrl

\* The other steps read no file (ocm.go: newClientFromConfig).
LEMMA ClientStepSameEnv ==
  ASSUME OcmInv, SameEnv, ClientStep
  PROVE  SameEnv'
<1>1. CASE CheckToken
  BY <1>1 DEF CheckToken, SameEnv, EnvMatchesUrl, OcmInv, EnvSoFar, Configured
<1>2. CASE ReloadFails
  BY <1>2 DEF ReloadFails, SameEnv, EnvMatchesUrl, OcmInv, EnvSoFar, Configured
<1>3. CASE Build
  BY <1>3 DEF Build, SameEnv, EnvMatchesUrl
<1>4. CASE BuildFails
  BY <1>4 DEF BuildFails, SameEnv, EnvMatchesUrl
<1> QED
  BY <1>1, <1>2, <1>3, <1>4, RenewSameEnv, ReloadSameEnv DEF ClientStep

\* Steps that build no client (main.go: main).
LEMMA OthersSameEnv ==
  ASSUME SameEnv, UNCHANGED ocmVars \/ Used
  PROVE  SameEnv'
BY DEF ocmVars, Used, SameEnv, EnvMatchesUrl
-----------------------------------------------------------------------------
(***************************************************************************)
(* The start of the run: its locals, and the clients it uses.              *)
(***************************************************************************)
\* The Options of every client are those a client can be made from (main.go:
\* ocm.NewClientWithOptions, getHiveOCM).
LEMMA OptionsFit ==
  ASSUME ModeTypes
  PROVE  PrimaryOptions \in Requests /\ ProdOptions \in Requests
<1>1. ocm \in [file : BOOLEAN, url : OcmUrls] /\ clusters \in Nat
  BY ModesAssumption DEF ModeTypes, InputsFit, TypeOK
<1>2. PrimaryOptions \in Requests
  BY <1>1 DEF PrimaryOptions, Requests
<1>3. "api" \in OcmUrls
  BY DEF OcmUrls, Urls
<1>4. ProdOptions \in Requests
  BY <1>3 DEF ProdOptions, NoOptions, Requests
<1> QED
  BY <1>2, <1>4

\* A client is built while main() waits for it (main.go:
\* ocm.NewClientWithOptions).
LEMMA BuildingKeeps ==
  ASSUME ModeTypes, Building
  PROVE  ModeTypes' /\ (SameEnv => SameEnv')
<1>1. OcmInv' /\ (SameEnv => SameEnv')
  BY OptionsFit, StartKeeps, StartFailsKeeps, ClientStepKeeps, StartSameEnv,
     ClientStepSameEnv DEF Building, ModeTypes
<1>2. TypeOK' /\ InputsFit'
  BY <1>1 DEF Building, modeVars, inputs, decision, ModeTypes, TypeOK,
              InputsFit, OcmInv
<1> QED
  BY <1>1, <1>2 DEF ModeTypes

\* The config file and the flags give main() its locals (main.go: main).
LEMMA FlagsKeepTypes ==
  ASSUME ModeTypes,
         LoadConfig \/ ConfigError \/ ParseFlags \/ CheckArguments
           \/ NoClusterSource
  PROVE  ModeTypes'
<1>1. OcmInv'
  BY ClientStays
  DEF ModeTypes, LoadConfig, ConfigError, ParseFlags, CheckArguments,
      NoClusterSource
<1>2. /\ flags.noElevate \in {"unset", "yes", "no"}
      /\ flags.elevate \in BOOLEAN
      /\ scope.list \in Nat
  BY ModesAssumption DEF ModeTypes, InputsFit
<1>8. flags.reason \in Reasons
  BY DEF ModeTypes, InputsFit, Reasons
<1>3. Settings(ConfigFound(cfgs)) \in [noElevate : BOOLEAN, reason : Reasons]
  <2>1. ConfigFound(cfgs) \in Settled
    BY ModesAssumption DEF ModeTypes, InputsFit, ConfigFound
  <2>2. Settings(ConfigFound(cfgs)) \in
          [noElevate : BOOLEAN, reason : Reasons]
    <3> DEFINE f == ConfigFound(cfgs)
    <3>1. f.noElevate \in BOOLEAN
      BY <2>1 DEF Settled
    <3>2. f.reason \in Reasons
      BY DEF Reasons, ConfigFound, ModeTypes, InputsFit
    <3>3. "" \in Reasons
      BY DEF Reasons
    <3> HIDE DEF f
    <3>4. Settings(f) \in [noElevate : BOOLEAN, reason : Reasons]
      BY <3>1, <3>2, <3>3 DEF Settings, EmptyCfg
    <3> QED
      BY <3>4 DEF f
  <2> QED
    BY <2>2
<1>4. cfg.noElevate \in BOOLEAN /\ cfg.reason \in Reasons
  BY DEF ModeTypes, TypeOK
<1>5. TypeOK'
  <2>1. CASE LoadConfig
    BY <1>1, <1>3, <2>1
    DEF ModeTypes, OcmInv, TypeOK, Phases, Go, LoadConfig, inputs, decision
  <2>2. CASE ConfigError \/ NoClusterSource
    BY <1>1, <2>2
    DEF ModeTypes, OcmInv, TypeOK, Phases, Go, ConfigError, NoClusterSource,
        inputs, decision
  <2>3. CASE ParseFlags
    <3>1. noElevate' \in BOOLEAN
      BY <1>4, <2>3 DEF ParseFlags
    <3>2. elevate' \in BOOLEAN /\ reason' \in Reasons
      BY <1>2, <1>4, <1>8, <2>3 DEF ParseFlags
    <3> QED
      BY <1>1, <2>3, <3>1, <3>2
      DEF ModeTypes, OcmInv, TypeOK, Phases, Go, ParseFlags, inputs
  <2>4. CASE CheckArguments
    BY <1>1, <1>2, <2>4
    DEF ModeTypes, OcmInv, TypeOK, Phases, Go, CheckArguments, inputs,
        decision
  <2> QED
    BY <2>1, <2>2, <2>3, <2>4
<1>6. InputsFit'
  BY DEF ModeTypes, InputsFit, Go, LoadConfig, ConfigError, ParseFlags,
         CheckArguments, NoClusterSource, inputs, decision
<1> QED
  BY <1>1, <1>5, <1>6 DEF ModeTypes

\* The clients of the cluster manager that later phases use are there when
\* their phase comes (main.go: ocmClient, getHiveOCM).
LEMMA ReadyKeepsTypes ==
  ASSUME ModeTypes,
         PrimaryReady \/ PrimaryFails \/ ProdDone \/ HiveOcmReady
           \/ HiveOcmFails
  PROVE  ModeTypes'
<1>1. OcmInv'
  BY UsedKeeps
  DEF ModeTypes, PrimaryReady, PrimaryFails, ProdDone, HiveOcmReady,
      HiveOcmFails
<1>2. step = "built" => client \in Clients
  BY DEF ModeTypes, OcmInv, FilesThere
<1>3. TypeOK'
  BY <1>1, <1>2
  DEF ModeTypes, OcmInv, TypeOK, Phases, Go, PrimaryReady, PrimaryFails,
      ProdDone, HiveOcmReady, HiveOcmFails, inputs, decision
<1>4. InputsFit'
  BY <1>2
  DEF ModeTypes, InputsFit, Go, PrimaryReady, PrimaryFails, ProdDone,
      HiveOcmReady, HiveOcmFails, inputs, decision
<1> QED
  BY <1>1, <1>3, <1>4 DEF ModeTypes

\* The decision leaves Booleans and a reason (main.go: explicitElevate).
LEMMA DecisionKeepsTypes ==
  ASSUME ModeTypes, DecideElevation \/ TicketMissing
  PROVE  ModeTypes'
<1>1. OcmInv'
  BY ClientStays DEF ModeTypes, DecideElevation, TicketMissing
<1>2. InputsFit'
  BY DEF ModeTypes, InputsFit, Go, DecideElevation, TicketMissing, inputs,
         decision
<1>3. CASE TicketMissing
  BY <1>1, <1>2, <1>3
  DEF TicketMissing, ModeTypes, OcmInv, TypeOK, Phases, Go, inputs, decision
<1>4. CASE DecideElevation
  <2>1. reason \in Reasons /\ elevate \in BOOLEAN /\ noElevate \in BOOLEAN
    BY DEF ModeTypes, TypeOK
  <2>2. reason' \in Reasons
    BY <1>4, <2>1 DEF DecideElevation, Decide, Reasons
  <2>3. explicit' \in BOOLEAN
    BY <1>4, <2>1 DEF DecideElevation, Decide
  <2>4. elevate' \in BOOLEAN
    BY <1>4, <2>1, Zenon DEF DecideElevation, Decide
  <2>5. noElevate' \in BOOLEAN
    BY <1>4, <2>4, Zenon DEF DecideElevation, Decide
  <2> QED
    BY <1>1, <1>2, <1>4, <2>2, <2>3, <2>4, <2>5
    DEF DecideElevation, ModeTypes, OcmInv, TypeOK, Phases, Go, inputs
<1> QED
  BY <1>3, <1>4

\* The clients of clusters (client.go: ConnectToClusterWithConn).
ClusterClients ==
  [kind : {"managed", "hive"}, url : Urls, elevated : BOOLEAN,
   reason : Reasons]

\* A client of a cluster is made from a client of the cluster manager and the
\* decision (client.go: ConnectToClusterWithConn).
LEMMA ConnectedIsClient ==
  ASSUME NEW kind \in {"managed", "hive"}, NEW manager \in Clients,
         NEW refuse \in BOOLEAN, reason \in Reasons,
         NEW c \in Connected(kind, manager, refuse)
  PROVE  /\ c \in ClusterClients
         /\ c.kind = kind /\ c.reason = reason
         /\ c.elevated => ~refuse
<1>1. PICK e \in {FALSE, ~refuse /\ reason # ""} :
        c = [kind |-> kind, url |-> manager.url, elevated |-> e,
             reason |-> reason]
  BY DEF Connected
<1>2. e \in BOOLEAN /\ (e => ~refuse)
  BY <1>1
<1>3. manager.url \in Urls
  BY DEF Clients
<1> QED
  BY <1>1, <1>2, <1>3 DEF ClusterClients

\* A step of main() that connects clusters adds clients to those it has
\* (main.go: the phases of the managed and of the hive clusters).
LEMMA ConnectKeepsTypes ==
  ASSUME ModeTypes,
         Discover \/ NothingDiscovered \/ ConnectManaged \/ NoManaged
           \/ ConnectHive \/ NoHive
  PROVE  ModeTypes'
<1>1. OcmInv'
  BY ClientStays
  DEF ModeTypes, Discover, NothingDiscovered, ConnectManaged, NoManaged,
      ConnectHive, NoHive
<1>2. /\ reason \in Reasons /\ noElevate \in BOOLEAN /\ explicit \in BOOLEAN
      /\ conns \subseteq ClusterClients /\ clusters \in Nat
      /\ hiveOCM \in Clients \union {NoClient}
  BY DEF ModeTypes, TypeOK, ClusterClients
<1>3. conns' \subseteq ClusterClients
  <2>1. ASSUME phase \in {"discovery", "hive"}, NEW c \in HiveConnections
        PROVE  c \in ClusterClients
    BY <1>2, <2>1, ConnectedIsClient DEF HiveConnections, ModeTypes, InputsFit
  <2>2. ASSUME phase = "managed",
               NEW c \in Connected("managed", primary, noElevate)
        PROVE  c \in ClusterClients
    BY <1>2, <2>2, ConnectedIsClient DEF ModeTypes, InputsFit
  <2> QED
    BY <1>2, <2>1, <2>2
    DEF Discover, NothingDiscovered, ConnectManaged, NoManaged, ConnectHive,
        NoHive
<1>4. clusters' \in Nat
  BY <1>2, ModesAssumption
  DEF Discover, NothingDiscovered, ConnectManaged, NoManaged, ConnectHive,
      NoHive
<1>5. InputsFit'
  BY <1>2
  DEF ModeTypes, InputsFit, Go, AfterManaged, Discover, NothingDiscovered,
      ConnectManaged, NoManaged, ConnectHive, NoHive, inputs, decision
<1>6. TypeOK'
  <2>1. phase' \in Phases
    BY DEF Go, Phases, AfterManaged, Discover, NothingDiscovered,
           ConnectManaged, NoManaged, ConnectHive, NoHive
  <2> QED
    BY <1>1, <1>3, <1>4, <2>1
    DEF ModeTypes, OcmInv, TypeOK, Discover, NothingDiscovered,
        ConnectManaged, NoManaged, ConnectHive, NoHive, inputs, decision,
        ClusterClients
<1> QED
  BY <1>1, <1>5, <1>6 DEF ModeTypes

\* No step of main() breaks the types (main.go: main).
LEMMA StepKeepsTypes == ModeTypes /\ [Next]_vars => ModeTypes'
<1> SUFFICES ASSUME ModeTypes, [Next]_vars
             PROVE  ModeTypes'
  OBVIOUS
<1>1. CASE UNCHANGED vars
  <2>1. OcmInv'
    BY <1>1, ClientStays DEF vars, ModeTypes
  <2> QED
    BY <1>1, <2>1
    DEF vars, modeVars, inputs, decision, ModeTypes, TypeOK, InputsFit, OcmInv
<1> QED
  BY <1>1, BuildingKeeps, FlagsKeepTypes, ReadyKeepsTypes, DecisionKeepsTypes,
     ConnectKeepsTypes DEF Next

\* The locals of main() before its first statement.
LEMMA InitModeTypes == Init => ModeTypes
<1> SUFFICES ASSUME Init
             PROVE  ModeTypes
  OBVIOUS
<1>1. OcmTypeOK
  <2>1. DOMAIN files \subseteq FileNames
        /\ \A f \in DOMAIN files : files[f] \in Config
    BY OcmAssumption DEF Init, OcmInit
  <2>2. NoOptions \in Requests
    BY DEF NoOptions, Requests, OcmUrls
  <2> QED
    BY <2>1, <2>2 DEF Init, OcmInit, OcmTypeOK, Steps
<1>2. OcmInv
  BY <1>1, OcmAssumption
  DEF Init, OcmInit, OcmInv, FilesThere, TokenSoFar, EnvSoFar, Configured,
      RenewedWhenDue, NoExpiredClient, ShortTokenOnlyAfterRenewal
<1>3. EmptyCfg \in [noElevate : BOOLEAN, reason : Reasons]
  BY DEF EmptyCfg, Reasons
<1>4. TypeOK
  BY <1>1, <1>3 DEF Init, TypeOK, Phases, EmptyCfg, Reasons
<1>5. InputsFit
  BY DEF Init, InputsFit
<1> QED
  BY <1>2, <1>4, <1>5 DEF ModeTypes

\* The types hold in every behaviour of the start of the run.
LEMMA ModeTypesInvariant == Spec => []ModeTypes
BY InitModeTypes, StepKeepsTypes, PTL DEF Spec
-----------------------------------------------------------------------------
(***************************************************************************)
(* Who is elevated.                                                        *)
(***************************************************************************)
\* Until the decision nothing is connected, and the locals say what was typed
\* (main.go: flag.BoolVar, flag.StringVar).
LEMMA EarlyKeeps ==
  ASSUME ElevationInv,
         LoadConfig \/ ConfigError \/ ParseFlags \/ CheckArguments
           \/ NoClusterSource \/ PrimaryReady \/ PrimaryFails \/ TicketMissing
  PROVE  ElevationInv'
<1>1. conns = {} /\ conns' = {}
  BY DEF ElevationInv, BeforeDecision, Undecided, LoadConfig, ConfigError,
         ParseFlags, CheckArguments, NoClusterSource, PrimaryReady,
         PrimaryFails, TicketMissing
<1>2. AfterDecision'
  BY <1>1
  DEF AfterDecision, Undecided, Go, LoadConfig, ConfigError, ParseFlags,
      CheckArguments, NoClusterSource, PrimaryReady, PrimaryFails,
      TicketMissing
<1>3. BeforeDecision'
  BY <1>1
  DEF ElevationInv, BeforeDecision, Undecided, Refused, Go, LoadConfig,
      ConfigError, ParseFlags, CheckArguments, NoClusterSource, PrimaryReady,
      PrimaryFails, TicketMissing, inputs, decision
<1> QED
  BY <1>2, <1>3 DEF ElevationInv

\* Building a client decides nothing (main.go: ocm.NewClientWithOptions).
LEMMA BuildingKeepsDecision ==
  ASSUME ElevationInv, UNCHANGED modeVars
  PROVE  ElevationInv'
BY DEF modeVars, inputs, decision, ElevationInv, BeforeDecision, Refused,
       AfterDecision, Decided, Ticket, IsProduction

\* The clients of the cluster manager that are built after the decision do not
\* touch it (main.go: getHiveOCM).
LEMMA LaterClientsKeep ==
  ASSUME ElevationInv, ProdDone \/ HiveOcmReady \/ HiveOcmFails
  PROVE  ElevationInv'
<1>1. /\ phase \notin Undecided \union {"config", "flags", "exit"}
      /\ phase' \notin Undecided \union {"config", "flags"}
      /\ UNCHANGED <<inputs, cfg, decision, primary, conns>>
  BY DEF ProdDone, HiveOcmReady, HiveOcmFails, Undecided, Go
<1>2. Decided
  BY <1>1 DEF ElevationInv, AfterDecision
<1> QED
  BY <1>1, <1>2
  DEF ElevationInv, BeforeDecision, AfterDecision, Undecided, Decided,
      Refused, Ticket, IsProduction, inputs, decision

\* An explicit request goes through with a ticket only, and production takes
\* an explicit request (main.go: explicitElevate).
LEMMA DecisionKeeps ==
  ASSUME ModeTypes, ElevationInv, DecideElevation, TicketsAreTyped
  PROVE  ElevationInv'
<1>1. /\ conns = {} /\ noElevate = Refused /\ elevate = flags.elevate
      /\ reason = IF flags.reason = "unset" THEN cfg.reason ELSE flags.reason
  BY DEF DecideElevation, ElevationInv, BeforeDecision, Undecided
<1>2. UNCHANGED <<inputs, cfg, primary, conns>> /\ phase' = "prodOcm"
  BY DEF DecideElevation, Go
<1>3. /\ noElevate \in BOOLEAN /\ elevate \in BOOLEAN
      /\ flags.reason # AutoReason
  BY DEF ModeTypes, TypeOK, InputsFit, TicketsAreTyped
<1>4. ASSUME ~noElevate, elevate
      PROVE  Ticket(reason) /\ reason' = reason
  <2>1. reason \notin {"", DefaultReason, cfg.reason}
    BY <1>4 DEF DecideElevation, Decide, NoTicket
  <2>2. reason # AutoReason
    BY <1>1, <1>3, <2>1
  <2> QED
    BY <1>4, <2>1, <2>2 DEF DecideElevation, Decide, Ticket
<1>5. Refused' = noElevate
  BY <1>1, <1>2 DEF Refused, inputs
<1>6. Decided'
  <2>1. Refused' => noElevate'
    BY <1>3, <1>5, Zenon DEF DecideElevation, Decide
  <2>2. Ticket(reason)' <=> Ticket(reason')
    BY <1>2 DEF Ticket
  <2>3. ASSUME ~Refused', explicit'
        PROVE  Ticket(reason)'
    <3>1. elevate
      BY <2>3, Zenon DEF DecideElevation, Decide
    <3> QED
      BY <1>2, <1>4, <1>5, <2>3, <3>1 DEF Ticket
  <2>4. ASSUME IsProduction(primary)', ~noElevate'
        PROVE  Ticket(reason)'
    <3>1. IsProduction(primary)
      BY <1>2, <2>4 DEF IsProduction
    <3>2. elevate /\ ~noElevate
      BY <2>4, <3>1, Zenon DEF DecideElevation, Decide
    <3> QED
      BY <1>2, <1>4, <3>2 DEF Ticket
  <2> QED
    BY <2>1, <2>3, <2>4 DEF Decided
<1> QED
  BY <1>1, <1>2, <1>6
  DEF ElevationInv, BeforeDecision, AfterDecision, Undecided

\* A client of a cluster is made under the decision, and keeps its reason
\* (client.go: ConnectToClusterWithConn).
LEMMA ConnectKeeps ==
  ASSUME ModeTypes, ElevationInv,
         Discover \/ NothingDiscovered \/ ConnectManaged \/ NoManaged
           \/ ConnectHive \/ NoHive
  PROVE  ElevationInv'
<1>1. /\ phase \in {"discovery", "managed", "hive"}
      /\ phase' \in {"managed", "hiveOcm", "hive", "done", "exit"}
      /\ UNCHANGED <<inputs, cfg, decision, primary, hiveOCM>>
  BY DEF Discover, NothingDiscovered, ConnectManaged, NoManaged, ConnectHive,
         NoHive, Go, AfterManaged
<1>2. Decided
  BY <1>1 DEF ElevationInv, AfterDecision, Undecided
<1>3. reason \in Reasons /\ noElevate \in BOOLEAN /\ explicit \in BOOLEAN
  BY DEF ModeTypes, TypeOK
<1>4. ASSUME NEW c \in conns', c \notin conns
      PROVE  /\ c.reason = reason
             /\ c.elevated => IF c.kind = "managed" THEN ~noElevate
                              ELSE explicit
  <2>1. CASE phase \in {"discovery", "hive"} /\ c \in HiveConnections
    <3>1. hiveOCM \in Clients /\ (~explicit) \in BOOLEAN
      BY <1>3, <2>1 DEF ModeTypes, InputsFit
    <3> QED
      BY <1>3, <2>1, <3>1, ConnectedIsClient DEF HiveConnections
  <2>2. CASE phase = "managed"
             /\ c \in Connected("managed", primary, noElevate)
    <3>1. primary \in Clients
      BY <2>2 DEF ModeTypes, InputsFit
    <3> QED
      BY <1>3, <2>2, <3>1, ConnectedIsClient
  <2> QED
    BY <1>4, <2>1, <2>2
    DEF Discover, NothingDiscovered, ConnectManaged, NoManaged, ConnectHive,
        NoHive
<1>5. /\ reason' = reason /\ noElevate' = noElevate /\ explicit' = explicit
      /\ Decided'
  BY <1>1, <1>2
  DEF inputs, decision, Decided, Refused, Ticket, IsProduction
<1>6. AfterDecision'
  BY <1>4, <1>5 DEF ElevationInv, AfterDecision
<1>7. BeforeDecision'
  BY <1>1 DEF BeforeDecision, Undecided
<1> QED
  BY <1>6, <1>7 DEF ElevationInv

\* No step of main() breaks the elevation invariant (main.go: main).
LEMMA StepKeepsElevation ==
  TicketsAreTyped /\ ModeTypes /\ ElevationInv /\ [Next]_vars => ElevationInv'
BY EarlyKeeps, BuildingKeepsDecision, LaterClientsKeep, DecisionKeeps,
   ConnectKeeps DEF Next, Building, vars

\* Before its first statement main() has decided and connected nothing.
LEMMA InitElevation == Init => ElevationInv
BY DEF Init, ElevationInv, BeforeDecision, AfterDecision, Undecided

\* The properties of elevation follow from the decision and from what is known
\* of every client of a cluster.
LEMMA ElevationFollows == ElevationInv => ElevationIsGranted
<1> SUFFICES ASSUME ElevationInv
             PROVE  ElevationIsGranted
  OBVIOUS
<1>1. ASSUME NEW c \in conns
      PROVE  /\ Decided /\ c.reason = reason
             /\ c.elevated => IF c.kind = "managed" THEN ~noElevate
                              ELSE explicit
  BY <1>1 DEF ElevationInv, AfterDecision
<1>2. ManagedRefusalWins
  BY <1>1 DEF ManagedRefusalWins, Elevated, Decided
<1>3. HiveNeedsTicket
  BY <1>1 DEF HiveNeedsTicket, Elevated, Decided
<1>4. ProductionNeedsTicket
  BY <1>1 DEF ProductionNeedsTicket, Elevated, Decided
<1> QED
  BY <1>2, <1>3, <1>4 DEF ElevationIsGranted

-----------------------------------------------------------------------------
(***************************************************************************)
(* The theorems.                                                           *)
(***************************************************************************)
\* The locals of main() and of NewClientWithOptions keep their types (main.go:
\* main; ocm.go: Client).
THEOREM ModesTypes == Spec => []TypeOK
<1>1. ModeTypes => TypeOK
  BY DEF ModeTypes
<1> QED
  BY <1>1, ModeTypesInvariant, PTL

\* No client starts with an expired token, or with one that may not outlive
\* the run, unless its renewal was tried (ocm.go: newClientFromConfig).
THEOREM TokensRenewed == Spec => []RenewedWhenDue
<1>1. ModeTypes => RenewedWhenDue
  BY DEF ModeTypes, OcmInv
<1> QED
  BY <1>1, ModeTypesInvariant, PTL

\* The environment that decides about elevation is that of the address the
\* requests go to, whatever renewals and reloads a client went through, when
\* the well-known files are logins to what they are named for (ocm.go:
\* classifyEnv, reloadConfig).
THEOREM EnvironmentIsReal ==
  ASSUME \A choice \in FileChoices : WellNamed(choice)
  PROVE  Spec => []EnvMatchesUrl
<1>1. Init => SameEnv
  BY DEF Init, OcmInit, SameEnv, EnvMatchesUrl
<1>2. ModeTypes /\ SameEnv /\ [Next]_vars => SameEnv'
  <2> SUFFICES ASSUME ModeTypes, SameEnv, [Next]_vars
               PROVE  SameEnv'
    OBVIOUS
  <2>1. CASE Building
    BY <2>1, BuildingKeeps
  <2>2. CASE UNCHANGED ocmVars \/ Used
    BY <2>2, OthersSameEnv
  <2> QED
    BY <2>1, <2>2
    DEF Next, vars, LoadConfig, ConfigError, ParseFlags, CheckArguments,
        NoClusterSource, PrimaryReady, PrimaryFails, ProdDone, HiveOcmReady,
        HiveOcmFails, DecideElevation, TicketMissing, Discover,
        NothingDiscovered, ConnectManaged, NoManaged, ConnectHive, NoHive
<1>3. SameEnv => EnvMatchesUrl
  BY DEF SameEnv
<1> QED
  BY <1>1, <1>2, <1>3, ModeTypesInvariant, PTL DEF Spec

\* With a refusal no managed cluster is elevated; without one, hive clusters
\* and production are elevated under a ticket only, for every combination of
\* flags, config file, scope and environment (main.go: explicitElevate,
\* noElevate), when nobody types the built-in reason as a ticket.
THEOREM GrantedElevation ==
  ASSUME TicketsAreTyped
  PROVE  Spec => []ElevationIsGranted
<1>1. ModeTypes /\ ElevationInv /\ [Next]_vars => ElevationInv'
  BY StepKeepsElevation
<1> QED
  BY <1>1, InitElevation, ElevationFollows, ModeTypesInvariant, PTL DEF Spec
=============================================================================
