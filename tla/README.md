# A TLA+ model of operator-health-report

`operator-health-report` is one Go binary, `healthcheck`. It reads flags and a config
file, connects to OCM (the cluster manager's API), picks clusters, runs a set of read-only
checks for every operator on every cluster, and writes one report (JSON and HTML).
This directory models the parts of it that are hard to test: the goroutines of a run and
their shared state, elevated access, retries, caches, tokens, and the decisions the checks
take. Every definition is translated from the Go source; `PROJECT.json` names the lines.

## 1. The system and its parts

| Part | Source | State it keeps | Operations |
|---|---|---|---|
| run orchestration | `cmd/healthcheck/main.go` | root context, semaphore, wait group, `allOutputs`, `skippedClusters`, audit totals | launch a cluster, run its operators, attach and audit elevated calls, hive pass, interrupt, write the report |
| flags and run mode | `cmd/healthcheck/main.go`, `pkg/config` | the flags, the config, `noElevate`, `explicitElevate`, `reason` | merge config and flags, decide elevation, filter the cluster list |
| cluster client | `pkg/kube/client.go` | two clientsets, `elevationBroken`, `elevationDeniedReason`, audit counts, port-forward state | connect, read (standard or elevated), exec, query metrics, disconnect |
| retries | `pkg/kube/client.go` | attempt counters | `withRetry` and the retrying round tripper |
| OCM client | `pkg/ocm/ocm.go` | token, config, environment | load config, renew and reload, resolve, list, metadata |
| RHOBS client | `pkg/rhobs/client.go` | cached token and expiry | get token, query |
| SAAS files and pipelines | `pkg/saas` | environment cache | parse targets, match a target, build the promotion pipeline |
| fleet | `pkg/fleet` | topology indexes | hive discovery, sync status, sector indexes |
| check framework | `pkg/checks/types.go`, `common.go`, `operator.go` | the results of a (cluster, operator) pair | run the common checks, run an operator's checks, derive a status |
| central RLR checks | `pkg/checks/rlr/central.go` | results stored per environment | run once, replay |
| checkers | `pkg/checks/{rlr,mcc,hcp,rhobs,rmo,camo,muo,sae,sfo,pdo,ome,dms,mnmo,byoc}` | lists handed from one check to the next; one AMI list in `mcc` | one decision per check |
| metrics parsing | `pkg/thanos` | none | peak, trend, time series |
| report and logging | `pkg/report`, `pkg/logging` | none | page generation, log formatting |

How they interact: the run starts one goroutine per cluster and, inside it, one per
operator. The operators of a cluster share one cluster client and therefore its elevation
state, audit and port-forward, and one RHOBS client with its token. All clusters share the
ledger of outputs and skips under one mutex, the OCM client, and the stored results of the
central checks. `Ctrl-C` cancels one root context that everybody may read between any two
steps.

What makes each part correct:

* **run**: at most `--parallel` clusters at once; every cluster of the list is accounted for
  exactly once in a report that is not partial; audit totals equal what the clients counted;
  the run ends when its calls do.
* **run mode**: an explicit refusal of elevation wins; production is elevated only with a
  stated reason; what the environment decides is decided by the right environment.
* **selection**: ids are resolved, filters narrow, a list and a discovery intersect.
* **cluster client**: a client refused once is never elevated again, for the reason that
  refused it; every elevated call is counted once; set-ups shared by operators end.
* **retries, tokens**: bounded attempts, a wait that ends with the context but for one,
  one renewal at a time, no query with a dead token.
* **pipeline**: stages follow promotion, every target is shown once, a shard is compared
  with its own target.
* **checks**: no gap in a report, a summary that follows from it, alarms with a cause, no
  health claimed about what could not be read, no alarm about what was merely refused, and
  a cluster that gets worse never looks better.

## 2. Modules

| Module | Subject |
|---|---|
| `Ledger`, `HealthRun` | the abstract book of a run; the run |
| `OcmClient`, `RunModes` | the cluster manager's client; flags, config and the decision about elevation around it |
| `ClusterSelection` | from the list and the flags to the clusters of a run |
| `ClusterClient` | the client of one cluster under concurrent operators |
| `RetriedCalls`, `RhobsToken` | the two retry loops; one token under one mutex |
| `Promotion` | SAAS targets, the environment cache, edges and stages of the pipeline |
| `RlrCentral` | checks made once for an environment and replayed |
| `CheckResults` | statuses, answers and results: what all checks share |
| `CommonChecks` | the fourteen checks every operator goes through |
| `PdoChecks`, `DmsChecks`, `OmeChecks`, `MnmoChecks`, `SfoChecks`, `SaeChecks`, `MuoChecks`, `CamoChecks`, `RmoChecks`, `HcpChecks`, `MccChecks`, `RhobsChecks`, `RlrChecks`, `ByocChecks` | one checker each |
| `OperatorChecks` | a suite of checks run on a cluster that changes, with calls that fail and Ctrl-C: the state machine around the suites |
| `HealthRunProofs`, `RunModesProofs`, `ClusterClientProofs`, `RlrCentralProofs`, `OperatorChecksProofs` | the theorems about the machine each is named for |
| `SelectionProofs` | the theorems about `ClusterSelection` and `Promotion`, which both select from lists with `Places` |
| `RemoteCallsProofs` | the theorems about `RetriedCalls` and `RhobsToken` |
| `Places` | the elements of a list at some places, in the list's order: a loop with a condition |
| `SumTheorems` | sums over finite sets, for the proofs |

`HealthRun` refines `Ledger`; `RunModes` extends `OcmClient`; `MCRemoteCalls` runs
`RetriedCalls` or `RhobsToken`; `ClusterSelection` and `Promotion` extend `Places`;
`OperatorChecks` and `RlrCentral` extend `CheckResults`, and `OperatorChecks` takes the
fifteen suites by `INSTANCE`. Each `MC` module holds the small
values of one machine. No module declares a RECURSIVE operator: recursion is in functions
and folds, so that theorems can be stated about any of them.

## 3. Runs

| Run | Instance | Shows |
|---|---|---|
| `health_run` | `HealthRun`: 3 positions, two of one cluster, 2 slots, 2 operators, 1 hive cluster | the semaphore's bound, a complete report, exact audit, operations attributed to their cluster, refinement of `Ledger`, the end of the run, the five-second window |
| `health_run_interrupt_ends` | finding | an interrupt after the last launch waits without bound |
| `run_modes` | `RunModes`: every combination of flags, five configs, tokens and files of two environments | who is elevated, on which token, towards which environment |
| `run_modes_refusal` | finding | `--no-elevate --elevate` elevates hive clusters |
| `cluster_selection` | `ClusterSelection`: lists of up to two lines over three clusters and a stranger, all flags, with and without outages | which clusters a run may work on |
| `cluster_client` | `ClusterClient`: two operators, two calls each of four kinds, one retry | elevation given up, reasons, audit counts, the end of nested set-ups |
| `cluster_client_nil` | finding | a tested elevated client is nil when it is used |
| `remote_calls` | `RetriedCalls`: a call, three retries in each loop; `RhobsToken`: two operators, two queries each | sends and waits bounded, one wait after Ctrl-C, one renewal, no dead token, everyone ends |
| `promotion` | `Promotion`: four targets in three files, three shards, two channels, two unreadable things | order of the stages, each target once, the own target first |
| `rlr_central` | `RlrCentral`: two clusters, 1 or 2 regions, a healthy account and those one fact away | one story for all, no alarm about a healthy account, nobody waits forever |
| `operator_checks` | `OperatorChecks`: fifteen suites, each on its healthy clusters and those one fact away | see below |
| `operator_checks_alert` | finding | a critical alert after a warning of the same name is dropped |

Deadlock is not checked where the model is one thread that ends or where a wait without end
is part of the code (`RunModes`, `ClusterSelection`, `OperatorChecks`, `RlrCentral`,
`Promotion`, `RhobsToken`); there the liveness properties say who ends. `HealthRun` and
`ClusterClient` have an explicit final step and deadlock is checked.

### `Ledger`, `HealthRun`

`HealthRun` is the run of `main.go` from the launch loop to the exit. Its main thread
(`main`) and each cluster goroutine (`pc`) move one step at a time; a step ends where the
code takes or releases a lock, blocks, or calls out. `wg` and `sem` are the wait group and
the semaphore's channel; `running` holds the operator goroutines; `outputs`, `skipped`,
`totalCalls`, `elevated` are the variables guarded by `mu`. `interrupted` is read once at
the label `waitAndWrite`, as in the code. A cluster of the list is a *job*, a position of
the list, because the list may name a cluster twice; `IdOf` gives its id.

`Ledger` is the abstract promise: a book that only grows, never holds a skip and an output
of one worker, and is published once; a publication that is not partial finds every job
settled and closes the book. `KeepsBook` says that `HealthRun` implements it.

Bounds: three positions on two slots make a cluster wait for a slot while two others leave;
two operators make a cancellation fall between two launches; one elevated call per operator
is enough to tell an exact total from a wrong one, for the totals are sums.

Fairness: `LocalFairness` is weak fairness of every step that waits only for the program
itself (the Go scheduler runs what can run; the semaphore is taken by one thread only, so
weak fairness is enough). `RemoteFairness` adds that remote calls answer or fail. `HangSpec`
has the first only, because some calls have no timeout (the OCM requests, the RHOBS token
request); `RunEnds` is stated under the second as a hypothesis.

### `OcmClient`, `RunModes`

`OcmClient` is `NewClientWithOptions` of `pkg/ocm/ocm.go`: read a config file (`files`, by
name: the active one, the one of an option, the well-known one of an environment), override
its URL, classify the environment, compare the token's remaining seconds with the estimated
length of the run, renew (`ocm token --refresh`, then `ocm login`), reload, build. Each error
path ends in `failed` or, for a token that is only ageing, in a client with the old token.

`RunModes` is `main` around it: the scan for `--config`, the merge of flags and config, the
argument checks, the first client, the decision (`explicit` is captured before `elevate` and
`noElevate` are rewritten), the clients of hive discovery and of managed and hive clusters,
and the mode that reads SAAS files only. One managed and one hive client stand for all,
because all are made from the same values. `ElevationIsGranted` joins three promises: the
refusal holds for managed clusters, hive clusters and production take a ticket.
Numbers are few but telling: 900 seconds suffice for one cluster and not for ten, 0 is an
expired token, 4000 suffice for everything. `MaxFound` bounds what discovery finds.

### `ClusterSelection`

The list is a sequence of lines, each naming a cluster by its internal id or otherwise, with
or without the name column; a *token* is one identifier of one cluster. `clusterIDs` is the
local of that name and `named` the keys of `clusterNames`. The steps are those of `main.go`
in their order: read, resolve, topology, discovery, owner, sector, name. `outage` says whether
lookups may fail in this run, for some filters turn themselves off when a lookup fails, and
then `FiltersHonoured`, a part of `FiltersNarrow`, promises nothing. Two lines are enough for
a repeat, a mix of ids and names, and a stranger beside a known cluster.

### `ClusterClient`

Operators of one cluster run at once on one client. Each makes a bounded number of calls:
an elevated read, a secret read through the elevated clientset, a metrics query, the shared
alert query. `op[t]` says where the operator is; the steps are split where the code reads
`elevationBroken`, writes it, writes the reason, enters and leaves a `sync.Once`, and at each
attempt of a call. An answer is what the code's tests on error texts tell apart. `brokenBy`,
`refused` and `sent` are history.

Fairness: calls answer (client-go and the exec stream end by their timeouts or their context)
and the scheduler runs what can run. Two operators are enough for every race on the two
fields and for one to wait in the other's set-up; two calls make a refusal in one call
matter to the next one; one retry tells a first attempt from a later one. The binary's
`maxRetries` is 3; the loops do nothing else at a third retry, and `remote_calls` has three.

### `RetriedCalls`, `RhobsToken`

`RetriedCalls` is `withRetry` above `retryTransport.RoundTrip`. `inner` and `outer` are the
two attempt counters, `sends` and `waited` what they add up to, `late` the waits begun after
the context had ended. `withRetry` selects on the context while it waits; the transport
sleeps. Times are in seconds, without the jitter; with three retries `maxBackoff` is never
reached. A caller makes one call, wrapped or not: calls share nothing, so one caller is all.

`RhobsToken` is the client the operators of a cluster share: `Lock`, `Keep`, `Refuse`, `Query`
are the four places where `getToken` and `QueryInstant` can be, and `Tick` lets time pass
between any two, up to `MaxClock`. A tick is ten seconds, so `Margin = 3` is the code's
thirty; lives of 2 and 5 are a token that dies within the margin and one that does not.
`TokenOutlivesQuery` says when a token that was fresh under the mutex may still be dead when
it is sent: only if asking and going on together took the margin or more, or if its life was
guessed. Fairness: `Lock` is strongly fair, for Go's mutex hands itself to starving waiters;
what is not a hung request goes on. SSO may hang, for the request has no timeout; then
`QueriesEnd` promises that they all wait for it, and otherwise that they all end.

### `Promotion`

`BuildPipeline` reads the PKO, OLM and e2e files in turn; each may be unreadable, and so may
the environment of a shard (`MaxFaults`); then the nodes are connected by the channels they
publish and subscribe, sorted by Kahn's algorithm into waves, and grouped into stages. After
that a check asks `ResolveTarget`, which reads the deploy files again and looks for a target
by shard, then by three names, then by number. The targets of `MCPromotion` can form chains,
forks, cycles, waits on themselves and channels with two publishers; a name may suggest
another environment than the shard has, one matches by number, and one target's namespace
names no shard (`NoShard`). An environment may have any label: those outside `Envs` come
after the known ones in the order in which Go iterates over the map of groups, so `OrdersOf`
is the set of all orders the stages of a wave may have.

`PromotedLater` compares the stages with reachability over the channels, a definition of its
own beside the algorithm's in-degrees: `Reaches` holds the pairs that no closed set of targets
separates, chains of any length without a recursion. `Tangled` are the targets on a cycle and
those behind one, about whose order the report says nothing. `Apart`, `OfOneKind`, `Sorted`
and `InTurn` say what holds of waves and stages while they are made (section 4).

### `RlrCentral`

The goroutines of the clusters meet in `sync.Once`: the first one acquires credentials and
makes the checks of the account, region by region, with its own context; the others wait and
replay. The facts of the account are a record per region, on both sides of every limit, and
`NothingWrong` says what a healthy region shows.
`AlarmsUnread` names the two checks that take no answer for a failure. Fairness: AWS calls
end by their context or the SDK's timeouts, so every step of a goroutine that can run is
weakly fair.

### `OperatorChecks` and the suites

A suite is the common checks or the checks of one checker, on one cluster. `position` is the
index of the next check in `Order`; a check is one step that makes its calls and appends its
results with `AddResult`. `facts` holds what the checks ask for, a record described at the
head of each module, and `Change` may alter one fact between two checks. Each decision
(`NamespaceStatus`, `PodStatus`, ...) is the body of its check over the facts and the
answers; messages and details are left out, except the peaks that the leak check leaves for
the limits check. `kept` holds the lists checks hand over: the monitors of
`fetchMonitorCRs`, the namespaces and pods of the hosted control planes. A call is
answered, denied, or fails; a query of alerts may also answer with a body that does not
parse, and a command may be killed. `InterruptedCheck` is a check whose calls fail from some
point on because of Ctrl-C: it still appends its verdict. `StopsAt` says where the context is
looked at: between common checks and between commands, but not between the checks of the
other checkers, which go on with calls that fail (`CancelledCheck`).

`faults` bounds changes and unanswered calls together: two for the common checks, for a fact
that changes between two checks and a call that fails in the second, and one for the others.
Facts are those of the healthy clusters and of all that deviate from one of them in one fact;
numeric limits are met exactly and just passed. `Worse` lists the numbers that have a
direction, each as a scale.

What the run shows of each suite:

* `ReportIsWhole`: no gap and no double in a report, in the order of the checks. `ReportOf(n)`
  gives the place of every result when `n` checks had their turn, counting the results of the
  past (MUO), the silent checks and the extra one of `checkPKOClusterPackage`; the property
  says which `n`: the checks before the next one, all of them, or fewer only when the
  namespace failed or, between common checks or commands, Ctrl-C came;
* `SummaryAgrees`: the overall status follows from the counters kept beside the results;
* `AlarmHasCause`: a healthy cluster whose calls are answered gets no FAIL and no WARNING;
* `UnreadHidesNothing`: a check does not pass on an unanswered call where the answer would
  have raised an alarm. `MayPassUnread` lists the checks that do, to which `PassesUnread` adds the
  command that a signal is expected to end: this set is a finding in itself, more than a
  quarter of all checks, and the property keeps it from growing;
* `RefusalIsNoFailure`: a refused call is no failure of the operator, but for `FailsRefused`;
* `WorseNeverBetter`: two runs that differ in one number, one step of its scale apart, never
  have the worse cluster with the milder alarm, in any check; this compares two behaviours;
* `OneVerdictOnDeployment`, `PeakReachesLimits`: two pairs of common checks that must agree.

The verdict on a number is compared with the neighbouring one, not with the criterion as
printed: where code and criterion differ the code is modelled and section 5 has the case.

## 4. Proofs

Seven modules prove theorems about the machines for every value of their constants, an
eighth about sums over sets (41 theorems and 312 lemmas; the largest, `OperatorChecksProofs`,
takes a quarter of an hour). TLC found every one of these properties to hold on the instance
of its run first, and every inductive invariant on the same instance.

| Module | Theorems | Inductive invariants |
|---|---|---|
| `HealthRunProofs` | `TypeCorrect`, `ParallelBound`, `CompleteReport`, `BookIsKept`, `OwnOperations`, `ExactTotals`, `CheckedWhenReady`, `NothingLeftBehind` | `CountInv`, `CompleteInv`, `EntriesInv`, `OpsInv`, `TotalsInv`, `ExitInv` |
| `RemoteCallsProofs` | `RetryTypes`, `BoundedRetries`, `OneLateWait`; `TokenTypes`, `OneRefreshAtATime`, `QueryTokenAlive` | `RetryInv`; `TokenInv` |
| `ClusterClientProofs` | `ClientTypes`, `BrokenByRefusal`, `ReasonIsWritten`, `AuditIsExact`, `NilIsAnothersDoing` | `ClientInv` |
| `RunModesProofs` | `ModesTypes`, `TokensRenewed`, `EnvironmentIsReal`, `GrantedElevation` | `ModeTypes` (with `OcmInv`), `SameEnv`, `ElevationInv` |
| `SelectionProofs` | `SelectionTyped`, `ResolvedIDs`, `ListAndShards`, `FiltersHold`; `PromotionTyped`, `TargetsShownOnce`, `LaterThanSources`, `OwnTargetIsFirst` | `SelectionInv`; `PromotionInv` (with `LayoutInv`) |
| `RlrCentralProofs` | `CentralTypes`, `OneStoryForAll`, `NoFalseAlarm` | `TypeOK`, `OnceInv`, `QuietInv` |
| `OperatorChecksProofs` | `OneSummary`, `OneVerdict`, `PeaksAreJudged`, `NoGapInReport`, `UnreadIsNoGoodNews`, `RefusalIsNoBadNews` | `CountInv`, `CommonInv`, `ReportInv` |
| `SumTheorems` | lemmas only: sums over finite sets | |

Why the properties need these invariants, and how the arguments go:

* `CountInv` (run): `sem` is the number of goroutines between their launch and their release,
  `wg` the number that has not called `Done` (plus the one about to start), and goroutines
  start in list order. `TypeOK` alone is not inductive: `sem - 1` and `wg - 1` stay natural
  only because the counters are exact.
* `CompleteInv`: for every goroutine, the operators it started are running or in the ledger,
  and once it ends it is accounted for or the context was cancelled; for the main thread,
  past its wait all goroutines are done.
* `BookIsKept` is the refinement: initial states map to initial states and every step of
  `HealthRun` to one step of `Ledger` or a stutter. `RecordOutput` and `RecordSkip` want the
  entry to be new and to contradict none, which is `EntriesInv`: an operator is started once,
  a hive cluster is visited once. `Publish` wants every job settled, which is `CompleteInv`.
* `OpsInv` says which outputs carry operations *during* the run: those of a worker that has
  stopped making them. `TotalsInv` says that the totals are at every moment the sum over the
  workers that have been counted; that a step of one goroutine changes it by that goroutine's
  calls is `SumChange` of `SumTheorems`.
* `ExitInv` says which clients are open at every moment, that a goroutine past the metadata is
  that of a ready cluster, and that no total changes after a complete report. With
  `CompleteInv` it gives `CleanExit` and `JobsCheckedWhenReady`, two properties that have a
  theorem and no run of their own.
* `RetryInv` bounds sends and waits by the two attempt counters, the current round included,
  and says that a wait begun after the context ended is the last one. `TokenInv` says that
  whoever asks SSO holds the mutex and found no fresh token, and orders the times at which a
  token was issued, read and handed out.
* `ClientInv` follows each operator: by the kind of its call, where it can be, what it has in
  the audit that is not sent yet, and that it breaks elevation only for a refusal. The four
  properties say nothing of an operator in the middle of a call and are not inductive alone.
* `OcmInv` is what is known of the token and of the environment at each step of making a
  client; `ElevationInv` says that the locals are as typed before the decision, and that every
  connection was made from the decision after it.
* `SelectionInv` says what holds of the list after each part of `main`: what it contains,
  which names are known, and which filters have run.
* `OnceInv`: one goroutine at most is inside `Do`, what it has collected are the checks up to
  the next one, and a report is what was stored. `QuietInv` extends `QuietWhenHealthy` to the
  results still being collected.
* `CountInv` (checks): the counters are the numbers of results of each status. It holds for
  all fifteen suites because it speaks of `AddResults` and of nothing a check decides; the
  proof asks of the suites only that their checks leave lists. `CommonInv` says, for the
  common checks on an undisturbed cluster, what each of the results that must agree is, as a
  function of the facts.
* `LayoutInv` (pipeline): the three properties of the stages speak of the finished report, and
  the report is made wave by wave and then stage by stage. So the invariant says of both
  together that no target is in two of them (`Apart`), that a stage shows targets of its
  environment and kind (`OfOneKind`), that outside of cycles a target's sources are in earlier
  ones (`Sorted`), and that nothing is lost between the parts (`InTurn`): when a wave comes
  out empty, what no wave took is tangled. This last fact is the heart of Kahn's algorithm: each
  target left waits for one that is left. Of one of them and those behind it take one behind
  which fewest are left; the one it waits for has no fewer behind it, so it has the same, and
  is behind itself: a cycle. At the end,
  `Sorted` gives the order along one channel, and along a chain because the targets in a later
  stage, with the tangled ones, are closed under the channels, so `Reaches` cannot leave them.
* `ReportInv` adds to `ReportIsWhole` where the machine is: after a namespace that failed no
  common check is to come, an operator's own checks come last, and before
  `checkPKOClusterPackage` the report does not know a package. It needs `FactsInv`: what kind
  of cluster it is, on which `Order` and `Silent` depend, does not change in a run, and the
  commands are read before the first of them runs. Both are assumptions about the instance
  (`FixedFacts`), justified by the code: the kind is in `ClusterType` and `Metadata` of the
  `ClusterContext`, set before the first check and written by none, and `RunChecks` of BYOC
  goes over `CheckDefs`, which `main` sets before.
* `UnreadHidesNothing` and `RefusalIsNoFailure` need no history: whatever the facts, the lists
  handed over and the results so far are, the decision of a check on some answers is compared
  with its decision on an answered cluster. The proof takes the checks one by one (a lemma
  `...Tells` for each suite): of each decision it says which calls it reads, and that an unread
  one leads to a status that neither hides nor blames. It covers facts the instance does not
  have; the checks that hide or blame on those only, `resource_leak_detection`,
  `dms_coverage` and `hcp_pod_logs` (which pass) and `alertmanager_config_compatibility` and
  `rlr_vector_daemonset_health` (which fail), were found by attempts at this proof and are in
  the two lists.

Proofs by induction over data use no operator parameter. `SetInduction` of `SumTheorems`
states induction for a property given as the *set* of the numbers that have it; from it
follow that the sum `MapThenSumSet` computes does not depend on the order in which it takes
the elements, and what happens to it when an element or a weight changes. Where the models
add up (audit totals, back-offs, counters) they use that operator or a cardinality. Lists
that keep some of their elements are written with places (`At` of `Places`, `Keep` of
`ClusterSelection`, `PerRegion` of `RlrCentral`) and not with `SelectSeq` or `FlattenSeq`, and back-offs are a
function, so that the provers can reason about them. The first match of a list is the one at
the smallest place (`FirstThat`, `FirstAnswer` of `Promotion`), and a result of a report is
found by its place.

Assumptions on the constants (`ASSUME`, evaluated in the runs): sizes and bounds are natural
numbers, the semaphore has a slot and there are queries to make; the names for nobody and
none are not names of anybody; hive clusters are finitely many and not positions of the list;
choices, lists and facts have their types; a shard has an environment, and a target is on a
shard or on none; a subscription is found by its exact or by a similar name; no change during
a run is one of the `FixedFacts`; and of `HealthyOnes`, `NothingWrong`, which spells out what
a healthy account is. Two theorems have a hypothesis of their own, which the instance of the runs satisfies:

* `EnvironmentIsReal`: the well-known file of an environment is a login to that environment
  (`WellNamed`). Without it the code talks to one environment and decides for another.
* `GrantedElevation`: nobody types the reason of the automatic elevation as a ticket
  (`TicketsAreTyped`). The code cannot tell the two apart.

Only model-checked, and why:

* liveness (`RunEnds`, `WindowIsBounded`, `OperatorsEnd`, `EveryoneEnds`,
  `EveryoneReports`): fairness and ENABLED are out of the provers' reach;
* `AlarmHasCause`: its content is in the constant `Healthy`, which says what a healthy cluster
  shows; a proof for every fact would first have to define this for each of the fifteen suites
  as `NothingWrong` does for `RlrCentral`, whose `QuietWhenHealthy` is proved;
* `WorseNeverBetter` compares whole reports of two clusters, which are folds over the checks:
  what a fold computes is induction over data.

Every other invariant of the runs is stated by a theorem, and every action property but
`AlarmHasCause`. What is left to prove is `AlarmHasCause` for the common checks, with a
`NothingWrong` of their own, and `WorseNeverBetter` for one check at a time.

## 5. Where the code and its words differ

Four runs end in a counterexample, listed under `findings` in `PROJECT.json`. Other
differences met on the way are modelled as the code has them and not run.

The run and its clients:

* a cluster that waits for a slot is started after an interrupt (`main.go:788`);
* a hive cluster whose metadata cannot be read leaves no record (`main.go:1014`), and the
  hive pass looks at neither state nor support level (`main.go:1013`);
* `--config` as the last argument is not read (`main.go:56`);
* `--ocm-url stage` over a production config whose token is renewed builds a production
  client, which elevation takes for stage and elevates without being asked (`ocm.go:191`);
* the token is checked for a run of one cluster when `--by-hive` finds many
  (`main.go:263`), and the token of a reloaded file is not checked (`ocm.go:221`);
* `--saas-only` does not skip the hive pass (`main.go:721`, `main.go:992`);
* a filter whose lookup fails is no filter (`main.go:588`, `main.go:600`);
* the transport's sleep does not watch the context, and `maxBackoff` is out of reach
  (`client.go:200`);
* RHOBS queries take no context, are not retried, and a 401 does not renew the token
  (`rhobs/client.go:71`);
* the Vector batch configuration of the cluster that comes first is reported for all
  (`central.go:1011`); a delivery rate with unread successes is 100% failures, and an
  endpoint that cannot be asked is unhealthy.

SAAS files: a looser match in the PKO file beats the exact one in the OLM file
(`resolver.go:120`); an unreadable file silently makes its successors roots; an exact shard
name also matches by containment in `ResolveHivePattern`; a refused `ClusterSync` is no error.

The framework and the common checks:

* `ElevationSkipResult` is documented as SKIP and returns ACCESS_DENIED (`types.go:215`);
* after a failed namespace check the operator's own checks run (`operator.go:50`), although
  the check's description says that remaining checks are skipped;
* pods that cannot be listed count as no pods (`common.go:233`), events and CSVs that cannot
  be listed as none (`common.go:1208`, `common.go:1325`), an alert answer that does not
  parse as no alert (`common.go:1487`).

The checkers, where the printed criterion says otherwise or a failed read decides:

* DMS: coverage counts SyncSets, not clusters (`dms.go:300`); the criterion of the API is
  zero errors, the code's a rate of at most 0.01 (`dms.go:209`).
* OME: a failed `up` query fails, though the criterion says SKIP; the branch for the trigger
  precedes the one for required metrics.
* PDO, SAE, CAMO: metrics that all failed make PDO's metrics check and SAE's CloudWatch check
  pass; SAE's missing metrics warn instead of skipping; CAMO's readiness and secret checks
  fail when refused (`camo.go:369`). SFO: any error reading a secret makes it missing.
* MUO: gauges look at the first series only, and two loops keep the last item's status.
* RMO: a missing ServiceMonitor reference is counted and not judged; probe expectations fail
  when lists are unread; coverage compares counts, not ids; one false positive of the
  external path turns a real API failure into a WARNING (`rmo.go:1350`).
* RHOBS: absent parts are INFO where the criterion says SKIP; a MonitoringStack that cannot
  be read makes the later checks say "not configured" (`rhobs.go:56`); errors without any
  throughput pass (`rhobs.go:1478`); a degraded agent is a WARNING whose bad decisions are
  not looked at (`rhobs.go:1612`); one refused rate of two is 100% failures.
* HCP: memory beyond ten times the request is announced as FAIL and only warns
  (`hcp.go:232`); unread pods are "all 0 healthy"; a pod that only crash-loops is concerning
  and passes; no hosted cluster with nodes is INFO (`hcp.go:1341`); "restart events" count
  new pods; unread lists make trends and logs pass; a refused list is SKIP.
* MCC: old nodes are announced as WARN and noted as INFO (`mcc.go:255`); the AMI list is
  fetched once per process and a failure stays, so a healthy ROSA cluster is warned about
  and a custom AMI on OSD no longer fails (`mcc.go:62`); an unread namespace with CRDs left
  is a partial removal; an expected AMI that cannot be looked up passes.
* RLR: the branches for missing elevation are dead, for `CanQueryMetrics` is always true
  (`client.go:838`); the delivery criterion is 1% and the limit 5% (`rlr.go:2187`); of three
  clusters no coefficient of variation reaches 1.5, and clusters without any rate are left
  out of the balance (`rlr.go:1351`); an idle pipeline's 0/0 is backpressure in one check and
  fine in others; an unread list of hosted clusters makes zero ingestion pass.
* BYOC: a command the deadline kills has exit code -1 and is judged by it; "timed out" is
  said only of one that ends well at that very moment or was never started (`byoc.go:145`).

## 6. Not modelled

* list and brief modes: they print what a lookup returns and keep no state;
* the report's page and its script, and logging: output only. When the report is written and
  what it holds then is in `HealthRun`;
* the parsing of flags, JSON and metrics, which libraries do, except `Peak` and `Trend`; the
  merging of series by timestamp (`thanos.go:98`), of which every query is a user: the facts
  of a suite are what the merged series say;
* of the cluster client, the kubeconfig file, error texts and the tag `CurrentCheck`, and the
  port-forward to the RHOBS Prometheus, which has the shape of the one that is modelled;
* of the fleet, the patterns of shards and their sync status, which are printed and counted;
* of the SAAS files, image tags and branch heads, which are text that is shown; of the
  RHOBS client, where its credentials come from; of the common checks, the registry query
  that explains an image pull error, and the errors kept for the report.
