-------------------------- MODULE MCOperatorChecks --------------------------
(***************************************************************************)
(* A small instance of OperatorChecks for TLC: per suite a few healthy     *)
(* clusters, and all those that differ from one of them in one fact, with  *)
(* values on both sides of every limit of the checks.                      *)
(***************************************************************************)
EXTENDS OperatorChecks, TLC

Fact(field, values) == {[field |-> field, value |-> v] : v \in values}
Scale(field, values) == [field |-> field, values |-> values]

Replicas(exists, desired, ready) ==
  [exists |-> exists, desired |-> desired, ready |-> ready]
Elevations == Fact("elevation", {"off", "forbidden"})
Conditions == Fact("available", {"False", "none"})

(***************************************************************************)
(* The common checks.                                                      *)
(***************************************************************************)
ViaPKO ==
  [namespace |-> "Active",
   deployment |-> Replicas(TRUE, 1, 1),
   pods |-> [count |-> 1, restarts |-> 10, notRunning |-> 0],
   package |-> "healthy", subscriptions |-> {}, csvs |-> FALSE,
   version |-> [shard |-> TRUE, target |-> "found", image |-> "expected"],
   usage |-> [mem |-> <<10, 20>>, cpu |-> <<40, 60>>],
   limits |-> [mem |-> 50, cpu |-> 0],
   lease |-> 1, pullErrors |-> 0, jobs |-> <<>>,
   logs |-> [empty |-> FALSE, errors |-> 10],
   warningEvents |-> 0, alerts |-> <<>>]

ViaOLM == [ViaPKO EXCEPT !.package = "none", !.subscriptions = {"exact"},
                         !.csvs = TRUE, !.lease = 3]

Alert(class, namespace, severity) ==
  [class |-> class, name |-> "a", namespace |-> namespace,
   severity |-> severity]
Warned == Alert("platform", "openshift", "warning")
Critical == Alert("platform", "openshift", "critical")

Job(active, failed, succeeded) ==
  [active |-> active, failed |-> failed, succeeded |-> succeeded]
Pods(count, restarts, notRunning) ==
  [count |-> count, restarts |-> restarts, notRunning |-> notRunning]
Version(shard, target, image) ==
  [shard |-> shard, target |-> target, image |-> image]
Logs(empty, errors) == [empty |-> empty, errors |-> errors]
Usage(mem, cpu) == [mem |-> mem, cpu |-> cpu]

CommonDeviations ==
  UNION {
    Fact("namespace", {"Terminating", "none"}),
    Fact("deployment", {Replicas(FALSE, 1, 0), Replicas(TRUE, 1, 0),
                        Replicas(TRUE, 2, 1)}),
    Fact("pods", {Pods(0, 0, 0), Pods(1, 11, 0), Pods(2, 0, 1)}),
    Fact("package", {"none", "healthy", "unavailable", "progressing"}),
    Fact("subscriptions", {{}, {"exact"}, {"similar"}}),
    Fact("csvs", BOOLEAN),
    Fact("version", {Version(FALSE, "found", "expected"),
                     Version(TRUE, "none", "none"),
                     Version(TRUE, "noVersion", "other"),
                     Version(TRUE, "found", "other"),
                     Version(TRUE, "found", "none")}),
    Fact("usage", {Usage(<<30, 46>>, <<>>), Usage(<<>>, <<>>),
                   Usage(<<10, 40>>, <<40, 60>>),
                   Usage(<<10, 40, 10>>, <<0, 9>>)}),
    Fact("lease", {0, 2}),
    Fact("pullErrors", {1}),
    Fact("jobs", {<<Job(1, 1, 0)>>, <<Job(0, 1, 1)>>,
                  [i \in 1..4 |-> Job(0, 0, 1)]}),
    Fact("logs", {Logs(TRUE, 0), Logs(FALSE, 11)}),
    Fact("warningEvents", {1}),
    Fact("alerts", {<<Warned>>, <<Warned, Critical>>,
                    <<Alert("excluded", "openshift", "critical"),
                      Alert("other", "customer", "critical")>>,
                    <<Warned, Alert("sre", "customer", "critical")>>})}

CommonWorse ==
  {Scale("pods", <<Pods(1, 10, 0), Pods(1, 11, 0), Pods(1, 11, 1)>>),
   Scale("usage", <<Usage(<<10, 10>>, <<>>), Usage(<<10, 39>>, <<>>),
                    Usage(<<10, 40>>, <<>>), Usage(<<10, 60>>, <<>>)>>),
   Scale("pullErrors", <<0, 1, 2>>),
   Scale("logs", <<Logs(FALSE, 10), Logs(FALSE, 11), Logs(FALSE, 20)>>),
   Scale("warningEvents", <<0, 1>>),
   Scale("alerts", <<<<>>, <<Warned>>, <<Critical>>>>)}

\* What may happen to the cluster between two common checks.
CommonChanges ==
  UNION {Fact("namespace", {"Terminating"}),
         Fact("package", {"none", "healthy"}),
         Fact("subscriptions", {{}, {"exact"}}),
         Fact("deployment", {Replicas(FALSE, 1, 0)}),
         Fact("usage", {Usage(<<10, 40, 10>>, <<0, 9>>)})}

(***************************************************************************)
(* The operators of the hive clusters, and the exporters.                  *)
(***************************************************************************)
Dms0 ==
  [deployment |-> Replicas(TRUE, 2, 2), elevation |-> "ok",
   integrations |-> 1, reconciles |-> 5, errorRate |-> 1,
   syncs |-> <<<<"Success">>, <<"Success">>>>]
DmsDeviations ==
  UNION {Fact("deployment", {Replicas(FALSE, 2, 0), Replicas(TRUE, 2, 0),
                             Replicas(TRUE, 2, 1)}),
         Elevations,
         Fact("integrations", {0}),
         Fact("reconciles", {-1, 0}),
         Fact("errorRate", {2}),
         Fact("syncs", {<<<<"Success">>, <<>>>>,
                        <<<<"Success", "Success">>, <<>>>>,
                        <<<<"Success", "Success">>, <<"Failure">>>>,
                        <<<<"Success">>, <<"Failure">>>>, <<<<>>>>})}
DmsWorse ==
  {Scale("deployment", <<Replicas(TRUE, 2, 2), Replicas(TRUE, 2, 1),
                         Replicas(TRUE, 2, 0)>>),
   Scale("errorRate", <<0, 1, 2>>),
   Scale("syncs", <<<<<<"Success">>, <<"Success">>>>,
                    <<<<"Success">>, <<"Failure">>>>,
                    <<<<"Failure">>, <<"Failure">>>>>>)}

Ome0 ==
  [scraped |-> TRUE,
   present |-> {m.name : m \in Ome!expectedMetrics},
   oauth |-> TRUE, proxy |-> TRUE, cpms |-> TRUE, secret |-> TRUE,
   none |-> FALSE, pullSecret |-> "valid", caValid |-> "1", monitor |-> TRUE]
OmeDeviations ==
  UNION {Fact("scraped", {FALSE}),
         Fact("present",
              {{}} \union {Ome0.present \ {m} : m \in Ome0.present}),
         Fact("proxy", {FALSE}), Fact("oauth", {FALSE}),
         Fact("secret", {FALSE}), Fact("cpms", {FALSE}),
         Fact("pullSecret", {"invalid", "other", "none"}),
         Fact("caValid", {"0", "none"}), Fact("monitor", {FALSE})}
OmeWorse ==
  {Scale("present", <<Ome0.present, Ome0.present \ {"cpms_enabled"},
                      Ome0.present \ {"cpms_enabled", "cluster_id"}>>),
   Scale("caValid", <<"1", "0">>), Scale("pullSecret", <<"valid", "invalid">>)}

Mnmo0 == [deployment |-> Replicas(TRUE, 2, 2)]
MnmoDeviations ==
  Fact("deployment", {Replicas(FALSE, 2, 0), Replicas(TRUE, 2, 1)})
MnmoWorse ==
  {Scale("deployment", <<Replicas(TRUE, 2, 2), Replicas(TRUE, 2, 1),
                         Replicas(TRUE, 2, 0)>>)}

PdoLogs(starts, completes, errors, config) ==
  [starts |-> starts, completes |-> completes, errors |-> errors,
   config |-> config]
Pdo0 ==
  [elevation |-> "ok", apiKey |-> "key", available |-> "True", hive |-> TRUE,
   crd |-> TRUE, pdis |-> 1, loaded |-> 1, failing |-> FALSE, pods |-> 1,
   logs |-> PdoLogs(1, 1, 0, 5), alerts |-> 0]
PdoDeviations ==
  UNION {Elevations, Conditions, Fact("apiKey", {"nokey", "none"}),
         Fact("hive", {FALSE}), Fact("crd", {FALSE}), Fact("pdis", {0}),
         Fact("loaded", {0}), Fact("failing", {TRUE}), Fact("pods", {0}),
         Fact("logs", {PdoLogs(0, 0, 0, 0), PdoLogs(1, 0, 0, 0),
                       PdoLogs(1, 1, 1, 6)}),
         Fact("alerts", {1})}
PdoWorse ==
  {Scale("logs", <<PdoLogs(1, 1, 0, 0), PdoLogs(1, 1, 0, 5),
                   PdoLogs(1, 1, 0, 6), PdoLogs(1, 1, 1, 7)>>),
   Scale("alerts", <<0, 1>>), Scale("failing", <<FALSE, TRUE>>),
   Scale("loaded", <<1, 0>>)}

(***************************************************************************)
(* The operators with a suite on every cluster.                            *)
(***************************************************************************)
Sfo0 ==
  [elevation |-> "ok", available |-> "True", crs |-> 1, auth |-> TRUE,
   daemonsets |-> <<[desired |-> 2, ready |-> 2]>>, pods |-> Pods(2, 10, 0),
   configMaps |-> 2, memory |-> <<40, 60>>, unhealthy |-> 0, errorRate |-> 1,
   exporter |-> Replicas(TRUE, 3, 3), monitors |-> 2, rule |-> 2]
SfoDeviations ==
  UNION {Elevations, Conditions, Fact("crs", {0}), Fact("auth", {FALSE}),
         Fact("daemonsets", {<<>>, <<[desired |-> 2, ready |-> 2],
                                     [desired |-> 2, ready |-> 1]>>}),
         Fact("pods", {Pods(0, 0, 0), Pods(2, 11, 0), Pods(2, 0, 1)}),
         Fact("configMaps", {1}),
         Fact("memory", {<<>>, <<30, 50>>, <<30, 51>>, <<30, 90, 40>>}),
         Fact("unhealthy", {1}), Fact("errorRate", {2}),
         Fact("exporter", {Replicas(FALSE, 0, 0), Replicas(TRUE, 3, 0),
                           Replicas(TRUE, 3, 2)}),
         Fact("monitors", {1}), Fact("rule", {0, 1})}
SfoWorse ==
  {Scale("pods", <<Pods(2, 10, 0), Pods(2, 11, 0), Pods(2, 11, 1)>>),
   Scale("memory", <<<<30, 45>>, <<30, 50>>, <<30, 51>>, <<30, 90>>>>),
   Scale("unhealthy", <<0, 1>>), Scale("errorRate", <<1, 2>>),
   Scale("configMaps", <<2, 1, 0>>),
   Scale("exporter", <<Replicas(TRUE, 3, 3), Replicas(TRUE, 3, 2),
                       Replicas(TRUE, 3, 0)>>)}

SaeLogs(critical, warnings) == [critical |-> critical, warnings |-> warnings]
Sae0 ==
  [namespace |-> "Active", pullErrors |-> 0, warningEvents |-> 0,
   elevation |-> "ok", daemonset |-> Replicas(TRUE, 3, 3), crashing |-> 0,
   pulling |-> 0, restarts |-> 10, policy |-> TRUE, certs |-> TRUE,
   monitor |-> TRUE, events |-> 7, filterErrors |-> 0, queue |-> 99,
   cached |-> 899, forwarded |-> 1, dropped |-> 1, cloudwatch |-> "on",
   cwErrors |-> 0, silent |-> <<FALSE, FALSE>>, series |-> 1, pods |-> 3,
   logs |-> SaeLogs(0, 5), memory |-> <<40, 60>>, cpu |-> <<5, 9>>]
SaeDeviations ==
  UNION {Elevations, Fact("namespace", {"Terminating"}),
         Fact("pullErrors", {1}), Fact("warningEvents", {1}),
         Fact("daemonset", {Replicas(FALSE, 0, 0), Replicas(TRUE, 3, 2)}),
         Fact("crashing", {1}), Fact("pulling", {1}), Fact("restarts", {11}),
         Fact("policy", {FALSE}), Fact("certs", {FALSE}),
         Fact("monitor", {FALSE}), Fact("events", {-1, 0}),
         Fact("filterErrors", {-1, 1}), Fact("queue", {-1, 100, 101}),
         Fact("cached", {-1, 900}), Fact("forwarded", {-1, 2}),
         Fact("dropped", {-1, 0}), Fact("cloudwatch", {"off", "invalid"}),
         Fact("cwErrors", {1}), Fact("silent", {<<>>, <<FALSE, TRUE>>}),
         Fact("series", {0}), Fact("pods", {0}),
         Fact("logs", {SaeLogs(1, 0), SaeLogs(0, 6)}),
         Fact("memory", {<<>>, <<30, 46>>, <<30, 60>>}), Fact("cpu", {<<>>})}
SaeWorse ==
  {Scale("queue", <<0, 99, 100, 101>>), Scale("cached", <<0, 899, 900, 950>>),
   Scale("filterErrors", <<0, 1>>), Scale("cwErrors", <<0, 1>>),
   Scale("logs", <<SaeLogs(0, 5), SaeLogs(0, 6), SaeLogs(1, 6)>>),
   Scale("restarts", <<10, 11>>), Scale("crashing", <<0, 1>>),
   Scale("memory", <<<<30, 45>>, <<30, 50>>, <<30, 60>>>>),
   Scale("silent", <<<<FALSE>>, <<TRUE>>>>),
   Scale("dropped", <<2, 1, 0>>)}

Gauges == {"validation", "controlplane", "worker", "scaling", "window"}
Counts == {"drains", "notifications", "health"}
Muo0 ==
  [elevation |-> "ok", available |-> "True", config |-> "valid",
   monitors |-> 1, upgrades |-> <<"Upgraded">>, syncAge |-> 60,
   upgradeAlerts |-> <<FALSE>>, validation |-> <<0>>, controlplane |-> <<0>>,
   worker |-> <<0>>, scaling |-> <<>>, window |-> <<0>>,
   drains |-> 0, notifications |-> 0, health |-> 0]
MuoDeviations ==
  UNION {Elevations, Conditions,
         Fact("config", {"partial", "invalid", "none"}), Fact("monitors", {0}),
         Fact("upgrades", {<<>>, <<"Pending">>, <<"Upgrading">>, <<"Failed">>,
                           <<"Failed", "Upgraded">>}),
         Fact("syncAge", {-1, 61, 240, 241}),
         Fact("upgradeAlerts", {<<>>, <<TRUE>>, <<TRUE, FALSE>>}),
         UNION {Fact(g, {<<1>>, <<0, 1>>}) : g \in Gauges},
         UNION {Fact(n, {1}) : n \in Counts}}
MuoWorse ==
  {Scale("syncAge", <<60, 61, 240, 241>>),
   Scale("upgrades", <<<<"Upgraded">>, <<"Upgrading">>, <<"Failed">>>>),
   Scale("config", <<"valid", "partial", "invalid">>)}
  \union {Scale(g, <<<<0>>, <<1>>>>) : g \in Gauges}
  \union {Scale(n, <<0, 1, 2>>) : n \in Counts}

AMErrors(critical, other) == [critical |-> critical, other |-> other]
Camo0 ==
  [elevation |-> "ok", available |-> "True", amPods |-> 2, amNotReady |-> 0,
   amRestarts |-> 3, statefulSet |-> Replicas(TRUE, 2, 2), pods |-> 1,
   configErrors |-> 5, validation |-> "0", amSecret |-> "1",
   namespaces |-> "1", pd |-> "1", age |-> 300, created |-> 0,
   reloads |-> <<1, 1>>, hashes |-> 1, reloadAge |-> 24,
   imageTag |-> <<>>, podImage |-> <<>>, minor |-> 20, config |-> "found",
   requires |-> {<<0, 27, 0>>}, amErrors |-> AMErrors(0, 0),
   amWarnings |-> 0, amEvents |-> 0, camoEvents |-> 0, secret |-> TRUE,
   pdSecret |-> TRUE, watchdog |-> TRUE, sent |-> 9, failed |-> 1]
CamoDeviations ==
  UNION {Elevations, Conditions, Fact("amPods", {0}), Fact("amNotReady", {1}),
         Fact("amRestarts", {4}),
         Fact("statefulSet", {Replicas(FALSE, 0, 0), Replicas(TRUE, 2, 1),
                              Replicas(TRUE, 0, 0)}),
         Fact("pods", {0}), Fact("configErrors", {6}),
         Fact("validation", {"1", ""}), Fact("amSecret", {"0", ""}),
         Fact("namespaces", {"0", ""}), Fact("pd", {"0", ""}),
         Fact("age", {0, 89, 90, 240}), Fact("created", {100}),
         Fact("reloads", {<<>>, <<1, 0>>}), Fact("hashes", {2}),
         Fact("reloadAge", {25}), Fact("imageTag", {<<0, 26, 1>>}),
         Fact("podImage", {<<0, 26, 1>>, <<0, 28, 0>>}),
         Fact("minor", {15, 16, 22}), Fact("config", {"nokey", "none"}),
         Fact("requires", {{}, {<<0, 28, 0>>}, {<<0, 28, 2>>}, {<<1, 0, 0>>}}),
         Fact("amErrors", {AMErrors(1, 0), AMErrors(0, 1)}),
         Fact("amWarnings", {1}), Fact("amEvents", {1}),
         Fact("camoEvents", {1}), Fact("secret", {FALSE}),
         Fact("pdSecret", {FALSE}), Fact("watchdog", {FALSE}),
         Fact("sent", {0, 8}), Fact("failed", {0, 2})}
\* The image tells a newer Alertmanager than the version of the cluster.
CamoByTag == [Camo0 EXCEPT !.imageTag = <<0, 28, 0>>, !.minor = 16]
CamoWorse ==
  {Scale("amNotReady", <<0, 1>>), Scale("amRestarts", <<3, 4>>),
   Scale("configErrors", <<5, 6>>), Scale("reloadAge", <<24, 25>>),
   Scale("hashes", <<1, 2>>), Scale("age", <<89, 90, 239, 240>>),
   Scale("minor", <<22, 21, 20, 19, 18, 16>>),
   Scale("imageTag", <<<<1, 0, 0>>, <<0, 29, 0>>, <<0, 28, 1>>, <<0, 28, 0>>,
                       <<0, 27, 3>>, <<0, 26, 9>>>>),
   Scale("amErrors", <<AMErrors(0, 0), AMErrors(0, 1), AMErrors(1, 1)>>),
   Scale("failed", <<0, 1, 2>>), Scale("reloads", <<<<1, 1>>, <<1, 0>>>>)}

Calls2(success, errors) == [success |-> success, errors |-> errors]
Controller(exists, running, restarts, oom) ==
  [exists |-> exists, running |-> running, restarts |-> restarts, oom |-> oom]
Monitor(error, url, service, rule) ==
  [expected |-> TRUE, error |-> error, url |-> url, service |-> service,
   rule |-> rule]
Fine == Monitor(FALSE, TRUE, "found", "found")
Blackbox(exists, ready, service) ==
  [exists |-> exists, desired |-> 1, ready |-> ready, service |-> service]
History(dips, pods) == [dips |-> dips, pods |-> pods]
RmoMC ==
  [mc |-> TRUE, elevation |-> "ok",
   controller |-> Controller(TRUE, TRUE, 5, FALSE), env |-> {"url", "oidc"},
   blackbox |-> Blackbox(TRUE, 1, TRUE), routes |-> <<Fine>>,
   urls |-> <<Fine>>, rules |-> {"api"}, probes |-> <<1, 1>>,
   api |-> Calls2(5, 1), oidc |-> Calls2(5, 1), timeouts |-> 0,
   config |-> TRUE, hcps |-> {"h1", "h2"}, monitored |-> {"h1", "h2"},
   hcpProbes |-> <<1, 1>>, rhobsApi |-> Calls2(5, 0),
   rhobsOidc |-> Calls2(5, 1),
   history |-> <<History(FALSE, "healthy"), History(FALSE, "healthy")>>,
   label |-> FALSE, metric |-> FALSE]
RmoClassic == [RmoMC EXCEPT !.mc = FALSE, !.env = {}, !.hcps = {},
                            !.rules = {"api", "console"}]
RmoDeviations ==
  UNION {Elevations,
         Fact("controller", {Controller(FALSE, FALSE, 0, FALSE),
                             Controller(TRUE, FALSE, 0, FALSE),
                             Controller(TRUE, TRUE, 6, FALSE),
                             Controller(TRUE, TRUE, 11, FALSE),
                             Controller(TRUE, TRUE, 0, TRUE)}),
         Fact("env", {{"url"}, {"oidc"}}),
         Fact("blackbox", {Blackbox(FALSE, 0, FALSE), Blackbox(TRUE, 0, TRUE),
                           Blackbox(TRUE, 1, FALSE)}),
         Fact("routes", {<<>>, <<Monitor(TRUE, FALSE, "gone", "gone")>>,
                         <<Monitor(FALSE, TRUE, "no", "no")>>}),
         Fact("urls", {<<>>, <<Monitor(FALSE, FALSE, "no", "no")>>}),
         Fact("rules", {{}, {"console"}}),
         Fact("probes", {<<>>, <<1>>, <<1, 0>>}),
         Fact("api", {Calls2(0, 1)}), Fact("oidc", {Calls2(0, 1)}),
         Fact("timeouts", {1}), Fact("config", {FALSE}),
         Fact("hcps", {{}, {"h1", "h2", "h3"}}),
         Fact("monitored", {{}, {"h1"}}), Fact("hcpProbes", {<<>>, <<1, 0>>}),
         Fact("rhobsApi", {Calls2(0, 1), Calls2(5, 1)}),
         Fact("rhobsOidc", {Calls2(0, 1)}),
         Fact("history", {<<>>, <<History(TRUE, "none")>>,
                          <<History(TRUE, "healthy")>>,
                          <<History(TRUE, "unhealthy")>>}),
         Fact("label", {TRUE}), Fact("metric", {TRUE})}
RmoWorse ==
  {Scale("controller", <<Controller(TRUE, TRUE, 5, FALSE),
                         Controller(TRUE, TRUE, 6, FALSE),
                         Controller(TRUE, TRUE, 11, FALSE),
                         Controller(TRUE, FALSE, 11, FALSE)>>),
   Scale("probes", <<<<1, 1>>, <<1, 0>>, <<0, 0>>>>),
   Scale("api", <<Calls2(5, 1), Calls2(0, 1)>>), Scale("timeouts", <<0, 1>>),
   Scale("monitored", <<{"h1", "h2"}, {"h1"}, {}>>),
   Scale("hcpProbes", <<<<1, 1>>, <<1, 0>>>>),
   Scale("rhobsApi", <<Calls2(5, 0), Calls2(5, 1), Calls2(0, 1)>>),
   Scale("history", <<<<History(FALSE, "healthy")>>,
                      <<History(TRUE, "healthy")>>,
                      <<History(TRUE, "unhealthy")>>>>)}

(***************************************************************************)
(* The hosted control planes, the cluster itself, and its observability.   *)
(***************************************************************************)
Pod0 == [oom |-> FALSE, unready |-> FALSE, crashing |-> FALSE, restarts |-> 5,
         ratio |-> 5, mem |-> 1024, errors |-> FALSE]
Hosted0 == [state |-> "healthy", pods |-> <<Pod0>>, running |-> 10,
            missing |-> 1, deployments |-> 2, down |-> 0, nodes |-> 2]
Of(hosted) == <<hosted, Hosted0>>
WithPod(field, value) ==
  Of([Hosted0 EXCEPT !.pods = <<[Pod0 EXCEPT ![field] = value]>>])
InState(state) == Of([Hosted0 EXCEPT !.state = state])
Lacking(n) == [i \in 1..5 |-> IF i <= n THEN [Hosted0 EXCEPT !.down = 1]
                              ELSE Hosted0]
Big == [Pod0 EXCEPT !.restarts = 6, !.mem = 1025]
Noisy == [Big EXCEPT !.errors = TRUE]
Flat(n) == [i \in 1..n |-> 10]
Teeth == <<10, 11, 5, 10, 5, 10, 5, 10>>
Steps == [i \in 1..16 |-> 10 + 2 * (i \div 4)]
Many(type, n) == {[type |-> type, workload |-> "w", hour |-> h] : h \in 1..n}
Hcp0 ==
  [elevation |-> "ok", hcps |-> Of(Hosted0), memory |-> <<Flat(8)>>,
   cpu |-> TRUE, events |-> {}]
\* With a pod that only crash-loops, the checks look at the trends and logs.
HcpCrashing == [Hcp0 EXCEPT !.hcps = WithPod("crashing", TRUE)]
HcpDeviations ==
  UNION {Elevations,
         Fact("hcps",
              {<<>>} \union {InState(s) : s \in {"degraded", "unavailable",
                                                "deleting", "stuck"}}
              \union {WithPod(f, TRUE) : f \in {"oom", "unready", "crashing"}}
              \union {WithPod("restarts", 6), WithPod("ratio", 6),
                      Of([Hosted0 EXCEPT !.pods = <<Big, Noisy>>]),
                      Of([Hosted0 EXCEPT !.missing = 2]),
                      Of([Hosted0 EXCEPT !.down = 2]),
                      Of([Hosted0 EXCEPT !.nodes = 0]),
                      Lacking(3), Lacking(4)}),
         Fact("memory", {<<>>, <<Flat(7)>>, <<Teeth>>, <<Steps>>,
                         <<Flat(6) \o <<12, 12>>>>,
                         <<Flat(6) \o <<12, 13>>>>}),
         Fact("cpu", {FALSE}),
         Fact("events", {Many("new_pod", 20), Many("oom", 21),
                         Many("oom", 20) \union Many("restart", 20)})}
HcpWorse ==
  {Scale("hcps", <<Of(Hosted0), WithPod("restarts", 6),
                   WithPod("oom", TRUE)>>),
   Scale("hcps", <<Lacking(0), Lacking(1), Lacking(3), Lacking(4)>>),
   Scale("memory", <<<<Flat(8)>>, <<Flat(6) \o <<12, 12>>>>,
                     <<Flat(6) \o <<12, 13>>>>>>),
   Scale("events", <<{}, Many("oom", 20), Many("oom", 21)>>)}

Node(role) == [role |-> role, ready |-> TRUE, pressure |-> FALSE,
               cordoned |-> FALSE, kubelet |-> "v1"]
Nodes(masters, infra, workers) ==
  [i \in 1..masters |-> Node("master")] \o [i \in 1..infra |-> Node("infra")]
    \o [i \in 1..workers |-> Node("worker")]
NotReady(n) == [i \in 1..9 |-> [Nodes(3, 3, 3)[i] EXCEPT !.ready = i > n]]
OneNode(field, value) == [Nodes(3, 3, 3) EXCEPT ![9][field] = value]
Sets(ready, ami) == <<[desired |-> 2, ready |-> 2, ami |-> "old"],
                      [desired |-> 2, ready |-> ready, ami |-> ami]>>
Machines(failed, strays) == [failed |-> failed, strays |-> strays]
Boot(enabled, degraded) == [enabled |-> enabled, degraded |-> degraded]
MccOSD ==
  [type |-> "management_cluster", aws |-> TRUE, rosa |-> FALSE,
   hypershift |-> FALSE, multiAZ |-> TRUE, version |-> <<4, 19>>,
   nodes |-> Nodes(3, 3, 3), oldest |-> 90, failed |-> 0, pending |-> 5,
   cpu |-> TRUE, memory |-> TRUE, apiPods |-> "labelled",
   apiErrors |-> <<0, 0, 0>>, machineSets |-> Sets(2, "old"),
   machines |-> Machines(0, 0), boot |-> Boot(TRUE, FALSE),
   expectedAMI |-> "old", allowed |-> {"old", "older"},
   amiList |-> "unfetched", dynatrace |-> {}]
MccROSA ==
  [MccOSD EXCEPT !.type = "other", !.rosa = TRUE, !.version = <<4, 18>>,
                 !.boot = Boot(FALSE, FALSE), !.expectedAMI = "new",
                 !.allowed = {"new"}, !.amiList = "fetched"]
MccDeviations ==
  UNION {Fact("type", {"service_cluster"}), Fact("aws", {FALSE}),
         Fact("hypershift", {TRUE}), Fact("multiAZ", {FALSE}),
         Fact("version", {<<4, 17>>, <<4, 18>>, <<5, 0>>}),
         Fact("nodes", {NotReady(1), NotReady(2), OneNode("pressure", TRUE),
                        OneNode("cordoned", TRUE), OneNode("kubelet", "v2"),
                        Nodes(2, 3, 3), Nodes(3, 2, 3), Nodes(3, 1, 1)}),
         Fact("oldest", {91}), Fact("failed", {1}), Fact("pending", {6}),
         Fact("cpu", {FALSE}), Fact("memory", {FALSE}),
         Fact("apiPods", {"named", "none"}), Fact("apiErrors", {<<0, 1, 0>>}),
         Fact("machineSets", {<<>>, Sets(1, "old"), Sets(2, "older"),
                              Sets(2, "custom"), Sets(2, "none")}),
         Fact("machines", {Machines(1, 0), Machines(0, 1)}),
         Fact("boot", {Boot(TRUE, TRUE), Boot(TRUE, FALSE),
                       Boot(FALSE, FALSE)}),
         Fact("expectedAMI", {"none", "new"}),
         Fact("amiList", {"failed", "fetched", "unfetched"}),
         Fact("dynatrace", {{"namespace", "crds"}, {"crds"}, {"others"}})}
MccWorse ==
  {Scale("nodes", <<NotReady(0), OneNode("pressure", TRUE), NotReady(1),
                    NotReady(2)>>),
   Scale("nodes", <<Nodes(3, 3, 3), Nodes(3, 2, 2), Nodes(2, 2, 2)>>),
   Scale("oldest", <<90, 91>>), Scale("failed", <<0, 1>>),
   Scale("pending", <<5, 6>>),
   Scale("apiErrors", <<<<0, 0, 0>>, <<0, 1, 0>>>>),
   Scale("machineSets", <<Sets(2, "old"), Sets(1, "old"), Sets(0, "old")>>),
   Scale("machines", <<Machines(0, 0), Machines(0, 1), Machines(1, 1)>>)}

Ready2(desired, ready) == [desired |-> desired, ready |-> ready]
Collector(ready, strays) ==
  [desired |-> 2, ready |-> ready, strays |-> strays]
Forwarder(ready, others) == [ready |-> ready, others |-> others]
Prometheus(exists, conditions, available) ==
  [exists |-> exists, conditions |-> conditions, replicas |-> 2,
   available |-> available]
Hosted(managed, ready) ==
  [managed |-> managed, desired |-> 2, ready |-> ready]
Samples(succeeded, failed) == [succeeded |-> succeeded, failed |-> failed]
Vector(in, errors, dropped) ==
  [in |-> in, errors |-> errors, dropped |-> dropped]
Decisions(applied, skipped) == [applied |-> applied, skipped |-> skipped]
Probes(count, failing) == [count |-> count, failing |-> failing]
RhobsMC ==
  [mc |-> TRUE, elevation |-> "ok", expected |-> TRUE, stack |-> "available",
   credential |-> TRUE, destination |-> TRUE, writes |-> <<TRUE>>,
   prometheus |-> Prometheus(TRUE, TRUE, 2),
   statefulSets |-> <<Ready2(2, 2)>>, crd |-> TRUE,
   forwarders |-> <<Forwarder("True", TRUE)>>,
   collectors |-> <<Collector(2, 0)>>, eventNS |-> TRUE,
   routers |-> <<Ready2(1, 1)>>, refresher |-> Replicas(TRUE, 2, 2),
   logDestination |-> "annotated", controlNS |-> TRUE,
   controlSets |-> <<Collector(2, 0)>>, rulesNS |-> "labelled",
   rules |-> <<1, 0>>, hcCRD |-> TRUE, hcps |-> <<Hosted(TRUE, 2)>>,
   samples |-> Samples(99, 1), vector |-> Vector(100, 1, 0),
   fetches |-> Calls2(5, 5), decisions |-> Decisions(5, 95),
   probes |-> Probes(1, 0), down |-> 0, agent |-> Replicas(TRUE, 2, 2)]
RhobsSC ==
  [RhobsMC EXCEPT !.mc = FALSE, !.expected = FALSE, !.stack = "none",
                  !.crd = FALSE, !.forwarders = <<>>, !.collectors = <<>>,
                  !.eventNS = FALSE, !.logDestination = "none"]
RhobsDeviations ==
  UNION {Elevations, Fact("expected", {FALSE}),
         Fact("stack", {"none", "unavailable"}),
         Fact("credential", {FALSE}), Fact("destination", {FALSE}),
         Fact("writes", {<<>>, <<TRUE, FALSE>>}),
         Fact("prometheus", {Prometheus(FALSE, FALSE, 0),
                             Prometheus(TRUE, FALSE, 2),
                             Prometheus(TRUE, TRUE, 1)}),
         Fact("statefulSets", {<<>>, <<Ready2(2, 2), Ready2(2, 1)>>}),
         Fact("crd", {FALSE}),
         Fact("forwarders", {<<>>, <<Forwarder("False", TRUE)>>,
                             <<Forwarder("True", FALSE)>>}),
         Fact("collectors", {<<>>, <<Collector(1, 0)>>, <<Collector(2, 1)>>}),
         Fact("eventNS", {FALSE}),
         Fact("routers", {<<>>, <<Ready2(1, 0)>>}),
         Fact("refresher", {Replicas(FALSE, 0, 0), Replicas(TRUE, 2, 1)}),
         Fact("logDestination", {"none", "bare"}),
         Fact("controlNS", {FALSE}),
         Fact("controlSets", {<<>>, <<Collector(2, 1)>>}),
         Fact("rulesNS", {"bare", "none"}), Fact("rules", {<<0, 0>>}),
         Fact("hcCRD", {FALSE}),
         Fact("hcps", {<<>>, <<Hosted(FALSE, 0)>>, <<Hosted(TRUE, 1)>>}),
         Fact("samples", {Samples(0, 0), Samples(98, 2), Samples(95, 5),
                          Samples(94, 6)}),
         Fact("vector", {Vector(0, 0, 0), Vector(0, 1, 0), Vector(100, 2, 0),
                         Vector(100, 0, 1)}),
         Fact("fetches", {Calls2(0, 0), Calls2(0, 1), Calls2(5, 6)}),
         Fact("decisions", {Decisions(0, 0), Decisions(6, 94),
                            Decisions(51, 49)}),
         Fact("probes", {Probes(0, 0), Probes(1, 1)}), Fact("down", {1}),
         Fact("agent", {Replicas(FALSE, 0, 0), Replicas(TRUE, 2, 1),
                        Replicas(TRUE, 2, 0)})}
RhobsSCDeviations ==
  UNION {Fact("expected", {TRUE}), Fact("stack", {"available"}),
         Fact("crd", {TRUE}), Fact("eventNS", {TRUE}),
         Fact("logDestination", {"bare"})}
RhobsWorse ==
  {Scale("stack", <<"available", "unavailable">>),
   Scale("collectors", <<<<Collector(2, 0)>>, <<Collector(1, 0)>>>>),
   Scale("refresher", <<Replicas(TRUE, 2, 2), Replicas(TRUE, 2, 1),
                        Replicas(TRUE, 2, 0)>>),
   Scale("agent", <<Replicas(TRUE, 2, 2), Replicas(TRUE, 2, 0)>>),
   Scale("samples", <<Samples(99, 1), Samples(98, 2), Samples(95, 5),
                      Samples(94, 6)>>),
   Scale("fetches", <<Calls2(5, 0), Calls2(5, 5), Calls2(5, 6),
                      Calls2(0, 6)>>),
   Scale("decisions", <<Decisions(5, 95), Decisions(6, 94), Decisions(50, 50),
                        Decisions(51, 49)>>),
   Scale("probes", <<Probes(2, 0), Probes(2, 1)>>), Scale("down", <<0, 1>>)}

(***************************************************************************)
(* The log router, on a management and on a hosted cluster.                *)
(***************************************************************************)
DaemonSet(name, ready, strays, updated) ==
  [name |-> name, desired |-> 2, ready |-> ready, strays |-> strays,
   updated |-> updated, observed |-> TRUE]
DaemonSet0 == DaemonSet("known", 2, 0, 2)
Crashing(count, restarts, crashing) ==
  [count |-> count, restarts |-> restarts, crashing |-> crashing]
Running(count, running, restarts, crashing) ==
  [count |-> count, running |-> running, restarts |-> restarts,
   crashing |-> crashing]
Stage(transform, sent) ==
  [transform |-> transform, sent |-> sent, received |-> 100]
RlrMC ==
  [mc |-> TRUE, hypershift |-> FALSE, namespace |-> "Active",
   daemonset |-> DaemonSet0, pods |-> Crashing(2, 10, FALSE),
   image |-> "expected", wanted |-> TRUE, targets |-> <<TRUE, TRUE>>,
   rate |-> <<1>>, hcps |-> 2, written |-> <<9900>>, ratios |-> <<9900, -1>>,
   buffer |-> <<7167>>, buffered |-> <<50000, 49999>>, s3Errors |-> 0,
   transformErrors |-> 0, loss |-> <<0>>, config |-> "data",
   components |-> <<Stage(TRUE, 99), Stage(FALSE, 50)>>,
   utilization |-> <<79, 10>>, rates |-> <<8, 1, 1, 1>>,
   latency |-> <<49, 9>>, heartbeat |-> Replicas(TRUE, 1, 1),
   processor |-> Replicas(FALSE, 0, 0),
   heartbeatPods |-> Running(1, 1, 5, FALSE),
   processorPods |-> Running(0, 0, 0, FALSE), rule |-> "whole", alerts |-> 0,
   forwarders |-> <<>>, output |-> 0, errors |-> 0]
RlrHCP ==
  [RlrMC EXCEPT !.mc = FALSE, !.hypershift = TRUE,
                !.forwarders = <<"ready", "ready">>, !.output = 100,
                !.errors = 5]
RlrDeviations ==
  UNION {Fact("namespace", {"none"}), Fact("wanted", {FALSE}),
         Fact("daemonset", {DaemonSet("none", 0, 0, 0),
                            DaemonSet("other", 2, 0, 2),
                            DaemonSet("known", 1, 0, 2),
                            DaemonSet("known", 2, 1, 1)}),
         Fact("pods", {Crashing(0, 0, FALSE), Crashing(2, 11, FALSE),
                       Crashing(2, 0, TRUE)}),
         Fact("image", {"other"}), Fact("targets", {<<>>, <<TRUE, FALSE>>}),
         Fact("rate", {<<>>, <<0>>}), Fact("hcps", {0}),
         Fact("written", {<<>>, <<9899>>, <<-1>>}),
         Fact("ratios", {<<>>, <<9900, 9899>>}),
         Fact("buffer", {<<>>, <<7168>>, <<9728>>}),
         Fact("buffered", {<<>>, <<50000, 50000>>, <<499999, 1>>}),
         Fact("s3Errors", {1}), Fact("transformErrors", {1}),
         Fact("loss", {<<>>, <<1>>}), Fact("config", {"none", "empty"}),
         Fact("components", {<<>>, <<Stage(TRUE, 98)>>}),
         Fact("utilization", {<<>>, <<10, 80>>, <<80, 95>>}),
         Fact("rates", {<<>>, <<9, 0, 1, 0>>, <<9, 0, 1, 1>>,
                        <<20, 1, 1, 1>>}),
         Fact("latency", {<<>>, <<-1, -1>>, <<50, 0>>, <<49, 10>>,
                          <<150, 0>>}),
         Fact("heartbeat", {Replicas(FALSE, 0, 0), Replicas(TRUE, 0, 0),
                            Replicas(TRUE, 1, 0)}),
         Fact("processor", {Replicas(TRUE, 1, 1), Replicas(TRUE, 1, 0)}),
         Fact("heartbeatPods", {Running(1, 1, 6, FALSE)}),
         Fact("processorPods", {Running(2, 1, 0, FALSE),
                                Running(1, 1, 0, TRUE)}),
         Fact("rule", {"none", "partial"}), Fact("alerts", {1})}
RlrHCPDeviations ==
  UNION {Fact("forwarders", {<<>>, <<"ready", "pending">>}),
         Fact("hypershift", {FALSE}),
         Fact("daemonset", {DaemonSet("none", 0, 0, 0),
                            DaemonSet("known", 1, 0, 2)}),
         Fact("pods", {Crashing(0, 0, FALSE), Crashing(2, 11, FALSE),
                       Crashing(2, 0, TRUE)}),
         Fact("output", {0}), Fact("errors", {0, 6}), Fact("buffer", {<<>>})}
RlrWorse ==
  {Scale("daemonset", <<DaemonSet0, DaemonSet("known", 1, 0, 2),
                        DaemonSet("known", 0, 0, 1)>>),
   Scale("pods", <<Crashing(2, 10, FALSE), Crashing(2, 11, FALSE),
                   Crashing(2, 11, TRUE)>>),
   Scale("targets", <<<<TRUE, TRUE>>, <<TRUE, FALSE>>, <<FALSE, FALSE>>>>),
   Scale("rate", <<<<1>>, <<0>>>>),
   Scale("written", <<<<10000>>, <<9900>>, <<9899>>, <<0>>>>),
   Scale("ratios", <<<<9900>>, <<9899>>, <<9899, 0>>>>),
   Scale("buffer", <<<<0>>, <<7167>>, <<7168>>, <<9727>>, <<9728>>>>),
   Scale("buffered", <<<<99999>>, <<100000>>, <<499999>>, <<500000>>>>),
   Scale("s3Errors", <<0, 1>>), Scale("loss", <<<<0>>, <<1>>>>),
   Scale("utilization", <<<<79>>, <<80>>, <<94>>, <<95>>>>),
   Scale("rates", <<<<1, 1, 1, 1>>, <<8, 1, 1, 1>>, <<20, 1, 1, 1>>,
                    <<99, 1, 1, 1>>>>),
   Scale("latency", <<<<49, 9>>, <<49, 10>>, <<150, 10>>>>),
   Scale("heartbeatPods", <<Running(1, 1, 5, FALSE),
                            Running(1, 1, 6, FALSE)>>),
   Scale("errors", <<0, 5, 6>>), Scale("alerts", <<0, 1>>)}

(***************************************************************************)
(* All of them.                                                            *)
(***************************************************************************)
(***************************************************************************)
(* The commands: one of the command line, and one that ends itself by a    *)
(* signal, as its definition asks.                                         *)
(***************************************************************************)
Command(name, code, expected, output, partial) ==
  [name |-> name, code |-> code, expected |-> expected, output |-> output,
   partial |-> partial]
Signalled == Command("byoc_ends_by_signal", -1, -1, TRUE, TRUE)
Byoc0 ==
  [commands |-> <<Command("byoc_check_1", 1, 1, TRUE, FALSE), Signalled,
                  Command("byoc_command", 0, 0, TRUE, TRUE)>>]

ByocDeviations ==
  Fact("commands",
       {<<Command("byoc_command", code, 0, output, partial)>> :
          code \in {-1, 0, 1}, output \in BOOLEAN, partial \in BOOLEAN}
       \union {<<[Signalled EXCEPT !.code = 0]>>, <<>>})

MCSuites == {"common", "pdo", "dms", "ome", "mnmo", "sfo", "sae", "muo",
             "camo", "rmo", "hcp", "mcc", "rhobs", "rlr", "byoc"}

MCHealthy ==
  [common |-> {ViaPKO, ViaOLM}, pdo |-> {Pdo0}, dms |-> {Dms0},
   ome |-> {Ome0}, mnmo |-> {Mnmo0}, sfo |-> {Sfo0}, sae |-> {Sae0},
   muo |-> {Muo0}, camo |-> {Camo0}, rmo |-> {RmoMC, RmoClassic},
   hcp |-> {Hcp0, HcpCrashing}, mcc |-> {MccOSD, MccROSA},
   rhobs |-> {RhobsMC, RhobsSC}, rlr |-> {RlrMC, RlrHCP},
   byoc |-> {Byoc0}]

Deviations ==
  [common |-> CommonDeviations, pdo |-> PdoDeviations, dms |-> DmsDeviations,
   ome |-> OmeDeviations, mnmo |-> MnmoDeviations, sfo |-> SfoDeviations,
   sae |-> SaeDeviations, muo |-> MuoDeviations, camo |-> CamoDeviations,
   rmo |-> RmoDeviations, hcp |-> HcpDeviations, mcc |-> MccDeviations,
   byoc |-> ByocDeviations]

\* The healthy clusters, and those with one deviation from one of them.
Deviated(healthy, deviations) ==
  healthy \union {[h EXCEPT ![d.field] = d.value] :
                    h \in healthy, d \in deviations}

MCFacts ==
  [s \in MCSuites |->
     IF s = "rhobs"
       THEN Deviated({RhobsMC}, RhobsDeviations)
              \union Deviated({RhobsSC}, RhobsSCDeviations)
     ELSE IF s = "rlr"
       THEN Deviated({RlrMC}, RlrDeviations)
              \union Deviated({RlrHCP}, RlrHCPDeviations)
     ELSE IF s = "camo" THEN {CamoByTag} \union
                                Deviated(MCHealthy[s], Deviations[s])
     ELSE Deviated(MCHealthy[s], Deviations[s])]

MCChanges ==
  [s \in MCSuites |->
     CASE s = "common" -> CommonChanges
       [] s = "sfo" -> Fact("crs", {0, 1})
       [] s = "muo" -> Fact("syncAge", {-1})
       [] s = "rmo" -> Fact("routes", {<<>>, <<Fine>>})
       [] s = "rhobs" -> Fact("stack", {"available", "unavailable"})
       [] OTHER -> {}]

MCWorse ==
  [common |-> CommonWorse, pdo |-> PdoWorse, dms |-> DmsWorse,
   ome |-> OmeWorse, mnmo |-> MnmoWorse, sfo |-> SfoWorse, sae |-> SaeWorse,
   muo |-> MuoWorse, camo |-> CamoWorse, rmo |-> RmoWorse,
   hcp |-> HcpWorse, mcc |-> MccWorse, rhobs |-> RhobsWorse,
   rlr |-> RlrWorse, byoc |-> {}]

MCMaxFaults == [s \in MCSuites |-> IF s = "common" THEN 2 ELSE 1]
MCNoFaults == [s \in MCSuites |-> 0]
=============================================================================
