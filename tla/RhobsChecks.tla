---------------------------- MODULE RhobsChecks ----------------------------
(***************************************************************************)
(* pkg/checks/rhobs/rhobs.go: metrics and logs on their way to RHOBS, from *)
(* a management or a service cluster.                                      *)
(* Its facts, those of objects that may not exist being "none":            *)
(*   mc, elevation   whether it is a management cluster; see CheckResults  *)
(*   expected        its labels say that RHOBS is                          *)
(*   stack           the MonitoringStack: "available", "unavailable"       *)
(*   credential, destination   whether the Secret and the ConfigMap exist  *)
(*   writes          per remote-write configuration, whether it has OAuth2 *)
(*   prometheus      [exists, conditions, replicas, available]             *)
(*   statefulSets    of the stack, a sequence of [desired, ready]          *)
(*   crd, forwarders the ClusterLogForwarders, a sequence of [ready,       *)
(*                   others]: the condition Ready, and whether Authorized  *)
(*                   and Valid are True or not there                       *)
(*   collectors      DaemonSets, a sequence of [desired, ready, strays]    *)
(*   eventNS, routers   its namespace exists; a sequence of [desired,      *)
(*                   ready]                                                *)
(*   refresher       [exists, desired, ready]                              *)
(*   logDestination  "annotated" or "bare"                                 *)
(*   controlNS, controlSets   like the collectors, for control planes      *)
(*   rulesNS, rules  "labelled" or "bare"; how many rules in its two       *)
(*                   namespaces                                            *)
(*   hcCRD, hcps     the hosted clusters, a sequence of [managed, desired, *)
(*                   ready]: PKO manages a metrics forwarder for it, of    *)
(*                   which there may be none, with desired = 0             *)
(*   samples, vector, fetches, decisions, probes   rates and counts        *)
(*   down            scrape targets that are down                          *)
(*   agent           the synthetics agent, [exists, desired, ready]        *)
(***************************************************************************)
EXTENDS CheckResults

PlatformMetrics == <<"rhobs_remote_write_health", "rhobs_scrape_health",
                     "rhobs_log_collector_metrics">>

\* RunChecks; the platform metrics are looked at with a MonitoringStack only.
Order(c) ==
  <<"rhobs_monitoring_stack", "rhobs_monitoring_credentials",
    "rhobs_metrics_destination", "rhobs_remote_write_config",
    "rhobs_prometheus_health", "rhobs_prometheus_statefulsets",
    "rhobs_log_forwarder", "rhobs_log_collector_daemonset",
    "rhobs_log_event_collector", "rhobs_log_token_refresher",
    "rhobs_log_destination">>
  \o (IF c.mc THEN <<"rhobs_cp_log_forwarding",
                     "rhobs_platform_rules_namespace",
                     "rhobs_platform_rules">> ELSE <<>>)
  \o <<"rhobs_clf_conditions">>
  \o (IF c.mc THEN <<"rhobs_metrics_forwarder">> \o PlatformMetrics
                   \o <<"rhobs_synthetics_agent", "rhobs_synthetics_api_fetch",
                        "rhobs_synthetics_probes">> ELSE <<>>)

\* What checkMonitoringStack returns: that it got a MonitoringStack.  One that
\* cannot be read is none for the checks that follow.
HasStack(past) ==
  \E r \in ToSet(past) : /\ r.check = "rhobs_monitoring_stack"
                         /\ r.status \in {"PASS", "WARNING"}

\* isRHOBSExpected makes an absence worse.
Absent(c, alarm) == IF c.expected THEN alarm ELSE "INFO"

StackStatus(c, ans) ==
  IF ans[1] # "ok" THEN NoAnswer(ans[1], "FAIL")
  ELSE CASE c.stack = "none" -> Absent(c, "FAIL")
         [] c.stack = "available" -> "PASS"
         [] OTHER -> "WARNING"

CredentialsStatus(c, ans) ==
  IF ~CanElevate(c) THEN ElevationSkip
  ELSE IF ans[1] # "ok" THEN NoAnswer(ans[1], "FAIL")
  ELSE IF c.credential THEN "PASS" ELSE "FAIL"

DestinationStatus(c, ans) ==
  IF ans[1] # "ok" THEN NoAnswer(ans[1], "FAIL")
  ELSE IF c.destination THEN "PASS" ELSE "FAIL"

RemoteWriteConfigStatus(c, ans) ==
  IF ans[1] # "ok" THEN NoAnswer(ans[1], "FAIL")
  ELSE IF c.stack = "none" \/ c.writes = <<>> THEN "FAIL"
  ELSE IF FALSE \in ToSet(c.writes) THEN "WARNING"
  ELSE "PASS"

PrometheusStatus(c, ans) ==
  LET p == c.prometheus
  IN  IF ans[1] # "ok" THEN NoAnswer(ans[1], "FAIL")
      ELSE IF ~p.exists THEN "FAIL"
      ELSE IF p.conditions /\ p.available = p.replicas THEN "PASS"
      ELSE "WARNING"

StatefulSetsStatus(c, ans) ==
  IF ans[1] # "ok" THEN NoAnswer(ans[1], "FAIL")
  ELSE IF \/ c.statefulSets = <<>>
          \/ \E s \in ToSet(c.statefulSets) : s.ready < s.desired
    THEN "WARNING"
  ELSE "PASS"

LogForwarderStatus(c, ans) ==
  IF ans[1] # "ok" THEN NoAnswer(ans[1], "FAIL")
  ELSE IF ~c.crd THEN Absent(c, "FAIL")
  ELSE IF c.forwarders = <<>> THEN Absent(c, "WARNING")
  ELSE IF \E f \in ToSet(c.forwarders) : f.ready # "True" THEN "WARNING"
  ELSE "PASS"

CollectorStatus(c, ans) ==
  IF ans[1] # "ok" THEN NoAnswer(ans[1], "FAIL")
  ELSE IF c.collectors = <<>> THEN Absent(c, "WARNING")
  ELSE IF \E d \in ToSet(c.collectors) : d.ready # d.desired \/ d.strays > 0
    THEN "WARNING"
  ELSE "PASS"

\* All replicas are ready, and there are some.
Complete(d) == d.ready > 0 /\ d.ready = d.desired

\* A namespace that cannot be read is none.
EventCollectorStatus(c, ans) ==
  IF ans[1] # "ok" \/ ~c.eventNS THEN Absent(c, "WARNING")
  ELSE IF ans[2] # "ok" THEN NoAnswer(ans[2], "FAIL")
  ELSE IF c.routers = <<>> THEN "INFO"
  ELSE IF \A d \in ToSet(c.routers) : Complete(d) THEN "PASS"
  ELSE "WARNING"

TokenRefresherStatus(c, ans) ==
  IF ans[1] = "denied" THEN ElevationSkip
  ELSE IF ans[1] = "error" \/ ~c.refresher.exists THEN Absent(c, "WARNING")
  ELSE IF Complete(c.refresher) THEN "PASS"
  ELSE "WARNING"

LogDestinationStatus(c, ans) ==
  IF ans[1] = "denied" THEN ElevationSkip
  ELSE IF ans[1] = "error" \/ c.logDestination = "none"
    THEN Absent(c, "WARNING")
  ELSE IF c.logDestination = "annotated" THEN "PASS"
  ELSE "WARNING"

ControlPlaneStatus(c, ans) ==
  IF ans[1] # "ok" \/ ~c.controlNS THEN "SKIP"
  ELSE IF ans[2] # "ok" THEN NoAnswer(ans[2], "FAIL")
  ELSE IF \/ c.controlSets = <<>>
          \/ ~Complete(c.controlSets[1]) \/ c.controlSets[1].strays > 0
    THEN "WARNING"
  ELSE "PASS"

RulesNamespaceStatus(c, ans) ==
  IF ans[1] # "ok" THEN NoAnswer(ans[1], "FAIL")
  ELSE CASE c.rulesNS = "none" -> "FAIL"
         [] c.rulesNS = "labelled" -> "PASS"
         [] OTHER -> "WARNING"

\* A namespace whose rules cannot be listed has none.
RulesStatus(c, ans) ==
  IF "denied" \in ToSet(ans) THEN ElevationSkip
  ELSE IF \E i \in 1..2 : ans[i] = "ok" /\ c.rules[i] > 0 THEN "PASS"
  ELSE "WARNING"

ConditionsStatus(c, ans) ==
  IF ans[1] # "ok" THEN NoAnswer(ans[1], "FAIL")
  ELSE IF ~c.crd \/ c.forwarders = <<>> THEN "INFO"
  ELSE IF \A f \in ToSet(c.forwarders) : f.ready = "True" /\ f.others
    THEN "PASS"
  ELSE "WARNING"

\* A call here stands for those of all hosted clusters; one whose packages
\* cannot be listed is not managed.
MetricsForwarderStatus(c, ans) ==
  LET managed == IF ans[2] = "ok" THEN {h \in ToSet(c.hcps) : h.managed}
                 ELSE {}
  IN  IF ans[1] # "ok" THEN NoAnswer(ans[1], "FAIL")
      ELSE IF ~c.hcCRD THEN "SKIP"
      ELSE IF managed = {} THEN "INFO"
      ELSE IF \/ ans[3] # "ok"
              \/ \E h \in managed : h.ready < 2 \/ h.ready # h.desired
        THEN "WARNING"
      ELSE "PASS"

\* A metric that cannot be read is zero.
Read(answer, rate) == IF answer = "ok" THEN rate ELSE 0

RemoteWriteHealthStatus(c, ans) ==
  LET failed == Read(ans[2], c.samples.failed)
      total == Read(ans[1], c.samples.succeeded) + failed
  IN  IF ans[1] # "ok" /\ ans[2] # "ok" THEN Unread(ans[1])
      ELSE IF total = 0 THEN "WARNING"
      ELSE IF failed * 20 > total THEN "FAIL"
      ELSE IF failed * 100 > total THEN "WARNING"
      ELSE "PASS"

ScrapeStatus(c, ans) ==
  IF ans[1] # "ok" THEN Unread(ans[1])
  ELSE IF c.down > 0 THEN "WARNING"
  ELSE "PASS"

\* Without events, errors have no share to judge.
LogMetricsStatus(c, ans) ==
  LET in == Read(ans[1], c.vector.in)
      errors == Read(ans[2], c.vector.errors)
  IN  IF ans[1] # "ok" /\ ans[2] # "ok" THEN Unread(ans[1])
      ELSE IF \/ in = 0 /\ errors = 0
              \/ in > 0 /\ errors * 100 > in
              \/ Read(ans[3], c.vector.dropped) > 0 THEN "WARNING"
      ELSE "PASS"

\* The list of the deployments, and the two kinds of decisions.
AgentStatus(c, ans) ==
  LET skipped == Read(ans[3], c.decisions.skipped)
      total == Read(ans[2], c.decisions.applied) + skipped
  IN  IF ans[1] # "ok" \/ ~c.agent.exists THEN "INFO"
      ELSE IF c.agent.ready = 0 THEN "FAIL"
      ELSE IF c.agent.ready < c.agent.desired THEN "WARNING"
      ELSE IF total = 0 \/ skipped * 100 >= total * 95 THEN "PASS"
      ELSE IF skipped * 2 >= total THEN "WARNING"
      ELSE "FAIL"

FetchStatus(c, ans) ==
  LET success == Read(ans[1], c.fetches.success)
      errors == Read(ans[2], c.fetches.errors)
  IN  IF success + errors = 0 THEN "INFO"
      ELSE IF success = 0 THEN "FAIL"
      ELSE IF errors > success THEN "WARNING"
      ELSE "PASS"

ProbesStatus(c, ans) ==
  IF ans[1] # "ok" THEN NoAnswer(ans[1], "UNKNOWN")
  ELSE IF c.probes.count = 0 \/ Read(ans[2], c.probes.failing) > 0
    THEN "WARNING"
  ELSE "PASS"

Calls(check) ==
  CASE check \in {"rhobs_metrics_forwarder", "rhobs_log_collector_metrics",
                  "rhobs_synthetics_agent"} -> 3
    [] check \in {"rhobs_log_event_collector", "rhobs_cp_log_forwarding",
                  "rhobs_platform_rules", "rhobs_remote_write_health",
                  "rhobs_synthetics_api_fetch",
                  "rhobs_synthetics_probes"} -> 2
    [] OTHER -> 1

\* The checks that have nothing to look at without a MonitoringStack.
OfTheStack ==
  {"rhobs_monitoring_credentials", "rhobs_metrics_destination",
   "rhobs_remote_write_config", "rhobs_prometheus_health",
   "rhobs_prometheus_statefulsets", "rhobs_log_token_refresher"}

Status(check, c, ans) ==
  CASE check = "rhobs_monitoring_stack" -> StackStatus(c, ans)
    [] check = "rhobs_monitoring_credentials" -> CredentialsStatus(c, ans)
    [] check = "rhobs_metrics_destination" -> DestinationStatus(c, ans)
    [] check = "rhobs_remote_write_config" -> RemoteWriteConfigStatus(c, ans)
    [] check = "rhobs_prometheus_health" -> PrometheusStatus(c, ans)
    [] check = "rhobs_prometheus_statefulsets" -> StatefulSetsStatus(c, ans)
    [] check = "rhobs_log_forwarder" -> LogForwarderStatus(c, ans)
    [] check = "rhobs_log_collector_daemonset" -> CollectorStatus(c, ans)
    [] check = "rhobs_log_event_collector" -> EventCollectorStatus(c, ans)
    [] check = "rhobs_log_token_refresher" -> TokenRefresherStatus(c, ans)
    [] check = "rhobs_log_destination" -> LogDestinationStatus(c, ans)
    [] check = "rhobs_cp_log_forwarding" -> ControlPlaneStatus(c, ans)
    [] check = "rhobs_platform_rules_namespace" ->
         RulesNamespaceStatus(c, ans)
    [] check = "rhobs_platform_rules" -> RulesStatus(c, ans)
    [] check = "rhobs_clf_conditions" -> ConditionsStatus(c, ans)
    [] check = "rhobs_metrics_forwarder" -> MetricsForwarderStatus(c, ans)
    [] check = "rhobs_remote_write_health" -> RemoteWriteHealthStatus(c, ans)
    [] check = "rhobs_scrape_health" -> ScrapeStatus(c, ans)
    [] check = "rhobs_log_collector_metrics" -> LogMetricsStatus(c, ans)
    [] check = "rhobs_synthetics_agent" -> AgentStatus(c, ans)
    [] check = "rhobs_synthetics_api_fetch" -> FetchStatus(c, ans)
    [] check = "rhobs_synthetics_probes" -> ProbesStatus(c, ans)

Results(check, c, ans, past) ==
  IF check \in ToSet(PlatformMetrics) /\ ~HasStack(past) THEN <<>>
  ELSE IF check \in OfTheStack /\ ~HasStack(past) THEN One(check, "INFO")
  ELSE One(check, Status(check, c, ans))
=============================================================================
