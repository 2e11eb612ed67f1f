----------------------------- MODULE SfoChecks -----------------------------
(***************************************************************************)
(* pkg/checks/sfo/sfo.go: the checks of the splunk-forwarder-operator.     *)
(* Its facts:                                                              *)
(*   elevation   see CheckResults                                          *)
(*   available   the condition of the deployment, "none" without one       *)
(*   crs         how many SplunkForwarders there are                       *)
(*   auth        whether the secret splunk-auth exists                     *)
(*   daemonsets  the forwarders' daemonsets, a sequence of [desired, ready]*)
(*   pods        [count, notRunning, restarts]                             *)
(*   configMaps  how many of the two there are                             *)
(*   memory      the sum over the pods, a series (MB)                      *)
(*   unhealthy, errorRate   components, and audit errors per 100 seconds   *)
(*   exporter    the audit-exporter daemonset, [exists, desired, ready]    *)
(*   monitors, rule   how many of two monitors; where the rule is, 0..2    *)
(***************************************************************************)
EXTENDS CheckResults

Order == <<"sfo_controller_availability", "sfo_splunkforwarder_cr",
           "sfo_secrets", "sfo_daemonset_health", "sfo_forwarder_pods",
           "sfo_configmaps", "sfo_forwarder_resources",
           "sfo_forwarder_metrics", "sfo_audit_exporter_dep",
           "sfo_servicemonitor", "sfo_prometheusrule">>

ControllerStatus(c, ans) == AvailabilityStatus(ans[1], c.available)

SplunkForwarderStatus(c, ans) ==
  IF ~CanElevate(c) THEN ElevationSkip
  ELSE IF ans[1] # "ok" THEN Unread(ans[1])
  ELSE IF c.crs = 0 THEN "WARNING"
  ELSE "PASS"

\* checkSplunkForwarderCR returns true where it passes.
HasCR(past) == Result("sfo_splunkforwarder_cr", "PASS") \in ToSet(past)

\* A secret that cannot be read is missing, whatever the error.
SecretsStatus(c, ans, hasCR) ==
  IF ~CanElevate(c) THEN ElevationSkip
  ELSE IF ans[1] = "ok" /\ c.auth THEN "PASS"
  ELSE IF hasCR THEN "FAIL"
  ELSE "WARNING"

DaemonSetStatus(c, ans, hasCR) ==
  IF ~hasCR THEN "SKIP"
  ELSE IF ans[1] = "denied" THEN ElevationSkip
  ELSE IF ans[1] = "error" \/ c.daemonsets = <<>> THEN "FAIL"
  ELSE IF \E d \in ToSet(c.daemonsets) : d.ready # d.desired THEN "WARNING"
  ELSE "PASS"

ForwarderPodsStatus(c, ans, hasCR) ==
  IF ~hasCR THEN "SKIP"
  ELSE IF ans[1] # "ok" THEN Unread(ans[1])
  ELSE IF c.pods.count = 0 THEN "FAIL"
  ELSE IF c.pods.notRunning > 0 \/ c.pods.restarts > 10 THEN "WARNING"
  ELSE "PASS"

ConfigMapsStatus(c, ans, hasCR) ==
  IF ~hasCR THEN "SKIP"
  ELSE IF AllRead(ans, 1, 2) /\ c.configMaps = 2 THEN "PASS"
  ELSE "WARNING"

\* thanos.Trend of the aggregate, which is another query than the series by
\* pod; fifty per cent more than the first point, and a peak of 50 MB.
ResourcesStatus(c, ans, hasCR) ==
  LET m == c.memory
  IN  IF ~hasCR \/ ans[1] # "ok" \/ m = <<>> THEN "SKIP"
      ELSE IF /\ ans[2] = "ok" /\ Len(m) > 1 /\ m[1] > 0
              /\ 100 * (Last(m) - m[1]) > 50 * m[1]
              /\ Max(ToSet(m)) > 50 THEN "WARNING"
      ELSE "PASS"

ForwarderMetricsStatus(c, ans, hasCR) ==
  IF ~hasCR THEN "SKIP"
  ELSE IF ans[1] = "denied" THEN ElevationSkip
  ELSE IF \/ ans[1] = "ok" /\ c.unhealthy > 0
          \/ ans[2] = "ok" /\ c.errorRate > 1 THEN "WARNING"
  ELSE IF ans[1] = "error" THEN "SKIP"
  ELSE "PASS"

\* None desired is down, and so is an exporter that cannot be read.
AuditExporterStatus(c, ans) ==
  IF ans[1] # "ok" \/ ~c.exporter.exists \/ c.exporter.ready = 0 THEN "FAIL"
  ELSE IF c.exporter.ready = c.exporter.desired THEN "PASS"
  ELSE "WARNING"

ServiceMonitorStatus(c, ans) ==
  IF AllRead(ans, 1, 2) /\ c.monitors = 2 THEN "PASS" ELSE "INFO"

\* In the namespace of the forwarder (1) or of the monitoring (2).
PrometheusRuleStatus(c, ans) ==
  IF \E i \in 1..2 : ans[i] = "ok" /\ c.rule = i THEN "PASS" ELSE "INFO"

Calls(check) ==
  IF check \in {"sfo_configmaps", "sfo_forwarder_resources",
                "sfo_forwarder_metrics", "sfo_servicemonitor",
                "sfo_prometheusrule"} THEN 2 ELSE 1

Results(check, c, ans, past) ==
  LET hasCR == HasCR(past)
  IN  One(check,
        CASE check = "sfo_controller_availability" -> ControllerStatus(c, ans)
          [] check = "sfo_splunkforwarder_cr" -> SplunkForwarderStatus(c, ans)
          [] check = "sfo_secrets" -> SecretsStatus(c, ans, hasCR)
          [] check = "sfo_daemonset_health" -> DaemonSetStatus(c, ans, hasCR)
          [] check = "sfo_forwarder_pods" -> ForwarderPodsStatus(c, ans, hasCR)
          [] check = "sfo_configmaps" -> ConfigMapsStatus(c, ans, hasCR)
          [] check = "sfo_forwarder_resources" ->
               ResourcesStatus(c, ans, hasCR)
          [] check = "sfo_forwarder_metrics" ->
               ForwarderMetricsStatus(c, ans, hasCR)
          [] check = "sfo_audit_exporter_dep" -> AuditExporterStatus(c, ans)
          [] check = "sfo_servicemonitor" -> ServiceMonitorStatus(c, ans)
          [] check = "sfo_prometheusrule" -> PrometheusRuleStatus(c, ans))
=============================================================================
