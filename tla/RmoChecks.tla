----------------------------- MODULE RmoChecks -----------------------------
(***************************************************************************)
(* pkg/checks/rmo/rmo.go: the checks of the route-monitor-operator, which  *)
(* are others on a management cluster.  Calls are [success, errors].       *)
(* Its facts:                                                              *)
(*   mc, elevation   whether it is a management cluster; see CheckResults  *)
(*   controller      [exists, running, restarts, oom]                      *)
(*   env             what its container is given, of {"url", "oidc"}       *)
(*   blackbox        [exists, desired, ready, service]                     *)
(*   routes, urls    the RouteMonitors and ClusterUrlMonitors, sequences   *)
(*                   of [expected, error, url, service, rule]: whether it  *)
(*                   is the one SRE expects, has an errorStatus and a      *)
(*                   routeURL; its references are "found", "gone" or "no"  *)
(*   rules           SRE's probe-missing rules, of {"api", "console"}      *)
(*   probes          the local probe_success series, of 0 and 1            *)
(*   api, oidc, timeouts, config   metrics, and whether a ConfigMap exists *)
(*   hcps, monitored the ids of the HCPs, and those of their probes        *)
(*   hcpProbes       their probe_success series                            *)
(*   rhobsApi, rhobsOidc   the metrics RHOBS has of the same operator      *)
(*   history         per HCP with probes of a week, [dips, pods], where    *)
(*                   pods are "healthy", "unhealthy" or "none"             *)
(*   label, metric   limited support, by the first HCP and by the metric   *)
(***************************************************************************)
EXTENDS CheckResults

\* RunChecks; fetchMonitorCRs leaves lists and no result.
Order(c) ==
  <<"rmo_controller_manager", "fetchMonitorCRs", "rmo_blackbox_exporter",
    "rmo_routemonitor_status", "rmo_sre_probe_expectations",
    "rmo_probe_health", "rmo_servicemonitor_health",
    "rmo_prometheusrule_health", "rmo_operator_metrics", "rmo_config">>
  \o (IF c.mc THEN <<"rmo_hcp_coverage", "rmo_hcp_probe_coverage",
                     "rmo_hcp_state", "rmo_rhobs_api_health",
                     "rmo_probe_disagreement", "rmo_rhobs_integration">>
      ELSE <<"rmo_rhobs_integration", "rmo_limited_support_disagreement">>)

\* A list that cannot be read is an empty one in every check that follows.
fetchMonitorCRs(c, ans, kept) ==
  [kept EXCEPT
     !.routes = IF CanElevate(c) /\ ans[1] = "ok" THEN c.routes ELSE <<>>,
     !.urls = IF CanElevate(c) /\ ans[2] = "ok" THEN c.urls ELSE <<>>]

Monitors(kept) == kept.routes \o kept.urls
Some(monitors, P(_)) == \E i \in DOMAIN monitors : P(monitors[i])

ControllerStatus(c, ans) ==
  LET p == c.controller
  IN  IF ans[1] # "ok" \/ ~p.exists \/ ~p.running \/ p.restarts > 10
        THEN "FAIL"
      ELSE IF p.restarts > 5 \/ p.oom THEN "WARNING"
      ELSE "PASS"

BlackboxStatus(c, ans, kept) ==
  LET b == c.blackbox
  IN  IF ans[1] # "ok" \/ ~b.exists
        THEN IF Monitors(kept) # <<>> THEN "WARNING" ELSE "INFO"
      ELSE IF b.ready # b.desired \/ ans[2] # "ok" \/ ~b.service
        THEN "WARNING"
      ELSE "PASS"

\* The references to ServiceMonitors are counted and not judged.
RouteMonitorStatus(c, kept) ==
  LET Expected(m) == m.expected
      Broken(m) == m.error
      Unresolved(m) == ~m.url
  IN  IF ~CanElevate(c) THEN ElevationSkip
      ELSE IF \/ Monitors(kept) = <<>>
              \/ ~Some(kept.urls, Expected)
              \/ ~c.mc /\ ~Some(kept.routes, Expected)
              \/ Some(Monitors(kept), Broken)
              \/ Some(kept.routes, Unresolved) THEN "WARNING"
      ELSE "PASS"

SREProbeStatus(c, ans, kept) ==
  LET expects == \/ ans[1] = "ok" /\ "api" \in c.rules
                 \/ ~c.mc /\ ans[2] = "ok" /\ "console" \in c.rules
  IN  IF ~CanElevate(c) THEN ElevationSkip
      ELSE IF ~expects THEN "INFO"
      ELSE IF Monitors(kept) = <<>> THEN "FAIL"
      ELSE "PASS"

\* A management cluster sees the probes of its ClusterUrlMonitors only.
ProbeHealthStatus(c, ans, kept) ==
  LET visible == IF c.mc THEN Len(kept.urls) ELSE Len(Monitors(kept))
  IN  IF Monitors(kept) = <<>> THEN "SKIP"
      ELSE IF ~CanElevate(c) THEN ElevationSkip
      ELSE IF \/ ans[1] # "ok" \/ c.probes = <<>>
              \/ 0 \in ToSet(c.probes)
              \/ Len(c.probes) < visible THEN "WARNING"
      ELSE "PASS"

\* The reads of the references are one call here: all are found, or none is.
ServiceMonitorStatus(c, ans, kept) ==
  LET Found(m) == m.service = "found"
      Gone(m) == m.service = "gone"
  IN  IF Monitors(kept) = <<>> THEN "SKIP"
      ELSE IF ~CanElevate(c) THEN ElevationSkip
      ELSE IF \/ ans[1] # "ok" \/ Some(Monitors(kept), Gone)
              \/ ~Some(Monitors(kept), Found) THEN "WARNING"
      ELSE "PASS"

PrometheusRuleStatus(c, ans, kept) ==
  LET Referred(m) == m.rule # "no"
      Gone(m) == m.rule = "gone"
  IN  IF Monitors(kept) = <<>> THEN "SKIP"
      ELSE IF ~CanElevate(c) THEN ElevationSkip
      ELSE IF ~Some(Monitors(kept), Referred) THEN "INFO"
      ELSE IF ans[1] # "ok" \/ Some(Monitors(kept), Gone) THEN "WARNING"
      ELSE "PASS"

\* Only failures: counts that cannot be read are zero.
Failing(answer, calls) ==
  answer = "ok" /\ calls.errors > 0 /\ calls.success = 0

OperatorMetricsStatus(c, ans) ==
  IF \/ ans[2] = "ok" /\ c.timeouts > 0
     \/ Failing(ans[1], c.api) THEN "WARNING"
  ELSE "PASS"

ConfigStatus(c, ans) == IF ans[1] = "ok" /\ c.config THEN "PASS" ELSE "INFO"

\* The HCPs and the probed clusters are counted, and not compared.
HCPCoverageStatus(c, ans) ==
  IF ans[1] # "ok" THEN "SKIP"
  ELSE IF c.hcps = {} THEN "INFO"
  ELSE IF ~CanElevate(c) THEN "SKIP"
  ELSE IF ans[2] = "ok" /\ Cardinality(c.monitored) >= Cardinality(c.hcps)
    THEN "PASS"
  ELSE "WARNING"

HCPProbeStatus(c, ans) ==
  IF ~CanElevate(c) THEN ElevationSkip
  ELSE IF ans[1] # "ok" \/ c.hcpProbes = <<>> \/ 0 \in ToSet(c.hcpProbes)
    THEN "WARNING"
  ELSE "PASS"

\* The calls, the token refreshes and the timeouts.
RHOBSAPIStatus(c, ans) ==
  IF ~CanElevate(c) THEN ElevationSkip
  ELSE IF Failing(ans[1], c.rhobsApi) \/ Failing(ans[2], c.rhobsOidc)
    THEN "FAIL"
  ELSE IF \/ ans[3] = "ok" /\ c.timeouts > 0
          \/ ans[1] = "ok" /\ c.rhobsApi.errors > 0 THEN "WARNING"
  ELSE "PASS"

\* One failure of the external path alone decides, whatever the others are.
ProbeDisagreementStatus(c, ans) ==
  LET dips == {h \in ToSet(c.history) : h.dips}
      seen == IF ans[2] = "ok" THEN {h.pods : h \in dips} ELSE {}
  IN  IF ans[1] # "ok" \/ c.history = <<>> THEN "SKIP"
      ELSE IF "healthy" \in seen THEN "WARNING"
      ELSE IF "unhealthy" \in seen THEN "FAIL"
      ELSE "PASS"

\* A controller that cannot be read has no RHOBS configured.
RHOBSIntegrationStatus(c, ans) ==
  IF ans[1] # "ok" \/ ~c.controller.exists \/ "url" \notin c.env THEN "INFO"
  ELSE IF Failing(ans[2], c.oidc) \/ "oidc" \notin c.env THEN "WARNING"
  ELSE "PASS"

\* Neither a label nor a metric that cannot be read says limited support.
LimitedSupportStatus(c, ans) ==
  LET label == ans[1] = "ok" /\ c.label
      metric == ans[2] = "ok" /\ c.metric
  IN  IF ~CanElevate(c) THEN "INFO"
      ELSE IF label # metric THEN "WARNING"
      ELSE "PASS"

Calls(check) ==
  CASE check = "rmo_rhobs_api_health" -> 3
    [] check \in {"fetchMonitorCRs", "rmo_blackbox_exporter",
                  "rmo_sre_probe_expectations", "rmo_operator_metrics",
                  "rmo_hcp_coverage", "rmo_probe_disagreement",
                  "rmo_rhobs_integration",
                  "rmo_limited_support_disagreement"} -> 2
    [] check \in {"rmo_routemonitor_status", "rmo_hcp_state"} -> 0
    [] OTHER -> 1

Status(check, c, ans, kept) ==
  CASE check = "rmo_controller_manager" -> ControllerStatus(c, ans)
    [] check = "rmo_blackbox_exporter" -> BlackboxStatus(c, ans, kept)
    [] check = "rmo_routemonitor_status" -> RouteMonitorStatus(c, kept)
    [] check = "rmo_sre_probe_expectations" -> SREProbeStatus(c, ans, kept)
    [] check = "rmo_probe_health" -> ProbeHealthStatus(c, ans, kept)
    [] check = "rmo_servicemonitor_health" ->
         ServiceMonitorStatus(c, ans, kept)
    [] check = "rmo_prometheusrule_health" ->
         PrometheusRuleStatus(c, ans, kept)
    [] check = "rmo_operator_metrics" -> OperatorMetricsStatus(c, ans)
    [] check = "rmo_config" -> ConfigStatus(c, ans)
    [] check = "rmo_hcp_coverage" -> HCPCoverageStatus(c, ans)
    [] check = "rmo_hcp_probe_coverage" -> HCPProbeStatus(c, ans)
    [] check = "rmo_hcp_state" ->
         IF CanElevate(c) THEN "INFO" ELSE ElevationSkip
    [] check = "rmo_rhobs_api_health" -> RHOBSAPIStatus(c, ans)
    [] check = "rmo_probe_disagreement" -> ProbeDisagreementStatus(c, ans)
    [] check = "rmo_rhobs_integration" -> RHOBSIntegrationStatus(c, ans)
    [] check = "rmo_limited_support_disagreement" ->
         LimitedSupportStatus(c, ans)

Results(check, c, ans, kept) ==
  IF check = "fetchMonitorCRs" THEN <<>>
  ELSE One(check, Status(check, c, ans, kept))
=============================================================================
