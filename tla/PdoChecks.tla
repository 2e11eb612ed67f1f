----------------------------- MODULE PdoChecks -----------------------------
(***************************************************************************)
(* pkg/checks/pdo/pdo.go: the checks of the pagerduty-operator, which run  *)
(* on hive clusters.  Its facts:                                           *)
(*   elevation  see CheckResults                                           *)
(*   apiKey     "key", "nokey" (a secret without the key) or "none"        *)
(*   available  the condition of the deployment, "none" without one        *)
(*   hive       whether ClusterDeployments are served                      *)
(*   crd, pdis  whether PagerDutyIntegrations are, and how many there are  *)
(*   loaded     the secret_loaded metric, and failing, whether one of the  *)
(*              three failure metrics is 1                                 *)
(*   pods       how many pods the deployment has                           *)
(*   logs       lines of the log: [starts, completes, errors, config]      *)
(*   alerts     how many PagerDuty alerts fire                             *)
(***************************************************************************)
EXTENDS CheckResults

Order == <<"pdo_api_key_secret", "pdo_controller_availability",
           "pdo_pdi_status", "pdo_prometheus_metrics",
           "pdo_reconciliation_activity", "pdo_configuration_errors",
           "pdo_firing_alerts">>

APIKeyStatus(c, ans) ==
  IF ~CanElevate(c) \/ ans[1] = "denied" THEN ElevationSkip
  ELSE IF ans[1] = "error" \/ c.apiKey = "none" THEN "FAIL"
  ELSE IF c.apiKey = "key" THEN "PASS"
  ELSE "WARNING"

ControllerStatus(c, ans) == AvailabilityStatus(ans[1], c.available)

\* A hive cluster is one whose ClusterDeployments can be listed.
PDIStatus(c, ans) ==
  LET isHive == ans[1] = "ok" /\ c.hive
  IN  IF ans[2] = "denied" THEN ElevationSkip
      ELSE IF ans[2] = "error" THEN "FAIL"
      ELSE IF c.crd /\ c.pdis > 0 THEN "PASS"
      ELSE IF isHive THEN "WARNING"
      ELSE "INFO"

\* A query that failed says nothing; the calls are the metric secret_loaded
\* and the three of failures.
MetricsStatus(c, ans) ==
  IF ans[1] = "ok" /\ c.loaded < 1 THEN "FAIL"
  ELSE IF ans[2] = "ok" /\ c.failing THEN "WARNING"
  ELSE "PASS"

\* The deployment, its pods and the log of the first one.
LogsRead(c, ans) == AllRead(ans, 1, 3) /\ c.available # "none" /\ c.pods > 0

ReconciliationStatus(c, ans) ==
  IF ~LogsRead(c, ans) THEN "INFO"
  ELSE IF c.logs.errors > 0 THEN "WARNING"
  ELSE IF c.logs.completes > 0 THEN "PASS"
  ELSE IF c.logs.starts > 0 THEN "WARNING"
  ELSE "INFO"

\* Logs that cannot be read have no errors.
ConfigurationStatus(c, ans) ==
  IF LogsRead(c, ans) /\ c.logs.config > 5 THEN "WARNING" ELSE "PASS"

AlertsStatus(c, ans) ==
  IF ans[1] = "denied" THEN ElevationSkip
  ELSE IF ans[1] = "error" THEN "UNKNOWN"
  ELSE IF c.alerts > 0 THEN "WARNING"
  ELSE "PASS"

Calls(check) ==
  CASE check \in {"pdo_pdi_status", "pdo_prometheus_metrics"} -> 2
    [] check \in {"pdo_reconciliation_activity",
                  "pdo_configuration_errors"} -> 3
    [] OTHER -> 1

Results(check, c, ans, past) ==
  One(check,
      CASE check = "pdo_api_key_secret" -> APIKeyStatus(c, ans)
        [] check = "pdo_controller_availability" -> ControllerStatus(c, ans)
        [] check = "pdo_pdi_status" -> PDIStatus(c, ans)
        [] check = "pdo_prometheus_metrics" -> MetricsStatus(c, ans)
        [] check = "pdo_reconciliation_activity" ->
             ReconciliationStatus(c, ans)
        [] check = "pdo_configuration_errors" -> ConfigurationStatus(c, ans)
        [] check = "pdo_firing_alerts" -> AlertsStatus(c, ans))
=============================================================================
