----------------------------- MODULE MuoChecks -----------------------------
(***************************************************************************)
(* pkg/checks/muo/muo.go: the checks of the managed-upgrade-operator.      *)
(* A series of a metric is a sequence, with one value per label set in the *)
(* order of the answer.  Its facts:                                        *)
(*   elevation, available   see CheckResults                               *)
(*   config      the ConfigMap: "valid", "partial", "invalid" or "none"    *)
(*   monitors    how many ServiceMonitors there are                        *)
(*   upgrades    the phases of the UpgradeConfigs, in order                *)
(*   syncAge     minutes since the last sync, -1 when there is no metric   *)
(*   validation, controlplane, worker, scaling, window   series of 0 and 1 *)
(*   drains, notifications, health   how many series of each are 1         *)
(*   upgradeAlerts   per upgrade result, whether alerts fired              *)
(***************************************************************************)
EXTENDS CheckResults

Order == <<"muo_controller_availability", "muo_configmap_health",
           "muo_servicemonitor", "muo_upgradeconfig_status",
           "muo_upgradeconfig_sync", "muo_validation_status",
           "muo_controlplane_timeout", "muo_worker_timeout",
           "muo_node_drain_failures", "muo_scaling_status",
           "muo_window_breach", "muo_notification_health",
           "muo_health_check_status", "muo_upgrade_history",
           "muo_upgrade_result", "muo_feature_gates">>

ControllerStatus(c, ans) == AvailabilityStatus(ans[1], c.available)

ConfigMapStatus(c, ans) ==
  IF ans[1] = "denied" THEN "ACCESS_DENIED"
  ELSE IF ans[1] = "error" \/ c.config \in {"none", "invalid"} THEN "FAIL"
  ELSE IF c.config = "partial" THEN "WARNING"
  ELSE "PASS"

ServiceMonitorStatus(c, ans) ==
  IF ans[1] # "ok" THEN Unread(ans[1])
  ELSE IF c.monitors = 0 THEN "FAIL"
  ELSE "PASS"

\* The loop over the UpgradeConfigs keeps the status of the last one.
UpgradeConfigStatus(c, ans) ==
  IF ~CanElevate(c) THEN ElevationSkip
  ELSE IF ans[1] # "ok" THEN Unread(ans[1])
  ELSE IF c.upgrades = <<>> THEN "PASS"
  ELSE CASE Last(c.upgrades) = "Failed" -> "FAIL"
         [] Last(c.upgrades) = "Upgrading" -> "WARNING"
         [] Last(c.upgrades) = "Upgraded" -> "PASS"
         [] OTHER -> "INFO"

\* Without the metric, the results so far tell whether the operator is down.
ControllerDown(past) ==
  \E r \in ToSet(past) :
     /\ r.check \in {"muo_controller_availability", "pod_status_and_restarts"}
     /\ r.status = "FAIL"

SyncStatus(c, ans, past) ==
  IF ans[1] # "ok" THEN "SKIP"
  ELSE IF c.syncAge = -1
    THEN IF ControllerDown(past) THEN "INFO" ELSE "WARNING"
  ELSE IF c.syncAge > 240 THEN "FAIL"
  ELSE IF c.syncAge > 60 THEN "WARNING"
  ELSE "PASS"

\* checkGaugeMetric: of all the series only the first is looked at.
GaugeStatus(series, answer, alarm) ==
  IF answer # "ok" THEN "SKIP"
  ELSE IF series # <<>> /\ Head(series) = 1 THEN alarm
  ELSE "PASS"

\* Those that look at every series.
SeriesStatus(ones, answer) ==
  IF answer # "ok" THEN "SKIP" ELSE IF ones > 0 THEN "FAIL" ELSE "PASS"

WindowStatus(c, ans) == GaugeStatus(c.window, ans[1], "WARNING")
NodeDrainStatus(c, ans) == SeriesStatus(c.drains, ans[1])
NotificationStatus(c, ans) == SeriesStatus(c.notifications, ans[1])
HealthCheckStatus(c, ans) == SeriesStatus(c.health, ans[1])

UpgradeHistoryStatus(ans) == IF ans[1] = "ok" THEN "INFO" ELSE "SKIP"

\* The loop over the results keeps the status of the last one.
UpgradeResultStatus(c, ans) ==
  IF ans[1] # "ok" \/ c.upgradeAlerts = <<>> THEN "PASS"
  ELSE IF Last(c.upgradeAlerts) THEN "WARNING"
  ELSE "INFO"

FeatureGatesStatus(c, ans) ==
  IF ans[1] = "ok" /\ c.config \in {"valid", "partial"} THEN "INFO" ELSE "SKIP"

Calls(check) == 1

Results(check, c, ans, past) ==
  One(check,
      CASE check = "muo_controller_availability" -> ControllerStatus(c, ans)
        [] check = "muo_configmap_health" -> ConfigMapStatus(c, ans)
        [] check = "muo_servicemonitor" -> ServiceMonitorStatus(c, ans)
        [] check = "muo_upgradeconfig_status" -> UpgradeConfigStatus(c, ans)
        [] check = "muo_upgradeconfig_sync" -> SyncStatus(c, ans, past)
        [] check = "muo_validation_status" ->
             GaugeStatus(c.validation, ans[1], "FAIL")
        [] check = "muo_controlplane_timeout" ->
             GaugeStatus(c.controlplane, ans[1], "FAIL")
        [] check = "muo_worker_timeout" ->
             GaugeStatus(c.worker, ans[1], "FAIL")
        [] check = "muo_node_drain_failures" -> NodeDrainStatus(c, ans)
        [] check = "muo_scaling_status" ->
             GaugeStatus(c.scaling, ans[1], "FAIL")
        [] check = "muo_window_breach" -> WindowStatus(c, ans)
        [] check = "muo_notification_health" -> NotificationStatus(c, ans)
        [] check = "muo_health_check_status" -> HealthCheckStatus(c, ans)
        [] check = "muo_upgrade_history" -> UpgradeHistoryStatus(ans)
        [] check = "muo_upgrade_result" -> UpgradeResultStatus(c, ans)
        [] check = "muo_feature_gates" -> FeatureGatesStatus(c, ans))
=============================================================================
