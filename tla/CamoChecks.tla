----------------------------- MODULE CamoChecks -----------------------------
(***************************************************************************)
(* pkg/checks/camo/camo.go: the checks of the configure-alertmanager-      *)
(* operator, and of the Alertmanager (AM) it configures.  A metric is "1", *)
(* "0" or "" when there is none; a version is a triple, or <<>> when it is *)
(* not found.  Its facts:                                                  *)
(*   elevation, available   see CheckResults                               *)
(*   amPods       how many AM pods there are, amNotReady, amRestarts       *)
(*   statefulSet  [exists, desired, ready]                                 *)
(*   pods         the operator's pods, and configErrors, lines of its log  *)
(*   validation, amSecret, namespaces   metrics (of two configmaps one)    *)
(*   pd           the metric am_secret_contains_pd                         *)
(*   age, created the cluster's age in minutes, by the metric and by OCM,  *)
(*                0 when unknown                                           *)
(*   reloads      per AM instance, the last reload; hashes, how many       *)
(*                configurations they have; reloadAge, in hours            *)
(*   imageTag, podImage   the version of AM they tell, minor of OpenShift  *)
(*   config       "found", "nokey" or "none", and requires, the versions   *)
(*                its template functions require                           *)
(*   amErrors     lines of AM's logs: [critical, other], and amWarnings    *)
(*   amEvents, camoEvents   warning events                                 *)
(*   secret, pdSecret       whether these exist                            *)
(*   watchdog     whether it fires; sent and failed, rates of webhooks     *)
(***************************************************************************)
EXTENDS CheckResults

Order == <<"alertmanager_pods", "alertmanager_statefulset",
           "controller_availability", "reconciliation_activity",
           "reconciliation_behavior", "configuration_errors",
           "camo_alerting_config", "camo_cluster_readiness",
           "alertmanager_reload_health", "alertmanager_config_compatibility",
           "alertmanager_logs", "alertmanager_events", "camo_events",
           "alertmanager_secret", "dms_watchdog_firing",
           "dms_heartbeat_delivery">>

AMPodsStatus(c, ans) ==
  IF ans[1] # "ok" \/ c.amPods = 0 THEN "SKIP"
  ELSE IF c.amNotReady > 0 THEN "FAIL"
  ELSE IF c.amRestarts > 3 THEN "WARNING"
  ELSE "PASS"

StatefulSetStatus(c, ans) ==
  LET s == c.statefulSet
  IN  IF ans[1] # "ok" \/ ~s.exists THEN "SKIP"
      ELSE IF s.ready = s.desired /\ s.desired > 0 THEN "PASS"
      ELSE "FAIL"

\* Unlike the other checkers, a refusal fails.
ControllerStatus(c, ans) ==
  IF ans[1] = "ok" /\ c.available = "True" THEN "PASS" ELSE "FAIL"

\* The deployment, its pods and the log; what is not read has no errors.
ConfigurationStatus(c, ans) ==
  IF /\ AllRead(ans, 1, 3) /\ c.available # "none" /\ c.pods > 0
     /\ c.configErrors > 5 THEN "WARNING"
  ELSE "PASS"

Metric(answer, value) == IF answer = "ok" THEN value ELSE ""

\* The queries of the two critical metrics, and those of the others.
AlertingConfigStatus(c, ans) ==
  LET validation == Metric(ans[1], c.validation)
      amSecret == Metric(ans[2], c.amSecret)
      namespaces == Metric(ans[3], c.namespaces)
  IN  IF {validation, amSecret, namespaces} = {""} THEN "INFO"
      ELSE IF validation = "1" \/ amSecret = "0" THEN "FAIL"
      ELSE IF namespaces = "0" THEN "WARNING"
      ELSE "PASS"

\* The metric of the age, or else the date OCM has.
ClusterAge(c, answer) ==
  IF answer = "ok" /\ c.age > 0 THEN c.age ELSE c.created

\* A query that failed is taken for an answer that PagerDuty is missing.
ReadinessStatus(c, ans) ==
  LET age == ClusterAge(c, ans[2])
  IN  IF Metric(ans[1], c.pd) = "1" THEN "PASS"
      ELSE IF age = 0 THEN "WARNING"
      ELSE IF age < 90 THEN "INFO"
      ELSE IF age < 240 THEN "WARNING"
      ELSE "FAIL"

\* The last reloads, their times and the hashes of the configurations.
ReloadStatus(c, ans) ==
  IF ans[1] = "denied" THEN ElevationSkip
  ELSE IF ans[1] = "error" \/ c.reloads = <<>> THEN "SKIP"
  ELSE IF 0 \in ToSet(c.reloads) THEN "FAIL"
  ELSE IF \/ ans[3] = "ok" /\ c.hashes > 1
          \/ ans[2] = "ok" /\ c.reloadAge > 24 THEN "WARNING"
  ELSE "PASS"

\* Mutant: the patch decides before the minor version is looked at.
semverLessThanPatch(a, b) ==
  \/ a[1] < b[1]
  \/ a[1] = b[1] /\ a[3] < b[3]
  \/ a[1] = b[1] /\ a[3] = b[3] /\ a[2] < b[2]

semverLessThan(a, b) ==
  \/ a[1] < b[1]
  \/ a[1] = b[1] /\ a[2] < b[2]
  \/ a[1] = b[1] /\ a[2] = b[2] /\ a[3] < b[3]

\* ocpToAMVersion, and detectAMVersion: the first of three ways that finds one.
ocpToAMVersion ==
  [minor \in 16..22 |->
     CASE minor = 16 -> <<0, 26, 0>> [] minor \in {17, 18} -> <<0, 27, 0>>
       [] minor = 19 -> <<0, 28, 0>> [] minor = 20 -> <<0, 28, 1>>
       [] minor = 21 -> <<0, 29, 0>> [] minor = 22 -> <<0, 31, 1>>]

detectAMVersion(c, ans) ==
  LET byCluster == IF c.minor \in DOMAIN ocpToAMVersion
                     THEN ocpToAMVersion[c.minor] ELSE <<>>
      found == SelectSeq(<<IF ans[1] = "ok" THEN c.imageTag ELSE <<>>,
                           IF ans[2] = "ok" THEN c.podImage ELSE <<>>,
                           byCluster>>,
                         LAMBDA v : v # <<>>)
  IN  IF found = <<>> THEN <<>> ELSE Head(found)

oldestSupportedAM == <<0, 27, 0>>

CompatibilityStatus(c, ans) ==
  LET version == detectAMVersion(c, ans)
  IN  IF ~CanElevate(c) THEN ElevationSkip
      ELSE IF version = <<>> THEN "WARNING"
      ELSE IF ans[3] # "ok" \/ c.config # "found" THEN "SKIP"
      ELSE IF \E v \in c.requires : semverLessThan(version, v) THEN "FAIL"
      ELSE IF \E v \in c.requires : semverLessThan(oldestSupportedAM, v)
        THEN "WARNING"
      ELSE "PASS"

\* The pods, and the log of each; a log that cannot be read is left out.
AMLogsStatus(c, ans) ==
  IF ans[1] # "ok" \/ c.amPods = 0 THEN "SKIP"
  ELSE IF ans[2] = "ok" /\ c.amErrors.critical > 0 THEN "FAIL"
  ELSE IF ans[2] = "ok" /\ c.amErrors.other + c.amWarnings > 0 THEN "WARNING"
  ELSE "PASS"

AMEventsStatus(c, ans) ==
  IF ans[1] # "ok" \/ c.amPods = 0 THEN "SKIP"
  ELSE IF ans[2] = "ok" /\ c.amEvents > 0 THEN "WARNING"
  ELSE "PASS"

CAMOEventsStatus(c, ans) ==
  IF ans[1] = "ok" /\ c.camoEvents > 0 THEN "WARNING" ELSE "PASS"

\* A secret that cannot be read is missing, whatever the error.
SecretStatus(c, ans) ==
  IF ~CanElevate(c) THEN ElevationSkip
  ELSE IF ans[1] # "ok" \/ ~c.secret THEN "FAIL"
  ELSE IF ans[2] # "ok" \/ ~c.pdSecret THEN "WARNING"
  ELSE "PASS"

WatchdogStatus(c, ans) ==
  IF ans[1] # "ok" THEN "SKIP" ELSE IF c.watchdog THEN "PASS" ELSE "FAIL"

\* A rate that cannot be read is zero, unless neither can.
HeartbeatStatus(c, ans) ==
  LET sent == IF ans[1] = "ok" THEN c.sent ELSE 0
      failed == IF ans[2] = "ok" THEN c.failed ELSE 0
  IN  IF sent + failed = 0 THEN "INFO"
      ELSE IF sent = 0 THEN "FAIL"
      ELSE IF 10 * failed > sent + failed THEN "WARNING"
      ELSE "PASS"

Calls(check) ==
  CASE check \in {"configuration_errors", "camo_alerting_config",
                  "alertmanager_reload_health",
                  "alertmanager_config_compatibility"} -> 3
    [] check \in {"camo_cluster_readiness", "alertmanager_logs",
                  "alertmanager_events", "alertmanager_secret",
                  "dms_heartbeat_delivery"} -> 2
    [] OTHER -> 1

Results(check, c, ans, past) ==
  One(check,
      CASE check = "alertmanager_pods" -> AMPodsStatus(c, ans)
        [] check = "alertmanager_statefulset" -> StatefulSetStatus(c, ans)
        [] check = "controller_availability" -> ControllerStatus(c, ans)
        [] check \in {"reconciliation_activity", "reconciliation_behavior"} ->
             "PASS"
        [] check = "configuration_errors" -> ConfigurationStatus(c, ans)
        [] check = "camo_alerting_config" -> AlertingConfigStatus(c, ans)
        [] check = "camo_cluster_readiness" -> ReadinessStatus(c, ans)
        [] check = "alertmanager_reload_health" -> ReloadStatus(c, ans)
        [] check = "alertmanager_config_compatibility" ->
             CompatibilityStatus(c, ans)
        [] check = "alertmanager_logs" -> AMLogsStatus(c, ans)
        [] check = "alertmanager_events" -> AMEventsStatus(c, ans)
        [] check = "camo_events" -> CAMOEventsStatus(c, ans)
        [] check = "alertmanager_secret" -> SecretStatus(c, ans)
        [] check = "dms_watchdog_firing" -> WatchdogStatus(c, ans)
        [] check = "dms_heartbeat_delivery" -> HeartbeatStatus(c, ans))
=============================================================================
