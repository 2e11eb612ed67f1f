----------------------------- MODULE DmsChecks -----------------------------
(***************************************************************************)
(* pkg/checks/dms/dms.go: the checks of the deadmanssnitch-operator, which *)
(* run on hive clusters.  Its facts:                                       *)
(*   deployment    [exists, desired, ready]                                *)
(*   elevation     see CheckResults                                        *)
(*   integrations  how many DeadMansSnitchIntegrations there are           *)
(*   reconciles    the reconcile counter, -1 when it is not scraped        *)
(*   errorRate     snitch API errors, in hundredths of a call per second   *)
(*   syncs         per installed and managed cluster, the result of each   *)
(*                 of its SyncSets with a name about snitches              *)
(***************************************************************************)
EXTENDS CheckResults

Order == <<"dms_controller_availability", "dms_integrations",
           "dms_snitch_api_health", "dms_coverage">>

ControllerStatus(c, ans) ==
  IF ans[1] # "ok" \/ ~c.deployment.exists \/ c.deployment.ready = 0 THEN "FAIL"
  ELSE IF c.deployment.ready < c.deployment.desired THEN "WARNING"
  ELSE "PASS"

IntegrationsStatus(c, ans) ==
  IF ~CanElevate(c) THEN ElevationSkip
  ELSE IF ans[1] = "denied" THEN "ACCESS_DENIED"
  ELSE IF ans[1] = "error" \/ c.integrations = 0 THEN "WARNING"
  ELSE "PASS"

\* A rate that cannot be read is no error; the total is a detail only.
SnitchAPIStatus(c, ans) ==
  IF ans[1] # "ok" \/ c.reconciles = -1 THEN "INFO"
  ELSE IF (ans[2] = "ok" /\ c.errorRate > 1) \/ c.reconciles = 0 THEN "WARNING"
  ELSE "PASS"

\* The eligible clusters, those whose ClusterSyncs could be read, and the
\* SyncSets found there: SyncSets are counted, not the clusters they are for.
Eligible(c) == DOMAIN c.syncs
Readable(c, ans) == {i \in Eligible(c) : ans[i + 1] = "ok"}
Found(c, read) == MapThenSumSet(LAMBDA i : Len(c.syncs[i]), read)
Failing(c, i) == \E k \in DOMAIN c.syncs[i] : c.syncs[i][k] # "Success"

CoverageStatus(c, ans) ==
  LET read == Readable(c, ans)
  IN  IF ans[1] # "ok" THEN "SKIP"
      ELSE IF read = {} THEN IF CanElevate(c) THEN "SKIP" ELSE ElevationSkip
      ELSE IF \/ \E i \in read : Failing(c, i)
              \/ Found(c, read) < Cardinality(Eligible(c)) THEN "WARNING"
      ELSE "PASS"

Calls(check) ==
  CASE check = "dms_snitch_api_health" -> 2
    [] check = "dms_coverage" -> 3
    [] OTHER -> 1

Results(check, c, ans, past) ==
  One(check,
      CASE check = "dms_controller_availability" -> ControllerStatus(c, ans)
        [] check = "dms_integrations" -> IntegrationsStatus(c, ans)
        [] check = "dms_snitch_api_health" -> SnitchAPIStatus(c, ans)
        [] check = "dms_coverage" -> CoverageStatus(c, ans))
=============================================================================
