----------------------------- MODULE SaeChecks -----------------------------
(***************************************************************************)
(* pkg/checks/sae/sae.go: the checks of the splunk-audit-exporter, which   *)
(* skips the common checks and runs three of them itself.  A rate or a     *)
(* size is -1 where there is no metric of it.  Its facts, beside those of  *)
(* the three:                                                              *)
(*   elevation     see CheckResults                                        *)
(*   daemonset     [exists, desired, ready], and of its pods, crashing,    *)
(*                 pulling (image errors) and restarts                     *)
(*   policy, certs, monitor   whether these exist                          *)
(*   events, filterErrors, queue, cached, forwarded, dropped               *)
(*   cloudwatch    "none", "off", "invalid" or "on", and its errors        *)
(*   silent        per pod with a rate, whether it is zero                 *)
(*   series        how many of the series have points                      *)
(*   pods          how many pods have logs, logs [critical, warnings]      *)
(*   memory, cpu   seven days of them                                      *)
(***************************************************************************)
EXTENDS CheckResults

Common == INSTANCE CommonChecks

Order == <<"namespace_status", "image_pull_status", "operator_events",
           "sae_daemonset_health", "sae_audit_policy", "sae_tls_certs",
           "sae_servicemonitor", "sae_event_flow", "sae_filter_errors",
           "sae_queue_depth", "sae_dedup_cache", "sae_filter_decisions",
           "sae_cloudwatch", "sae_per_pod_health", "sae_throughput_trends",
           "sae_log_errors", "sae_resource_trends">>

\* Pods that cannot be listed neither crash nor restart.
DaemonSetStatus(c, ans) ==
  IF ans[1] = "denied" THEN ElevationSkip
  ELSE IF \/ ans[1] = "error" \/ ~c.daemonset.exists
          \/ ans[2] = "ok" /\ (c.pulling > 0 \/ c.crashing > 0)
          \/ c.daemonset.ready # c.daemonset.desired THEN "FAIL"
  ELSE IF ans[2] = "ok" /\ c.restarts > 10 THEN "WARNING"
  ELSE "PASS"

AuditPolicyStatus(c, ans) ==
  IF ans[1] = "ok" /\ c.policy THEN "PASS" ELSE "FAIL"

TLSCertsStatus(c, ans) ==
  IF ~CanElevate(c) THEN ElevationSkip
  ELSE IF ans[1] = "ok" /\ c.certs THEN "PASS"
  ELSE "WARNING"

ServiceMonitorStatus(c, ans) ==
  IF ans[1] = "denied" THEN ElevationSkip
  ELSE IF ans[1] = "ok" /\ c.monitor THEN "PASS"
  ELSE "WARNING"

\* What a query that failed and one without data have in common.
Measured(answer, value) == IF answer = "ok" THEN value ELSE -1

EventFlowStatus(c, ans) ==
  LET rate == Measured(ans[1], c.events)
  IN  CASE rate = -1 -> "WARNING" [] rate = 0 -> "FAIL" [] OTHER -> "PASS"

\* No metric is no error.
FilterErrorsStatus(c, ans) ==
  IF Measured(ans[1], c.filterErrors) > 0 THEN "WARNING" ELSE "PASS"

QueueDepthStatus(c, ans) ==
  LET depth == Measured(ans[1], c.queue)
  IN  IF depth = -1 \/ depth >= 100 THEN "WARNING" ELSE "PASS"

DedupCacheStatus(c, ans) ==
  LET size == Measured(ans[1], c.cached)
  IN  IF size = -1 \/ size >= 900 THEN "WARNING" ELSE "PASS"

\* One of the two rates is enough, the other one counts as zero.
FilterDecisionsStatus(c, ans) ==
  LET fwd == Max({0, Measured(ans[1], c.forwarded)})
      drop == Max({0, Measured(ans[2], c.dropped)})
  IN  IF fwd + drop > 0 /\ 100 * drop >= 50 * (fwd + drop) THEN "PASS"
      ELSE "WARNING"

\* Whether it is enabled, whether its configuration is valid, its errors; an
\* answer that cannot be read takes the healthy branch each time.
CloudWatchStatus(c, ans) ==
  IF ans[1] # "ok" \/ c.cloudwatch \in {"none", "off"} THEN "PASS"
  ELSE IF ans[2] = "ok" /\ c.cloudwatch = "invalid" THEN "FAIL"
  ELSE IF ans[3] = "ok" /\ c.cwErrors > 0 THEN "WARNING"
  ELSE "PASS"

PerPodStatus(c, ans) ==
  IF ans[1] # "ok" \/ c.silent = <<>> \/ TRUE \in ToSet(c.silent)
    THEN "WARNING"
  ELSE "PASS"

ThroughputStatus(c, ans) ==
  IF ans[1] # "ok" \/ c.series = 0 THEN "WARNING" ELSE "INFO"

LogErrorsStatus(c, ans) ==
  IF ~AllRead(ans, 1, 2) \/ c.pods = 0 THEN "WARNING"
  ELSE IF c.logs.critical > 0 THEN "FAIL"
  ELSE IF c.logs.warnings > 5 THEN "WARNING"
  ELSE "PASS"

ResourcesStatus(c, ans) ==
  LET mem == IF ans[1] = "ok" THEN c.memory ELSE <<>>
      cpu == IF ans[2] = "ok" THEN c.cpu ELSE <<>>
      idle == Common!Peak(mem) = 0 /\ Common!Peak(cpu) = 0
  IN  IF idle \/ (Common!Increasing(mem, 0) /\ Common!Peak(mem) > 50)
        THEN "WARNING"
      ELSE "PASS"

Calls(check) ==
  CASE check = "sae_cloudwatch" -> 3
    [] check \in {"sae_daemonset_health", "sae_filter_decisions",
                  "sae_log_errors", "sae_resource_trends"} -> 2
    [] OTHER -> 1

Results(check, c, ans, past) ==
  One(check,
      CASE check = "namespace_status" -> Common!NamespaceStatus(c, ans)
        [] check = "image_pull_status" -> Common!ImageStatus(c, ans)
        [] check = "operator_events" -> Common!EventStatus(c, ans)
        [] check = "sae_daemonset_health" -> DaemonSetStatus(c, ans)
        [] check = "sae_audit_policy" -> AuditPolicyStatus(c, ans)
        [] check = "sae_tls_certs" -> TLSCertsStatus(c, ans)
        [] check = "sae_servicemonitor" -> ServiceMonitorStatus(c, ans)
        [] check = "sae_event_flow" -> EventFlowStatus(c, ans)
        [] check = "sae_filter_errors" -> FilterErrorsStatus(c, ans)
        [] check = "sae_queue_depth" -> QueueDepthStatus(c, ans)
        [] check = "sae_dedup_cache" -> DedupCacheStatus(c, ans)
        [] check = "sae_filter_decisions" -> FilterDecisionsStatus(c, ans)
        [] check = "sae_cloudwatch" -> CloudWatchStatus(c, ans)
        [] check = "sae_per_pod_health" -> PerPodStatus(c, ans)
        [] check = "sae_throughput_trends" -> ThroughputStatus(c, ans)
        [] check = "sae_log_errors" -> LogErrorsStatus(c, ans)
        [] check = "sae_resource_trends" -> ResourcesStatus(c, ans))
=============================================================================
