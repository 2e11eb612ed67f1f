----------------------------- MODULE RlrChecks -----------------------------
(***************************************************************************)
(* pkg/checks/rlr/rlr.go: the rosa-log-router.  On a management cluster    *)
(* Vector collects the logs of the control planes; on a hosted cluster     *)
(* there are forwarders and a collector.  The central pipeline, which      *)
(* comes last on a management cluster, is in RlrCentral.                   *)
(* Its facts, a metric being <<>> where there is none of it and NaN where  *)
(* nothing is divided by nothing:                                          *)
(*   mc, hypershift   what the cluster is                                  *)
(*   namespace     "Active", "Terminating" or "none"                       *)
(*   daemonset     that of Vector, or of the collector: [name, desired,    *)
(*                 ready, strays, updated, observed], its name "known",    *)
(*                 "other" or, if there is none, "none"; observed, whether *)
(*                 the controller saw its generation                       *)
(*   pods          of it, [count, restarts, crashing]                      *)
(*   image         "expected" or "other"; wanted, whether the expected one *)
(*                 could be fetched                                        *)
(*   targets       a sequence, whether each is up                          *)
(*   rate, hcps    of ingestion, and how many hosted clusters there are    *)
(*   written, ratios   of S3, and per cluster, in parts of 10000           *)
(*   buffer        in MiB, of 10240; buffered, events per pod              *)
(*   s3Errors, transformErrors, loss   rates                               *)
(*   config        "data", "empty" or "none"                               *)
(*   components    a sequence of [transform, sent, received]               *)
(*   utilization   per component, in per cent                              *)
(*   rates         of ingestion, per hosted cluster                        *)
(*   latency       <<>> or <<p99, p50>>, in tenths of a second             *)
(*   heartbeat, processor   [exists, desired, ready]                       *)
(*   heartbeatPods, processorPods   [count, running, restarts, crashing]   *)
(*   rule          "whole", "partial" or "none"; alerts, how many fire     *)
(*   forwarders    the states OCM has of them, a sequence                  *)
(*   output, errors   rates of the collector                               *)
(***************************************************************************)
EXTENDS CheckResults

\* RunChecks; checks of a pair of names or namespaces ask for both in a call.
Order(c) ==
  IF c.mc
    THEN <<"rlr_vector_namespace", "rlr_vector_daemonset_health",
           "rlr_version_verification", "rlr_vector_pod_restarts",
           "rlr_vector_metrics_present", "rlr_vector_ingestion_rate",
           "rlr_vector_s3_delivery", "rlr_vector_buffer_usage",
           "rlr_vector_error_rate", "rlr_vector_event_loss",
           "rlr_vector_pipeline_ratio", "rlr_vector_config_tracking",
           "rlr_vector_daemonset_rollout", "rlr_vector_buffer_events",
           "rlr_vector_component_throughput",
           "rlr_vector_component_utilization",
           "rlr_vector_ingestion_balance", "rlr_vector_s3_request_latency",
           "rlr_heartbeat_deployment", "rlr_heartbeat_pod_health",
           "rlr_processor_deployment", "rlr_processor_pod_health",
           "rlr_prometheusrule_exists", "rlr_prometheusrule_alerts",
           "rlr_active_alerts", "rlr_vector_trends">>
  ELSE IF c.hypershift
    THEN <<"rlr_hcp_log_forwarding_status", "rlr_hcp_log_collector",
           "rlr_hcp_log_collector_pods", "rlr_hcp_log_delivery_metrics">>
  ELSE <<>>

\* NaN is neither below nor above any limit.
NaN == -1
Below(value, limit) == value # NaN /\ value < limit

\* What most of the metrics have in common: a query that fails says so, and a
\* metric that is not there has nothing to judge.
Judged(answer, metric, status) ==
  IF answer # "ok" THEN NoAnswer(answer, "UNKNOWN")
  ELSE IF metric = <<>> THEN "SKIP"
  ELSE status

\* At the second limit or beyond, at the first, or below both.
Graded(value, warn, fail) ==
  IF value >= fail THEN "FAIL" ELSE IF value >= warn THEN "WARNING"
  ELSE "PASS"

SumOf(s) == FoldLeft(LAMBDA sum, v : sum + v, 0, s)

NamespaceStatus(c, ans) ==
  IF ans[1] # "ok" THEN NoAnswer(ans[1], "FAIL")
  ELSE IF c.namespace = "Active" THEN "PASS" ELSE "FAIL"

Placed(d) == d.ready = d.desired /\ d.strays = 0 /\ d.desired > 0

\* By its names, and if there is none the first of a list; pods that cannot be
\* listed do not crash.
DaemonSetStatus(c, ans) ==
  LET found == \/ ans[1] = "ok" /\ c.daemonset.name = "known"
               \/ ans[2] = "ok" /\ c.daemonset.name # "none"
  IN  IF ans[1] = "denied" THEN ElevationSkip
      ELSE IF ~found THEN "FAIL"
      ELSE IF Placed(c.daemonset) /\ ~(ans[3] = "ok" /\ c.pods.crashing)
        THEN "PASS"
      ELSE "WARNING"

VersionStatus(c, ans) ==
  IF ans[1] # "ok" \/ c.daemonset.name # "known" THEN "SKIP"
  ELSE IF ~c.wanted THEN "INFO"
  ELSE IF c.image = "expected" THEN "PASS" ELSE "WARNING"

RestartsStatus(c, ans) ==
  IF ans[1] # "ok" THEN Unread(ans[1])
  ELSE IF c.pods.count = 0 THEN "SKIP"
  ELSE IF c.pods.restarts <= 10 THEN "PASS" ELSE "WARNING"

MetricsPresentStatus(c, ans) ==
  IF ans[1] # "ok" THEN NoAnswer(ans[1], "UNKNOWN")
  ELSE IF ToSet(c.targets) = {TRUE} THEN "PASS" ELSE "WARNING"

\* Hosted clusters that cannot be listed are none.
IngestionStatus(c, ans) ==
  Judged(ans[1], c.rate,
         IF c.rate[1] > 0 \/ ans[2] # "ok" \/ c.hcps = 0 THEN "PASS"
         ELSE "WARNING")

\* Without a number there is backpressure.
DeliveryStatus(c, ans) ==
  Judged(ans[1], c.written, IF c.written[1] >= 9900 THEN "PASS"
                            ELSE "WARNING")

BufferStatus(c, ans) ==
  Judged(ans[1], c.buffer, Graded(c.buffer[1], 7168, 9728))

\* A rate that cannot be read, or is not there, is zero.
ErrorRateStatus(c, ans) ==
  IF ans[1] # "ok" /\ ans[2] # "ok"
    THEN IF "denied" \in ToSet(ans) THEN ElevationSkip ELSE "UNKNOWN"
  ELSE IF \/ ans[1] = "ok" /\ c.s3Errors > 0
          \/ ans[2] = "ok" /\ c.transformErrors > 0 THEN "WARNING"
  ELSE "PASS"

LossStatus(c, ans) ==
  Judged(ans[1], c.loss, IF c.loss[1] <= 0 THEN "PASS" ELSE "FAIL")

\* The least of the ratios that are numbers.
PipelineStatus(c, ans) ==
  Judged(ans[1], c.ratios,
         IF \E r \in ToSet(c.ratios) : Below(r, 9900) THEN "WARNING"
         ELSE "PASS")

ConfigStatus(c, ans) ==
  IF ans[1] # "ok" THEN Unread(ans[1])
  ELSE CASE c.config = "none" -> "SKIP"
         [] c.config = "empty" -> "WARNING"
         [] OTHER -> "PASS"

RolloutStatus(c, ans) ==
  LET d == c.daemonset
  IN  IF ans[1] # "ok" THEN Unread(ans[1])
      ELSE IF d.name # "known" THEN "SKIP"
      ELSE IF d.observed /\ d.updated = d.desired /\ d.desired > 0 THEN "PASS"
      ELSE "WARNING"

BufferEventsStatus(c, ans) ==
  Judged(ans[1], c.buffered, Graded(SumOf(c.buffered), 100000, 500000))

\* Where the events received cannot be read, none are.
ThroughputStatus(c, ans) ==
  LET Lossy(p) == p.transform /\ p.sent * 100 < p.received * 99
  IN  Judged(ans[1], c.components,
             IF ans[2] = "ok" /\ \E p \in ToSet(c.components) : Lossy(p)
               THEN "WARNING"
             ELSE "PASS")

UtilizationStatus(c, ans) ==
  Judged(ans[1], c.utilization, Graded(Max(ToSet(c.utilization)), 80, 95))

\* A coefficient of variation of 1.5 or more, and a share of more than 40%, of
\* those clusters that have a rate: of three there is no such coefficient.
Skewed(rates) ==
  LET total == SumOf(rates)
      squares == SumOf([i \in DOMAIN rates |-> rates[i] * rates[i]])
  IN  /\ 4 * Len(rates) * squares >= 13 * total * total
      /\ 100 * Max(ToSet(rates)) > 40 * total

BalanceStatus(c, ans) ==
  LET live == SelectSeq(c.rates, LAMBDA rate : rate > 0)
  IN  Judged(ans[1], c.rates, IF Len(live) < 3 THEN "SKIP"
                              ELSE IF Skewed(live) THEN "WARNING"
                              ELSE "PASS")

\* Of a query that fails there is no histogram, and without a p50 it is zero.
LatencyStatus(c, ans) ==
  LET p50 == IF ans[2] = "ok" THEN c.latency[2] ELSE 0
  IN  IF ans[1] # "ok" THEN Unread(ans[1])
      ELSE IF c.latency = <<>> THEN "SKIP"
      ELSE IF c.latency[1] >= 150 THEN "FAIL"
      ELSE IF c.latency[1] >= 50 \/ p50 >= 10 THEN "WARNING"
      ELSE "PASS"

\* The heartbeat and the processor need not be there; what cannot be read, but
\* was not refused, is not.
DeploymentStatus(d, answer) ==
  IF answer = "denied" THEN ElevationSkip
  ELSE IF answer = "error" \/ ~d.exists THEN "INFO"
  ELSE IF d.ready = d.desired /\ d.desired > 0 THEN "PASS"
  ELSE "WARNING"

PodsStatus(p, answer) ==
  IF answer = "denied" THEN ElevationSkip
  ELSE IF answer = "error" \/ p.count = 0 THEN "INFO"
  ELSE IF p.running = p.count /\ p.restarts <= 5 /\ ~p.crashing THEN "PASS"
  ELSE "WARNING"

HeartbeatStatus(c, ans) == DeploymentStatus(c.heartbeat, ans[1])
HeartbeatPodsStatus(c, ans) == PodsStatus(c.heartbeatPods, ans[1])
ProcessorStatus(c, ans) == DeploymentStatus(c.processor, ans[1])
ProcessorPodsStatus(c, ans) == PodsStatus(c.processorPods, ans[1])

RuleStatus(c, ans) ==
  IF ans[1] = "denied" THEN ElevationSkip
  ELSE IF ans[1] = "ok" /\ c.rule # "none" THEN "PASS" ELSE "WARNING"

RuleAlertsStatus(c, ans) ==
  IF ans[1] # "ok" \/ c.rule = "none" THEN "SKIP"
  ELSE IF c.rule = "whole" THEN "PASS" ELSE "WARNING"

AlertsStatus(c, ans) ==
  IF ans[1] # "ok" THEN NoAnswer(ans[1], "UNKNOWN")
  ELSE IF c.alerts > 0 THEN "WARNING" ELSE "PASS"

ForwardersStatus(c) ==
  IF c.forwarders = <<>> THEN "INFO"
  ELSE IF ToSet(c.forwarders) = {"ready"} THEN "PASS"
  ELSE "WARNING"

CollectorStatus(c, ans) ==
  IF ans[1] # "ok" THEN Unread(ans[1])
  ELSE IF c.daemonset.name # "known" THEN "SKIP"
  ELSE IF Placed(c.daemonset) THEN "PASS"
  ELSE "WARNING"

CollectorPodsStatus(c, ans) ==
  IF ans[1] # "ok" THEN Unread(ans[1])
  ELSE IF c.pods.count = 0 THEN "SKIP"
  ELSE IF c.pods.crashing \/ c.pods.restarts > 10 THEN "WARNING"
  ELSE "PASS"

\* The rates of output and of errors, and the buffer: what cannot be read is
\* zero, but for the first two together.
DeliveryMetricsStatus(c, ans) ==
  LET output == IF ans[1] = "ok" THEN c.output ELSE 0
      errors == IF ans[2] = "ok" THEN c.errors ELSE 0
      buffer == IF ans[3] = "ok" THEN SumOf(c.buffer) ELSE 0
  IN  IF ans[1] # "ok" /\ ans[2] # "ok" THEN Unread(ans[1])
      ELSE IF output = 0
        THEN IF errors + buffer = 0 THEN "SKIP" ELSE "WARNING"
      ELSE IF errors * 100 > output * 5 THEN "WARNING"
      ELSE "PASS"

\* The trends are only for charts: a query that fails leaves one out.
TrendsStatus == "INFO"

Calls(check) ==
  CASE check \in {"rlr_vector_daemonset_health",
                  "rlr_hcp_log_delivery_metrics"} -> 3
    [] check \in {"rlr_vector_ingestion_rate", "rlr_vector_error_rate",
                  "rlr_vector_component_throughput",
                  "rlr_vector_s3_request_latency"} -> 2
    [] check \in {"rlr_vector_trends", "rlr_hcp_log_forwarding_status"} -> 0
    [] OTHER -> 1

Status(check, c, ans) ==
  CASE check = "rlr_vector_namespace" -> NamespaceStatus(c, ans)
    [] check = "rlr_vector_daemonset_health" -> DaemonSetStatus(c, ans)
    [] check = "rlr_version_verification" -> VersionStatus(c, ans)
    [] check = "rlr_vector_pod_restarts" -> RestartsStatus(c, ans)
    [] check = "rlr_vector_metrics_present" -> MetricsPresentStatus(c, ans)
    [] check = "rlr_vector_ingestion_rate" -> IngestionStatus(c, ans)
    [] check = "rlr_vector_s3_delivery" -> DeliveryStatus(c, ans)
    [] check = "rlr_vector_buffer_usage" -> BufferStatus(c, ans)
    [] check = "rlr_vector_error_rate" -> ErrorRateStatus(c, ans)
    [] check = "rlr_vector_event_loss" -> LossStatus(c, ans)
    [] check = "rlr_vector_pipeline_ratio" -> PipelineStatus(c, ans)
    [] check = "rlr_vector_config_tracking" -> ConfigStatus(c, ans)
    [] check = "rlr_vector_daemonset_rollout" -> RolloutStatus(c, ans)
    [] check = "rlr_vector_buffer_events" -> BufferEventsStatus(c, ans)
    [] check = "rlr_vector_component_throughput" -> ThroughputStatus(c, ans)
    [] check = "rlr_vector_component_utilization" -> UtilizationStatus(c, ans)
    [] check = "rlr_vector_ingestion_balance" -> BalanceStatus(c, ans)
    [] check = "rlr_vector_s3_request_latency" -> LatencyStatus(c, ans)
    [] check = "rlr_heartbeat_deployment" -> HeartbeatStatus(c, ans)
    [] check = "rlr_heartbeat_pod_health" -> HeartbeatPodsStatus(c, ans)
    [] check = "rlr_processor_deployment" -> ProcessorStatus(c, ans)
    [] check = "rlr_processor_pod_health" -> ProcessorPodsStatus(c, ans)
    [] check = "rlr_prometheusrule_exists" -> RuleStatus(c, ans)
    [] check = "rlr_prometheusrule_alerts" -> RuleAlertsStatus(c, ans)
    [] check = "rlr_active_alerts" -> AlertsStatus(c, ans)
    [] check = "rlr_vector_trends" -> TrendsStatus
    [] check = "rlr_hcp_log_forwarding_status" -> ForwardersStatus(c)
    [] check = "rlr_hcp_log_collector" -> CollectorStatus(c, ans)
    [] check = "rlr_hcp_log_collector_pods" -> CollectorPodsStatus(c, ans)
    [] check = "rlr_hcp_log_delivery_metrics" ->
         DeliveryMetricsStatus(c, ans)

Results(check, c, ans) == One(check, Status(check, c, ans))
=============================================================================
