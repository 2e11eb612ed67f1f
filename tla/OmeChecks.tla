----------------------------- MODULE OmeChecks -----------------------------
(***************************************************************************)
(* pkg/checks/ome/ome.go: the checks of osd-metrics-exporter.  Its facts:  *)
(*   scraped     whether Prometheus has an up series of the exporter       *)
(*   present     the metrics it exports                                    *)
(*   oauth, proxy, cpms, secret   whether the triggers of the optional     *)
(*               metrics exist; proxy also says whether one is configured  *)
(*   pullSecret  "valid", "invalid", "other", or "none" without the metric *)
(*   caValid     the same for cluster_proxy_ca_valid: "1", "0" or "none"   *)
(*   monitor     whether the ServiceMonitor exists                         *)
(***************************************************************************)
EXTENDS CheckResults

Order == <<"ome_metrics_health", "ome_pull_secret_health",
           "ome_proxy_ca_health", "ome_servicemonitor_health",
           "ome_identity_providers">>

\* The metrics of expectedMetrics, one for each treatment; the second proxy
\* metrics and the second and third required ones are treated alike.
expectedMetrics ==
  {[name |-> "identity_provider", trigger |-> "oauth", required |-> FALSE],
   [name |-> "cluster_proxy", trigger |-> "proxy", required |-> FALSE],
   [name |-> "cpms_enabled", trigger |-> "cpms", required |-> FALSE],
   [name |-> "pull_secret_valid", trigger |-> "secret", required |-> TRUE],
   [name |-> "cluster_id", trigger |-> "none", required |-> TRUE],
   [name |-> "pods_preventing_node_drain", trigger |-> "none",
    required |-> FALSE]}

\* checkTriggerExists: a trigger that cannot be read does not exist.
TriggerExists(c, trigger, answer) == answer = "ok" /\ c[trigger]

\* Whether an absent metric counts as missing: the trigger decides where there
\* is one, and required only where there is none.
Missing(c, m, answer) ==
  /\ m.name \notin c.present
  /\ IF m.trigger # "none" THEN TriggerExists(c, m.trigger, answer)
     ELSE m.required

\* The calls: the up series, the query of one metric, those of the others, the
\* reads of the triggers.
MetricsStatus(c, ans) ==
  LET QueryAnswer(m) == IF m.name = "cluster_id" THEN ans[2] ELSE ans[3]
      read == {m \in expectedMetrics : QueryAnswer(m) = "ok"}
  IN  IF ans[1] # "ok" \/ ~c.scraped THEN "FAIL"
      ELSE IF read # expectedMetrics THEN
        IF \E m \in read : m.name \in c.present THEN "WARNING" ELSE "SKIP"
      ELSE IF \E m \in read : Missing(c, m, ans[4]) THEN "WARNING"
      ELSE "PASS"

PullSecretStatus(c, ans) ==
  IF ans[1] # "ok" \/ c.pullSecret = "none" THEN "SKIP"
  ELSE IF c.pullSecret = "invalid" THEN "WARNING"
  ELSE "PASS"

ProxyCAStatus(c, ans) ==
  IF ans[1] # "ok" \/ ~c.proxy THEN "INFO"
  ELSE IF ans[2] # "ok" THEN "SKIP"
  ELSE CASE c.caValid = "0" -> "FAIL"
         [] c.caValid = "1" -> "PASS"
         [] OTHER -> "SKIP"

ServiceMonitorStatus(c, ans) ==
  IF ans[1] # "ok" \/ ~c.monitor THEN "FAIL" ELSE "PASS"

Calls(check) ==
  CASE check = "ome_metrics_health" -> 4
    [] check = "ome_proxy_ca_health" -> 2
    [] OTHER -> 1

Results(check, c, ans, past) ==
  One(check,
      CASE check = "ome_metrics_health" -> MetricsStatus(c, ans)
        [] check = "ome_pull_secret_health" -> PullSecretStatus(c, ans)
        [] check = "ome_proxy_ca_health" -> ProxyCAStatus(c, ans)
        [] check = "ome_servicemonitor_health" -> ServiceMonitorStatus(c, ans)
        [] check = "ome_identity_providers" -> "INFO")
=============================================================================
