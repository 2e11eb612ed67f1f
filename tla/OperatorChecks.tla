--------------------------- MODULE OperatorChecks ---------------------------
(***************************************************************************)
(* The checks an operator goes through on a cluster: RunOperatorChecks     *)
(* (pkg/checks/operator.go), RunAllCommonChecks and the checkers of the    *)
(* operators, with the results and the summary of pkg/checks/types.go.     *)
(* A suite is the common checks or the checks of one operator; what each   *)
(* check decides is in the module of its checker.                          *)
(*                                                                         *)
(* A check asks the cluster a few questions and leaves its results in one  *)
(* step.  Between two checks the cluster may change and Ctrl-C may come;   *)
(* within one, a call may be denied, fail, or be cut off by Ctrl-C.        *)
(***************************************************************************)
EXTENDS CheckResults

CONSTANTS
  Suites,     \* the suites of this instance
  Facts,      \* per suite, what its checks may find
  Healthy,    \* per suite, those of them with nothing to report
  Changes,    \* per suite, what may happen meanwhile: [field, value]
  Worse,      \* per suite, [field, values]: a fact, from good to bad
  MaxFaults   \* per suite, how many changes and unanswered calls to come

\* The common checks, and the checkers of pkg/checks.
Checkers == {"common", "pdo", "dms", "ome", "mnmo", "sfo", "sae", "muo",
             "camo", "rmo", "hcp", "mcc", "rhobs", "rlr", "byoc"}

\* A subscription has the package's name, or contains it.
SubscriptionNames == {"exact", "similar"}

\* What stays as it is during a run: what kind of cluster it is, and the
\* commands, which are read before the first of them runs.
FixedFacts(s) ==
  CASE s \in {"rmo", "rhobs"} -> {"mc"} [] s = "mcc" -> {"aws"}
    [] s = "rlr" -> {"mc", "hypershift"} [] s = "byoc" -> {"commands"}
    [] OTHER -> {}

ASSUME OperatorChecksAssumption ==
  /\ Suites \subseteq Checkers
  /\ \A s \in Suites :
       /\ MaxFaults[s] \in Nat /\ Healthy[s] \subseteq Facts[s]
       /\ \A c \in Facts[s] : FixedFacts(s) \subseteq DOMAIN c
       /\ \A change \in Changes[s] : change.field \notin FixedFacts(s)
  /\ "byoc" \in Suites =>
       \A c \in Facts["byoc"] : c.commands \in Seq(ToSet(c.commands))
  /\ "common" \in Suites =>
       /\ \A c \in Facts["common"] :
            /\ "subscriptions" \in DOMAIN c
            /\ c.subscriptions \subseteq SubscriptionNames
       /\ \A change \in Changes["common"] :
            change.field = "subscriptions" =>
              change.value \subseteq SubscriptionNames

VARIABLES
  suite,          \* the suite that runs
  facts,          \* what the calls of its checks find
  faults,         \* changes and unanswered calls still to come
  cancelled,      \* ctx is done
  position,       \* the next check, an index of Order
  kept,           \* the lists a check left for those that follow it
  results,        \* ClusterContext.Results
  criticalCount,  \* ClusterContext.CriticalCount
  warningCount    \* ClusterContext.WarningCount

vars == <<suite, facts, faults, cancelled, position, kept, results,
          criticalCount, warningCount>>
counts == <<results, criticalCount, warningCount>>

Common == INSTANCE CommonChecks
Pdo == INSTANCE PdoChecks
Dms == INSTANCE DmsChecks
Ome == INSTANCE OmeChecks
Mnmo == INSTANCE MnmoChecks
Sfo == INSTANCE SfoChecks
Sae == INSTANCE SaeChecks
Muo == INSTANCE MuoChecks
Camo == INSTANCE CamoChecks
Rmo == INSTANCE RmoChecks
Hcp == INSTANCE HcpChecks
Mcc == INSTANCE MccChecks
Rhobs == INSTANCE RhobsChecks
Rlr == INSTANCE RlrChecks
Byoc == INSTANCE ByocChecks

(***************************************************************************)
(* The checks of the suite.                                                *)
(***************************************************************************)
OrderOf(s, c) ==
  CASE s = "common" -> Common!Order [] s = "pdo" -> Pdo!Order
    [] s = "dms" -> Dms!Order       [] s = "ome" -> Ome!Order
    [] s = "mnmo" -> Mnmo!Order     [] s = "sfo" -> Sfo!Order
    [] s = "sae" -> Sae!Order       [] s = "muo" -> Muo!Order
    [] s = "camo" -> Camo!Order     [] s = "rmo" -> Rmo!Order(c)
    [] s = "hcp" -> Hcp!Order       [] s = "mcc" -> Mcc!Order(c)
    [] s = "rhobs" -> Rhobs!Order(c) [] s = "rlr" -> Rlr!Order(c)
    [] s = "byoc" -> Byoc!Order(c)

Calls(s, check) ==
  CASE s = "common" -> Common!Calls(check) [] s = "pdo" -> Pdo!Calls(check)
    [] s = "dms" -> Dms!Calls(check)       [] s = "ome" -> Ome!Calls(check)
    [] s = "mnmo" -> Mnmo!Calls(check)     [] s = "sfo" -> Sfo!Calls(check)
    [] s = "sae" -> Sae!Calls(check)       [] s = "muo" -> Muo!Calls(check)
    [] s = "camo" -> Camo!Calls(check)     [] s = "rmo" -> Rmo!Calls(check)
    [] s = "hcp" -> Hcp!Calls(check)       [] s = "mcc" -> Mcc!Calls(check)
    [] s = "rhobs" -> Rhobs!Calls(check)   [] s = "rlr" -> Rlr!Calls(check)
    [] s = "byoc" -> Byoc!Calls(check)

\* What a check leaves, when its calls find c and are answered by ans, the
\* results before it are past, and the lists are left.
Results(s, check, c, ans, past, left) ==
  CASE s = "common" -> Common!Results(check, c, ans, past)
    [] s = "pdo" -> Pdo!Results(check, c, ans, past)
    [] s = "dms" -> Dms!Results(check, c, ans, past)
    [] s = "ome" -> Ome!Results(check, c, ans, past)
    [] s = "mnmo" -> Mnmo!Results(check, c, ans, past)
    [] s = "sfo" -> Sfo!Results(check, c, ans, past)
    [] s = "sae" -> Sae!Results(check, c, ans, past)
    [] s = "muo" -> Muo!Results(check, c, ans, past)
    [] s = "camo" -> Camo!Results(check, c, ans, past)
    [] s = "rmo" -> Rmo!Results(check, c, ans, left)
    [] s = "hcp" -> Hcp!Results(check, c, ans, left)
    [] s = "mcc" -> Mcc!Results(check, c, ans)
    [] s = "rhobs" -> Rhobs!Results(check, c, ans, past)
    [] s = "rlr" -> Rlr!Results(check, c, ans)
    [] s = "byoc" -> Byoc!Results(check, c, ans, past)

\* The lists of a checker, from what its checks return.
NoLists == [routes |-> <<>>, urls |-> <<>>, hcps |-> <<>>, pods |-> <<>>]
KeptBy(s, check, c, ans, left) ==
  CASE s = "rmo" /\ check = "fetchMonitorCRs" ->
         Rmo!fetchMonitorCRs(c, ans, left)
    [] s = "hcp" -> Hcp!Handed(check, c, ans, left)
    [] OTHER -> left

Order == OrderOf(suite, facts)
Current == Order[position]
ResultsOf(ans) == Results(suite, Current, facts, ans, results, kept)

\* The common checks are followed by the operator's own.
Own == Len(Order) + 1
Over == IF suite = "common" THEN Own + 1 ELSE Own

AnswersOf(check) ==
  IF suite = "byoc" THEN Byoc!Outcomes
  ELSE Answers \union (IF check = "active_alerts" THEN {"garbled"} ELSE {})

Unanswered(ans) == Cardinality({i \in DOMAIN ans : ans[i] # "ok"})

(***************************************************************************)
(* The actions.                                                            *)
(***************************************************************************)
HasStatus(rs, status) ==
  Cardinality({i \in DOMAIN rs : rs[i].status = status})

\* AddResult, for each of the results.
AddResults(rs) ==
  /\ results' = results \o rs
  /\ criticalCount' = criticalCount + HasStatus(rs, "FAIL")
  /\ warningCount' = warningCount + HasStatus(rs, "WARNING")

\* RunAllCommonChecks and the splunk-audit-exporter end with a namespace that
\* failed; a command of the user's may have any name.
NamespaceFirst == suite \in {"common", "sae"}
After(rs) ==
  IF NamespaceFirst /\ position = 1 /\ rs[1].status = "FAIL" THEN Own
  ELSE position + 1

RunCheck(ans) ==
  LET rs == ResultsOf(ans)
  IN  /\ AddResults(rs)
      /\ position' = After(rs)
      /\ kept' = KeptBy(suite, Current, facts, ans, kept)

\* The calls are answered as the faults to come allow.
Check ==
  /\ position < Own /\ ~cancelled
  /\ \E ans \in [1..Calls(suite, Current) -> AnswersOf(Current)] :
       /\ Unanswered(ans) <= faults
       /\ RunCheck(ans)
       /\ faults' = faults - Unanswered(ans)
  /\ UNCHANGED <<suite, facts, cancelled>>

\* Ctrl-C during the check: from some call on, all of them fail; a command is
\* killed, or not started any more.
InterruptedCheck ==
  /\ position < Own /\ ~cancelled
  /\ \E made \in 0..Calls(suite, Current) - 1,
        cut \in AnswersOf(Current) \intersect {"error", "killed"} :
       RunCheck([i \in 1..Calls(suite, Current) |->
                   IF i <= made THEN "ok" ELSE cut])
  /\ cancelled' = TRUE
  /\ UNCHANGED <<suite, facts, faults>>

\* Where ctx is looked at: RunAllCommonChecks does so before all of its checks
\* but the first, RunOperatorChecks before the operator's own checks, and of
\* the checkers only that of the commands.
StopsAt ==
  CASE suite = "common" -> 2..Own
    [] suite = "byoc" -> 1..Own - 1
    [] OTHER -> {}

\* Elsewhere the checks that remain are made, and every call of them fails.
CancelledCheck ==
  /\ position < Own /\ cancelled
  /\ position \notin StopsAt
  /\ RunCheck([i \in 1..Calls(suite, Current) |-> "error"])
  /\ UNCHANGED <<suite, facts, faults, cancelled>>

Stop ==
  /\ cancelled /\ position \in StopsAt
  /\ position' = Over
  /\ UNCHANGED <<suite, facts, faults, cancelled, kept, counts>>

\* The checks of the operator, whatever they leave.
OwnChecks ==
  /\ suite = "common" /\ position = Own /\ ~cancelled
  /\ \E s \in Statuses : AddResults(One("own", s))
  /\ position' = Over
  /\ UNCHANGED <<suite, facts, faults, cancelled, kept>>

Change ==
  /\ faults > 0 /\ position < Own
  /\ \E c \in Changes[suite] :
       /\ facts[c.field] # c.value
       /\ facts' = [facts EXCEPT ![c.field] = c.value]
  /\ faults' = faults - 1
  /\ UNCHANGED <<suite, cancelled, position, kept, counts>>

Interrupt ==
  /\ ~cancelled /\ position < Over
  /\ cancelled' = TRUE
  /\ UNCHANGED <<suite, facts, faults, position, kept, counts>>

\* MUO looks back at a result of the common checks.
PastResults(s, status) ==
  IF s = "muo" THEN One("pod_status_and_restarts", status) ELSE <<>>

Init ==
  /\ suite \in Suites
  /\ facts \in Facts[suite]
  /\ faults = MaxFaults[suite] /\ cancelled = FALSE
  /\ position = 1 /\ kept = NoLists
  /\ \E status \in IF suite = "muo" THEN {"PASS", "FAIL"} ELSE {"PASS"} :
       results = PastResults(suite, status)
  /\ criticalCount = HasStatus(results, "FAIL")
  /\ warningCount = 0

Next ==
  \/ Check \/ InterruptedCheck \/ CancelledCheck \/ Stop
  \/ OwnChecks \/ Change \/ Interrupt

Spec == Init /\ [][Next]_vars

(***************************************************************************)
(* Properties.                                                             *)
(***************************************************************************)
\* Mutant: one loop that returns at the first result that is no success.
OverallStatusOfFirst ==
  LET bad == {i \in DOMAIN results : results[i].status \in Alarms}
  IN  IF bad = {} THEN "HEALTHY"
      ELSE IF results[Min(bad)].status = "FAIL" THEN "CRITICAL" ELSE "WARNING"

\* OverallStatus of types.go: two loops, the worst status first.
OverallStatus ==
  IF \E i \in DOMAIN results : results[i].status = "FAIL" THEN "CRITICAL"
  ELSE IF \E i \in DOMAIN results : results[i].status = "WARNING"
    THEN "WARNING"
  ELSE "HEALTHY"

\* The types of ClusterContext, and of the checks' progress.
TypeOK ==
  /\ suite \in Suites
  /\ DOMAIN facts = DOMAIN (CHOOSE c \in Facts[suite] : TRUE)
  /\ faults \in 0..MaxFaults[suite] /\ cancelled \in BOOLEAN
  /\ position \in 1..Over
  /\ DOMAIN kept = DOMAIN NoLists
  /\ StatusesOf(results) \subseteq Statuses
  /\ criticalCount \in Nat /\ warningCount \in Nat

\* ToOutput reports a status derived from the results beside two counters
\* that AddResult kept while they came in: they tell the same story.
SummaryAgrees ==
  OverallStatus = IF criticalCount > 0 THEN "CRITICAL"
                  ELSE IF warningCount > 0 THEN "WARNING"
                  ELSE "HEALTHY"

\* Every result was counted as AddResult added it.
CountInv ==
  /\ results \in Seq(ToSet(results))
  /\ suite = "common" => position \in 1..Over
  /\ criticalCount = HasStatus(results, "FAIL")
  /\ warningCount = HasStatus(results, "WARNING")

Left(check) == {i \in DOMAIN results : results[i].check = check}
StatusOf(check) == {results[i].status : i \in Left(check)}

\* What leaves no result: fetchMonitorCRs, and the platform metrics of the
\* observability checks where there is no MonitoringStack.
NoResult ==
  CASE suite = "rmo" -> {"fetchMonitorCRs"}
    [] suite = "rhobs" /\ ~Rhobs!HasStack(results) ->
         ToSet(Rhobs!PlatformMetrics)
    [] OTHER -> {}

\* checkPKOClusterPackage is the third common check, and calls
\* checkOLMSubscription when it found no package; the own checks of an operator
\* follow its common checks.
NoPackage == "SKIP" \in StatusOf("pko_clusterpackage_health")
Extra == IF suite = "common" /\ NoPackage THEN 1 ELSE 0
OwnLeft == IF suite = "common" /\ Left("own") # {} THEN 1 ELSE 0

\* The results are those of the first n checks, each at its place: behind those
\* of the past, and of the checks before it that left any.
ReportOf(n) ==
  LET silent == {k \in 1..n : Order[k] \in NoResult}
      past == IF suite = "muo" THEN 1 ELSE 0
      extra == Extra
      Before(k) == past + k - 1 - Cardinality({l \in silent : l < k})
                     + (IF k > 3 THEN extra ELSE 0)
  IN  /\ Len(results) = Before(n + 1) + OwnLeft
      /\ \A k \in 1..n \ silent : results[Before(k) + 1].check = Order[k]

NamespaceFailed == NamespaceFirst /\ "FAIL" \in StatusOf("namespace_status")

\* RunChecks and RunAllCommonChecks leave no gap: every check that had its
\* turn, and something to look at, left one result, in its place, whatever its
\* calls met, and no other check left any; all checks before the next one had
\* their turn, unless the namespace failed or, between two common checks or two
\* commands, Ctrl-C came; and checkOLMSubscription left one exactly when
\* checkPKOClusterPackage found no package.
ReportIsWhole ==
  /\ IF NamespaceFailed THEN ReportOf(1)
     ELSE IF suite \in {"common", "byoc"} /\ cancelled /\ position = Over
       THEN \E n \in 0..Len(Order) : ReportOf(n)
     ELSE ReportOf(IF position < Own THEN position - 1 ELSE Len(Order))
  /\ suite = "common" => (Left("olm_subscription_health") # {} <=> NoPackage)

Answered(check) == [i \in 1..Calls(suite, check) |-> "ok"]
NewResults == {results'[i] : i \in Len(results) + 1..Len(results')}

\* What fetchMonitorCRs left is what there is.
ListsRead ==
  \/ suite # "rmo" \/ position <= 2
  \/ kept = KeptBy("rmo", "fetchMonitorCRs", facts,
                   Answered("fetchMonitorCRs"), NoLists)

\* The checkers raise no alarm about a healthy cluster: one whose calls are
\* answered, and that finds what a healthy cluster shows, leaves neither FAIL
\* nor WARNING, whatever the checks before it met; but where fetchMonitorCRs
\* could not read the lists, the checks of RMO judge their absence.
AlarmHasCause ==
  [][/\ faults' = faults /\ ~cancelled'
     /\ facts \in Healthy[suite]
     /\ ListsRead
     => \A r \in NewResults : r.status \in Alarms => r.check = "own"]_vars

\* The checks that may pass although they would have raised an alarm, had all
\* their calls been answered: for these a call without an answer is good news.
MayPassUnread ==
  {"dual_installation_check", "orphaned_olm_artifacts",
   "resource_leak_detection", "operator_events", "active_alerts",
   "pdo_prometheus_metrics", "pdo_configuration_errors",
   "dms_snitch_api_health", "dms_coverage", "ome_metrics_health",
   "sfo_forwarder_resources", "sfo_forwarder_metrics",
   "sae_daemonset_health", "sae_filter_errors", "sae_filter_decisions",
   "sae_cloudwatch", "sae_resource_trends", "muo_upgrade_result",
   "configuration_errors", "camo_alerting_config",
   "alertmanager_reload_health", "alertmanager_config_compatibility",
   "alertmanager_logs", "alertmanager_events", "camo_events",
   "dms_heartbeat_delivery", "rmo_operator_metrics", "rmo_rhobs_api_health",
   "rmo_probe_disagreement", "rmo_rhobs_integration",
   "rmo_limited_support_disagreement", "hcp_pod_health",
   "hcp_deployment_health", "hcp_resource_trends", "hcp_metrics_coverage",
   "hcp_pod_logs", "cluster_machine_api_logs", "cluster_machine_health",
   "cluster_ami_consistency", "cluster_dynatrace_artifacts",
   "rhobs_remote_write_health", "rhobs_log_collector_metrics",
   "rhobs_synthetics_agent", "rhobs_synthetics_api_fetch",
   "rhobs_synthetics_probes", "rlr_vector_daemonset_health",
   "rlr_hcp_log_delivery_metrics", "rlr_vector_ingestion_rate",
   "rlr_vector_error_rate", "rlr_vector_component_throughput",
   "rlr_vector_s3_request_latency"}

\* Of the commands, the one that a signal is to end.
PassesUnread ==
  IF suite # "byoc" THEN MayPassUnread
  ELSE IF facts.commands[position].expected = -1 THEN {Current}
  ELSE {}

\* No other check of an operator passes because a call was denied or failed:
\* where the answer would have been an alarm, the absence of it is not a PASS.
UnreadHidesNothing ==
  position < Own /\ Current \notin PassesUnread =>
    \A ans \in [1..Calls(suite, Current) -> AnswersOf(Current)] :
      StatusesOf(ResultsOf(ans)) = {"PASS"} =>
        StatusesOf(ResultsOf(Answered(Current))) \intersect Alarms = {}

\* The checks that fail where they would not, had they not been refused.
FailsRefused ==
  {"pod_status_and_restarts", "pko_clusterpackage_health",
   "dual_installation_check", "dms_controller_availability",
   "ome_metrics_health", "ome_servicemonitor_health", "sfo_secrets",
   "sfo_audit_exporter_dep", "sae_audit_policy", "controller_availability",
   "camo_cluster_readiness", "alertmanager_config_compatibility",
   "alertmanager_secret", "dms_heartbeat_delivery", "rmo_controller_manager",
   "rhobs_remote_write_health", "rhobs_synthetics_agent",
   "rhobs_synthetics_api_fetch", "rlr_vector_daemonset_health"}

\* A refusal (IsAccessError) says nothing of the operator: no other check
\* fails because some of its calls were refused, one that would not have failed
\* had they been answered.
RefusalIsNoFailure ==
  position < Own /\ Current \notin FailsRefused =>
    \A ans \in [1..Calls(suite, Current) ->
                  AnswersOf(Current) \intersect {"ok", "denied"}] :
      "FAIL" \in StatusesOf(ResultsOf(ans)) =>
        "FAIL" \in StatusesOf(ResultsOf(Answered(Current)))

\* The report of a run of the suite in which c does not change and every call
\* is answered.
Report(c) ==
  LET Run(acc, check) ==
        LET ans == Answered(check)
        IN  [past |-> acc.past \o Results(suite, check, c, ans, acc.past,
                                          acc.left),
             left |-> KeptBy(suite, check, c, ans, acc.left)]
  IN  FoldLeft(Run, [past |-> results, left |-> kept], OrderOf(suite, c)).past

\* A worse fact never makes a better report: raising one of the numbers the
\* limits of the checkers are about, beyond one limit or several, lowers the
\* alarm of no check, whatever the other facts are.
WorseNeverBetter ==
  position = 1 /\ Len(results) <= 1 =>
    \A w \in Worse[suite] : \A j \in 2..Len(w.values) :
      LET good == Report([facts EXCEPT ![w.field] = w.values[j - 1]])
          bad == Report([facts EXCEPT ![w.field] = w.values[j]])
      IN  \A g \in ToSet(good), b \in ToSet(bad) :
            g.check = b.check => Rank(g.status) <= Rank(b.status)

Undisturbed == faults = MaxFaults[suite] /\ ~cancelled

\* checkOLMSubscription and CheckDualInstallation look for the same operator
\* by two rules; undisturbed, and unless a subscription of a similar name is
\* there, an operator the one calls not deployed fails the other too, and one
\* the first finds is not called missing.
OneVerdictOnDeployment ==
  /\ suite = "common" /\ Undisturbed
  /\ "similar" \notin facts.subscriptions
  /\ Left("olm_subscription_health") # {}
  /\ Left("dual_installation_check") # {}
  => ("FAIL" \in StatusOf("olm_subscription_health")
        <=> "FAIL" \in StatusOf("dual_installation_check"))

\* CheckResourceLimits judges the peaks CheckResourceLeakDetection measured:
\* undisturbed, a peak at eighty per cent of a limit is always reported.
PeakReachesLimits ==
  /\ suite = "common" /\ Undisturbed
  /\ Left("resource_limits_validation") # {}
  /\ facts.deployment.exists
  /\ \E k \in {"mem", "cpu"} :
       Common!NearLimit(Common!Peak(facts.usage[k]), facts.limits[k])
  => StatusOf("resource_limits_validation") = {"WARNING"}

\* The verdicts on the facts c of the common checks that look at the same
\* thing: what a result of theirs is when all their calls are answered.
TwoLimits(c) ==
  IF ~c.deployment.exists THEN "SKIP"
  ELSE IF \E k \in {"mem", "cpu"} :
            Common!NearLimit(Common!Peak(c.usage[k]), c.limits[k])
    THEN "WARNING"
  ELSE "PASS"
Peaks(c) == [k \in {"mem", "cpu"} |-> Common!Peak(c.usage[k])]
Told(c, r) ==
  /\ r.check = "resource_leak_detection" => r.peak = Peaks(c)
  /\ r.check = "resource_limits_validation" => r.status = TwoLimits(c)
  /\ r.check = "olm_subscription_health" =>
       /\ c.package = "none"
       /\ r.status = IF "exact" \in c.subscriptions THEN "PASS" ELSE "FAIL"
  /\ r.check = "dual_installation_check" =>
       r.status = IF (c.package # "none") = (c.subscriptions # {})
                    THEN "FAIL" ELSE "PASS"

\* Undisturbed, the common checks tell what the facts say, and the peaks are
\* measured before the limits are checked.
CommonInv ==
  suite = "common" =>
    /\ "subscriptions" \in DOMAIN facts
    /\ facts.subscriptions \subseteq SubscriptionNames
    /\ faults \in 0..MaxFaults[suite]
    /\ Undisturbed =>
         /\ \A i \in DOMAIN results : Told(facts, results[i])
         /\ position \in 8..14 => Left("resource_leak_detection") # {}

\* "FAIL: Critical-severity or paging alerts firing", the criterion
\* CheckActiveAlerts prints with its result.
CriticalAlertFails ==
  /\ suite = "common" /\ Undisturbed /\ Left("active_alerts") # {}
  /\ \E i \in DOMAIN facts.alerts :
       /\ Common!Relevant(facts.alerts[i])
       /\ facts.alerts[i].severity = "critical"
  => StatusOf("active_alerts") = {"FAIL"}
=============================================================================
