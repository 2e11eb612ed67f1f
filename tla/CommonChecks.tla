---------------------------- MODULE CommonChecks ----------------------------
(***************************************************************************)
(* pkg/checks/common.go: the checks RunAllCommonChecks puts every operator *)
(* through, unless it skips them.  Their facts are those of MCCluster in   *)
(* MCOperatorChecks; a query of alerts may also answer with a body that    *)
(* does not parse, "garbled".                                              *)
(***************************************************************************)
EXTENDS CheckResults

\* Mutant: the limits are checked before the usage is known.
OrderLimitsFirst ==
  <<"namespace_status", "pod_status_and_restarts", "pko_clusterpackage_health",
    "dual_installation_check", "orphaned_olm_artifacts",
    "version_verification", "resource_limits_validation",
    "resource_leak_detection", "leader_election", "image_pull_status",
    "pko_job_health", "log_error_analysis", "operator_events",
    "active_alerts">>

\* The checks in the order of RunAllCommonChecks.
Order ==
  <<"namespace_status", "pod_status_and_restarts", "pko_clusterpackage_health",
    "dual_installation_check", "orphaned_olm_artifacts",
    "version_verification", "resource_leak_detection",
    "resource_limits_validation", "leader_election", "image_pull_status",
    "pko_job_health", "log_error_analysis", "operator_events",
    "active_alerts">>

NamespaceStatus(c, ans) ==
  IF ans[1] = "denied" THEN "ACCESS_DENIED"
  ELSE IF ans[1] = "error" \/ c.namespace # "Active" THEN "FAIL"
  ELSE "PASS"

\* Pods that could not be listed count as no pods.
PodStatus(c, ans) ==
  LET d == c.deployment
      p == c.pods
  IN  IF ans[1] = "denied" THEN "ACCESS_DENIED"
      ELSE IF ans[1] = "error" \/ ~d.exists THEN "FAIL"
      ELSE IF ans[2] # "ok" \/ p.count = 0 THEN "FAIL"
      ELSE IF d.ready = 0 /\ d.desired > 0 THEN "FAIL"
      ELSE IF \/ d.ready # d.desired
              \/ p.restarts > 10
              \/ p.notRunning > 0 THEN "WARNING"
      ELSE "PASS"

\* GetResource of the ClusterPackage: any error means there is none.
HasPackage(c, answer) == answer = "ok" /\ c.package # "none"

\* The conditions Available, Progressing and Unpacked, in one word.
PackageStatus(c) ==
  CASE c.package = "healthy" -> "PASS"
    [] c.package \in {"unavailable", "stuck"} -> "FAIL"
    [] OTHER -> "WARNING"

\* Without a package, checkOLMSubscription looks for the exact name.
PackageResults(c, ans) ==
  IF HasPackage(c, ans[1])
    THEN One("pko_clusterpackage_health", PackageStatus(c))
  ELSE One("pko_clusterpackage_health", "SKIP")
         \o One("olm_subscription_health",
                IF ans[2] = "ok" /\ "exact" \in c.subscriptions
                  THEN "PASS" ELSE "FAIL")

\* Mutant: the default branch of the switch passes.
DualStatusOfNeither(c, ans) ==
  LET hasPKO == HasPackage(c, ans[1])
      hasOLM == ans[2] = "ok" /\ c.subscriptions # {}
  IN  IF hasPKO /\ hasOLM THEN "FAIL" ELSE "PASS"

\* A subscription counts when its name contains the package's.
DualStatus(c, ans) ==
  LET hasPKO == HasPackage(c, ans[1])
      hasOLM == ans[2] = "ok" /\ c.subscriptions # {}
  IN  IF hasPKO = hasOLM THEN "FAIL" ELSE "PASS"

OrphanStatus(c, ans) ==
  IF ~HasPackage(c, ans[1]) THEN "SKIP"
  ELSE IF ans[2] = "ok" /\ c.csvs THEN "FAIL"
  ELSE "PASS"

VersionStatus(c, ans) ==
  LET v == c.version
      deployed ==
        ans[1] = "ok" /\ c.deployment.exists /\ v.image # "none"
  IN  IF ~v.shard \/ ans[2] # "ok" \/ v.target = "none"
        THEN IF deployed THEN "INFO" ELSE "SKIP"
      ELSE IF ~deployed THEN "WARNING"
      ELSE IF v.target = "noVersion" THEN "SKIP"
      ELSE IF v.image = "expected" THEN "PASS"
      ELSE "WARNING"

(***************************************************************************)
(* Seven days of memory (MB) and CPU (millicores); thanos.Trend and Peak.  *)
(***************************************************************************)
memoryLeakThresholdPercent == 50

Peak(points) == Max(ToSet(points) \union {0})

\* Mutant: small absolute values are not taken for noise.
IncreasingFromNoise(points, noise) ==
  /\ Len(points) >= 2
  /\ points[1] > 0
  /\ 100 * (Last(points) - points[1]) > memoryLeakThresholdPercent * points[1]

\* More than the threshold above the first point, and no noise at the end.
Increasing(points, noise) ==
  /\ Len(points) >= 2
  /\ points[1] > 0
  /\ 100 * (Last(points) - points[1]) > memoryLeakThresholdPercent * points[1]
  /\ Last(points) > noise

LeakResult(c, ans) ==
  LET mem == IF ans[1] = "ok" THEN c.usage.mem ELSE <<>>
      cpu == IF ans[2] = "ok" THEN c.usage.cpu ELSE <<>>
      status == IF mem = <<>> /\ cpu = <<>>
                  THEN IF "denied" \in ToSet(ans) THEN "ACCESS_DENIED"
                       ELSE "UNKNOWN"
                ELSE IF Increasing(mem, 20) \/ Increasing(cpu, 1)
                  THEN "WARNING"
                ELSE "PASS"
  IN  [check |-> "resource_leak_detection", status |-> status,
       peak |-> [mem |-> Peak(mem), cpu |-> Peak(cpu)]]

NoPeak == [mem |-> 0, cpu |-> 0]

\* What resource_leak_detection left for resource_limits_validation.
PeakSoFar(past) ==
  LET left == {i \in DOMAIN past :
                 past[i].check = "resource_leak_detection"}
  IN  IF left = {} THEN NoPeak ELSE past[Max(left)].peak

\* At eighty per cent of a limit that is set, or beyond.
NearLimit(peak, limit) == limit > 0 /\ peak > 0 /\ 100 * peak >= 80 * limit

LimitsStatus(c, ans, past) ==
  LET peak == PeakSoFar(past)
  IN  IF ans[1] # "ok" \/ ~c.deployment.exists THEN "SKIP"
      ELSE IF \/ NearLimit(peak.mem, c.limits.mem)
              \/ NearLimit(peak.cpu, c.limits.cpu) THEN "WARNING"
      ELSE "PASS"

\* The lease is looked for under three names, the errors are dropped.
FoundLease(c, ans, i) == ans[i] = "ok" /\ c.lease = i

LeaderStatus(c, ans) ==
  IF \E i \in 1..3 : FoundLease(c, ans, i) THEN "PASS" ELSE "SKIP"

\* Mutant: a list that could not be read is an empty list.
ImageStatusOfEmpty(c, ans) ==
  IF ans[1] = "ok" /\ c.pullErrors > 0 THEN "FAIL" ELSE "PASS"

ImageStatus(c, ans) ==
  IF ans[1] # "ok" THEN "SKIP"
  ELSE IF c.pullErrors > 0 THEN "FAIL"
  ELSE "PASS"

Troubled(job) == job.active > 0 \/ (job.failed > 0 /\ job.succeeded = 0)

JobStatus(c, ans) ==
  IF ans[1] # "ok" THEN "SKIP"
  ELSE IF \/ \E i \in DOMAIN c.jobs : Troubled(c.jobs[i])
          \/ Len(c.jobs) > 3 THEN "WARNING"
  ELSE "PASS"

\* Mutant: no pod to read, no result.
LogResultsIfRead(c, ans) ==
  IF c.pods.count = 0 THEN <<>>
  ELSE One("log_error_analysis",
           IF c.logs.errors > 10 THEN "WARNING" ELSE "PASS")

\* The deployment, its pods, the last 500 lines of the first pod.
LogResults(c, ans) ==
  One("log_error_analysis",
      IF \/ ~AllRead(ans, 1, 3)
         \/ ~c.deployment.exists
         \/ c.pods.count = 0
         \/ c.logs.empty THEN "SKIP"
      ELSE IF c.logs.errors > 10 THEN "WARNING"
      ELSE "PASS")

\* Events that could not be listed are no events.
EventStatus(c, ans) ==
  IF ans[1] = "ok" /\ c.warningEvents > 0 THEN "WARNING" ELSE "PASS"

(***************************************************************************)
(* The firing alerts, in the order of the answer: the class of the name    *)
(* ("excluded", "sre", "platform", "other"), which name of that class, the *)
(* namespace ("" , "openshift" or "customer") and the severity.            *)
(***************************************************************************)
Relevant(a) ==
  /\ a.class # "excluded"
  /\ a.class \in {"sre", "platform"} \/ a.namespace # "customer"

SameKey(a, b) ==
  a.class = b.class /\ a.name = b.name /\ a.namespace = b.namespace

\* Of the alerts of one name and namespace the first one is kept.
KeptAlerts(c) ==
  LET s == c.alerts
  IN  {s[i] : i \in {j \in DOMAIN s :
         Relevant(s[j]) /\ \A k \in 1..(j - 1) : ~SameKey(s[k], s[j])}}

AlertStatus(c, ans) ==
  IF ans[1] = "denied" THEN "ACCESS_DENIED"
  ELSE IF ans[1] = "error" THEN "SKIP"
  ELSE IF ans[1] = "garbled" \/ KeptAlerts(c) = {} THEN "PASS"
  ELSE IF \E a \in KeptAlerts(c) : a.severity = "critical" THEN "FAIL"
  ELSE "WARNING"

Calls(check) ==
  CASE check \in {"pod_status_and_restarts", "pko_clusterpackage_health",
                  "orphaned_olm_artifacts", "version_verification",
                  "dual_installation_check", "resource_leak_detection"} -> 2
    [] check \in {"leader_election", "log_error_analysis"} -> 3
    [] OTHER -> 1

Results(check, c, ans, past) ==
  CASE check = "namespace_status" -> One(check, NamespaceStatus(c, ans))
    [] check = "pod_status_and_restarts" -> One(check, PodStatus(c, ans))
    [] check = "pko_clusterpackage_health" -> PackageResults(c, ans)
    [] check = "dual_installation_check" -> One(check, DualStatus(c, ans))
    [] check = "orphaned_olm_artifacts" -> One(check, OrphanStatus(c, ans))
    [] check = "version_verification" -> One(check, VersionStatus(c, ans))
    [] check = "resource_leak_detection" -> <<LeakResult(c, ans)>>
    [] check = "resource_limits_validation" ->
         One(check, LimitsStatus(c, ans, past))
    [] check = "leader_election" -> One(check, LeaderStatus(c, ans))
    [] check = "image_pull_status" -> One(check, ImageStatus(c, ans))
    [] check = "pko_job_health" -> One(check, JobStatus(c, ans))
    [] check = "log_error_analysis" -> LogResults(c, ans)
    [] check = "operator_events" -> One(check, EventStatus(c, ans))
    [] check = "active_alerts" -> One(check, AlertStatus(c, ans))
=============================================================================
