----------------------------- MODULE HcpChecks -----------------------------
(***************************************************************************)
(* pkg/checks/hcp/hcp.go: the hosted control planes of a management        *)
(* cluster.  The first check hands over the namespaces of the healthy ones *)
(* to the other checks, the second the pods it finds concerning: left is   *)
(* [hcps, pods], the former as indices of the fact hcps.                   *)
(* Its facts:                                                              *)
(*   elevation   see CheckResults                                          *)
(*   hcps        the hosted clusters, a sequence of [state, pods, running, *)
(*               missing, deployments, down, nodes]: "healthy", "degraded",*)
(*               "unavailable", "deleting" or, for more than an hour,      *)
(*               "stuck"; a sequence of the pods that have not completed;  *)
(*               how many pods run, and have no metrics; how many          *)
(*               deployments there are, and lack replicas; its nodes       *)
(*     a pod is [oom, unready, crashing, restarts, ratio, mem, errors]: its*)
(*               memory relative to the request and in MiB, and whether    *)
(*               its log has errors                                        *)
(*   memory      the memory of the workloads over a week, a sequence of    *)
(*               sequences of numbers; cpu   whether there is such of CPU  *)
(*   events      a set of [type, workload, hour]: "oom", "restart" and     *)
(*               "new_pod"                                                 *)
(* The namespaces but the first share a call.                              *)
(***************************************************************************)
EXTENDS CheckResults

\* RunChecks.
Order == <<"hcp_namespace_health", "hcp_pod_health", "hcp_deployment_health",
           "hcp_resource_trends", "hcp_metrics_coverage", "hcp_pod_logs",
           "hcp_serving_nodes">>

\* The list is asked for again as an elevated user; an error, or a refusal of
\* that too, makes it an empty one in every check that follows.
Listed(c, ans) ==
  \/ ans[1] = "ok"
  \/ ans[1] = "denied" /\ CanElevate(c) /\ ans[2] = "ok"

States(c) == {h.state : h \in ToSet(c.hcps)}

NamespaceStatus(c, ans) ==
  IF ~Listed(c, ans) THEN "SKIP"
  ELSE IF c.hcps = <<>> THEN "INFO"
  ELSE IF States(c) \intersect {"degraded", "unavailable", "stuck"} # {}
    THEN "WARNING"
  ELSE "PASS"

Namespaces(c, ans) ==
  IF Listed(c, ans)
    THEN SelectSeq([i \in DOMAIN c.hcps |-> i],
                   LAMBDA i : c.hcps[i].state = "healthy")
  ELSE <<>>

\* The hosted clusters handed over for which the call of their namespace is
\* answered, the first of these calls being that of the given index.
Seen(c, ans, left, first) ==
  LET Ok(k) == ans[IF k = 1 THEN first ELSE first + 1] = "ok"
  IN  [k \in {j \in DOMAIN left.hcps : Ok(j)} |-> c.hcps[left.hcps[k]]]

\* analyzePod: without metrics there is no memory to judge.
Ratio(pod, answer) == IF answer = "ok" THEN pod.ratio ELSE 0
Concerning(pod, answer) ==
  \/ pod.oom \/ pod.unready \/ pod.crashing \/ pod.restarts > 5
  \/ Ratio(pod, answer) > 5

\* The concerning ones of the pods that checkPodHealth looks at.
Concerns(c, ans, left) ==
  LET seen == Seen(c, ans, left, 2)
  IN  {p \in UNION {ToSet(seen[k].pods) : k \in DOMAIN seen} :
         Concerning(p, ans[1])}

\* What it returns: the list of them by their memory, the largest first.
ConcerningPods(c, ans, left) ==
  LET seen == Seen(c, ans, left, 2)
      Pods(k) == IF k \in DOMAIN seen THEN seen[k].pods ELSE <<>>
      pods == SelectSeq(FlattenSeq([k \in DOMAIN left.hcps |-> Pods(k)]),
                        LAMBDA p : Concerning(p, ans[1]))
      Mem(p) == IF ans[1] = "ok" THEN p.mem ELSE 0
  IN  SortSeq([i \in DOMAIN pods |-> [pods[i] EXCEPT !.mem = Mem(pods[i])]],
              LAMBDA p, q : p.mem > q.mem)

\* A pod that only crash-loops is concerning, and counted under no heading.
PodStatus(c, ans, left) ==
  LET pods == Concerns(c, ans, left)
  IN  IF left.hcps = <<>> THEN "INFO"
      ELSE IF \E p \in pods : p.oom THEN "FAIL"
      ELSE IF \E p \in pods :
                p.unready \/ p.restarts > 5 \/ Ratio(p, ans[1]) > 5
        THEN "WARNING"
      ELSE "PASS"

\* A hosted cluster all of whose deployments are down is taken for one that
\* hibernates; four of them that lack replicas are too many.
DeploymentStatus(c, ans, left) ==
  LET seen == Seen(c, ans, left, 1)
      degraded == {k \in DOMAIN seen : seen[k].down > 0}
      partial == {k \in degraded : seen[k].down < seen[k].deployments}
  IN  IF left.hcps = <<>> THEN "INFO"
      ELSE IF degraded = {} THEN "PASS"
      ELSE IF partial = {} THEN "INFO"
      ELSE IF kSubset(4, degraded) # {} THEN "FAIL"
      ELSE "WARNING"

SumOf(values, first, last) ==
  FoldLeft(LAMBDA sum, v : sum + v, 0, SubSeq(values, first, last))

\* The last quarter of the points is more than a fifth above the first.
Rising(v) ==
  LET quarter == Len(v) \div 4
      early == SumOf(v, 1, quarter)
      late == SumOf(v, Len(v) - quarter + 1, Len(v))
  IN  early > 0 /\ (late - early) * 100 > 20 * early

\* Three drops by more than 40%, each after some growth by more than 2%.
Sawtooth(v) ==
  LET Walk(acc, i) ==
        IF v[i - 1] > 0 /\ (v[i - 1] - v[i]) * 10 > v[i - 1] * 4
          THEN [drops |-> acc.drops + 1, growing |-> FALSE,
                grown |-> acc.grown + (IF acc.growing THEN 1 ELSE 0)]
        ELSE IF v[i] * 50 > v[i - 1] * 51 THEN [acc EXCEPT !.growing = TRUE]
        ELSE acc
      seen == FoldLeft(Walk, [drops |-> 0, growing |-> FALSE, grown |-> 0],
                       [k \in 1..Len(v) - 1 |-> k + 1])
  IN  seen.drops >= 3 /\ seen.grown >= 3

\* Each of four segments is above the one before, by 30% in all.
NoPlateau(v) ==
  LET size == Len(v) \div 4
      sum == [s \in 1..4 |-> SumOf(v, (s - 1) * size + 1, s * size)]
  IN  /\ Len(v) >= 16 /\ sum[1] > 0
      /\ \A s \in 1..3 : sum[s] < sum[s + 1]
      /\ (sum[4] - sum[1]) * 100 > 30 * sum[1]

Leaks(v) == Len(v) >= 8 /\ (Rising(v) \/ Sawtooth(v) \/ NoPlateau(v))

\* Every event of a workload in an hour counts once, new pods too; a restart
\* does not count beside an OOM.  The calls 3..5 ask for the kinds.
Kinds == <<"oom", "restart", "new_pod">>
Events(c, ans) ==
  LET read == {e \in c.events :
                 \E k \in 1..3 : e.type = Kinds[k] /\ ans[k + 2] = "ok"}
  IN  {e \in read :
         e.type = "restart" => [e EXCEPT !.type = "oom"] \notin read}

TrendsStatus(c, ans, left) ==
  LET memory == IF ans[1] = "ok" THEN c.memory ELSE <<>>
      events == Events(c, ans)
  IN  IF left.pods = <<>> THEN "PASS"
      ELSE IF memory = <<>> /\ ~(ans[2] = "ok" /\ c.cpu) /\ events = {}
        THEN "SKIP"
      ELSE IF \E v \in ToSet(memory) : Leaks(v) THEN "FAIL"
      ELSE IF \/ \E p \in ToSet(left.pods) : p.mem > 1024
              \/ Cardinality(events) > 20 THEN "WARNING"
      ELSE "PASS"

\* The pods of the namespaces that were listed, and the metrics of all.
CoverageStatus(c, ans, left) ==
  LET seen == Seen(c, ans, left, 1)
      running == MapThenSumSet(LAMBDA k : seen[k].running, DOMAIN seen)
      missing == MapThenSumSet(LAMBDA k : seen[k].missing, DOMAIN seen)
  IN  IF running = 0 THEN "SKIP"
      ELSE IF ans[3] # "ok" THEN "INFO"
      ELSE IF ((running - missing) * 100) \div running >= 90 THEN "PASS"
      ELSE "WARNING"

\* The logs of the first five pods, those but the first sharing a call.
LogsStatus(ans, left) ==
  LET targets == SubSeq(left.pods, 1, Min({5, Len(left.pods)}))
      read == {i \in DOMAIN targets : ans[IF i = 1 THEN 1 ELSE 2] = "ok"}
  IN  IF targets = <<>> THEN "PASS"
      ELSE IF read = {} THEN "INFO"
      ELSE IF \E i \in read : targets[i].errors THEN "WARNING"
      ELSE "PASS"

\* When none has nodes, that is only noted.
NodesStatus(c, ans, left) ==
  LET seen == Seen(c, ans, left, 1)
      without == {k \in DOMAIN seen : seen[k].nodes = 0}
  IN  IF left.hcps = <<>> THEN "SKIP"
      ELSE IF without # {} /\ without # DOMAIN seen THEN "WARNING"
      ELSE "INFO"

Calls(check) ==
  CASE check = "hcp_resource_trends" -> 5
    [] check \in {"hcp_pod_health", "hcp_metrics_coverage"} -> 3
    [] OTHER -> 2

\* What the checks that follow are given.
Handed(check, c, ans, left) ==
  CASE check = "hcp_namespace_health" ->
         [left EXCEPT !.hcps = Namespaces(c, ans)]
    [] check = "hcp_pod_health" ->
         [left EXCEPT !.pods = ConcerningPods(c, ans, left)]
    [] OTHER -> left

Status(check, c, ans, left) ==
  CASE check = "hcp_namespace_health" -> NamespaceStatus(c, ans)
    [] check = "hcp_pod_health" -> PodStatus(c, ans, left)
    [] check = "hcp_deployment_health" -> DeploymentStatus(c, ans, left)
    [] check = "hcp_resource_trends" -> TrendsStatus(c, ans, left)
    [] check = "hcp_metrics_coverage" -> CoverageStatus(c, ans, left)
    [] check = "hcp_pod_logs" -> LogsStatus(ans, left)
    [] check = "hcp_serving_nodes" -> NodesStatus(c, ans, left)

Results(check, c, ans, left) == One(check, Status(check, c, ans, left))
=============================================================================
