----------------------------- MODULE MccChecks -----------------------------
(***************************************************************************)
(* pkg/checks/mcc/mcc.go: the checks of the cluster itself, its nodes and  *)
(* its machines.  A refused list of machines is asked for again by an      *)
(* elevated user, if there may be one: that is one call here.              *)
(* Its facts:                                                              *)
(*   type         "management_cluster", "service_cluster" or "other"       *)
(*   aws, rosa, hypershift, multiAZ   of the metadata; version  of the     *)
(*                cluster, <<major, minor>>                                *)
(*   nodes        a sequence of [role, ready, pressure, cordoned, kubelet] *)
(*   oldest       the age of the oldest one, in days                       *)
(*   failed, pending   pods on them                                        *)
(*   cpu, memory  whether there are series of the nodes                    *)
(*   apiPods      the controller's pod is found by its label ("labelled"), *)
(*                by its name only ("named") or not ("none")               *)
(*   apiErrors    error lines in the logs of its three containers          *)
(*   machineSets  a sequence of [desired, ready, ami], "none" for no AMI   *)
(*   machines     [failed, strays]: how many are in phase Failed, and have *)
(*                another AMI than their set                               *)
(*   boot         [enabled, degraded], the managed boot images             *)
(*   expectedAMI  the one of the ConfigMap, or "none"                      *)
(*   allowed      the AMIs on the list of the machine-config-operator      *)
(*   amiList      of this process: "unfetched", "fetched" or "failed"      *)
(*   dynatrace    what is left of it, of {"namespace", "crds", "rules",    *)
(*                "others"}                                                *)
(***************************************************************************)
EXTENDS CheckResults

\* RunChecks.
Order(c) ==
  <<"cluster_node_health", "cluster_node_resources", "cluster_node_counts",
    "cluster_node_pod_failures", "cluster_node_metrics",
    "cluster_machine_api_logs">>
  \o (IF c.aws THEN <<"cluster_machine_health", "cluster_managed_boot_images",
                      "cluster_ami_consistency">> ELSE <<>>)
  \o <<"cluster_dynatrace_artifacts">>

NodeHealthStatus(c, ans) ==
  LET notReady == {i \in DOMAIN c.nodes : ~c.nodes[i].ready}
  IN  IF ans[1] # "ok" THEN NoAnswer(ans[1], "FAIL")
      ELSE IF Cardinality(notReady) > 1 THEN "FAIL"
      ELSE IF \/ notReady # {}
              \/ \E n \in ToSet(c.nodes) : n.pressure \/ n.cordoned
        THEN "WARNING"
      ELSE "PASS"

\* An old node is only noted.
NodeResourcesStatus(c, ans) ==
  IF ans[1] # "ok" THEN "SKIP"
  ELSE IF Cardinality({n.kubelet : n \in ToSet(c.nodes)}) > 1 THEN "WARNING"
  ELSE IF c.oldest > 90 THEN "INFO"
  ELSE "PASS"

\* How many nodes have the role, as nodeRole says.
Having(c, role) == Len(SelectSeq(c.nodes, LAMBDA n : n.role = role))

NodeCountsStatus(c, ans) ==
  LET ofFleet == c.type \in {"management_cluster", "service_cluster"}
      least == IF c.multiAZ THEN 3 ELSE 2
      leastWorkers == IF ofFleet THEN 3 ELSE least
  IN  IF ans[1] # "ok" THEN "SKIP"
      ELSE IF c.hypershift
        THEN IF Having(c, "worker") < 2 THEN "WARNING" ELSE "PASS"
      ELSE IF Having(c, "master") < 3 THEN "FAIL"
      ELSE IF \/ ~ofFleet /\ Having(c, "infra") < least
              \/ Having(c, "worker") < leastWorkers THEN "WARNING"
      ELSE "PASS"

PodFailuresStatus(c, ans) ==
  IF ans[1] # "ok" THEN "SKIP"
  ELSE IF c.failed > 0 \/ c.pending > 5 THEN "WARNING"
  ELSE "PASS"

\* A node whose role is not known is a worker, and the workers of a management
\* cluster are left out.
NodeMetricsStatus(c, ans) ==
  LET series == \/ ans[1] = "ok" /\ c.cpu
                \/ ans[2] = "ok" /\ c.memory
      shown == \/ c.type # "management_cluster"
               \/ ans[3] = "ok" /\ Len(c.nodes) > Having(c, "worker")
  IN  IF series /\ shown THEN "INFO" ELSE "SKIP"

\* The pods by label, all pods, and the logs of the containers, of which one
\* that cannot be read has no errors.
APILogsStatus(c, ans) ==
  LET found == \/ ans[1] = "ok" /\ c.apiPods = "labelled"
               \/ ans[2] = "ok" /\ c.apiPods # "none"
  IN  IF ~found THEN "SKIP"
      ELSE IF \E i \in 1..3 : ans[i + 2] = "ok" /\ c.apiErrors[i] > 0
        THEN "WARNING"
      ELSE "PASS"

Replicas(c, field) ==
  MapThenSumSet(LAMBDA i : c.machineSets[i][field], DOMAIN c.machineSets)

\* The MachineSets and the Machines; the latter are Running if not read.
MachineHealthStatus(c, ans) ==
  IF ans[1] # "ok" THEN NoAnswer(ans[1], "WARNING")
  ELSE IF \/ ans[2] = "ok" /\ c.machines.failed > 0
          \/ Replicas(c, "ready") < Replicas(c, "desired") THEN "WARNING"
  ELSE "PASS"

\* Whether the images are managed where they should be, and only there.
ExpectedBoot(c) ==
  LET minor == c.version[2]
  IN  IF c.version[1] < 4 \/ (c.version[1] = 4 /\ minor < 18) THEN "any"
      ELSE IF c.rosa \/ c.version = <<4, 18>> THEN "disabled"
      ELSE IF c.version[1] = 4 THEN "enabled"
      ELSE "any"

BootImagesStatus(c, ans) ==
  IF ExpectedBoot(c) = "any" THEN "INFO"
  ELSE IF ans[1] # "ok" THEN Unread(ans[1])
  ELSE IF \/ c.boot.enabled # (ExpectedBoot(c) = "enabled")
          \/ c.boot.enabled /\ c.boot.degraded THEN "WARNING"
  ELSE "PASS"

\* isAllowedAMI fetches the list once in the life of the process: after a
\* failure no cluster has one.
ListAvailable(c, answer) ==
  \/ c.amiList = "fetched"
  \/ c.amiList = "unfetched" /\ answer = "ok"

\* An AMI that cannot be looked up is not compared with.
resolveExpectedAMI(c, answer) ==
  IF answer = "ok" THEN c.expectedAMI ELSE "none"

\* The ConfigMap, the MachineSets, the Machines and the list.
ConsistencyStatus(c, ans) ==
  LET amis == {s.ami : s \in ToSet(c.machineSets)} \ {"none"}
      expected == resolveExpectedAMI(c, ans[1])
      old == IF expected = "none" THEN {} ELSE amis \ {expected}
      custom == IF ListAvailable(c, ans[4]) THEN old \ c.allowed ELSE {}
  IN  IF ans[2] # "ok" \/ amis = {} THEN "SKIP"
      ELSE IF custom # {} THEN IF c.rosa THEN "PASS" ELSE "FAIL"
      ELSE IF \/ old # {}
              \/ ans[3] = "ok" /\ c.machines.strays > 0
              \/ Cardinality(amis) > 1 /\ ~c.rosa THEN "WARNING"
      ELSE "PASS"

\* What cannot be read is not there; the others share a call.
DynatraceStatus(c, ans) ==
  LET kinds == <<"namespace", "crds", "rules", "others">>
      found == {kinds[i] : i \in {j \in 1..4 : ans[j] = "ok"}}
                 \intersect c.dynatrace
  IN  IF found = {} THEN "PASS"
      ELSE IF "namespace" \notin found /\ found # {"others"} THEN "WARNING"
      ELSE "INFO"

Calls(check) ==
  CASE check = "cluster_machine_api_logs" -> 5
    [] check \in {"cluster_ami_consistency",
                  "cluster_dynatrace_artifacts"} -> 4
    [] check = "cluster_node_metrics" -> 3
    [] check = "cluster_machine_health" -> 2
    [] OTHER -> 1

Status(check, c, ans) ==
  CASE check = "cluster_node_health" -> NodeHealthStatus(c, ans)
    [] check = "cluster_node_resources" -> NodeResourcesStatus(c, ans)
    [] check = "cluster_node_counts" -> NodeCountsStatus(c, ans)
    [] check = "cluster_node_pod_failures" -> PodFailuresStatus(c, ans)
    [] check = "cluster_node_metrics" -> NodeMetricsStatus(c, ans)
    [] check = "cluster_machine_api_logs" -> APILogsStatus(c, ans)
    [] check = "cluster_machine_health" -> MachineHealthStatus(c, ans)
    [] check = "cluster_managed_boot_images" -> BootImagesStatus(c, ans)
    [] check = "cluster_ami_consistency" -> ConsistencyStatus(c, ans)
    [] check = "cluster_dynatrace_artifacts" -> DynatraceStatus(c, ans)

Results(check, c, ans) == One(check, Status(check, c, ans))
=============================================================================
