----------------------------- MODULE RlrCentral -----------------------------
(***************************************************************************)
(* pkg/checks/rlr/central.go: the checks of the central log pipeline, made *)
(* once for an environment and replayed for every management cluster.      *)
(*                                                                         *)
(* The clusters are checked at the same time, each by a goroutine.  The    *)
(* first to come makes the checks inside sync.Once.Do, with its own        *)
(* context and for its own cluster; those that come meanwhile wait in Do,  *)
(* and all of them add what was stored to their results.  A process talks  *)
(* to one OCM URL, so that there is one environment.                       *)
(*                                                                         *)
(* The pipeline, a record: osdctl and profile, whether either gives        *)
(* credentials; named, whether the optional names (a namespace of metrics, *)
(* a table, an endpoint) are configured; regions, per region a record of   *)
(*   depth, dead, age        of the queue and the dead-letter queue        *)
(*   errors, calls, dropped, throttled   of the function, in 15 minutes    *)
(*   duration    <<>> or <<p99, p50>>, in seconds                          *)
(*   sent, failed            deliveries, in 15 minutes                     *)
(*   health                  whether the endpoint answers 200              *)
(*   api         whether it is found; trace, and ttls of its authorizers   *)
(* A cluster's vector configuration is <<timeout_secs, max_bytes in MB>>,  *)
(* 0 where it has no such line, or <<>> where there is no ConfigMap.       *)
(***************************************************************************)
EXTENDS CheckResults

CONSTANTS
  Clusters,    \* the management clusters
  Pipelines,   \* what the account may show
  HealthyOnes, \* those of them with nothing to report
  Turns,       \* what it may come to show meanwhile
  Vectors,     \* the vector configurations a cluster may have
  MaxFaults    \* bound: changes and unanswered calls to come

\* The facts, as described above.
RegionFacts ==
  [depth : Nat, dead : Nat, age : Nat, errors : Nat, calls : Nat,
   dropped : Nat, throttled : Nat, duration : {<<>>} \union (Nat \X Nat),
   sent : Nat, failed : Nat, health : BOOLEAN, api : BOOLEAN,
   trace : BOOLEAN, ttls : Seq(Nat)]
PipelineFacts ==
  [osdctl : BOOLEAN, profile : BOOLEAN, named : BOOLEAN,
   regions : Seq(RegionFacts)]

\* A region with nothing to report: empty dead-letter queue, young and few
\* messages, calls without an error, and one delivery in twenty fails at most.
NothingWrong(r) ==
  /\ r.depth < 10000 /\ r.dead = 0 /\ r.age < 3600
  /\ r.errors = 0 /\ r.calls > 0 /\ r.dropped = 0 /\ r.throttled = 0
  /\ r.duration # <<>> => r.duration[1] < 30 /\ r.duration[2] < 10
  /\ r.failed = 0 \/ 20 * r.failed < r.sent + r.failed
  /\ r.health /\ ~r.trace /\ \A i \in DOMAIN r.ttls : r.ttls[i] = 0

ASSUME RlrCentralAssumption ==
  /\ MaxFaults \in Nat
  /\ Pipelines \subseteq PipelineFacts
  /\ HealthyOnes \union Turns \subseteq Pipelines
  /\ \A p \in HealthyOnes : \A i \in DOMAIN p.regions :
       NothingWrong(p.regions[i])

VARIABLES
  pipeline,   \* what the account shows
  vector,     \* the vector configuration of each cluster
  faults,     \* changes and unanswered calls still to come
  changed,    \* history: whether the account came to show something else
  cancelled,  \* ctx is done
  at,         \* where each cluster's goroutine is
  once,       \* centralOnce: "new", "busy" or "done"
  position,   \* the next check of executeCentralChecks
  collected,  \* its results so far
  stored,     \* centralResults
  report,     \* what each cluster's goroutine added to its results
  executed    \* history: how often the checks were begun

inputs == <<pipeline, vector, faults, changed, cancelled>>
run == <<position, collected, executed>>
vars == <<inputs, at, once, run, stored, report>>

(***************************************************************************)
(* The checks.                                                             *)
(***************************************************************************)
Regions == DOMAIN pipeline.regions

\* One region after the other, all of the checks.
PerRegion(checks) ==
  LET k == Len(checks)
  IN  [n \in 1..k * Len(pipeline.regions) |->
         <<checks[1 + ((n - 1) % k)], 1 + ((n - 1) \div k)>>]

\* executeCentralChecks: a check and the region it is about, 0 for none.
Order ==
  PerRegion(<<"sqs_queue_depth", "sqs_dlq_messages", "sqs_oldest_message">>)
  \o PerRegion(<<"lambda_errors", "lambda_invocations",
                 "lambda_recursive_drops", "lambda_throttles",
                 "lambda_duration">>)
  \o (IF Regions = {} THEN <<>> ELSE <<<<"enrolled_tenant_count", 0>>>>)
  \o PerRegion(<<"delivery_success_rate">>)
  \o PerRegion(<<"api_health", "api_data_trace", "authorizer_cache">>)
  \o <<<<"vector_batch_config", 0>>>>

\* At the second limit or beyond, at the first, or below both.
Graded(value, warn, fail) ==
  IF value >= fail THEN "FAIL" ELSE IF value >= warn THEN "WARNING"
  ELSE "PASS"

Positive(value, alarm) == IF value > 0 THEN alarm ELSE "PASS"

DurationStatus(d) ==
  IF d = <<>> THEN "INFO"
  ELSE IF d[1] >= 30 \/ d[2] >= 10 THEN "WARNING"
  ELSE "PASS"

\* Mutant: the rate is one of failures to successes.
DeliveryStatusOfRatio(sent, failed) ==
  IF sent + failed = 0 THEN "INFO"
  ELSE IF sent = 0 THEN "FAIL"
  ELSE Graded((100 * failed) \div sent, 5, 20)

\* Of all the deliveries, those that failed, in per cent.
DeliveryStatus(sent, failed) ==
  IF sent + failed = 0 THEN "INFO"
  ELSE Graded((100 * failed) \div (sent + failed), 5, 20)

AuthorizerStatus(r) ==
  IF ~r.api \/ r.ttls = <<>> THEN "SKIP"
  ELSE Positive(Max(ToSet(r.ttls)), "FAIL")

\* Of the two settings those that are found are judged.
VectorStatus(v) ==
  IF v = <<>> THEN "SKIP"
  ELSE IF v[1] \in 1..59 \/ v[2] \in 1..9 THEN "WARNING"
  ELSE IF v = <<0, 0>> THEN "INFO"
  ELSE "PASS"

\* What a check decides when its calls, two at most, are answered by ans.  A
\* number of deliveries that cannot be read is none.
Status(check, r, v, ans) ==
  LET Read(answer, number) == IF answer = "ok" THEN number ELSE 0
      named == pipeline.named
      Only(status) == IF ans[1] = "ok" THEN status ELSE "SKIP"
  IN  CASE check = "sqs_queue_depth" -> Only(Graded(r.depth, 10000, 100000))
        [] check = "sqs_dlq_messages" -> Only(Graded(r.dead, 1, 101))
        [] check = "sqs_oldest_message" -> Only(Graded(r.age, 3600, 86400))
        [] check = "lambda_errors" -> Only(Positive(r.errors, "FAIL"))
        [] check = "lambda_invocations" ->
             Only(IF r.calls > 0 THEN "PASS" ELSE "WARNING")
        [] check = "lambda_recursive_drops" ->
             Only(Positive(r.dropped, "FAIL"))
        [] check = "lambda_throttles" -> Only(Positive(r.throttled, "WARNING"))
        [] check = "lambda_duration" -> Only(DurationStatus(r.duration))
        [] check = "enrolled_tenant_count" ->
             IF named THEN Only("INFO") ELSE "SKIP"
        [] check = "delivery_success_rate" ->
             IF ~named THEN "SKIP"
             ELSE DeliveryStatus(Read(ans[1], r.sent), Read(ans[2], r.failed))
        [] check = "api_health" ->
             IF ~named THEN "SKIP"
             ELSE IF ans[1] = "ok" /\ r.health THEN "PASS"
             ELSE "FAIL"
        [] check = "api_data_trace" ->
             Only(IF ~r.api THEN "SKIP"
                  ELSE IF r.trace THEN "FAIL" ELSE "PASS")
        [] check = "authorizer_cache" -> Only(AuthorizerStatus(r))
        [] check = "vector_batch_config" ->
             IF ans[1] = "ok" THEN VectorStatus(v) ELSE Unread(ans[1])

(***************************************************************************)
(* The actions.                                                            *)
(***************************************************************************)
Goto(mc, place) == at' = [at EXCEPT ![mc] = place]

\* The first to come runs what is passed to Do.
Enter(mc) ==
  /\ at[mc] = "before"
  /\ once = "new"
  /\ once' = "busy" /\ executed' = executed + 1
  /\ Goto(mc, "credentials")
  /\ UNCHANGED <<inputs, position, collected, stored, report>>

\* Mutant: a flag says that the checks were begun, and nobody waits.
ComeLaterAtOnce(mc) ==
  /\ at[mc] = "before"
  /\ once # "new"
  /\ Goto(mc, "replay")
  /\ UNCHANGED <<inputs, once, run, stored, report>>

\* Whoever comes later gets past Do once the first has.
ComeLater(mc) ==
  /\ at[mc] = "before"
  /\ once = "done"
  /\ Goto(mc, "replay")
  /\ UNCHANGED <<inputs, once, run, stored, report>>

\* osdctl is tried first, unless the context is done; the profile is not
\* tried out, the checks find out.
Acquire(mc) ==
  /\ at[mc] = "credentials"
  /\ IF (pipeline.osdctl /\ ~cancelled) \/ pipeline.profile
       THEN Goto(mc, "checks") /\ UNCHANGED collected
     ELSE /\ collected' = One(<<"credentials", 0>>, "INFO")
          /\ Goto(mc, "store")
  /\ UNCHANGED <<inputs, once, position, executed, stored, report>>

\* The answers to the calls of a check.
Replies == [1..2 -> {"ok", "error"}] \union {<<"denied", "ok">>}

\* Once the context is done every call fails; only the check of the cluster's
\* own configuration tells a refusal from a failure.
RunCheck(mc) ==
  /\ at[mc] = "checks" /\ position <= Len(Order)
  /\ \E ans \in Replies :
       LET check == Order[position]
           r == IF check[2] = 0 THEN <<>> ELSE pipeline.regions[check[2]]
           lost == Cardinality({i \in 1..2 : ans[i] # "ok"})
       IN  /\ IF cancelled THEN ans = <<"error", "error">>
              ELSE lost <= faults
           /\ collected' =
                Append(collected,
                       Result(check, Status(check[1], r, vector[mc], ans)))
           /\ faults' = IF cancelled THEN faults ELSE faults - lost
  /\ position' = position + 1
  /\ UNCHANGED <<pipeline, vector, changed, cancelled, at, once, executed,
                 stored, report>>

EndChecks(mc) ==
  /\ at[mc] = "checks" /\ position > Len(Order)
  /\ Goto(mc, "store")
  /\ UNCHANGED <<inputs, once, run, stored, report>>

\* Mutant: the results are stored, and Do is not left.
StoreAndStay(mc) ==
  /\ at[mc] = "store"
  /\ stored' = collected
  /\ Goto(mc, "replay")
  /\ UNCHANGED <<inputs, once, run, report>>

\* storeCentralResults, and the end of Do.
Store(mc) ==
  /\ at[mc] = "store"
  /\ stored' = collected /\ once' = "done"
  /\ Goto(mc, "replay")
  /\ UNCHANGED <<inputs, run, report>>

\* AddResult, for each of the results.
Replay(mc) ==
  /\ at[mc] = "replay"
  /\ report' = [report EXCEPT ![mc] = @ \o stored]
  /\ Goto(mc, "after")
  /\ UNCHANGED <<inputs, once, run, stored>>

Step(mc) ==
  \/ Enter(mc) \/ ComeLater(mc) \/ Acquire(mc) \/ RunCheck(mc)
  \/ EndChecks(mc) \/ Store(mc) \/ Replay(mc)

\* The account shows something else.
Change ==
  /\ faults > 0 /\ once = "busy"
  /\ \E p \in Turns :
       /\ DOMAIN p.regions = Regions /\ p # pipeline
       /\ pipeline' = p
  /\ faults' = faults - 1 /\ changed' = TRUE
  /\ UNCHANGED <<vector, cancelled, at, once, run, stored, report>>

Interrupt ==
  /\ ~cancelled
  /\ cancelled' = TRUE
  /\ UNCHANGED <<pipeline, vector, faults, changed, at, once, run, stored,
                 report>>

Init ==
  /\ pipeline \in Pipelines
  /\ vector \in [Clusters -> Vectors]
  /\ faults = MaxFaults /\ changed = FALSE /\ cancelled = FALSE
  /\ at = [mc \in Clusters |-> "before"] /\ once = "new"
  /\ position = 1 /\ collected = <<>> /\ executed = 0
  /\ stored = <<>> /\ report = [mc \in Clusters |-> <<>>]

Next == (\E mc \in Clusters : Step(mc)) \/ Change \/ Interrupt

\* A goroutine that can go on does: the calls return, answered or not.
Spec == Init /\ [][Next]_vars /\ \A mc \in Clusters : WF_vars(Step(mc))

(***************************************************************************)
(* Properties.                                                             *)
(***************************************************************************)
Places == {"before", "credentials", "checks", "store", "replay", "after"}

\* What the results are about, and lists of them.
Subjects == ToSet(Order) \union {<<"credentials", 0>>}
ResultLists == Seq([check : Subjects, status : Statuses])

\* The types of the package's variables and of the goroutines' progress.
TypeOK ==
  /\ pipeline \in Pipelines /\ vector \in [Clusters -> Vectors]
  /\ at \in [Clusters -> Places] /\ once \in {"new", "busy", "done"}
  /\ position \in 1..Len(Order) + 1
  /\ collected \in ResultLists /\ stored \in ResultLists
  /\ report \in [Clusters -> ResultLists]
  /\ cancelled \in BOOLEAN /\ changed \in BOOLEAN
  /\ faults \in 0..MaxFaults /\ executed \in Nat

\* The goroutine inside Do, and the checks some results are about.
Inside == {"credentials", "checks", "store"}
ChecksOf(rs) == [i \in DOMAIN rs |-> rs[i].check]
Whole(rs) == ChecksOf(rs) \in {Order, <<<<"credentials", 0>>>>}

\* runCentralPipelineChecks asks the account once, however many clusters come
\* at the same time, and gives all of them the same report, in which no check
\* is missing or comes twice.
OneStory ==
  /\ executed <= 1
  /\ \A mc \in Clusters : at[mc] = "after" =>
       report[mc] = stored /\ Whole(report[mc])

\* Do lets one goroutine in; what it has collected are the checks up to the
\* next one, and what was added to a report is what it stored.
OnceInv ==
  /\ executed = IF once = "new" THEN 0 ELSE 1
  /\ once = "new" => position = 1 /\ collected = <<>>
  /\ \A mc \in Clusters :
       /\ at[mc] \in Inside => once = "busy"
       /\ at[mc] \in {"replay", "after"} => once = "done"
       /\ at[mc] \in Inside =>
            \A other \in Clusters : at[other] \in Inside => other = mc
       /\ at[mc] = "credentials" => position = 1 /\ collected = <<>>
       /\ at[mc] = "checks" =>
            /\ Len(collected) = position - 1
            /\ \A i \in 1..position - 1 : collected[i].check = Order[i]
       /\ at[mc] = "store" => Whole(collected)
       /\ report[mc] = IF at[mc] = "after" THEN stored ELSE <<>>
  /\ once = "done" => Whole(stored)

\* The checks that alarm a healthy pipeline when a call is not answered.
AlarmsUnread == {"delivery_success_rate", "api_health"}

Undisturbed == faults = MaxFaults /\ ~cancelled

AllWell ==
  /\ pipeline \in HealthyOnes /\ ~changed
  /\ \A mc \in Clusters : VectorStatus(vector[mc]) # "WARNING"

Quiet(rs) ==
  \A i \in DOMAIN rs : rs[i].status \in Alarms =>
    rs[i].check[1] \in AlarmsUnread /\ ~Undisturbed

\* Missing credentials, failed calls and Ctrl-C alarm nobody: while the account
\* shows nothing wrong and no cluster's configuration is, the reports are free
\* of alarms, but for the two checks that take no answer for a failure; and for
\* those too when every call is answered.
QuietWhenHealthy == AllWell => \A mc \in Clusters : Quiet(report[mc])

\* And so is what is collected and stored for the reports.
QuietInv ==
  /\ AllWell => Quiet(collected) /\ Quiet(stored)
  /\ QuietWhenHealthy

\* No cluster is left waiting for the first: each comes to its report.
EveryoneReports ==
  \A mc \in Clusters : <>(at[mc] = "after")
=============================================================================
