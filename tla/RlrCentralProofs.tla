-------------------------- MODULE RlrCentralProofs --------------------------
(***************************************************************************)
(* Proofs about the central checks of the log pipeline: sync.Once lets one *)
(* goroutine run them, every cluster gets the same whole report, and where *)
(* nothing is wrong nothing alarms but the two checks that take a call     *)
(* without an answer for a failure.                                        *)
(***************************************************************************)
EXTENDS RlrCentral, FiniteSetTheorems, TLAPS

(***************************************************************************)
(* The order of executeCentralChecks.                                      *)
(***************************************************************************)
\* The checks made per region, and those made once.
RegionChecks ==
  {"sqs_queue_depth", "sqs_dlq_messages", "sqs_oldest_message",
   "lambda_errors", "lambda_invocations", "lambda_recursive_drops",
   "lambda_throttles", "lambda_duration", "delivery_success_rate",
   "api_health", "api_data_trace", "authorizer_cache"}
SingleChecks == {"enrolled_tenant_count", "vector_batch_config"}
Steps == (RegionChecks \X Regions) \union (SingleChecks \X {0})

\* A loop over the regions, and in it over three checks, five or one, makes
\* checks of these regions only.
LEMMA RegionByRegion ==
  ASSUME pipeline \in PipelineFacts,
         NEW S, NEW checks \in Seq(S), Len(checks) \in {1, 3, 5}
  PROVE  PerRegion(checks) \in Seq(S \X Regions)
<1> DEFINE m == Len(pipeline.regions)
           k == Len(checks)
<1>1. m \in Nat /\ Regions = 1..m
  BY DEF PipelineFacts, Regions
<1>2. PerRegion(checks) = [n \in 1..k * m |->
         <<checks[1 + ((n - 1) % k)], 1 + ((n - 1) \div k)>>]
  BY DEF PerRegion
<1>3. k * m \in Nat
  BY <1>1
<1>4. ASSUME NEW n \in 1..k * m
      PROVE  <<checks[1 + ((n - 1) % k)], 1 + ((n - 1) \div k)>>
               \in S \X Regions
  <2>1. 1 + ((n - 1) % k) \in 1..k /\ 1 + ((n - 1) \div k) \in 1..m
    <3>1. CASE k = 1
      BY <1>1, <3>1
    <3>2. CASE k = 3
      BY <1>1, <3>2
    <3>3. CASE k = 5
      BY <1>1, <3>3
    <3> QED
      BY <3>1, <3>2, <3>3
  <2> QED
    BY <1>1, <2>1
<1> HIDE DEF m, k
<1> QED
  BY <1>2, <1>3, <1>4

\* The checks are a list, of checks per region and of checks made once.
LEMMA OrderIsList ==
  ASSUME pipeline \in PipelineFacts
  PROVE  Order \in Seq(Steps)
<1> DEFINE sqs == <<"sqs_queue_depth", "sqs_dlq_messages",
                    "sqs_oldest_message">>
           lambda == <<"lambda_errors", "lambda_invocations",
                       "lambda_recursive_drops", "lambda_throttles",
                       "lambda_duration">>
           delivery == <<"delivery_success_rate">>
           api == <<"api_health", "api_data_trace", "authorizer_cache">>
           enrolled == IF Regions = {} THEN <<>>
                       ELSE <<<<"enrolled_tenant_count", 0>>>>
           batch == <<<<"vector_batch_config", 0>>>>
<1>1. /\ sqs \in Seq(RegionChecks) /\ Len(sqs) = 3
      /\ lambda \in Seq(RegionChecks) /\ Len(lambda) = 5
      /\ delivery \in Seq(RegionChecks) /\ Len(delivery) = 1
      /\ api \in Seq(RegionChecks) /\ Len(api) = 3
  BY DEF RegionChecks
<1>2. enrolled \in Seq(Steps) /\ batch \in Seq(Steps)
  BY DEF Steps, SingleChecks
<1>3. Order = PerRegion(sqs) \o PerRegion(lambda) \o enrolled
                \o PerRegion(delivery) \o PerRegion(api) \o batch
  BY DEF Order
<1> HIDE DEF sqs, lambda, delivery, api, enrolled, batch
<1>4. /\ PerRegion(sqs) \in Seq(RegionChecks \X Regions)
      /\ PerRegion(lambda) \in Seq(RegionChecks \X Regions)
      /\ PerRegion(delivery) \in Seq(RegionChecks \X Regions)
      /\ PerRegion(api) \in Seq(RegionChecks \X Regions)
  BY <1>1, RegionByRegion
<1>5. \A s : s \in Seq(RegionChecks \X Regions) => s \in Seq(Steps)
  BY DEF Steps
<1>6. /\ PerRegion(sqs) \in Seq(Steps) /\ PerRegion(lambda) \in Seq(Steps)
      /\ PerRegion(delivery) \in Seq(Steps) /\ PerRegion(api) \in Seq(Steps)
  BY <1>4, <1>5
<1> QED
  BY <1>2, <1>3, <1>6

(***************************************************************************)
(* What a check decides.                                                   *)
(***************************************************************************)
\* Every check has one of the statuses of types.go for every answer.
LEMMA StatusOfCheck ==
  ASSUME NEW s \in Steps, NEW r, NEW v, NEW ans \in Replies
  PROVE  Status(s[1], r, v, ans) \in Statuses
<1>1. s[1] \in RegionChecks \union SingleChecks
  BY DEF Steps
<1>2. \A status \in Statuses : NoAnswer(ans[1], status) \in Statuses
  BY DEF NoAnswer, Statuses
<1>3. Unread(ans[1]) \in Statuses
  BY <1>2 DEF Unread, Statuses
<1>4. \A value, alarm : alarm \in Statuses =>
        Positive(value, alarm) \in Statuses
  BY DEF Positive, Statuses
<1>5. \A x, y, z : Graded(x, y, z) \in Statuses
  BY DEF Graded, Statuses
<1>6. \A d : DurationStatus(d) \in Statuses
  BY DEF DurationStatus, Statuses
<1>7. \A x, y : DeliveryStatus(x, y) \in Statuses
  BY <1>5 DEF DeliveryStatus, Statuses
<1>8. \A x : AuthorizerStatus(x) \in Statuses
  BY <1>4 DEF AuthorizerStatus, Statuses
<1>9. VectorStatus(v) \in Statuses
  BY DEF VectorStatus, Statuses
<1>10. {"PASS", "WARNING", "FAIL", "SKIP", "INFO"} \subseteq Statuses
  BY DEF Statuses
<1> QED
  BY <1>1, <1>3, <1>4, <1>5, <1>6, <1>7, <1>8, <1>9, <1>10
     DEF Status, RegionChecks, SingleChecks

\* Where nothing is wrong with the region, the checks of executeCentralChecks
\* raise no alarm when they are answered; and but for the success rate and the
\* health of the endpoint, not when they are not.
LEMMA NothingToReport ==
  ASSUME pipeline \in PipelineFacts,
         NEW s \in Steps, NEW r, NEW v, NEW ans \in Replies,
         s[2] # 0 => r \in RegionFacts /\ NothingWrong(r),
         VectorStatus(v) # "WARNING",
         s[1] \in AlarmsUnread => ans = [i \in 1..2 |-> "ok"]
  PROVE  Status(s[1], r, v, ans) \notin Alarms
<1>1. CASE s[1] \in SingleChecks
  <2>1. VectorStatus(v) \notin Alarms
    BY DEF VectorStatus, Alarms
  <2>2. Unread(ans[1]) \notin Alarms
    BY DEF Unread, NoAnswer, Alarms
  <2> QED
    BY <1>1, <2>1, <2>2 DEF Status, SingleChecks, Alarms
<1>2. CASE s[1] \in RegionChecks
  <2>1. r \in RegionFacts /\ NothingWrong(r)
    BY <1>2 DEF Steps, SingleChecks, RegionChecks, Regions, PipelineFacts
  <2>2. /\ Graded(r.depth, 10000, 100000) = "PASS"
        /\ Graded(r.dead, 1, 101) = "PASS"
        /\ Graded(r.age, 3600, 86400) = "PASS"
    BY <2>1 DEF RegionFacts, NothingWrong, Graded
  <2>3. /\ Positive(r.errors, "FAIL") = "PASS"
        /\ Positive(r.dropped, "FAIL") = "PASS"
        /\ Positive(r.throttled, "WARNING") = "PASS"
    BY <2>1 DEF RegionFacts, NothingWrong, Positive
  <2>4. DurationStatus(r.duration) \notin Alarms
    BY <2>1 DEF RegionFacts, NothingWrong, DurationStatus, Alarms
  <2>5. AuthorizerStatus(r) \notin Alarms
    <3>1. CASE r.ttls = <<>>
      BY <3>1 DEF AuthorizerStatus, Alarms
    <3>2. CASE r.ttls # <<>>
      <4>1. ToSet(r.ttls) = {0}
        BY <2>1, <3>2 DEF RegionFacts, NothingWrong, ToSet
      <4>2. Max(ToSet(r.ttls)) = 0
        BY <4>1 DEF Max
      <4> QED
        BY <4>2 DEF AuthorizerStatus, Positive, Alarms
    <3> QED
      BY <3>1, <3>2
  <2>6. DeliveryStatus(r.sent, r.failed) \notin Alarms
    <3>1. /\ r.sent \in Nat /\ r.failed \in Nat
          /\ r.failed = 0 \/ 20 * r.failed < r.sent + r.failed
      BY <2>1 DEF RegionFacts, NothingWrong
    <3>2. CASE r.sent + r.failed = 0
      BY <3>2 DEF DeliveryStatus, Alarms
    <3>3. CASE r.sent + r.failed # 0
      <4> DEFINE total == r.sent + r.failed
                 rate == (100 * r.failed) \div total
      <4>1. rate < 5
        <5>1. total \in Nat /\ total > 0 /\ 100 * r.failed < 5 * total
          BY <3>1, <3>3
        <5> DEFINE x == 100 * r.failed
        <5>2. x \in Nat /\ x < 5 * total
          BY <3>1, <5>1
        <5> HIDE DEF total, x
        <5>3. x \div total \in Int /\ total * (x \div total) <= x
          BY <5>1, <5>2
        <5> DEFINE q == x \div total
        <5>4. SUFFICES ASSUME q >= 5
                       PROVE  FALSE
          BY <5>3 DEF x
        <5> HIDE DEF q
        <5>5. total * q \in Int /\ total * q >= 5 * total
          BY <5>1, <5>3, <5>4 DEF q
        <5> QED
          BY <5>1, <5>2, <5>3, <5>5 DEF q
      <4>2. rate \in Int
        BY <3>1, <3>3
      <4> HIDE DEF rate
      <4>3. Graded(rate, 5, 20) = "PASS"
        BY <4>1, <4>2 DEF Graded
      <4> USE DEF rate
      <4> QED
        BY <3>3, <4>3 DEF DeliveryStatus, Alarms
    <3> QED
      BY <3>2, <3>3
  <2>7. s[1] \in AlarmsUnread => ans[1] = "ok" /\ ans[2] = "ok"
    OBVIOUS
  <2>8. r.calls > 0 /\ r.health /\ ~r.trace
    BY <2>1 DEF NothingWrong
  <2> QED
    BY <1>2, <2>2, <2>3, <2>4, <2>5, <2>6, <2>7, <2>8
       DEF Status, RegionChecks, AlarmsUnread, Alarms
<1> QED
  BY <1>1, <1>2 DEF Steps

(***************************************************************************)
(* Types.                                                                  *)
(***************************************************************************)
\* Whatever the account comes to show, its regions are those it was asked for,
\* and with them the checks.
LEMMA SameChecks ==
  ASSUME TypeOK, [Next]_vars
  PROVE  /\ pipeline' \in Pipelines
         /\ Order' = Order /\ Regions' = Regions
         /\ Subjects' = Subjects /\ ResultLists' = ResultLists
<1>1. CASE pipeline' = pipeline
  BY <1>1 DEF TypeOK, Order, PerRegion, Regions, Subjects, ResultLists
<1>2. CASE Change
  <2>1. pipeline' \in Pipelines /\ DOMAIN pipeline'.regions = Regions
    BY <1>2, RlrCentralAssumption DEF Change
  <2>2. /\ pipeline.regions \in Seq(RegionFacts)
        /\ pipeline'.regions \in Seq(RegionFacts)
    BY <2>1, RlrCentralAssumption DEF TypeOK, PipelineFacts
  <2>3. Len(pipeline'.regions) = Len(pipeline.regions) /\ Regions' = Regions
    BY <2>1, <2>2 DEF Regions
  <2>4. \A checks : PerRegion(checks)' = PerRegion(checks)
    BY <2>3 DEF PerRegion
  <2>5. Order' = Order
    BY <2>3, <2>4 DEF Order
  <2> QED
    BY <2>1, <2>3, <2>5 DEF Subjects, ResultLists
<1> QED
  BY <1>1, <1>2
     DEF Next, Step, vars, inputs, run, Enter, ComeLater, Acquire, RunCheck,
         EndChecks, Store, Replay, Interrupt

\* Of the two calls at most, those that are lost can be counted.
LEMMA TwoCalls ==
  ASSUME NEW ans
  PROVE  IsFiniteSet({i \in 1..2 : ans[i] # "ok"})
<1> DEFINE calls == 2
<1>1. IsFiniteSet(1..calls)
  <2>1. calls \in Int
    OBVIOUS
  <2> HIDE DEF calls
  <2> QED
    BY <2>1, FS_Interval
<1>2. {i \in 1..2 : ans[i] # "ok"} \subseteq 1..2
  OBVIOUS
<1> QED
  BY <1>1, <1>2, FS_Subset

\* What RunCheck adds, and what it takes from the faults to come.
LEMMA CheckMade ==
  ASSUME TypeOK, NEW mc \in Clusters, RunCheck(mc)
  PROVE  /\ pipeline \in PipelineFacts /\ Order \in Seq(Steps)
         /\ position \in 1..Len(Order)
         /\ position' = position + 1
         /\ \E ans \in Replies :
              LET s == Order[position]
                  r == IF s[2] = 0 THEN <<>> ELSE pipeline.regions[s[2]]
              IN  /\ s \in Steps
                  /\ collected' = Append(collected,
                       Result(s, Status(s[1], r, vector[mc], ans)))
                  /\ ans # [i \in 1..2 |-> "ok"] =>
                       cancelled \/ faults' < faults
                  /\ faults' \in 0..faults
<1>1. pipeline \in PipelineFacts /\ Order \in Seq(Steps)
  BY OrderIsList, RlrCentralAssumption DEF TypeOK
<1>2. position \in 1..Len(Order) /\ position' = position + 1
  BY <1>1 DEF TypeOK, RunCheck
<1> DEFINE s == Order[position]
           r == IF s[2] = 0 THEN <<>> ELSE pipeline.regions[s[2]]
           Lost(ans) == Cardinality({i \in 1..2 : ans[i] # "ok"})
<1>3. PICK ans \in Replies :
        /\ IF cancelled THEN ans = <<"error", "error">>
           ELSE Lost(ans) <= faults
        /\ collected' = Append(collected,
                               Result(s, Status(s[1], r, vector[mc], ans)))
        /\ faults' = IF cancelled THEN faults ELSE faults - Lost(ans)
  BY DEF RunCheck
<1>4. IsFiniteSet({i \in 1..2 : ans[i] # "ok"})
  BY TwoCalls
<1>5. Lost(ans) \in Nat
  BY <1>4, FS_CardinalityType
<1>6. ans # [i \in 1..2 |-> "ok"] => Lost(ans) > 0
  <2> SUFFICES ASSUME ans # [i \in 1..2 |-> "ok"], Lost(ans) = 0
               PROVE  FALSE
    BY <1>5
  <2>1. \A i \in 1..2 : ans[i] = "ok"
    BY <1>4, FS_EmptySet
  <2> QED
    BY <2>1 DEF Replies
<1>7. faults \in Nat
  BY RlrCentralAssumption DEF TypeOK
<1>8. s \in Steps
  BY <1>1, <1>2
<1> HIDE DEF s, r, Lost
<1>9. /\ faults' \in 0..faults
      /\ ans # [i \in 1..2 |-> "ok"] => cancelled \/ faults' < faults
  BY <1>3, <1>5, <1>6, <1>7
<1> QED
  BY <1>1, <1>2, <1>3, <1>8, <1>9 DEF s, r

\* Init is typed.
LEMMA InitTyped == Init => TypeOK
<1> SUFFICES ASSUME Init
             PROVE  TypeOK
  OBVIOUS
<1>1. pipeline \in PipelineFacts
  BY RlrCentralAssumption DEF Init
<1>2. Order \in Seq(Steps)
  BY <1>1, OrderIsList
<1>3. 1 \in 1..Len(Order) + 1
  BY <1>2
<1>4. <<>> \in ResultLists
  BY DEF ResultLists
<1>5. report \in [Clusters -> ResultLists] /\ collected \in ResultLists
      /\ stored \in ResultLists
  BY <1>4 DEF Init
<1>6. at \in [Clusters -> Places] /\ once \in {"new", "busy", "done"}
  BY DEF Init, Places
<1>7. /\ pipeline \in Pipelines /\ vector \in [Clusters -> Vectors]
      /\ cancelled \in BOOLEAN /\ changed \in BOOLEAN
  BY DEF Init
<1>8. position \in 1..Len(Order) + 1
  BY <1>3 DEF Init
<1>9. faults \in 0..MaxFaults /\ executed \in Nat
  BY RlrCentralAssumption DEF Init
<1> QED
  BY <1>5, <1>6, <1>7, <1>8, <1>9 DEF TypeOK

\* Every step of the goroutines, of the account and of the operator keeps the
\* types: credentials or a check add one result of types.go.
LEMMA StepTyped == TypeOK /\ [Next]_vars => TypeOK'
<1> SUFFICES ASSUME TypeOK, [Next]_vars
             PROVE  TypeOK'
  OBVIOUS
<1>1. /\ pipeline' \in Pipelines
      /\ Order' = Order /\ ResultLists' = ResultLists
  BY SameChecks
<1>2. pipeline \in PipelineFacts /\ Order \in Seq(Steps) /\ Len(Order) \in Nat
  BY OrderIsList, RlrCentralAssumption DEF TypeOK
<1> USE <1>1 DEF TypeOK, Places, Goto
<1>3. ASSUME NEW mc \in Clusters, Enter(mc)
      PROVE  TypeOK'
  BY <1>3 DEF Enter, inputs
<1>4. ASSUME NEW mc \in Clusters, ComeLater(mc)
      PROVE  TypeOK'
  BY <1>4 DEF ComeLater, inputs, run
<1>5. ASSUME NEW mc \in Clusters, Acquire(mc)
      PROVE  TypeOK'
  <2>1. One(<<"credentials", 0>>, "INFO") \in ResultLists
    BY DEF One, Result, ResultLists, Subjects, Statuses
  <2> QED
    BY <1>5, <2>1 DEF Acquire, inputs
<1>6. ASSUME NEW mc \in Clusters, RunCheck(mc)
      PROVE  TypeOK'
  <2>1. collected' \in ResultLists
    <3>1. PICK ans \in Replies :
            LET s == Order[position]
                r == IF s[2] = 0 THEN <<>> ELSE pipeline.regions[s[2]]
            IN  /\ s \in Steps
                /\ collected' = Append(collected,
                     Result(s, Status(s[1], r, vector[mc], ans)))
      BY <1>6, CheckMade
    <3> DEFINE s == Order[position]
               r == IF s[2] = 0 THEN <<>> ELSE pipeline.regions[s[2]]
    <3>2. Status(s[1], r, vector[mc], ans) \in Statuses
      BY <3>1, StatusOfCheck
    <3>3. s \in Subjects
      BY <1>2, <1>6, CheckMade DEF Subjects, ToSet
    <3>4. Result(s, Status(s[1], r, vector[mc], ans))
            \in [check : Subjects, status : Statuses]
      BY <3>2, <3>3 DEF Result
    <3> HIDE DEF s, r
    <3> DEFINE new == Result(s, Status(s[1], r, vector[mc], ans))
    <3>5. collected' = Append(collected, new)
      BY <3>1 DEF s, r
    <3> HIDE DEF new
    <3>6. new \in [check : Subjects, status : Statuses]
      BY <3>4 DEF new
    <3> QED
      BY <3>5, <3>6 DEF ResultLists
  <2>2. position' \in 1..Len(Order) + 1
    BY <1>2, <1>6, CheckMade
  <2>3. faults' \in 0..MaxFaults
    BY <1>6, CheckMade, RlrCentralAssumption
  <2> QED
    BY <1>6, <2>1, <2>2, <2>3 DEF RunCheck
<1>7. ASSUME NEW mc \in Clusters, EndChecks(mc)
      PROVE  TypeOK'
  BY <1>7 DEF EndChecks, inputs, run
<1>8. ASSUME NEW mc \in Clusters, Store(mc)
      PROVE  TypeOK'
  BY <1>8 DEF Store, inputs, run
<1>9. ASSUME NEW mc \in Clusters, Replay(mc)
      PROVE  TypeOK'
  <2>1. report[mc] \o stored \in ResultLists
    <3> DEFINE R == [check : Subjects, status : Statuses]
    <3>1. ResultLists = Seq(R)
      BY DEF ResultLists
    <3> HIDE DEF R
    <3> QED
      BY <3>1
  <2>2. report' \in [Clusters -> ResultLists]
    BY <1>9, <2>1 DEF Replay
  <2> QED
    BY <1>9, <2>2 DEF Replay, inputs, run
<1>10. CASE Change
  BY <1>10, RlrCentralAssumption DEF Change, run
<1>11. CASE Interrupt
  BY <1>11 DEF Interrupt, run
<1>12. CASE UNCHANGED vars
  BY <1>12 DEF vars, inputs, run
<1> QED
  BY <1>3, <1>4, <1>5, <1>6, <1>7, <1>8, <1>9, <1>10, <1>11, <1>12
     DEF Next, Step

\* The variables of the package and the progress of the goroutines keep their
\* types, and every result has a status of types.go and is about a check of
\* executeCentralChecks or about the credentials.
THEOREM CentralTypes == Spec => []TypeOK
BY InitTyped, StepTyped, PTL DEF Spec

(***************************************************************************)
(* One story for all.                                                      *)
(***************************************************************************)
\* Nobody has come yet.
LEMMA InitOnce == Init => OnceInv
BY DEF Init, OnceInv, Inside

\* sync.Once: nobody enters Do but the first, nobody passes it before the
\* first is through, and the order of the checks is kept meanwhile.
LEMMA StepOnce == TypeOK /\ OnceInv /\ [Next]_vars => OnceInv'
<1> SUFFICES ASSUME TypeOK, OnceInv, [Next]_vars
             PROVE  OnceInv'
  OBVIOUS
<1>1. Order' = Order
  BY SameChecks
<1>2. /\ Order \in Seq(Steps) /\ Len(Order) \in Nat
      /\ position \in 1..Len(Order) + 1
  BY OrderIsList, RlrCentralAssumption DEF TypeOK
<1>3. /\ collected \in ResultLists /\ stored \in ResultLists
      /\ at \in [Clusters -> Places] /\ report \in [Clusters -> ResultLists]
  BY DEF TypeOK
<1> USE <1>1 DEF OnceInv, Inside, Goto, Whole
<1>4. ASSUME NEW mc \in Clusters, Enter(mc)
      PROVE  OnceInv'
  BY <1>3, <1>4 DEF Enter, inputs
<1>5. ASSUME NEW mc \in Clusters, ComeLater(mc)
      PROVE  OnceInv'
  BY <1>3, <1>5 DEF ComeLater, inputs, run
<1>6. ASSUME NEW mc \in Clusters, Acquire(mc)
      PROVE  OnceInv'
  <2>1. ChecksOf(One(<<"credentials", 0>>, "INFO")) = <<<<"credentials", 0>>>>
    BY DEF ChecksOf, One, Result
  <2>2. at[mc] = "credentials" /\ position' = position
    BY <1>6 DEF Acquire
  <2>3. CASE at' = [at EXCEPT ![mc] = "checks"] /\ collected' = collected
    BY <1>2, <1>3, <1>6, <2>2, <2>3 DEF Acquire
  <2>4. CASE /\ at' = [at EXCEPT ![mc] = "store"]
             /\ collected' = One(<<"credentials", 0>>, "INFO")
    BY <1>3, <1>6, <2>1, <2>2, <2>4 DEF Acquire
  <2> QED
    BY <1>6, <2>3, <2>4 DEF Acquire
<1>7. ASSUME NEW mc \in Clusters, RunCheck(mc)
      PROVE  OnceInv'
  <2>1. \E new : collected' = Append(collected, new)
                /\ new.check = Order[position]
    <3> DEFINE s == Order[position]
               r == IF s[2] = 0 THEN <<>> ELSE pipeline.regions[s[2]]
    <3>1. PICK ans \in Replies :
            collected' = Append(collected,
                           Result(s, Status(s[1], r, vector[mc], ans)))
      BY <1>7, CheckMade
    <3> DEFINE new == Result(s, Status(s[1], r, vector[mc], ans))
    <3>2. new.check = s
      BY DEF Result
    <3> HIDE DEF new
    <3> QED
      BY <3>1, <3>2 DEF new
  <2>2. PICK new : collected' = Append(collected, new)
                   /\ new.check = Order[position]
    BY <2>1
  <2>3. position' = position + 1 /\ at[mc] = "checks"
    BY <1>7 DEF RunCheck
  <2>4. \E S : collected \in Seq(S) /\ new \in S
    <3> DEFINE S == ToSet(collected) \union {new}
    <3>1. collected \in Seq(S)
      BY <1>3 DEF ResultLists, ToSet
    <3> QED
      BY <3>1
  <2>5. Len(collected') = position
    BY <1>2, <1>7, <2>2, <2>3, <2>4
  <2>6. \A i \in 1..position : collected'[i].check = Order[i]
    BY <1>2, <1>7, <2>2, <2>3, <2>4
  <2> QED
    BY <1>2, <1>3, <1>7, <2>3, <2>5, <2>6 DEF RunCheck
<1>8. ASSUME NEW mc \in Clusters, EndChecks(mc)
      PROVE  OnceInv'
  <2>1. Len(collected) = Len(Order) /\ at[mc] = "checks"
    BY <1>2, <1>8 DEF EndChecks
  <2>2. \A i \in 1..Len(Order) : collected[i].check = Order[i]
    BY <1>2, <1>8 DEF EndChecks
  <2>3. DOMAIN collected = 1..Len(Order)
    BY <1>3, <2>1 DEF ResultLists
  <2>4. ChecksOf(collected) = Order
    BY <1>2, <2>2, <2>3 DEF ChecksOf
  <2> QED
    BY <1>3, <1>8, <2>1, <2>4 DEF EndChecks, inputs, run
<1>9. ASSUME NEW mc \in Clusters, Store(mc)
      PROVE  OnceInv'
  BY <1>3, <1>9 DEF Store, inputs, run
<1>10. ASSUME NEW mc \in Clusters, Replay(mc)
       PROVE  OnceInv'
  <2>1. <<>> \o stored = stored
    BY <1>3 DEF ResultLists
  <2>2. report[mc] = <<>> /\ at[mc] = "replay" /\ once = "done"
    BY <1>10 DEF Replay
  <2>3. report' = [report EXCEPT ![mc] = stored]
    BY <1>10, <2>1, <2>2 DEF Replay
  <2> QED
    BY <1>3, <1>10, <2>2, <2>3 DEF Replay, inputs, run
<1>11. CASE Change
  BY <1>11 DEF Change, run
<1>12. CASE Interrupt
  BY <1>12 DEF Interrupt, run
<1>13. CASE UNCHANGED vars
  BY <1>13 DEF vars, inputs, run
<1> QED
  BY <1>4, <1>5, <1>6, <1>7, <1>8, <1>9, <1>10, <1>11, <1>12, <1>13
     DEF Next, Step

\* runCentralPipelineChecks: however many clusters come, and in whatever order
\* their goroutines go on, the account is asked once, and every cluster that
\* is through has the same report, all checks in their order or the one that
\* says there are no credentials.
THEOREM OneStoryForAll == Spec => []OneStory
<1>1. OnceInv => OneStory
  BY DEF OnceInv, OneStory
<1> QED
  BY InitTyped, StepTyped, InitOnce, StepOnce, <1>1, PTL DEF Spec

(***************************************************************************)
(* Quiet when healthy.                                                     *)
(***************************************************************************)
\* Lists that are quiet stay so: what was disturbed has been, and what was not
\* well before is not afterwards.
LEMMA StaysQuiet ==
  ASSUME TypeOK, [Next]_vars, AllWell'
  PROVE  /\ AllWell
         /\ Undisturbed' => Undisturbed
         /\ \A rs : Quiet(rs) => Quiet(rs)'
<1>1. AllWell
  <2>1. vector' = vector
    BY DEF Next, Step, vars, inputs, run, Enter, ComeLater, Acquire, RunCheck,
           EndChecks, Store, Replay, Change, Interrupt
  <2>2. pipeline' = pipeline /\ changed' = changed
    BY DEF Next, Step, vars, inputs, run, Enter, ComeLater, Acquire, RunCheck,
           EndChecks, Store, Replay, Change, Interrupt, AllWell
  <2> QED
    BY <2>1, <2>2 DEF AllWell
<1>2. Undisturbed' => Undisturbed
  <2>1. CASE \E mc \in Clusters : RunCheck(mc)
    <3>1. faults' \in 0..faults /\ cancelled' = cancelled
      BY <2>1, CheckMade DEF RunCheck
    <3> QED
      BY <3>1, RlrCentralAssumption DEF TypeOK, Undisturbed
  <2>2. CASE Change
    BY <2>2, RlrCentralAssumption DEF Change, TypeOK, Undisturbed
  <2>3. CASE Interrupt
    BY <2>3 DEF Interrupt, Undisturbed
  <2>4. CASE faults' = faults /\ cancelled' = cancelled
    BY <2>4 DEF Undisturbed
  <2> QED
    BY <2>1, <2>2, <2>3, <2>4
       DEF Next, Step, vars, inputs, run, Enter, ComeLater, Acquire,
           EndChecks, Store, Replay
<1> QED
  BY <1>1, <1>2 DEF Quiet

\* There are no results yet.
LEMMA InitQuiet == Init => QuietInv
BY DEF Init, QuietInv, QuietWhenHealthy, Quiet

\* A check that is made while all is well adds no alarm but one the list of
\* exceptions names, and that one only when a call got no answer.
LEMMA CheckIsQuiet ==
  ASSUME TypeOK, NEW mc \in Clusters, RunCheck(mc), AllWell, Quiet(collected),
         Undisturbed' => Undisturbed
  PROVE  Quiet(collected)'
<1> DEFINE s == Order[position]
           r == IF s[2] = 0 THEN <<>> ELSE pipeline.regions[s[2]]
<1>1. PICK ans \in Replies :
        /\ s \in Steps
        /\ collected' = Append(collected,
                               Result(s, Status(s[1], r, vector[mc], ans)))
        /\ ans # [i \in 1..2 |-> "ok"] => cancelled \/ faults' < faults
        /\ faults' \in 0..faults
  BY CheckMade
<1>2. pipeline \in PipelineFacts
  BY CheckMade
<1>3. s[2] # 0 => r \in RegionFacts /\ NothingWrong(r)
  <2>1. s[2] # 0 => s[2] \in Regions
    BY <1>1 DEF Steps
  <2>2. \A i \in Regions : /\ pipeline.regions[i] \in RegionFacts
                           /\ NothingWrong(pipeline.regions[i])
    BY <1>2, RlrCentralAssumption DEF AllWell, Regions, PipelineFacts
  <2> QED
    BY <2>1, <2>2
<1>4. VectorStatus(vector[mc]) # "WARNING"
  BY DEF AllWell
<1>5. ans # [i \in 1..2 |-> "ok"] => ~Undisturbed'
  <2>1. cancelled' = cancelled
    BY DEF RunCheck
  <2> QED
    BY <1>1, <2>1, RlrCentralAssumption DEF Undisturbed, TypeOK
<1> HIDE DEF s, r
<1> DEFINE status == Status(s[1], r, vector[mc], ans)
           new == Result(s, status)
<1>6. status \in Alarms => s[1] \in AlarmsUnread /\ ~Undisturbed'
  BY <1>1, <1>2, <1>3, <1>4, <1>5, NothingToReport
<1>7. new.status = status /\ new.check = s
  BY DEF Result
<1>8. collected' = Append(collected, new)
  BY <1>1
<1>9. \E S : collected \in Seq(S) /\ new \in S
  <2> HIDE DEF new
  <2> DEFINE S == ToSet(collected) \union {new}
  <2>1. collected \in Seq(S)
    BY DEF TypeOK, ResultLists, ToSet
  <2> QED
    BY <2>1
<1> HIDE DEF new, status
<1>10. SUFFICES ASSUME NEW i \in DOMAIN collected',
                       collected'[i].status \in Alarms
                PROVE  collected'[i].check[1] \in AlarmsUnread
                         /\ ~Undisturbed'
  BY DEF Quiet, AlarmsUnread, Alarms
<1>11. CASE i \in DOMAIN collected
  <2>1. collected'[i] = collected[i]
    BY <1>8, <1>9, <1>11
  <2> QED
    BY <1>10, <1>11, <2>1 DEF Quiet
<1>12. CASE i \notin DOMAIN collected
  <2>1. collected'[i] = new
    BY <1>8, <1>9, <1>12
  <2> QED
    BY <1>6, <1>7, <1>10, <2>1
<1> QED
  BY <1>11, <1>12

\* What is collected becomes what is stored, and that what is reported.
LEMMA StepQuiet == TypeOK /\ OnceInv /\ QuietInv /\ [Next]_vars => QuietInv'
<1> SUFFICES ASSUME TypeOK, OnceInv, QuietInv, [Next]_vars, AllWell'
             PROVE  /\ Quiet(collected)' /\ Quiet(stored)'
                    /\ \A mc \in Clusters : Quiet(report[mc])'
  BY DEF QuietInv, QuietWhenHealthy
<1>1. /\ AllWell
      /\ Undisturbed' => Undisturbed
      /\ \A rs : Quiet(rs) => Quiet(rs)'
  BY StaysQuiet
<1>2. /\ Quiet(collected) /\ Quiet(stored)
      /\ \A mc \in Clusters : Quiet(report[mc])
  BY <1>1 DEF QuietInv, QuietWhenHealthy
<1>3. /\ collected' = collected => Quiet(collected)'
      /\ stored' = stored => Quiet(stored)'
      /\ report' = report => \A mc \in Clusters : Quiet(report[mc])'
  BY <1>1, <1>2 DEF Quiet
<1>4. ASSUME NEW mc \in Clusters, Acquire(mc)
      PROVE  Quiet(collected)'
  <2>1. Quiet(One(<<"credentials", 0>>, "INFO"))'
    BY DEF Quiet, One, Result, Alarms
  <2> QED
    BY <1>3, <1>4, <2>1 DEF Acquire, Quiet
<1>5. ASSUME NEW mc \in Clusters, RunCheck(mc)
      PROVE  Quiet(collected)'
  BY <1>1, <1>2, <1>5, CheckIsQuiet
<1>6. ASSUME NEW mc \in Clusters, Store(mc)
      PROVE  Quiet(stored)'
  BY <1>1, <1>2, <1>6 DEF Store, Quiet
<1>7. ASSUME NEW mc \in Clusters, Replay(mc)
      PROVE  \A other \in Clusters : Quiet(report[other])'
  <2>1. <<>> \o stored = stored
    BY DEF TypeOK, ResultLists
  <2>2. report' = [report EXCEPT ![mc] = stored]
    BY <1>7, <2>1 DEF Replay, OnceInv
  <2> QED
    BY <1>1, <1>2, <2>2 DEF Quiet, TypeOK
<1> QED
  BY <1>3, <1>4, <1>5, <1>6, <1>7
     DEF Next, Step, vars, inputs, run, Enter, ComeLater, Acquire, RunCheck,
         EndChecks, Store, Replay, Change, Interrupt

\* Of a pipeline with nothing to report and clusters whose configuration is in
\* order, no report has an alarm, whatever calls fail and whenever Ctrl-C
\* comes, but for delivery_success_rate and api_health, and for these only if
\* a call failed or Ctrl-C came.
THEOREM NoFalseAlarm == Spec => []QuietWhenHealthy
<1>1. QuietInv => QuietWhenHealthy
  BY DEF QuietInv
<1> QED
  BY InitTyped, StepTyped, InitOnce, StepOnce, InitQuiet, StepQuiet, <1>1,
     PTL DEF Spec
=============================================================================
