------------------------ MODULE OperatorChecksProofs ------------------------
(***************************************************************************)
(* Proofs about the checks of an operator on a cluster, whatever they find *)
(* and whatever their calls meet: the counters of AddResult and the        *)
(* overall status agree; the common checks that look at the same thing     *)
(* twice tell one story; every check leaves its result in its place; and   *)
(* what a check says when calls of it were denied or failed, beside what   *)
(* it would have said of the same cluster, hides no alarm and blames no    *)
(* operator for a refusal.                                                 *)
(***************************************************************************)
EXTENDS OperatorChecks, SumTheorems

(***************************************************************************)
(* Lists of results.                                                       *)
(***************************************************************************)
IsList(rs) == rs \in Seq(ToSet(rs))
Marked(rs, status) == {i \in DOMAIN rs : rs[i].status = status}

\* Of a list, finitely many results have a status.
LEMMA MarkedIsFinite ==
  ASSUME NEW rs, IsList(rs), NEW status
  PROVE  /\ IsFiniteSet(Marked(rs, status))
         /\ HasStatus(rs, status) \in Nat
         /\ HasStatus(rs, status) = Cardinality(Marked(rs, status))
<1>1. DOMAIN rs = 1..Len(rs) /\ Len(rs) \in Nat
  BY DEF IsList
<1>2. IsFiniteSet(DOMAIN rs)
  BY <1>1, FS_Interval
<1>3. IsFiniteSet(Marked(rs, status))
  BY <1>2, FS_Subset DEF Marked
<1>4. HasStatus(rs, status) = Cardinality(Marked(rs, status))
  BY DEF HasStatus, Marked
<1> QED
  BY <1>3, <1>4, FS_CardinalityType

\* Lists can be put one after the other.
LEMMA JoinedList ==
  ASSUME NEW rs, NEW ts, IsList(rs), IsList(ts)
  PROVE  /\ IsList(rs \o ts)
         /\ DOMAIN (rs \o ts) = 1..(Len(rs) + Len(ts))
         /\ \A i \in 1..(Len(rs) + Len(ts)) :
              (rs \o ts)[i] = IF i \in 1..Len(rs) THEN rs[i]
                              ELSE ts[i - Len(rs)]
         /\ Len(rs) \in Nat /\ Len(ts) \in Nat
         /\ DOMAIN rs = 1..Len(rs) /\ DOMAIN ts = 1..Len(ts)
<1> DEFINE S == ToSet(rs) \union ToSet(ts)
<1>1. rs \in Seq(S) /\ ts \in Seq(S)
  BY DEF IsList
<1> HIDE DEF S
<1>2. rs \o ts \in Seq(S)
  BY <1>1
<1>3. rs \o ts \in Seq(ToSet(rs \o ts))
  <2> DEFINE us == rs \o ts
  <2> HIDE DEF us
  <2>1. us \in Seq(S) => us \in Seq(ToSet(us))
    BY DEF ToSet
  <2> QED
    BY <1>2, <2>1 DEF us
<1> QED
  BY <1>1, <1>3 DEF IsList

\* Counting the results that are added is counting them all.
LEMMA CountsAdd ==
  ASSUME NEW rs, NEW ts, IsList(rs), IsList(ts), NEW status
  PROVE  HasStatus(rs \o ts, status) =
           HasStatus(rs, status) + HasStatus(ts, status)
<1> DEFINE n == Len(rs)
           A == Marked(rs, status)
           B == Marked(ts, status)
           C == {i \in n + 1..n + Len(ts) : ts[i - n].status = status}
           f == [i \in B |-> i + n]
<1>1. /\ n \in Nat /\ Len(ts) \in Nat
      /\ DOMAIN rs = 1..n /\ DOMAIN ts = 1..Len(ts)
      /\ \A i \in 1..(n + Len(ts)) :
           (rs \o ts)[i] = IF i \in 1..n THEN rs[i] ELSE ts[i - n]
      /\ DOMAIN (rs \o ts) = 1..(n + Len(ts))
      /\ IsList(rs \o ts)
  BY JoinedList
<1>2. Marked(rs \o ts, status) = A \union C /\ A \intersect C = {}
  <2> HIDE DEF n
  <2> QED
    BY <1>1 DEF Marked
<1>3. IsFiniteSet(A) /\ IsFiniteSet(B)
  BY MarkedIsFinite
<1>4. f \in Bijection(B, C)
  <2> HIDE DEF n
  <2>1. f \in [B -> C]
    BY <1>1 DEF Marked
  <2>2. \A i, j \in B : f[i] = f[j] => i = j
    BY <1>1 DEF Marked
  <2>3. \A k \in C : k - n \in B /\ f[k - n] = k
    BY <1>1 DEF Marked
  <2> HIDE DEF f, B, C
  <2> QED
    BY <2>1, <2>2, <2>3 DEF Bijection, Injection, Surjection, IsInjective
<1>5. IsFiniteSet(C) /\ Cardinality(C) = Cardinality(B)
  BY <1>3, <1>4, FS_Bijection DEF ExistsBijection
<1> HIDE DEF A, B, C, n
<1>6. Cardinality(A \union C) = Cardinality(A) + Cardinality(C)
  <2>1. Cardinality(A \intersect C) = 0
    BY <1>2, FS_EmptySet
  <2>2. Cardinality(A) \in Nat /\ Cardinality(C) \in Nat
    BY <1>3, <1>5, FS_CardinalityType
  <2>3. Cardinality(A \union C) =
          Cardinality(A) + Cardinality(C) - Cardinality(A \intersect C)
    BY <1>3, <1>5, FS_Union
  <2> QED
    BY <2>1, <2>2, <2>3
<1> QED
  BY <1>1, <1>2, <1>5, <1>6, MarkedIsFinite, Zenon DEF A, B

(***************************************************************************)
(* What a check leaves.                                                    *)
(***************************************************************************)
\* A check that leaves nothing leaves a list.
LEMMA NothingIsList == IsList(<<>>)
BY DEF IsList

\* So does one that leaves its verdict.
LEMMA OneIsList ==
  ASSUME NEW check, NEW status
  PROVE  IsList(<<[check |-> check, status |-> status]>>)
<1> DEFINE r == [check |-> check, status |-> status]
<1> HIDE DEF r
<1>1. <<r>> \in Seq(ToSet(<<r>>))
  BY DEF ToSet
<1> QED
  BY <1>1 DEF IsList, r

\* The checks of RunAllCommonChecks.
CommonNames ==
  {"namespace_status", "pod_status_and_restarts", "pko_clusterpackage_health",
   "dual_installation_check", "orphaned_olm_artifacts",
   "version_verification", "resource_leak_detection",
   "resource_limits_validation", "leader_election", "image_pull_status",
   "pko_job_health", "log_error_analysis", "operator_events",
   "active_alerts"}

\* There are fourteen of them.
LEMMA CommonOrder ==
  /\ Len(Common!Order) = 14
  /\ \A k \in 1..14 : Common!Order[k] \in CommonNames
BY DEF Common!Order, CommonNames

\* Each of the common checks adds one result, or two: a ClusterPackage that is
\* not found makes it look for the subscription.
LEMMA CommonLists ==
  ASSUME NEW check \in CommonNames, NEW c, NEW ans, NEW past
  PROVE  IsList(Common!Results(check, c, ans, past))
<1>1. IsList(Common!PackageResults(c, ans))
  BY OneIsList, JoinedList DEF Common!PackageResults, Common!One, Common!Result
<1>2. IsList(<<Common!LeakResult(c, ans)>>)
  <2> DEFINE r == Common!LeakResult(c, ans)
  <2> HIDE DEF r
  <2>1. <<r>> \in Seq(ToSet(<<r>>))
    BY DEF ToSet
  <2> QED
    BY <2>1 DEF IsList, r
<1>3. IsList(Common!LogResults(c, ans))
  BY OneIsList DEF Common!LogResults, Common!One, Common!Result
<1>4. \A status : IsList(Common!One(check, status))
  BY OneIsList DEF Common!One, Common!Result
<1> QED
  BY <1>1, <1>2, <1>3, <1>4 DEF Common!Results, CommonNames

\* The checks of the operators add one result each, but for fetchMonitorCRs
\* and the platform metrics without a MonitoringStack, which add none.
LEMMA OwnLists ==
  ASSUME NEW check, NEW c, NEW ans, NEW past, NEW left
  PROVE  /\ IsList(Pdo!Results(check, c, ans, past))
         /\ IsList(Dms!Results(check, c, ans, past))
         /\ IsList(Ome!Results(check, c, ans, past))
         /\ IsList(Mnmo!Results(check, c, ans, past))
         /\ IsList(Sfo!Results(check, c, ans, past))
         /\ IsList(Sae!Results(check, c, ans, past))
         /\ IsList(Muo!Results(check, c, ans, past))
         /\ IsList(Camo!Results(check, c, ans, past))
         /\ IsList(Rmo!Results(check, c, ans, left))
         /\ IsList(Hcp!Results(check, c, ans, left))
         /\ IsList(Mcc!Results(check, c, ans))
         /\ IsList(Rhobs!Results(check, c, ans, past))
         /\ IsList(Rlr!Results(check, c, ans))
         /\ IsList(Byoc!Results(check, c, ans, past))
<1>1. IsList(Pdo!Results(check, c, ans, past))
  BY OneIsList DEF Pdo!Results, Pdo!One, Pdo!Result
<1>2. IsList(Dms!Results(check, c, ans, past))
  BY OneIsList DEF Dms!Results, Dms!One, Dms!Result
<1>3. IsList(Ome!Results(check, c, ans, past))
  BY OneIsList DEF Ome!Results, Ome!One, Ome!Result
<1>4. IsList(Mnmo!Results(check, c, ans, past))
  BY OneIsList DEF Mnmo!Results, Mnmo!One, Mnmo!Result
<1>5. IsList(Sfo!Results(check, c, ans, past))
  BY OneIsList DEF Sfo!Results, Sfo!One, Sfo!Result
<1>6. IsList(Sae!Results(check, c, ans, past))
  BY OneIsList DEF Sae!Results, Sae!One, Sae!Result
<1>7. IsList(Muo!Results(check, c, ans, past))
  BY OneIsList DEF Muo!Results, Muo!One, Muo!Result
<1>8. IsList(Camo!Results(check, c, ans, past))
  BY OneIsList DEF Camo!Results, Camo!One, Camo!Result
<1>9. IsList(Rmo!Results(check, c, ans, left))
  BY OneIsList, NothingIsList DEF Rmo!Results, Rmo!One, Rmo!Result
<1>10. IsList(Hcp!Results(check, c, ans, left))
  BY OneIsList DEF Hcp!Results, Hcp!One, Hcp!Result
<1>11. IsList(Mcc!Results(check, c, ans))
  BY OneIsList DEF Mcc!Results, Mcc!One, Mcc!Result
<1>12. IsList(Rhobs!Results(check, c, ans, past))
  BY OneIsList, NothingIsList DEF Rhobs!Results, Rhobs!One, Rhobs!Result
<1>13. IsList(Rlr!Results(check, c, ans))
  BY OneIsList DEF Rlr!Results, Rlr!One, Rlr!Result
<1>14. IsList(Byoc!Results(check, c, ans, past))
  BY OneIsList DEF Byoc!Results, Byoc!One, Byoc!Result
<1> QED
  BY <1>1, <1>2, <1>3, <1>4, <1>5, <1>6, <1>7, <1>8,
     <1>9, <1>10, <1>11, <1>12, <1>13, <1>14

\* Whatever the check of the moment finds, AddResult is called for a list.
LEMMA ChecksLeaveLists ==
  ASSUME suite \in Suites, NEW ans,
         suite = "common" => position \in 1..Own - 1
  PROVE  IsList(ResultsOf(ans))
<1>1. CASE suite = "common"
  <2>1. Order = Common!Order
    BY <1>1 DEF Order, OrderOf
  <2>2. Own = 15
    BY <2>1, CommonOrder DEF Own
  <2>3. position \in 1..14
    BY <1>1, <2>2
  <2>4. Common!Order[position] \in CommonNames
    BY <2>3, CommonOrder
  <2>5. Current \in CommonNames
    BY <2>1, <2>4 DEF Current
  <2> QED
    BY <1>1, <2>5, CommonLists DEF ResultsOf, Results
<1>2. CASE suite # "common"
  <2> HIDE DEF Current
  <2>1. suite \in Checkers \ {"common"}
    BY <1>2, OperatorChecksAssumption
  <2> QED
    BY <2>1, OwnLists DEF ResultsOf, Results, Checkers
<1> QED
  BY <1>1, <1>2

(***************************************************************************)
(* The counters.                                                           *)
(***************************************************************************)
\* Every step makes a check, with some answers, or the operator's own checks
\* after the common ones, or leaves the results alone.
LEMMA Moves ==
  ASSUME [Next]_vars
  PROVE  /\ suite' = suite
         /\ \/ /\ position < Own /\ facts' = facts
               /\ \E ans : RunCheck(ans)
            \/ \E s \in Statuses : /\ AddResults(One("own", s))
                                  /\ position' = Over /\ facts' = facts
            \/ counts' = counts /\ position' \in {position, Over}
<1>1. CASE Check
  BY <1>1 DEF Check
<1>2. CASE InterruptedCheck
  BY <1>2 DEF InterruptedCheck
<1>3. CASE CancelledCheck
  BY <1>3 DEF CancelledCheck
<1>4. CASE Stop
  BY <1>4 DEF Stop
<1>5. CASE OwnChecks
  BY <1>5 DEF OwnChecks
<1>6. CASE Change
  BY <1>6 DEF Change
<1>7. CASE Interrupt
  BY <1>7 DEF Interrupt
<1>8. CASE UNCHANGED vars
  BY <1>8 DEF vars, counts
<1> QED
  BY <1>1, <1>2, <1>3, <1>4, <1>5, <1>6, <1>7, <1>8 DEF Next

\* What AddResult does for a list of results.
LEMMA AddedResults ==
  ASSUME CountInv, NEW rs, IsList(rs), AddResults(rs)
  PROVE  /\ results' = results \o rs
         /\ IsList(results')
         /\ criticalCount' = HasStatus(results', "FAIL")
         /\ warningCount' = HasStatus(results', "WARNING")
<1>1. IsList(results)
  BY DEF CountInv, IsList
<1>2. IsList(results \o rs)
  BY <1>1, JoinedList
<1> QED
  BY <1>1, <1>2, CountsAdd DEF CountInv, AddResults

\* The suite is what it was, and so are the places of the common checks.
LEMMA CommonPlaces ==
  ASSUME suite = "common"
  PROVE  Order = Common!Order /\ Own = 15 /\ Over = 16
<1>1. Order = Common!Order
  BY DEF Order, OrderOf
<1>2. Own = 15
  BY <1>1, CommonOrder DEF Own
<1> QED
  BY <1>1, <1>2 DEF Over

\* A run begins with no result, or with that of the pods, which may be a FAIL.
LEMMA InitCounts == Init => CountInv
<1> SUFFICES ASSUME Init
             PROVE  CountInv
  OBVIOUS
<1>1. PICK status \in {"PASS", "FAIL"} : results = PastResults(suite, status)
  BY DEF Init
<1>2. IsList(results)
  BY <1>1, OneIsList, NothingIsList DEF PastResults, One, Result
<1>3. HasStatus(results, "WARNING") = 0
  <2>1. Marked(results, "WARNING") = {}
    BY <1>1 DEF Marked, PastResults, One, Result
  <2> QED
    BY <1>2, <2>1, MarkedIsFinite, FS_EmptySet
<1>4. suite = "common" => position \in 1..Over
  BY CommonPlaces DEF Init
<1> QED
  BY <1>2, <1>3, <1>4 DEF Init, CountInv, IsList

\* Every step counts what it adds.
LEMMA StepCounts == suite \in Suites /\ CountInv /\ [Next]_vars => CountInv'
<1> SUFFICES ASSUME suite \in Suites, CountInv, [Next]_vars
             PROVE  CountInv'
  OBVIOUS
<1>1. suite' = suite
  BY Moves
<1>2. suite = "common" => Own = 15 /\ Over = 16 /\ Over' = 16
  <2> SUFFICES ASSUME suite = "common"
               PROVE  Own = 15 /\ Over = 16 /\ Over' = 16
    OBVIOUS
  <2>1. Order' = Common!Order
    BY <1>1 DEF Order, OrderOf
  <2>2. Own' = 15
    BY <2>1, CommonOrder DEF Own
  <2> QED
    BY <1>1, <2>2, CommonPlaces DEF Over
<1>3. ASSUME position < Own, NEW ans, RunCheck(ans)
      PROVE  CountInv'
  <2>1. suite = "common" => position \in 1..Own - 1
    BY <1>2, <1>3 DEF CountInv
  <2>2. IsList(ResultsOf(ans))
    BY <2>1, ChecksLeaveLists
  <2>3. AddResults(ResultsOf(ans)) /\ position' = After(ResultsOf(ans))
    BY <1>3 DEF RunCheck
  <2>4. suite = "common" => position' \in 1..16
    BY <1>2, <2>1, <2>3 DEF After
  <2> QED
    BY <1>1, <1>2, <2>2, <2>3, <2>4, AddedResults, Zenon DEF CountInv, IsList
<1>4. ASSUME NEW s \in Statuses, AddResults(One("own", s)), position' = Over
      PROVE  CountInv'
  <2>1. IsList(One("own", s))
    BY OneIsList DEF One, Result
  <2> QED
    BY <1>1, <1>2, <1>4, <2>1, AddedResults DEF CountInv, IsList
<1>5. ASSUME counts' = counts, position' \in {position, Over}
      PROVE  CountInv'
  BY <1>1, <1>2, <1>5 DEF CountInv, counts
<1> QED
  BY <1>3, <1>4, <1>5, Moves

\* The suite of the run is one of the instance's, and its results are counted.
LEMMA CountedResults == Spec => [](suite \in Suites /\ CountInv)
<1>1. Init => suite \in Suites /\ CountInv
  BY InitCounts DEF Init
<1>2. suite \in Suites /\ CountInv /\ [Next]_vars
        => (suite \in Suites /\ CountInv)'
  BY StepCounts, Moves
<1> QED
  BY <1>1, <1>2, PTL DEF Spec

\* ToOutput: the overall status, which OverallStatus finds in the results, is
\* what the two counters of AddResult say, after every check of every suite,
\* whatever it finds, and wherever Ctrl-C or a failed namespace ends the run.
THEOREM OneSummary == Spec => []SummaryAgrees
<1>1. CountInv => SummaryAgrees
  <2> SUFFICES ASSUME CountInv
               PROVE  SummaryAgrees
    OBVIOUS
  <2>1. \A status : HasStatus(results, status) > 0
                    <=> \E i \in DOMAIN results : results[i].status = status
    <3> TAKE status
    <3>1. IsList(results)
      BY DEF CountInv, IsList
    <3>2. HasStatus(results, status) = 0 <=> Marked(results, status) = {}
      BY <3>1, MarkedIsFinite, FS_EmptySet
    <3>3. HasStatus(results, status) \in Nat
      BY <3>1, MarkedIsFinite
    <3> QED
      BY <3>2, <3>3 DEF Marked
  <2> QED
    BY <2>1 DEF CountInv, SummaryAgrees, OverallStatus
<1> QED
  BY <1>1, CountedResults, PTL

(***************************************************************************)
(* The common checks that look at the same thing twice.                    *)
(***************************************************************************)
\* The last of some indices of a list.
LEMMA LastOne ==
  ASSUME NEW n \in Nat, NEW S \in SUBSET (1..n), S # {}
  PROVE  Common!Max(S) \in S
<1> DEFINE Found(m) == \A T \in SUBSET (1..m) :
             T # {} => \E x \in T : \A y \in T : x >= y
           D == {m \in Nat : Found(m)}
<1>1. 0 \in D
  <2>1. 1..0 = {}
    OBVIOUS
  <2>2. Found(0)
    BY <2>1, Zenon
  <2> QED
    BY <2>2
<1>2. ASSUME NEW m \in Nat, m \in D
      PROVE  m + 1 \in D
  <2> SUFFICES ASSUME NEW T \in SUBSET (1..m + 1), T # {}
               PROVE  \E x \in T : \A y \in T : x >= y
    OBVIOUS
  <2>1. CASE m + 1 \in T
    BY <2>1
  <2>2. CASE m + 1 \notin T
    <3>1. T \in SUBSET (1..m)
      BY <2>2
    <3> QED
      BY <1>2, <3>1
  <2> QED
    BY <2>1, <2>2
<1>3. Nat \subseteq D
  <2> HIDE DEF D
  <2> QED
    BY <1>1, <1>2, SetInduction
<1>4. Found(n)
  BY <1>3, Zenon
<1>5. \E x \in S : \A y \in S : x >= y
  BY <1>4
<1> QED
  BY <1>5, Zenon DEF Common!Max

\* Where the peaks are measured and where they are used.
LEMMA PeaksBeforeLimits ==
  /\ Common!Order[7] = "resource_leak_detection"
  /\ \A k \in 1..14 :
       Common!Order[k] = "resource_limits_validation" => k = 8
BY DEF Common!Order

\* CheckResourceLimits finds the peaks of the last measurement.
LEMMA PeaksAreFound ==
  ASSUME NEW c, NEW rs, IsList(rs),
         \A i \in DOMAIN rs : Told(c, rs[i]),
         \E i \in DOMAIN rs : rs[i].check = "resource_leak_detection"
  PROVE  Common!PeakSoFar(rs) = Peaks(c)
<1> DEFINE S == {i \in DOMAIN rs : rs[i].check = "resource_leak_detection"}
<1>1. DOMAIN rs = 1..Len(rs) /\ Len(rs) \in Nat
  BY DEF IsList
<1>2. S \in SUBSET (1..Len(rs)) /\ S # {}
  BY <1>1
<1>3. Common!Max(S) \in S
  <2> HIDE DEF S
  <2> QED
    BY <1>1, <1>2, LastOne, Zenon
<1>4. Common!PeakSoFar(rs) = rs[Common!Max(S)].peak
  BY <1>2 DEF Common!PeakSoFar
<1> QED
  BY <1>3, <1>4 DEF Told

\* What a common check whose calls are all answered tells.
LEMMA ChecksTell ==
  ASSUME NEW check \in CommonNames, NEW c, NEW ans, NEW past,
         \A k \in 1..Common!Calls(check) : ans[k] = "ok",
         check = "resource_limits_validation" =>
           Common!PeakSoFar(past) = Peaks(c),
         NEW i \in DOMAIN Common!Results(check, c, ans, past)
  PROVE  Told(c, Common!Results(check, c, ans, past)[i])
<1> DEFINE rs == Common!Results(check, c, ans, past)
<1>1. check \in {"resource_leak_detection", "pko_clusterpackage_health",
                "dual_installation_check"}
        => ans[1] = "ok" /\ ans[2] = "ok"
  <2>1. check \in {"resource_leak_detection", "pko_clusterpackage_health",
                  "dual_installation_check"} => Common!Calls(check) = 2
    BY DEF Common!Calls
  <2> QED
    BY <2>1
<1>2. check = "resource_limits_validation" => ans[1] = "ok"
  <2>1. check = "resource_limits_validation" => Common!Calls(check) = 1
    BY DEF Common!Calls
  <2> QED
    BY <2>1
<1>3. CASE check = "resource_leak_detection"
  <2>1. rs = <<Common!LeakResult(c, ans)>>
    BY <1>3 DEF Common!Results
  <2>2. /\ Common!LeakResult(c, ans).check = "resource_leak_detection"
        /\ Common!LeakResult(c, ans).peak = Peaks(c)
    BY <1>3, <1>1 DEF Common!LeakResult, Peaks
  <2> QED
    BY <2>1, <2>2 DEF Told
<1>32. CASE check = "resource_limits_validation"
  <2>1. rs =
          <<[check |-> check, status |-> Common!LimitsStatus(c, ans, past)]>>
    BY <1>32 DEF Common!Results, Common!One, Common!Result
  <2>2. Common!LimitsStatus(c, ans, past) = TwoLimits(c)
    BY <1>32, <1>2 DEF Common!LimitsStatus, TwoLimits, Peaks
  <2> QED
    BY <1>32, <2>1, <2>2 DEF Told
<1>33. CASE check = "pko_clusterpackage_health"
  <2>1. rs = Common!PackageResults(c, ans)
    BY <1>33 DEF Common!Results
  <2>2. Common!HasPackage(c, ans[1]) <=> c.package # "none"
    BY <1>33, <1>1 DEF Common!HasPackage
  <2> QED
    BY <1>33, <1>1, <2>1, <2>2
       DEF Told, Common!PackageResults, Common!One, Common!Result
<1>34. CASE check = "dual_installation_check"
  <2>1. rs = <<[check |-> check, status |-> Common!DualStatus(c, ans)]>>
    BY <1>34 DEF Common!Results, Common!One, Common!Result
  <2> QED
    BY <1>34, <1>1, <2>1 DEF Told, Common!DualStatus, Common!HasPackage
<1>35. CASE check \notin {"resource_leak_detection",
                        "resource_limits_validation",
                        "pko_clusterpackage_health",
                        "dual_installation_check"}
  <2>1. \E status : rs = <<[check |-> check, status |-> status]>>
    BY <1>35, Zenon DEF Common!Results, Common!One, Common!Result, CommonNames,
                Common!LogResults
  <2>2. check # "olm_subscription_health"
    BY DEF CommonNames
  <2> QED
    BY <1>35, <2>1, <2>2 DEF Told
<1> QED
  BY <1>3, <1>32, <1>33, <1>34, <1>35

(***************************************************************************)
(* The steps that leave a run of the common checks undisturbed.            *)
(***************************************************************************)
\* A common check makes three calls at most.
LEMMA CommonCalls == \A check : Common!Calls(check) \in 1..3
BY DEF Common!Calls

\* The calls that got no answer can be counted, and are none when each got one.
LEMMA LostCalls ==
  ASSUME NEW n \in Nat, NEW A, NEW ans \in [1..n -> A]
  PROVE  /\ Unanswered(ans) \in Nat
         /\ Unanswered(ans) = 0 => \A i \in 1..n : ans[i] = "ok"
<1> DEFINE lost == {i \in 1..n : ans[i] # "ok"}
<1>1. IsFiniteSet(1..n)
  BY FS_Interval
<1>2. IsFiniteSet(lost)
  <2>1. lost \subseteq 1..n
    OBVIOUS
  <2> HIDE DEF lost
  <2> QED
    BY <1>1, <2>1, FS_Subset, Zenon
<1>3. Unanswered(ans) = Cardinality(lost)
  BY DEF Unanswered
<1>4. Unanswered(ans) = 0 => lost = {}
  <2> HIDE DEF lost
  <2> QED
    BY <1>2, <1>3, FS_EmptySet, Zenon
<1>5. Unanswered(ans) \in Nat
  <2> HIDE DEF lost
  <2> QED
    BY <1>2, <1>3, FS_CardinalityType
<1> QED
  BY <1>4, <1>5

\* Every change and every call without an answer is taken from the faults.
LEMMA FaultsAreTaken ==
  ASSUME suite = "common", suite \in Suites, faults \in 0..MaxFaults[suite],
         [Next]_vars
  PROVE  faults' \in 0..MaxFaults[suite]
<1>1. MaxFaults[suite] \in Nat
  BY OperatorChecksAssumption
<1>2. CASE Check
  <2>1. PICK ans \in [1..Calls(suite, Current) -> AnswersOf(Current)] :
          Unanswered(ans) <= faults /\ faults' = faults - Unanswered(ans)
    BY <1>2 DEF Check
  <2>2. Calls(suite, Current) \in Nat
    BY CommonCalls DEF Calls
  <2>3. Unanswered(ans) \in Nat
    BY <2>1, <2>2, LostCalls, Zenon
  <2> QED
    BY <1>1, <2>1, <2>3
<1>3. CASE Change
  BY <1>1, <1>3 DEF Change
<1>4. CASE faults' = faults
  BY <1>4
<1> QED
  BY <1>2, <1>3, <1>4
     DEF Next, InterruptedCheck, CancelledCheck, Stop, OwnChecks, Interrupt,
         vars

\* While nothing has been taken and Ctrl-C has not come, every step is a check
\* whose calls are answered, or the operator's own checks, or nothing.
LEMMA AllIsAnswered ==
  ASSUME suite = "common", suite \in Suites, faults \in 0..MaxFaults[suite],
         [Next]_vars, Undisturbed'
  PROVE  /\ Undisturbed /\ facts' = facts
         /\ \/ /\ position < Own
               /\ \E ans : /\ RunCheck(ans)
                          /\ \A i \in 1..Common!Calls(Current) : ans[i] = "ok"
            \/ (\E s \in Statuses : AddResults(One("own", s)))
                 /\ position' = Over
            \/ counts' = counts /\ position' = position
<1>1. MaxFaults[suite] \in Nat /\ suite' = suite
  BY OperatorChecksAssumption, Moves
<1>2. faults' = MaxFaults[suite] /\ ~cancelled'
  BY <1>1 DEF Undisturbed
<1>3. CASE Check
  <2>1. PICK ans \in [1..Calls(suite, Current) -> AnswersOf(Current)] :
          /\ Unanswered(ans) <= faults /\ faults' = faults - Unanswered(ans)
          /\ RunCheck(ans)
    BY <1>3 DEF Check
  <2>2. Calls(suite, Current) = Common!Calls(Current)
    BY DEF Calls
  <2>3. Common!Calls(Current) \in Nat
    BY CommonCalls
  <2>4. /\ Unanswered(ans) \in Nat
        /\ Unanswered(ans) = 0 =>
             \A i \in 1..Common!Calls(Current) : ans[i] = "ok"
    BY <2>1, <2>2, <2>3, LostCalls, Zenon
  <2>5. Unanswered(ans) = 0 /\ faults = MaxFaults[suite]
    BY <1>1, <1>2, <2>1, <2>4
  <2> QED
    BY <1>3, <2>1, <2>4, <2>5, Zenon DEF Check, Undisturbed
<1>4. CASE OwnChecks
  BY <1>2, <1>4 DEF OwnChecks, Undisturbed
<1>5. ~Change
  BY <1>1, <1>2 DEF Change
<1>6. ~InterruptedCheck /\ ~CancelledCheck /\ ~Stop /\ ~Interrupt
  BY <1>2 DEF InterruptedCheck, CancelledCheck, Stop, Interrupt
<1>7. CASE UNCHANGED vars
  BY <1>2, <1>7 DEF vars, counts, Undisturbed
<1> QED
  BY <1>3, <1>4, <1>5, <1>6, <1>7 DEF Next

\* A run of the common checks begins without results.
LEMMA InitCommon == Init => CommonInv
<1> SUFFICES ASSUME Init, suite = "common"
             PROVE  /\ "subscriptions" \in DOMAIN facts
                    /\ facts.subscriptions \subseteq SubscriptionNames
                    /\ faults \in 0..MaxFaults[suite]
                    /\ results = <<>> /\ position \notin 8..14
  BY DEF CommonInv
<1>1. suite \in Suites /\ facts \in Facts[suite]
  BY DEF Init
<1>2. results = <<>>
  BY DEF Init, PastResults
<1>3. faults \in 0..MaxFaults[suite]
  BY <1>1, OperatorChecksAssumption DEF Init
<1> QED
  BY <1>1, <1>2, <1>3, OperatorChecksAssumption DEF Init

\* One undisturbed check more: it tells what the facts say, and after the
\* seventh the peaks are known.
LEMMA CheckTells ==
  ASSUME suite = "common", suite \in Suites, CountInv, CommonInv, Undisturbed,
         position < Own, NEW ans, RunCheck(ans),
         \A i \in 1..Common!Calls(Current) : ans[i] = "ok"
  PROVE  /\ \A i \in DOMAIN results' : Told(facts, results'[i])
         /\ position' \in 8..14 =>
              \E i \in DOMAIN results' :
                results'[i].check = "resource_leak_detection"
<1> DEFINE rs == Common!Results(Current, facts, ans, results)
<1>1. Order = Common!Order /\ Own = 15 /\ position \in 1..14
  BY CommonPlaces DEF CountInv
<1>2. Current = Common!Order[position] /\ Current \in CommonNames
  <2>1. Common!Order[position] \in CommonNames
    BY <1>1, CommonOrder
  <2> QED
    BY <1>1, <2>1 DEF Current
<1>3. ResultsOf(ans) = rs
  BY DEF ResultsOf, Results
<1>4. IsList(results) /\ IsList(rs)
  <2>1. IsList(results)
    BY DEF CountInv, IsList
  <2> QED
    BY <1>2, <2>1, CommonLists
<1>5. results' = results \o rs /\ position' = After(rs)
  BY <1>3 DEF RunCheck, AddResults
<1>6. \A i \in DOMAIN results : Told(facts, results[i])
  BY DEF CommonInv
<1>7. ASSUME Current = "resource_limits_validation"
      PROVE  Common!PeakSoFar(results) = Peaks(facts)
  <2>1. position = 8
    BY <1>1, <1>2, <1>7, PeaksBeforeLimits, Zenon
  <2>2. \E i \in DOMAIN results :
          results[i].check = "resource_leak_detection"
    BY <2>1 DEF CommonInv, Left
  <2> QED
    BY <1>4, <1>6, <2>2, PeaksAreFound
<1>8. \A i \in DOMAIN rs : Told(facts, rs[i])
  <2> TAKE i \in DOMAIN rs
  <2> HIDE DEF Current
  <2> QED
    BY <1>2, <1>7, ChecksTell
<1>9. position = 7 => \E i \in DOMAIN rs :
                        rs[i].check = "resource_leak_detection"
  <2> SUFFICES ASSUME position = 7
               PROVE  \E i \in DOMAIN rs :
                        rs[i].check = "resource_leak_detection"
    OBVIOUS
  <2>1. Current = "resource_leak_detection"
    BY <1>2, PeaksBeforeLimits
  <2>2. rs = <<Common!LeakResult(facts, ans)>>
    BY <2>1 DEF Common!Results
  <2> QED
    BY <2>2 DEF Common!LeakResult
<1> HIDE DEF rs
<1>10. /\ DOMAIN results' = 1..(Len(results) + Len(rs))
       /\ \A i \in 1..(Len(results) + Len(rs)) :
            results'[i] = IF i \in 1..Len(results) THEN results[i]
                          ELSE rs[i - Len(results)]
       /\ Len(results) \in Nat /\ Len(rs) \in Nat
       /\ DOMAIN results = 1..Len(results) /\ DOMAIN rs = 1..Len(rs)
  BY <1>4, <1>5, JoinedList
<1>11. \A i \in DOMAIN results' : Told(facts, results'[i])
  <2> TAKE i \in DOMAIN results'
  <2>1. CASE i \in 1..Len(results)
    BY <1>6, <1>10, <2>1
  <2>2. CASE i \notin 1..Len(results)
    <3>1. i - Len(results) \in DOMAIN rs
      BY <1>10, <2>2
    <3>2. results'[i] = rs[i - Len(results)]
      BY <1>10, <2>2
    <3> QED
      BY <1>8, <3>1, <3>2
  <2> QED
    BY <2>1, <2>2
<1>12. ASSUME position' \in 8..14
       PROVE  \E i \in DOMAIN results' :
                results'[i].check = "resource_leak_detection"
  <2>1. position' = position + 1
    BY <1>1, <1>5, <1>12 DEF After
  <2>2. CASE position = 7
    <3>1. PICK k \in DOMAIN rs : rs[k].check = "resource_leak_detection"
      BY <1>9, <2>2
    <3>2. results'[k + Len(results)] = rs[k]
      BY <1>10
    <3>3. k + Len(results) \in DOMAIN results'
      BY <1>10
    <3> QED
      BY <3>1, <3>2, <3>3
  <2>3. CASE position # 7
    <3>1. position \in 8..14
      BY <1>1, <1>12, <2>1, <2>3
    <3>2. PICK k \in DOMAIN results :
            results[k].check = "resource_leak_detection"
      BY <3>1 DEF CommonInv, Left
    <3> QED
      BY <1>10, <3>2
  <2> QED
    BY <2>2, <2>3
<1> QED
  BY <1>11, <1>12

\* Every step of a run of the common checks keeps what they tell.
LEMMA StepCommon ==
  suite \in Suites /\ CountInv /\ CommonInv /\ [Next]_vars => CommonInv'
<1> SUFFICES ASSUME suite \in Suites, CountInv, CommonInv, [Next]_vars,
                    suite' = "common"
             PROVE  /\ "subscriptions" \in DOMAIN facts'
                    /\ facts'.subscriptions \subseteq SubscriptionNames
                    /\ faults' \in 0..MaxFaults[suite']
                    /\ Undisturbed' =>
                         /\ \A i \in DOMAIN results' :
                              Told(facts', results'[i])
                         /\ position' \in 8..14 =>
                              \E i \in DOMAIN results' :
                                results'[i].check = "resource_leak_detection"
  BY DEF CommonInv, Left
<1>1. suite = "common" /\ suite' = suite
  BY Moves
<1>2. faults' \in 0..MaxFaults[suite']
  BY <1>1, FaultsAreTaken DEF CommonInv
<1>3. /\ "subscriptions" \in DOMAIN facts'
      /\ facts'.subscriptions \subseteq SubscriptionNames
  <2>1. CASE facts' = facts
    BY <1>1, <2>1 DEF CommonInv
  <2>2. CASE Change
    <3>1. PICK c \in Changes[suite] :
            facts' = [facts EXCEPT ![c.field] = c.value]
      BY <2>2, Zenon DEF Change
    <3>2. c.field = "subscriptions" => c.value \subseteq SubscriptionNames
      BY <1>1, <3>1, OperatorChecksAssumption
    <3>3. DOMAIN facts' = DOMAIN facts /\ "subscriptions" \in DOMAIN facts
      BY <1>1, <3>1 DEF CommonInv
    <3>4. facts'["subscriptions"] = IF c.field = "subscriptions" THEN c.value
                                    ELSE facts["subscriptions"]
      BY <3>1, <3>3
    <3> QED
      BY <1>1, <3>2, <3>3, <3>4 DEF CommonInv
  <2> QED
    BY <2>1, <2>2
       DEF Next, Check, InterruptedCheck, CancelledCheck, Stop, OwnChecks,
           Interrupt, vars
<1>4. ASSUME Undisturbed'
      PROVE  /\ \A i \in DOMAIN results' : Told(facts', results'[i])
             /\ position' \in 8..14 =>
                  \E i \in DOMAIN results' :
                    results'[i].check = "resource_leak_detection"
  <2>1. /\ Undisturbed /\ facts' = facts
        /\ \/ /\ position < Own
              /\ \E ans : /\ RunCheck(ans)
                         /\ \A i \in 1..Common!Calls(Current) : ans[i] = "ok"
           \/ (\E s \in Statuses : AddResults(One("own", s)))
                /\ position' = Over
           \/ counts' = counts /\ position' = position
    BY <1>1, <1>4, AllIsAnswered DEF CommonInv
  <2>2. ASSUME NEW ans, position < Own, RunCheck(ans),
               \A i \in 1..Common!Calls(Current) : ans[i] = "ok"
        PROVE  /\ \A i \in DOMAIN results' : Told(facts', results'[i])
               /\ position' \in 8..14 =>
                    \E i \in DOMAIN results' :
                      results'[i].check = "resource_leak_detection"
    BY <1>1, <2>1, <2>2, CheckTells
  <2>3. ASSUME NEW s \in Statuses, AddResults(One("own", s)), position' = Over
        PROVE  /\ \A i \in DOMAIN results' : Told(facts', results'[i])
               /\ position' \notin 8..14
    <3>1. Over = 16
      BY <1>1, CommonPlaces
    <3> DEFINE rs == One("own", s)
    <3>2. IsList(results) /\ IsList(rs)
      BY OneIsList DEF CountInv, IsList, One, Result
    <3>3. Len(rs) = 1 /\ rs[1].check = "own"
      BY DEF One, Result
    <3>4. results' = results \o rs
      BY <2>3 DEF AddResults
    <3> HIDE DEF rs
    <3>5. \A i \in DOMAIN results' :
            \/ i \in DOMAIN results /\ results'[i] = results[i]
            \/ results'[i] = rs[1]
      <4> DEFINE n == Len(results)
      <4>1. /\ n \in Nat /\ DOMAIN results = 1..n
            /\ DOMAIN results' = 1..(n + Len(rs))
            /\ \A i \in 1..(n + Len(rs)) :
                 results'[i] = IF i \in 1..n THEN results[i] ELSE rs[i - n]
        BY <3>2, <3>4, JoinedList
      <4> HIDE DEF n
      <4>2. \A i \in 1..(n + 1) : i \in 1..n \/ i - n = 1
        BY <4>1
      <4> QED
        BY <3>3, <4>1, <4>2
    <3>6. Told(facts, rs[1])
      BY <3>3 DEF Told
    <3>7. \A i \in DOMAIN results : Told(facts, results[i])
      BY <1>1, <2>1 DEF CommonInv
    <3> QED
      BY <2>1, <2>3, <3>1, <3>5, <3>6, <3>7
  <2>4. CASE counts' = counts /\ position' = position
    BY <1>1, <2>1, <2>4 DEF CommonInv, counts, Left
  <2> QED
    BY <2>1, <2>2, <2>3, <2>4
<1> QED
  BY <1>2, <1>3, <1>4

\* In every reachable state the results of an undisturbed run of the common
\* checks tell what the facts say.
LEMMA CommonTold == Spec => []CommonInv
<1>1. Init => suite \in Suites /\ CountInv /\ CommonInv
  BY InitCounts, InitCommon DEF Init
<1>2. suite \in Suites /\ CountInv /\ CommonInv /\ [Next]_vars
        => (suite \in Suites /\ CountInv /\ CommonInv)'
  BY StepCounts, StepCommon, Moves
<1> QED
  BY <1>1, <1>2, PTL DEF Spec

\* checkOLMSubscription and CheckDualInstallation, which look for the operator
\* by two rules, give one verdict on whether it is deployed: undisturbed, and
\* without a subscription of a similar name.
THEOREM OneVerdict == Spec => []OneVerdictOnDeployment
<1>1. CommonInv => OneVerdictOnDeployment
  <2> SUFFICES ASSUME CommonInv, suite = "common", Undisturbed,
                      "similar" \notin facts.subscriptions,
                      Left("olm_subscription_health") # {},
                      Left("dual_installation_check") # {}
               PROVE  "FAIL" \in StatusOf("olm_subscription_health")
                        <=> "FAIL" \in StatusOf("dual_installation_check")
    BY DEF OneVerdictOnDeployment
  <2>1. \A i \in DOMAIN results : Told(facts, results[i])
    BY DEF CommonInv
  <2>2. facts.subscriptions = {} <=> "exact" \notin facts.subscriptions
    BY DEF CommonInv, SubscriptionNames
  <2>3. facts.package = "none"
    BY <2>1 DEF Left, Told
  <2>4. "FAIL" \in StatusOf("olm_subscription_health")
          <=> "exact" \notin facts.subscriptions
    BY <2>1 DEF StatusOf, Left, Told
  <2>5. "FAIL" \in StatusOf("dual_installation_check")
          <=> facts.subscriptions = {}
    BY <2>1, <2>3 DEF StatusOf, Left, Told
  <2> QED
    BY <2>2, <2>4, <2>5
<1> QED
  BY <1>1, CommonTold, PTL

\* CheckResourceLeakDetection hands its peaks on in the results: undisturbed, a
\* peak at eighty per cent of a limit is what CheckResourceLimits warns of.
THEOREM PeaksAreJudged == Spec => []PeakReachesLimits
<1>1. CommonInv => PeakReachesLimits
  <2> SUFFICES ASSUME CommonInv, suite = "common", Undisturbed,
                      Left("resource_limits_validation") # {},
                      facts.deployment.exists,
                      \E k \in {"mem", "cpu"} :
                        Common!NearLimit(Common!Peak(facts.usage[k]),
                                         facts.limits[k])
               PROVE  StatusOf("resource_limits_validation") = {"WARNING"}
    BY DEF PeakReachesLimits
  <2>1. \A i \in DOMAIN results : Told(facts, results[i])
    BY DEF CommonInv
  <2>2. TwoLimits(facts) = "WARNING"
    BY DEF TwoLimits
  <2>3. \A i \in Left("resource_limits_validation") :
          results[i].status = "WARNING"
    BY <2>1, <2>2 DEF Left, Told
  <2> QED
    BY <2>3 DEF StatusOf
<1> QED
  BY <1>1, CommonTold, PTL

(***************************************************************************)
(* The report: every check leaves its result at its place.                 *)
(***************************************************************************)
\* What a cluster is does not change during a run, so its checks do not.
FactsInv ==
  /\ suite \in Suites
  /\ FixedFacts(suite) \subseteq DOMAIN facts
  /\ suite = "byoc" => facts.commands \in Seq(ToSet(facts.commands))

\* The facts of a run begin as the instance has them.
LEMMA InitFacts == Init => FactsInv
BY OperatorChecksAssumption DEF Init, FactsInv

\* No change meanwhile is one of the fixed facts.
LEMMA StepFacts ==
  ASSUME FactsInv, [Next]_vars
  PROVE  /\ FactsInv' /\ suite' = suite
         /\ \A field \in FixedFacts(suite) : facts'[field] = facts[field]
<1>1. suite' = suite
  BY Moves
<1>2. CASE facts' = facts
  BY <1>1, <1>2 DEF FactsInv
<1>3. CASE Change
  <2>1. PICK c \in Changes[suite] :
          facts' = [facts EXCEPT ![c.field] = c.value]
    BY <1>3, Zenon DEF Change
  <2>2. c.field \notin FixedFacts(suite)
    BY <2>1, OperatorChecksAssumption DEF FactsInv
  <2>3. DOMAIN facts' = DOMAIN facts
    BY <2>1
  <2>4. \A field \in FixedFacts(suite) : facts'[field] = facts[field]
    BY <2>1, <2>2 DEF FactsInv
  <2>5. suite = "byoc" => facts'.commands = facts.commands
    <3>1. suite = "byoc" => "commands" \in FixedFacts(suite)
      BY DEF FixedFacts
    <3> QED
      BY <2>4, <3>1
  <2> QED
    BY <1>1, <2>3, <2>4, <2>5 DEF FactsInv
<1> QED
  BY <1>2, <1>3
     DEF Next, Check, InterruptedCheck, CancelledCheck, Stop, OwnChecks,
         Interrupt, vars

\* The checks of a suite stay what they are.
LEMMA SameOrder ==
  ASSUME FactsInv, [Next]_vars
  PROVE  Order' = Order /\ Own' = Own /\ Over' = Over
<1>1. /\ suite' = suite
      /\ \A field \in FixedFacts(suite) : facts'[field] = facts[field]
  BY StepFacts
<1>2. suite \in Checkers
  BY OperatorChecksAssumption DEF FactsInv
<1>3. OrderOf(suite, facts') = OrderOf(suite, facts)
  <2>1. CASE suite = "rmo"
    BY <1>1, <2>1 DEF OrderOf, Rmo!Order, FixedFacts
  <2>2. CASE suite = "rhobs"
    BY <1>1, <2>2 DEF OrderOf, Rhobs!Order, FixedFacts
  <2>3. CASE suite = "mcc"
    BY <1>1, <2>3 DEF OrderOf, Mcc!Order, FixedFacts
  <2>4. CASE suite = "rlr"
    BY <1>1, <2>4 DEF OrderOf, Rlr!Order, FixedFacts
  <2>5. CASE suite = "byoc"
    BY <1>1, <2>5 DEF OrderOf, Byoc!Order, FixedFacts
  <2>6. CASE suite \notin {"rmo", "rhobs", "mcc", "rlr", "byoc"}
    BY <1>2, <2>6 DEF OrderOf, Checkers
  <2> QED
    BY <2>1, <2>2, <2>3, <2>4, <2>5, <2>6
<1>4. Order' = Order
  BY <1>1, <1>3 DEF Order
<1> QED
  BY <1>1, <1>4 DEF Own, Over

\* There are so many of them.
LEMMA Orders ==
  ASSUME FactsInv
  PROVE  /\ Len(Order) \in Nat /\ DOMAIN Order = 1..Len(Order)
         /\ Own \in Nat \ {0} /\ Over \in {Own, Own + 1}
<1>1. suite \in Checkers
  BY OperatorChecksAssumption DEF FactsInv
<1>2. Len(Order) \in Nat /\ DOMAIN Order = 1..Len(Order)
  <2>1. CASE suite = "common"
    BY <2>1 DEF Order, OrderOf, Common!Order
  <2>2. CASE suite = "pdo"
    BY <2>2 DEF Order, OrderOf, Pdo!Order
  <2>3. CASE suite = "dms"
    BY <2>3 DEF Order, OrderOf, Dms!Order
  <2>4. CASE suite = "ome"
    BY <2>4 DEF Order, OrderOf, Ome!Order
  <2>5. CASE suite = "mnmo"
    BY <2>5 DEF Order, OrderOf, Mnmo!Order
  <2>6. CASE suite = "sfo"
    BY <2>6 DEF Order, OrderOf, Sfo!Order
  <2>7. CASE suite = "sae"
    BY <2>7 DEF Order, OrderOf, Sae!Order
  <2>8. CASE suite = "muo"
    BY <2>8 DEF Order, OrderOf, Muo!Order
  <2>9. CASE suite = "camo"
    BY <2>9 DEF Order, OrderOf, Camo!Order
  <2>10. CASE suite = "hcp"
    BY <2>10 DEF Order, OrderOf, Hcp!Order
  <2>11. CASE suite = "rmo"
    BY <2>11 DEF Order, OrderOf, Rmo!Order
  <2>12. CASE suite = "mcc"
    BY <2>12 DEF Order, OrderOf, Mcc!Order
  <2>13. CASE suite = "rhobs"
    BY <2>13 DEF Order, OrderOf, Rhobs!Order, Rhobs!PlatformMetrics
  <2>14. CASE suite = "rlr"
    <3>1. CASE facts.mc
      BY <2>14, <3>1 DEF Order, OrderOf, Rlr!Order
    <3>2. CASE ~facts.mc /\ facts.hypershift
      BY <2>14, <3>2 DEF Order, OrderOf, Rlr!Order
    <3>3. CASE ~facts.mc /\ ~facts.hypershift
      BY <2>14, <3>3 DEF Order, OrderOf, Rlr!Order
    <3> QED
      BY <3>1, <3>2, <3>3
  <2>15. CASE suite = "byoc"
    BY <2>15 DEF Order, OrderOf, Byoc!Order, FactsInv
  <2> QED
    BY <1>1, <2>1, <2>2, <2>3, <2>4, <2>5, <2>6, <2>7, <2>8, <2>9, <2>10,
       <2>11, <2>12, <2>13, <2>14, <2>15 DEF Checkers
<1> QED
  BY <1>2 DEF Own, Over

\* Where the checks are that the report, or the run, depends on.
LEMMA Names ==
  ASSUME FactsInv, NEW k \in 1..Len(Order)
  PROVE  /\ suite = "common" =>
              /\ Order[k] = "namespace_status" <=> k = 1
              /\ Order[k] = "pko_clusterpackage_health" <=> k = 3
              /\ Order[k] \notin {"olm_subscription_health", "own"}
         /\ suite = "sae" => (Order[k] = "namespace_status" <=> k = 1)
         /\ suite = "rhobs" => (Order[k] = "rhobs_monitoring_stack" <=> k = 1)
<1>1. CASE suite = "common"
  BY <1>1 DEF Order, OrderOf, Common!Order
<1>2. CASE suite = "sae"
  BY <1>2 DEF Order, OrderOf, Sae!Order
<1>3. CASE suite = "rhobs"
  <2>1. Order = Rhobs!Order(facts)
    BY <1>3 DEF Order, OrderOf
  <2>2. CASE facts.mc
    BY <1>3, <2>1, <2>2 DEF Rhobs!Order, Rhobs!PlatformMetrics
  <2>3. CASE ~facts.mc
    BY <1>3, <2>1, <2>3 DEF Rhobs!Order
  <2> QED
    BY <2>2, <2>3
<1> QED
  BY <1>1, <1>2, <1>3

\* A check leaves one result of its name, but for those that have nothing to
\* look at, and for checkPKOClusterPackage without a package.
LEMMA WhatIsLeft ==
  ASSUME FactsInv, position \in 1..Own - 1, NEW ans
  PROVE  \/ /\ Current \in NoResult /\ suite # "common"
            /\ ResultsOf(ans) = <<>>
         \/ /\ Current \notin NoResult
            /\ Len(ResultsOf(ans)) = 1
            /\ ResultsOf(ans)[1].check = Current
            /\ suite = "common" /\ position = 3 =>
                 ResultsOf(ans)[1].status # "SKIP"
         \/ /\ Current \notin NoResult /\ suite = "common" /\ position = 3
            /\ Len(ResultsOf(ans)) = 2
            /\ ResultsOf(ans)[1].check = Current
            /\ ResultsOf(ans)[1].status = "SKIP"
            /\ ResultsOf(ans)[2].check = "olm_subscription_health"
<1>1. suite \in Checkers
  BY OperatorChecksAssumption DEF FactsInv
<1>2. CASE suite = "common"
  <2>1. position \in 1..14 /\ Order = Common!Order
    BY <1>2, CommonPlaces
  <2>2. Current = Common!Order[position]
    BY <2>1 DEF Current
  <2>3. NoResult = {}
    BY <1>2 DEF NoResult
  <2>4. ResultsOf(ans) = Common!Results(Current, facts, ans, results)
    BY <1>2 DEF ResultsOf, Results
  <2>5. CASE position = 3
    <3>1. Current = "pko_clusterpackage_health"
      BY <2>2, <2>5 DEF Common!Order
    <3>2. ResultsOf(ans) = Common!PackageResults(facts, ans)
      BY <2>4, <3>1 DEF Common!Results
    <3>3. Common!PackageStatus(facts) # "SKIP"
      BY DEF Common!PackageStatus
    <3> QED
      BY <1>2, <2>3, <2>5, <3>1, <3>2, <3>3
         DEF Common!PackageResults, Common!One, Common!Result
  <2>6. CASE position # 3
    <3>1. Current \in CommonNames \ {"pko_clusterpackage_health"}
      <4>1. Common!Order[position] \in CommonNames
        BY <2>1, CommonOrder
      <4>2. Common!Order[position] # "pko_clusterpackage_health"
        BY <2>1, <2>6 DEF Common!Order
      <4> QED
        BY <2>2, <4>1, <4>2
    <3> HIDE DEF Current
    <3>2. \E r : r.check = Current /\ ResultsOf(ans) = <<r>>
      <4>1. CASE Current = "resource_leak_detection"
        BY <2>4, <4>1 DEF Common!Results, Common!LeakResult
      <4>2. CASE Current # "resource_leak_detection"
        BY <2>4, <3>1, <4>2 DEF Common!Results, CommonNames, Common!One,
                               Common!Result, Common!LogResults
      <4> QED
        BY <4>1, <4>2
    <3> QED
      BY <2>3, <2>6, <3>2
  <2> QED
    BY <2>5, <2>6
<1>3. CASE suite # "common"
  <2> HIDE DEF Current
  <2>1. \E s : ResultsOf(ans) =
                 IF Current \in NoResult THEN <<>>
                 ELSE <<[check |-> Current, status |-> s]>>
    <3> DEFINE Leaves(rs, none) ==
                 \E s : rs = IF Current \in none THEN <<>>
                             ELSE <<[check |-> Current, status |-> s]>>
    <3>1. CASE suite = "rmo"
      <4>1. Leaves(Rmo!Results(Current, facts, ans, kept), {"fetchMonitorCRs"})
        BY Zenon DEF Rmo!Results, Rmo!One, Rmo!Result
      <4> QED
        BY <3>1, <4>1, Zenon DEF ResultsOf, Results, NoResult
    <3>2. CASE suite = "rhobs"
      <4>1. Leaves(Rhobs!Results(Current, facts, ans, results),
                   IF ~Rhobs!HasStack(results)
                     THEN Rhobs!ToSet(Rhobs!PlatformMetrics) ELSE {})
        BY Zenon DEF Rhobs!Results, Rhobs!One, Rhobs!Result
      <4>2. Rhobs!ToSet(Rhobs!PlatformMetrics) = ToSet(Rhobs!PlatformMetrics)
        BY DEF ToSet, Rhobs!ToSet
      <4>3. NoResult = IF ~Rhobs!HasStack(results)
                         THEN ToSet(Rhobs!PlatformMetrics) ELSE {}
        BY <3>2 DEF NoResult
      <4> QED
        BY <3>2, <4>1, <4>2, <4>3, Zenon DEF ResultsOf, Results
    <3>3. CASE suite \notin {"rmo", "rhobs"}
      <4> DEFINE OneOf(rs) ==
                   \E s : rs = <<[check |-> Current, status |-> s]>>
      <4>1. \A s : OneOf(<<[check |-> Current, status |-> s]>>)
        BY Zenon
      <4> HIDE DEF OneOf
      <4>2. suite \in {"pdo", "dms"} => OneOf(ResultsOf(ans))
        BY <4>1 DEF ResultsOf, Results, Pdo!Results, Pdo!One, Pdo!Result,
             Dms!Results, Dms!One, Dms!Result
      <4>3. suite \in {"ome", "mnmo"} => OneOf(ResultsOf(ans))
        BY <4>1 DEF ResultsOf, Results, Ome!Results, Ome!One, Ome!Result,
             Mnmo!Results, Mnmo!One, Mnmo!Result
      <4>4. suite \in {"sfo", "sae"} => OneOf(ResultsOf(ans))
        BY <4>1 DEF ResultsOf, Results, Sfo!Results, Sfo!One, Sfo!Result,
             Sae!Results, Sae!One, Sae!Result
      <4>5. suite \in {"muo", "camo"} => OneOf(ResultsOf(ans))
        BY <4>1 DEF ResultsOf, Results, Muo!Results, Muo!One, Muo!Result,
             Camo!Results, Camo!One, Camo!Result
      <4>6. suite \in {"hcp", "mcc"} => OneOf(ResultsOf(ans))
        BY <4>1 DEF ResultsOf, Results, Hcp!Results, Hcp!One, Hcp!Result,
             Mcc!Results, Mcc!One, Mcc!Result
      <4>7. suite \in {"rlr", "byoc"} => OneOf(ResultsOf(ans))
        BY <4>1 DEF ResultsOf, Results, Rlr!Results, Rlr!One, Rlr!Result,
             Byoc!Results, Byoc!One, Byoc!Result
      <4>8. OneOf(ResultsOf(ans))
        BY <1>1, <1>3, <3>3, <4>2, <4>3, <4>4, <4>5, <4>6, <4>7 DEF Checkers
      <4>9. NoResult = {}
        BY <3>3 DEF NoResult
      <4> QED
        BY <4>8, <4>9 DEF OneOf
    <3> QED
      BY <3>1, <3>2, <3>3
  <2> QED
    BY <1>3, <2>1
<1> QED
  BY <1>2, <1>3

\* How many results are there before that of the k-th check.
Silent(k) == {l \in 1..k - 1 : Order[l] \in NoResult}
Past == IF suite = "muo" THEN 1 ELSE 0
Before(k) ==
  Past + (k - 1) - Cardinality(Silent(k)) + (IF k > 3 THEN Extra ELSE 0)

\* ReportOf, with the places it names within the list.
ReportAt(n) ==
  /\ Len(results) = Before(n + 1) + OwnLeft
  /\ \A k \in 1..n : Order[k] \notin NoResult =>
       /\ Before(k) + 1 \in DOMAIN results
       /\ results[Before(k) + 1].check = Order[k]

\* Its places are where the checks left their results.
LEMMA PlacesAreReported ==
  ASSUME NEW n \in Nat, ReportAt(n)
  PROVE  ReportOf(n)
<1> DEFINE silent == {k \in 1..n : Order[k] \in NoResult}
           At(k) == Past + k - 1 - Cardinality({l \in silent : l < k})
                      + (IF k > 3 THEN Extra ELSE 0)
<1>1. \A k \in 1..n + 1 : {l \in silent : l < k} = Silent(k)
  BY DEF Silent
<1>2. \A k \in 1..n + 1 : At(k) = Before(k)
  BY <1>1, Zenon DEF Before
<1>3. /\ Len(results) = At(n + 1) + OwnLeft
      /\ \A k \in 1..n \ silent : results[At(k) + 1].check = Order[k]
  <2> HIDE DEF At
  <2> QED
    BY <1>2 DEF ReportAt
<1> QED
  BY <1>3 DEF ReportOf, Past

\* The silent checks can be counted; one more is one more.
LEMMA SilentChecks ==
  ASSUME NEW k \in Nat \ {0}
  PROVE  /\ Cardinality(Silent(k)) \in Nat
         /\ Cardinality(Silent(k + 1)) =
              Cardinality(Silent(k))
                + (IF Order[k] \in NoResult THEN 1 ELSE 0)
<1>1. IsFiniteSet(Silent(k))
  <2>1. Silent(k) \subseteq 1..k - 1
    BY DEF Silent
  <2>2. IsFiniteSet(1..k - 1)
    BY FS_Interval
  <2> QED
    BY <2>1, <2>2, FS_Subset
<1>2. Cardinality(Silent(k)) \in Nat
  BY <1>1, FS_CardinalityType
<1>3. CASE Order[k] \in NoResult
  <2>1. Silent(k + 1) = Silent(k) \union {k} /\ k \notin Silent(k)
    BY <1>3 DEF Silent
  <2> QED
    BY <1>1, <1>2, <1>3, <2>1, FS_AddElement
<1>4. CASE Order[k] \notin NoResult
  <2>1. Silent(k + 1) = Silent(k)
    BY <1>4 DEF Silent
  <2> QED
    BY <1>2, <1>4, <2>1
<1> QED
  BY <1>2, <1>3, <1>4

\* What AddResult leaves alone, and what it adds.
LEMMA Added ==
  ASSUME CountInv, NEW rs, IsList(rs), AddResults(rs)
  PROVE  /\ Len(results) \in Nat /\ Len(rs) \in Nat
         /\ Len(results') = Len(results) + Len(rs)
         /\ DOMAIN results = 1..Len(results) /\ DOMAIN rs = 1..Len(rs)
         /\ \A i \in DOMAIN results :
              i \in DOMAIN results' /\ results'[i] = results[i]
         /\ \A j \in DOMAIN rs : /\ Len(results) + j \in DOMAIN results'
                                 /\ results'[Len(results) + j] = rs[j]
         /\ \A i \in DOMAIN results' \ DOMAIN results :
              \E j \in DOMAIN rs : results'[i] = rs[j]
<1>1. IsList(results) /\ results' = results \o rs
  BY DEF CountInv, IsList, AddResults
<1>2. /\ DOMAIN results' = 1..(Len(results) + Len(rs))
      /\ \A i \in 1..(Len(results) + Len(rs)) :
           results'[i] = IF i \in 1..Len(results) THEN results[i]
                         ELSE rs[i - Len(results)]
      /\ Len(results) \in Nat /\ Len(rs) \in Nat
      /\ DOMAIN results = 1..Len(results) /\ DOMAIN rs = 1..Len(rs)
  BY <1>1, JoinedList
<1>3. Len(results') = Len(results) + Len(rs)
  <2>1. IsList(results')
    BY <1>1, JoinedList
  <2>2. DOMAIN results' = 1..Len(results') /\ Len(results') \in Nat
    BY <2>1 DEF IsList
  <2> QED
    BY <1>2, <2>2
<1> HIDE DEF IsList
<1>4. \A i \in DOMAIN results' \ DOMAIN results :
        \E j \in DOMAIN rs : results'[i] = rs[j]
  <2> TAKE i \in DOMAIN results' \ DOMAIN results
  <2>1. i - Len(results) \in DOMAIN rs /\ results'[i] = rs[i - Len(results)]
    BY <1>2
  <2> QED
    BY <2>1
<1>5. \A j \in DOMAIN rs : /\ Len(results) + j \in DOMAIN results'
                           /\ results'[Len(results) + j] = rs[j]
  <2> TAKE j \in DOMAIN rs
  <2>1. /\ Len(results) + j \in DOMAIN results'
        /\ Len(results) + j \notin 1..Len(results)
        /\ (Len(results) + j) - Len(results) = j
    BY <1>2
  <2> QED
    BY <1>2, <2>1
<1> QED
  BY <1>2, <1>3, <1>4, <1>5

\* So a check of this name has left something now, if it had before or is one
\* of those that were added; and likewise with a status.
LEMMA LeftNow ==
  ASSUME CountInv, NEW rs, IsList(rs), AddResults(rs), NEW check
  PROVE  /\ Left(check)' # {} <=>
              \/ Left(check) # {}
              \/ \E j \in DOMAIN rs : rs[j].check = check
         /\ \A s : s \in StatusOf(check)' <=>
              \/ s \in StatusOf(check)
              \/ \E j \in DOMAIN rs : rs[j].check = check /\ rs[j].status = s
<1>1. \A i : i \in Left(check)' =>
               \/ i \in Left(check) /\ results'[i] = results[i]
               \/ \E j \in DOMAIN rs :
                    results'[i] = rs[j] /\ rs[j].check = check
  BY Added DEF Left
<1>2. \A i \in Left(check) :
        i \in Left(check)' /\ results'[i] = results[i]
  BY Added DEF Left
<1>3. \A j \in DOMAIN rs : rs[j].check = check =>
        /\ Len(results) + j \in Left(check)'
        /\ results'[Len(results) + j] = rs[j]
  BY Added DEF Left
<1>4. Left(check)' # {} <=>
        \/ Left(check) # {}
        \/ \E j \in DOMAIN rs : rs[j].check = check
  <2> HIDE DEF Left
  <2> QED
    BY <1>1, <1>2, <1>3
<1>5. ASSUME NEW s
      PROVE  s \in StatusOf(check)' <=>
               \/ s \in StatusOf(check)
               \/ \E j \in DOMAIN rs : rs[j].check = check /\ rs[j].status = s
  <2>1. s \in StatusOf(check)' <=>
          \E i \in Left(check)' : results'[i].status = s
    BY DEF StatusOf
  <2>2. s \in StatusOf(check) <=>
          \E i \in Left(check) : results[i].status = s
    BY DEF StatusOf
  <2> QED
    BY <1>1, <1>2, <1>3, <2>1, <2>2
<1> QED
  BY <1>4, <1>5

\* The report so far: it is whole; a namespace that failed ends the checks, the
\* operator's own checks come last, and before checkPKOClusterPackage nothing
\* is known of a package.
Reported ==
  \E n \in 0..Len(Order) :
    /\ ReportAt(n)
    /\ IF NamespaceFailed THEN n = 1 /\ position >= Own
       ELSE \/ suite \in {"common", "byoc"} /\ cancelled /\ position = Over
            \/ n = IF position < Own THEN position - 1 ELSE Len(Order)
CommonLeft ==
  suite = "common" =>
    /\ Left("own") # {} => position = Over
    /\ position <= 3 => Left("pko_clusterpackage_health") = {}
    /\ Left("olm_subscription_health") # {} <=> NoPackage
ReportInv ==
  /\ FactsInv /\ CountInv /\ position \in 1..Over
  /\ CommonLeft /\ Reported

\* The places are numbers.
LEMMA BeforeIsNumber ==
  ASSUME NEW k \in Nat \ {0}
  PROVE  Before(k) \in Int
<1> DEFINE n == Cardinality(Silent(k))
           e == Extra
           m == Past
<1>1. n \in Nat /\ e \in {0, 1} /\ m \in {0, 1}
  BY SilentChecks DEF Extra, Past
<1>2. Before(k) = m + (k - 1) - n + (IF k > 3 THEN e ELSE 0)
  BY DEF Before
<1> HIDE DEF n, e, m
<1> QED
  BY <1>1, <1>2

\* What a check leaves is a list.
LEMMA LeavesList ==
  ASSUME FactsInv, position \in 1..Own - 1, NEW ans
  PROVE  IsList(ResultsOf(ans))
<1>1. suite = "common" => position \in 1..Own - 1
  OBVIOUS
<1>2. suite \in Suites
  BY DEF FactsInv
<1> QED
  BY <1>1, <1>2, ChecksLeaveLists

\* The checks that had their turn, and the one of the moment, have something
\* to look at exactly if they had before it: only the first of the
\* observability checks tells whether there is a MonitoringStack.
LEMMA SameSilent ==
  ASSUME FactsInv, CountInv, [Next]_vars, position \in 1..Own - 1,
         NEW ans, RunCheck(ans)
  PROVE  \A k \in 1..position :
           /\ Order'[k] = Order[k]
           /\ Order'[k] \in NoResult' <=> Order[k] \in NoResult
<1>1. suite' = suite /\ Order' = Order /\ Own = Len(Order) + 1
  BY StepFacts, SameOrder DEF Own
<1>2. Len(Order) \in Nat
  BY Orders
<1>3. CASE suite # "rhobs"
  BY <1>1, <1>3 DEF NoResult
<1>4. CASE suite = "rhobs"
  <2> DEFINE rs == ResultsOf(ans)
  <2>1. IsList(rs) /\ AddResults(rs)
    BY LeavesList DEF RunCheck
  <2>2. position \in 1..Len(Order)
    BY <1>1, <1>2
  <2>3. \A k \in 1..Len(Order) :
          Order[k] = "rhobs_monitoring_stack" <=> k = 1
    BY <1>4, Names
  <2>4. "rhobs_monitoring_stack" \notin ToSet(Rhobs!PlatformMetrics)
    BY DEF Rhobs!PlatformMetrics, ToSet
  <2>5. CASE position = 1
    BY <1>1, <1>4, <2>2, <2>3, <2>4, <2>5 DEF NoResult
  <2>6. CASE position # 1
    <3>1. Current # "rhobs_monitoring_stack"
      BY <2>2, <2>3, <2>6 DEF Current
    <3>2. \A j \in DOMAIN rs : rs[j].check # "rhobs_monitoring_stack"
      <4>1. rs = <<>> \/ (Len(rs) = 1 /\ rs[1].check = Current)
        BY <1>4, WhatIsLeft
      <4>2. DOMAIN rs = 1..Len(rs)
        BY <2>1, Added
      <4> HIDE DEF rs, Current
      <4> QED
        BY <3>1, <4>1, <4>2
    <3> HIDE DEF rs
    <3>3. \A s : s \in StatusOf("rhobs_monitoring_stack")'
                   <=> s \in StatusOf("rhobs_monitoring_stack")
      BY <2>1, <3>2, LeftNow
    <3>4. /\ Rhobs!HasStack(results) <=>
               \E s \in {"PASS", "WARNING"} :
                 s \in StatusOf("rhobs_monitoring_stack")
          /\ Rhobs!HasStack(results') <=>
               \E s \in {"PASS", "WARNING"} :
                 s \in StatusOf("rhobs_monitoring_stack")'
      BY DEF Rhobs!HasStack, Rhobs!ToSet, StatusOf, Left
    <3> QED
      BY <1>1, <1>4, <3>3, <3>4 DEF NoResult
  <2> QED
    BY <2>5, <2>6
<1> QED
  BY <1>3, <1>4

\* What a check that is not the last decides of the package and of the
\* subscription: nothing, unless it is checkPKOClusterPackage.
LEMMA PackageLeft ==
  ASSUME FactsInv, CountInv, position \in 1..Own - 1, NEW ans,
         RunCheck(ans), suite = "common", CommonLeft
  PROVE  /\ Left("own") = {} /\ Left("own")' = {}
         /\ position # 3 =>
              /\ NoPackage' <=> NoPackage
              /\ Left("pko_clusterpackage_health")' # {} <=>
                   Left("pko_clusterpackage_health") # {}
              /\ Left("olm_subscription_health")' # {} <=>
                   Left("olm_subscription_health") # {}
         /\ position = 3 =>
              /\ ~NoPackage
              /\ NoPackage' <=> Len(ResultsOf(ans)) = 2
              /\ Left("olm_subscription_health")' # {} <=> NoPackage'
<1> DEFINE rs == ResultsOf(ans)
<1>1. IsList(rs) /\ AddResults(rs)
  BY LeavesList DEF RunCheck
<1>2. position \in 1..Len(Order) /\ position < Over
  <2>1. Own = 15 /\ Over = 16 /\ Order = Common!Order
    BY CommonPlaces
  <2>2. Len(Order) = 14
    BY <2>1, CommonOrder
  <2> QED
    BY <2>1, <2>2
<1>3. DOMAIN rs = 1..Len(rs) /\ Len(rs) \in Nat
  BY <1>1, Added
<1>4. /\ Current = "pko_clusterpackage_health" <=> position = 3
      /\ Current \notin {"olm_subscription_health", "own"}
  BY <1>2, Names DEF Current
<1>5. \/ /\ Len(rs) = 1 /\ rs[1].check = Current
         /\ position = 3 => rs[1].status # "SKIP"
      \/ /\ position = 3 /\ Len(rs) = 2 /\ rs[1].check = Current
         /\ rs[1].status = "SKIP" /\ rs[2].check = "olm_subscription_health"
  BY WhatIsLeft
<1> HIDE DEF rs, Current
<1>6. Left("own") = {} /\ (position = 3 => ~NoPackage)
  <2>1. Left("own") = {}
    BY <1>2 DEF CommonLeft
  <2>2. position = 3 => Left("pko_clusterpackage_health") = {}
    BY DEF CommonLeft
  <2> QED
    BY <2>1, <2>2 DEF NoPackage, StatusOf
<1>7. \A j \in DOMAIN rs : rs[j].check # "own"
  BY <1>3, <1>4, <1>5
<1>8. Left("own")' = {}
  BY <1>1, <1>6, <1>7, LeftNow
<1>9. ASSUME position # 3
      PROVE  /\ NoPackage' <=> NoPackage
             /\ Left("pko_clusterpackage_health")' # {} <=>
                  Left("pko_clusterpackage_health") # {}
             /\ Left("olm_subscription_health")' # {} <=>
                  Left("olm_subscription_health") # {}
  <2>1. \A j \in DOMAIN rs :
          rs[j].check \notin {"pko_clusterpackage_health",
                             "olm_subscription_health"}
    BY <1>3, <1>4, <1>5, <1>9
  <2> QED
    BY <1>1, <2>1, LeftNow DEF NoPackage
<1>10. ASSUME position = 3
       PROVE  /\ NoPackage' <=> Len(rs) = 2
              /\ Left("olm_subscription_health")' # {} <=> NoPackage'
  <2>1. Left("olm_subscription_health") = {} /\ ~NoPackage
    BY <1>6, <1>10 DEF CommonLeft
  <2>2. NoPackage' <=> Len(rs) = 2
    <3>1. NoPackage' <=>
            \E j \in DOMAIN rs : /\ rs[j].check = "pko_clusterpackage_health"
                                 /\ rs[j].status = "SKIP"
      BY <1>1, <2>1, LeftNow DEF NoPackage
    <3> QED
      BY <1>3, <1>4, <1>5, <1>10, <3>1
  <2>3. Left("olm_subscription_health")' # {} <=> Len(rs) = 2
    <3>1. Left("olm_subscription_health")' # {} <=>
            \E j \in DOMAIN rs : rs[j].check = "olm_subscription_health"
      BY <1>1, <2>1, LeftNow
    <3> QED
      BY <1>3, <1>4, <1>5, <1>10, <3>1
  <2> QED
    BY <2>2, <2>3
<1> QED
  BY <1>6, <1>8, <1>9, <1>10 DEF rs

\* One check more: what it leaves is in its place, and the others stay in
\* theirs.
LEMMA CheckReports ==
  ASSUME FactsInv, CountInv, CommonLeft, [Next]_vars,
         position \in 1..Own - 1, NEW ans, RunCheck(ans),
         ReportAt(position - 1), NEW p, p = position
  PROVE  ReportAt(p)'
<1> DEFINE rs == ResultsOf(ans)
<1>1. IsList(rs) /\ AddResults(rs)
  BY LeavesList DEF RunCheck
<1>2. p \in Nat \ {0} /\ p = position /\ Current = Order[p]
  BY Orders DEF Current
<1>3. suite' = suite
  BY Moves
<1>4. \A k \in 1..p : /\ Order'[k] = Order[k]
                      /\ Order'[k] \in NoResult' <=> Order[k] \in NoResult
  BY <1>2, SameSilent
<1>5. \A k \in 1..p + 1 : Silent(k)' = Silent(k)
  BY <1>2, <1>4 DEF Silent
<1>6. /\ OwnLeft = 0 /\ OwnLeft' = 0
      /\ p # 3 => Extra' = Extra
      /\ p = 3 /\ suite = "common" =>
           Extra = 0 /\ Extra' = IF Len(rs) = 2 THEN 1 ELSE 0
      /\ suite # "common" => Extra = 0 /\ Extra' = 0
      /\ Extra \in {0, 1} /\ Extra' \in {0, 1}
  <2>1. CASE suite = "common"
    <3>1. /\ Left("own") = {} /\ Left("own")' = {}
          /\ p # 3 => (NoPackage' <=> NoPackage)
          /\ p = 3 => ~NoPackage /\ (NoPackage' <=> Len(rs) = 2)
      BY <1>2, <2>1, PackageLeft
    <3> HIDE DEF rs
    <3> QED
      BY <1>3, <2>1, <3>1 DEF OwnLeft, Extra
  <2>2. CASE suite # "common"
    BY <1>3, <2>2 DEF OwnLeft, Extra
  <2> QED
    BY <2>1, <2>2
<1>7. Past' = Past /\ Past \in {0, 1}
  BY <1>3 DEF Past
<1>8. \A k \in 1..p : Before(k)' = Before(k)
  BY <1>2, <1>5, <1>6, <1>7 DEF Before
<1>9. Before(p + 1)' = Before(p) + Len(rs)
  <2>1. Silent(p + 1)' = Silent(p + 1)
    BY <1>2, <1>5
  <2>2. /\ Cardinality(Silent(p)) \in Nat
        /\ Cardinality(Silent(p + 1)) =
             Cardinality(Silent(p)) + (IF Order[p] \in NoResult THEN 1 ELSE 0)
    BY <1>2, SilentChecks
  <2>3. \/ /\ Order[p] \in NoResult /\ suite # "common" /\ Len(rs) = 0
        \/ /\ Order[p] \notin NoResult /\ Len(rs) = 1
        \/ /\ Order[p] \notin NoResult /\ suite = "common" /\ p = 3
           /\ Len(rs) = 2
    BY <1>2, WhatIsLeft
  <2> DEFINE now == Cardinality(Silent(p))
             next == Cardinality(Silent(p + 1))
             e == Extra
             e1 == Extra'
             m == Past
             none == Order[p] \in NoResult
  <2>4. /\ Before(p) = m + (p - 1) - now + (IF p > 3 THEN e ELSE 0)
        /\ Before(p + 1)' = m + p - next + (IF p + 1 > 3 THEN e1 ELSE 0)
    BY <1>2, <1>7, <2>1 DEF Before
  <2>5. /\ now \in Nat /\ next = now + (IF none THEN 1 ELSE 0)
        /\ e \in {0, 1} /\ e1 \in {0, 1} /\ m \in {0, 1}
        /\ p # 3 => e1 = e
        /\ p = 3 /\ suite = "common" =>
             e = 0 /\ e1 = IF Len(rs) = 2 THEN 1 ELSE 0
        /\ suite # "common" => e = 0 /\ e1 = 0
    BY <1>6, <1>7, <2>2
  <2>6. \/ none /\ suite # "common" /\ Len(rs) = 0
        \/ ~none /\ Len(rs) = 1
        \/ ~none /\ suite = "common" /\ p = 3 /\ Len(rs) = 2
    BY <2>3
  <2> DEFINE before == Before(p)
             after == Before(p + 1)'
  <2>7. /\ before = m + (p - 1) - now + (IF p > 3 THEN e ELSE 0)
        /\ after = m + p - next + (IF p + 1 > 3 THEN e1 ELSE 0)
    BY <2>4
  <2> HIDE DEF now, next, e, e1, m, none, rs, before, after
  <2>8. ASSUME none
         PROVE  after = before + Len(rs)
    BY <1>2, <2>5, <2>6, <2>7, <2>8
  <2>9. ASSUME ~none, Len(rs) = 1
         PROVE  after = before + Len(rs)
    BY <1>2, <2>5, <2>6, <2>7, <2>9
  <2>10. ASSUME ~none, suite = "common", p = 3, Len(rs) = 2
         PROVE  after = before + Len(rs)
    BY <1>2, <2>5, <2>6, <2>7, <2>10
  <2>11. after = before + Len(rs)
    BY <2>6, <2>8, <2>9, <2>10
  <2> QED
    BY <2>11 DEF before, after
<1>10. /\ Len(results) \in Nat /\ Len(results') = Len(results) + Len(rs)
       /\ DOMAIN rs = 1..Len(rs) /\ Len(rs) \in Nat
       /\ \A i \in DOMAIN results :
            i \in DOMAIN results' /\ results'[i] = results[i]
       /\ \A j \in DOMAIN rs : /\ Len(results) + j \in DOMAIN results'
                               /\ results'[Len(results) + j] = rs[j]
  BY <1>1, Added
<1>11. /\ Len(results) = Before(p)
       /\ \A k \in 1..p - 1 : Order[k] \notin NoResult =>
            /\ Before(k) + 1 \in DOMAIN results
            /\ results[Before(k) + 1].check = Order[k]
  <2>1. Len(results) = Before((p - 1) + 1) + OwnLeft
    BY <1>2 DEF ReportAt
  <2>2. (p - 1) + 1 = p
    BY <1>2
  <2>3. Before(p) + 0 = Before(p)
    BY <1>2, BeforeIsNumber
  <2> QED
    BY <1>2, <1>6, <2>1, <2>2, <2>3 DEF ReportAt
<1>12. Order[p] \notin NoResult => 1 \in DOMAIN rs /\ rs[1].check = Order[p]
  BY <1>2, <1>10, WhatIsLeft
<1> HIDE DEF rs
<1>13. ASSUME NEW k \in 1..p, Order'[k] \notin NoResult'
       PROVE  /\ Before(k)' + 1 \in DOMAIN results'
              /\ results'[Before(k)' + 1].check = Order'[k]
  <2>1. /\ Before(k)' = Before(k)
        /\ Order[k] \notin NoResult
        /\ Order'[k] = Order[k]
    BY <1>4, <1>8, <1>13
  <2>2. CASE k = p
    BY <1>10, <1>11, <1>12, <2>1, <2>2
  <2>3. CASE k # p
    <3>1. k \in 1..p - 1
      BY <1>2, <2>3
    <3> QED
      BY <1>10, <1>11, <2>1, <3>1
  <2> QED
    BY <2>2, <2>3
<1>14. Len(results') = Before(p + 1)' + OwnLeft'
  <2>1. Before(p + 1)' + 0 = Before(p + 1)'
    BY <1>9, <1>10, <1>11
  <2> QED
    BY <1>6, <1>9, <1>10, <1>11, <2>1
<1> QED
  BY <1>13, <1>14 DEF ReportAt

\* Where nothing but Ctrl-C or the faults changed, the report is as it was.
LEMMA SameReport ==
  ASSUME FactsInv, [Next]_vars, results' = results
  PROVE  /\ \A n : ReportAt(n)' <=> ReportAt(n)
         /\ NamespaceFailed' <=> NamespaceFailed
         /\ \A check : Left(check)' = Left(check)
         /\ NoPackage' <=> NoPackage
         /\ Own' = Own /\ Over' = Over /\ Len(Order') = Len(Order)
<1>1. suite' = suite /\ Order' = Order /\ Own' = Own /\ Over' = Over
  BY StepFacts, SameOrder
<1>2. /\ NoResult' = NoResult /\ Extra' = Extra /\ OwnLeft' = OwnLeft
      /\ Past' = Past
  BY <1>1 DEF NoResult, Extra, OwnLeft, Past, NoPackage, StatusOf, Left
<1>3. \A k : Silent(k)' = Silent(k)
  BY <1>1, <1>2 DEF Silent
<1>4. \A k : Before(k)' = Before(k)
  BY <1>2, <1>3 DEF Before
<1>5. \A n : ReportAt(n)' <=> ReportAt(n)
  BY <1>1, <1>2, <1>4 DEF ReportAt
<1>6. NamespaceFailed' <=> NamespaceFailed
  BY <1>1 DEF NamespaceFailed, NamespaceFirst, StatusOf, Left
<1> QED
  BY <1>1, <1>5, <1>6 DEF NoPackage, StatusOf, Left

\* A run begins before its first check, with what is past.
LEMMA InitReport == Init => ReportInv
<1> SUFFICES ASSUME Init
             PROVE  ReportInv
  OBVIOUS
<1>1. FactsInv /\ CountInv /\ position = 1
  BY InitFacts, InitCounts DEF Init
<1>2. PICK status \in {"PASS", "FAIL"} : results = PastResults(suite, status)
  BY DEF Init
<1>3. Len(results) = Past /\ (suite # "muo" => results = <<>>)
  BY <1>2 DEF PastResults, One, Result, Past
<1>4. position \in 1..Over /\ Own \in Nat \ {0} /\ Over \in {Own, Own + 1}
  BY <1>1, Orders
<1>5. suite # "muo" => \A check : Left(check) = {} /\ StatusOf(check) = {}
  BY <1>3 DEF Left, StatusOf
<1>6. CommonLeft
  BY <1>5 DEF CommonLeft, NoPackage
<1>7. ~NamespaceFailed /\ OwnLeft = 0 /\ ~cancelled
  BY <1>5 DEF NamespaceFailed, NamespaceFirst, OwnLeft, Init
<1>8. ReportAt(0)
  <2>1. Silent(1) = {}
    BY DEF Silent
  <2>2. Cardinality(Silent(1)) = 0
    BY <2>1, FS_EmptySet
  <2>3. Before(0 + 1) = Past
    <3>1. Before(0 + 1) = Past + 0 - 0 + 0
      BY <2>2 DEF Before
    <3> QED
      BY <3>1 DEF Past
  <2> QED
    BY <1>3, <1>7, <2>3 DEF ReportAt, Past
<1>9. Reported
  <2>1. position < Own => position - 1 = 0
    BY <1>1
  <2>2. position >= Own => Len(Order) = 0
    BY <1>1, <1>4, Orders DEF Own
  <2> QED
    BY <1>4, <1>1, <1>7, <1>8, <2>1, <2>2 DEF Reported
<1> QED
  BY <1>1, <1>4, <1>6, <1>9 DEF ReportInv

\* A check keeps the report whole, and a namespace that failed ends it.
LEMMA CheckKeepsReport ==
  ASSUME ReportInv, [Next]_vars, position < Own, NEW ans, RunCheck(ans)
  PROVE  /\ position' \in 1..Over /\ CommonLeft' /\ Reported'
<1> DEFINE rs == ResultsOf(ans)
<1>1. FactsInv /\ CountInv /\ CommonLeft /\ position \in 1..Over /\ Reported
  BY DEF ReportInv
<1>2. /\ suite' = suite /\ Own' = Own /\ Over' = Over /\ Order' = Order
      /\ Own \in Nat \ {0} /\ Over \in {Own, Own + 1} /\ Own = Len(Order) + 1
      /\ Len(Order) \in Nat
  BY <1>1, StepFacts, SameOrder, Orders DEF Own
<1>3. position \in 1..Own - 1 /\ position \in 1..Len(Order)
  BY <1>1, <1>2
<1>4. IsList(rs) /\ AddResults(rs) /\ position' = After(rs)
  BY <1>1, <1>3, LeavesList DEF RunCheck
<1>5. position' \in {position + 1, Own} /\ position' \in 1..Over
  BY <1>2, <1>3, <1>4 DEF After
<1>6. ~NamespaceFailed
  BY <1>1, <1>2, <1>3 DEF Reported
<1>7. ReportAt(position - 1)
  <2>1. PICK n \in 0..Len(Order) : ReportAt(n) /\ n = position - 1
    BY <1>1, <1>2, <1>3, <1>6 DEF Reported
  <2> QED
    BY <2>1
<1>8. PICK p : p = position
  OBVIOUS
<1>13. ReportAt(p)' /\ p \in 0..Len(Order')
  BY <1>1, <1>2, <1>3, <1>7, <1>8, CheckReports
<1>9. CommonLeft'
  <2> SUFFICES ASSUME suite = "common"
               PROVE  /\ Left("own")' # {} => position' = Over'
                      /\ position' <= 3 =>
                           Left("pko_clusterpackage_health")' = {}
                      /\ Left("olm_subscription_health")' # {} <=> NoPackage'
    BY <1>2 DEF CommonLeft
  <2>1. /\ Left("own")' = {}
        /\ position # 3 =>
             /\ NoPackage' <=> NoPackage
             /\ Left("pko_clusterpackage_health")' # {} <=>
                  Left("pko_clusterpackage_health") # {}
             /\ Left("olm_subscription_health")' # {} <=>
                  Left("olm_subscription_health") # {}
        /\ position = 3 =>
             (Left("olm_subscription_health")' # {} <=> NoPackage')
    BY <1>1, <1>3, PackageLeft
  <2>2. /\ position <= 3 => Left("pko_clusterpackage_health") = {}
        /\ Left("olm_subscription_health") # {} <=> NoPackage
    BY <1>1 DEF CommonLeft
  <2>3. Own = 15
    BY CommonPlaces
  <2>4. position' <= 3 => position <= 3 /\ position # 3
    BY <1>3, <1>5, <2>3
  <2> HIDE DEF Left, NoPackage
  <2>5. CASE position = 3
    BY <2>1, <2>4, <2>5, Zenon
  <2>6. CASE position # 3
    BY <2>1, <2>2, <2>4, <2>6, Zenon
  <2> QED
    BY <2>5, <2>6
<1>10. NamespaceFailed' <=>
         NamespaceFirst /\ position = 1 /\ rs[1].status = "FAIL"
  <2>1. CASE ~NamespaceFirst
    BY <1>2, <2>1 DEF NamespaceFailed, NamespaceFirst
  <2>2. CASE NamespaceFirst
    <3>1. \A j \in DOMAIN rs : rs[j].check = "namespace_status"
                                <=> position = 1 /\ j = 1
      <4>1. suite \in {"common", "sae"}
        BY <2>2 DEF NamespaceFirst
      <4>2. Current = "namespace_status" <=> position = 1
        BY <1>1, <1>3, <4>1, Names DEF Current
      <4>3. \/ Len(rs) = 1 /\ rs[1].check = Current
            \/ /\ position = 3 /\ Len(rs) = 2 /\ rs[1].check = Current
               /\ rs[2].check = "olm_subscription_health"
        <5>1. NoResult = {}
          BY <4>1 DEF NoResult
        <5> QED
          BY <1>1, <1>3, <5>1, WhatIsLeft
      <4>4. DOMAIN rs = 1..Len(rs)
        BY <1>1, <1>4, Added
      <4> HIDE DEF rs, Current
      <4> QED
        BY <4>2, <4>3, <4>4
    <3>2. position = 1 => 1 \in DOMAIN rs
      <4>1. NoResult = {}
        BY <2>2 DEF NamespaceFirst, NoResult
      <4>2. Len(rs) \in {1, 2}
        BY <1>1, <1>3, <4>1, WhatIsLeft
      <4>3. DOMAIN rs = 1..Len(rs)
        BY <1>1, <1>4, Added
      <4> HIDE DEF rs
      <4> QED
        BY <4>2, <4>3
    <3>3. "FAIL" \notin StatusOf("namespace_status")
      BY <1>6, <2>2 DEF NamespaceFailed
    <3>4. "FAIL" \in StatusOf("namespace_status")' <=>
            \E j \in DOMAIN rs : /\ rs[j].check = "namespace_status"
                                 /\ rs[j].status = "FAIL"
      <4> HIDE DEF rs
      <4> QED
        BY <1>1, <1>4, <3>3, LeftNow
    <3>5. "FAIL" \in StatusOf("namespace_status")' <=>
            position = 1 /\ rs[1].status = "FAIL"
      <4> HIDE DEF rs
      <4> QED
        BY <3>1, <3>2, <3>4
    <3>6. NamespaceFailed' <=> "FAIL" \in StatusOf("namespace_status")'
      BY <1>2, <2>2 DEF NamespaceFailed, NamespaceFirst
    <3> QED
      BY <2>2, <3>5, <3>6
  <2> QED
    BY <2>1, <2>2
<1>11. CASE NamespaceFirst /\ position = 1 /\ rs[1].status = "FAIL"
  <2>1. NamespaceFailed' /\ position' = Own
    BY <1>4, <1>10, <1>11 DEF After
  <2>2. p = 1
    BY <1>8, <1>11
  <2>3. Reported'
    BY <1>2, <1>13, <2>1, <2>2 DEF Reported
  <2> QED
    BY <1>5, <1>9, <2>3
<1>12. CASE ~(NamespaceFirst /\ position = 1 /\ rs[1].status = "FAIL")
  <2>1. ~NamespaceFailed' /\ position' = position + 1
    BY <1>4, <1>10, <1>12 DEF After
  <2>2. p = IF position' < Own' THEN position' - 1 ELSE Len(Order')
    BY <1>2, <1>3, <1>8, <2>1
  <2>3. Reported'
    BY <1>13, <2>1, <2>2 DEF Reported
  <2> QED
    BY <1>5, <1>9, <2>3
<1> QED
  BY <1>11, <1>12

\* The operator's own checks come behind the common ones, and tell nothing of
\* the package or the namespace.
LEMMA OwnReports ==
  ASSUME FactsInv, CountInv, CommonLeft, [Next]_vars, suite = "common",
         position = Own, NEW s, AddResults(One("own", s))
  PROVE  /\ \A n \in 0..Len(Order) : ReportAt(n) => ReportAt(n)'
         /\ NamespaceFailed' <=> NamespaceFailed
         /\ NoPackage' <=> NoPackage
         /\ Left("own")' # {}
         /\ Left("olm_subscription_health")' # {} <=>
              Left("olm_subscription_health") # {}
<1> DEFINE rs == One("own", s)
<1>1. IsList(rs) /\ AddResults(rs) /\ Len(rs) = 1 /\ rs[1].check = "own"
  BY OneIsList DEF One, Result
<1>2. DOMAIN rs = 1..1
  BY <1>1, Added
<1> HIDE DEF rs
<1>3. suite' = suite /\ Order' = Order /\ Len(Order) \in Nat
  BY StepFacts, SameOrder, Orders
<1>4. ASSUME NEW check, check # "own"
      PROVE  /\ Left(check)' # {} <=> Left(check) # {}
             /\ \A t : t \in StatusOf(check)' <=> t \in StatusOf(check)
  BY <1>1, <1>2, <1>4, LeftNow
<1>5. Left("own")' # {}
  BY <1>1, <1>2, LeftNow
<1>6. NoPackage' <=> NoPackage
  BY <1>4 DEF NoPackage
<1>7. NamespaceFailed' <=> NamespaceFailed
  BY <1>3, <1>4 DEF NamespaceFailed, NamespaceFirst
<1>8. ASSUME NEW n \in 0..Len(Order), ReportAt(n)
      PROVE  ReportAt(n)'
  <2>1. Left("own") = {}
    BY CommonPlaces DEF CommonLeft
  <2>2. OwnLeft = 0 /\ OwnLeft' = 1
    BY <1>3, <1>5, <2>1 DEF OwnLeft
  <2>3. Extra' = Extra /\ NoResult' = NoResult /\ Past' = Past
    BY <1>3, <1>6 DEF Extra, NoResult, Past
  <2>4. \A k : Before(k)' = Before(k)
    <3>1. \A k : Silent(k)' = Silent(k)
      BY <1>3, <2>3 DEF Silent
    <3> QED
      BY <2>3, <3>1 DEF Before
  <2>5. /\ Len(results) \in Nat /\ Len(results') = Len(results) + 1
        /\ \A i \in DOMAIN results :
             i \in DOMAIN results' /\ results'[i] = results[i]
    BY <1>1, Added, Zenon
  <2>6. Len(results') = Before(n + 1)' + OwnLeft'
    <3>1. Len(results) = Before(n + 1) + 0
      BY <1>8, <2>2 DEF ReportAt
    <3>2. Before(n + 1) \in Int
      BY <1>3, BeforeIsNumber
    <3> QED
      BY <2>2, <2>4, <2>5, <3>1, <3>2
  <2>7. ASSUME NEW k \in 1..n, Order'[k] \notin NoResult'
        PROVE  /\ Before(k)' + 1 \in DOMAIN results'
               /\ results'[Before(k)' + 1].check = Order'[k]
    <3>1. /\ Before(k) + 1 \in DOMAIN results
          /\ results[Before(k) + 1].check = Order[k]
      BY <1>3, <1>8, <2>3, <2>7 DEF ReportAt
    <3> QED
      BY <1>3, <2>4, <2>5, <3>1
  <2> QED
    BY <2>6, <2>7 DEF ReportAt
<1> QED
  BY <1>4, <1>5, <1>6, <1>7, <1>8

\* Every step keeps the report whole.
LEMMA StepReport == ReportInv /\ [Next]_vars => ReportInv'
<1> SUFFICES ASSUME ReportInv, [Next]_vars
             PROVE  ReportInv'
  OBVIOUS
<1>1. FactsInv /\ CountInv /\ CommonLeft /\ position \in 1..Over /\ Reported
  BY DEF ReportInv
<1>2. FactsInv' /\ CountInv' /\ suite' = suite
  BY <1>1, StepFacts, StepCounts DEF FactsInv
<1>3. /\ Own' = Own /\ Over' = Over /\ Len(Order') = Len(Order)
      /\ Own \in Nat \ {0} /\ Over \in {Own, Own + 1} /\ Own = Len(Order) + 1
      /\ Len(Order) \in Nat
  BY <1>1, SameOrder, Orders DEF Own
<1>4. ASSUME NEW ans, position < Own, RunCheck(ans)
      PROVE  position' \in 1..Over /\ CommonLeft' /\ Reported'
  BY <1>4, CheckKeepsReport
<1>5. ASSUME OwnChecks
      PROVE  position' \in 1..Over /\ CommonLeft' /\ Reported'
  <2>1. PICK s : AddResults(One("own", s))
    BY <1>5 DEF OwnChecks
  <2>2. /\ suite = "common" /\ position = Own /\ position' = Over
        /\ cancelled' = cancelled /\ ~cancelled
    BY <1>5 DEF OwnChecks
  <2>3. /\ \A n \in 0..Len(Order) : ReportAt(n) => ReportAt(n)'
        /\ NamespaceFailed' <=> NamespaceFailed
        /\ NoPackage' <=> NoPackage
        /\ Left("olm_subscription_health")' # {} <=>
             Left("olm_subscription_health") # {}
    BY <1>1, <2>1, <2>2, OwnReports
  <2>4. position' = Own + 1
    BY <2>2 DEF Over
  <2>5. CommonLeft'
    <3>1. Own = 15
      BY <2>2, CommonPlaces
    <3>2. ~(position' <= 3)
      BY <2>4, <3>1
    <3> QED
      BY <1>1, <1>3, <2>2, <2>3, <3>2, Zenon DEF CommonLeft
  <2>6. PICK n \in 0..Len(Order) :
          /\ ReportAt(n)
          /\ IF NamespaceFailed THEN n = 1 ELSE n = Len(Order)
    BY <1>1, <2>2 DEF Reported
  <2>7. Reported'
    BY <1>3, <2>3, <2>4, <2>6 DEF Reported
  <2> QED
    BY <1>3, <2>4, <2>5, <2>7, <2>2
<1>6. ASSUME results' = results,
             \/ position' = position
                  /\ (cancelled' = cancelled \/ position < Over)
             \/ cancelled /\ cancelled' = cancelled /\ position \in StopsAt
                  /\ position' = Over
      PROVE  position' \in 1..Over /\ CommonLeft' /\ Reported'
  <2>1. /\ \A n : ReportAt(n)' <=> ReportAt(n)
        /\ NamespaceFailed' <=> NamespaceFailed
        /\ \A check : Left(check)' = Left(check)
        /\ NoPackage' <=> NoPackage
    BY <1>1, <1>6, SameReport
  <2>2. position' \in {position, Over} /\ position' \in 1..Over
    BY <1>1, <1>3, <1>6
  <2>3. CommonLeft'
    <3>1. suite = "common" => ~(Over <= 3)
      BY CommonPlaces
    <3>2. position' <= 3 => position <= 3 \/ suite # "common"
      BY <2>2, <3>1
    <3>3. position = Over => position' = Over
      BY <2>2
    <3> QED
      BY <1>1, <1>2, <1>3, <2>1, <3>2, <3>3, Zenon DEF CommonLeft
  <2>4. PICK n \in 0..Len(Order) :
          /\ ReportAt(n)
          /\ IF NamespaceFailed THEN n = 1 /\ position >= Own
             ELSE \/ /\ suite \in {"common", "byoc"} /\ cancelled
                     /\ position = Over
                  \/ n = IF position < Own THEN position - 1 ELSE Len(Order)
    BY <1>1 DEF Reported
  <2>5. IF NamespaceFailed THEN n = 1 /\ position' >= Own
        ELSE \/ /\ suite \in {"common", "byoc"} /\ cancelled'
                /\ position' = Over
             \/ n = IF position' < Own THEN position' - 1 ELSE Len(Order)
    <3>1. CASE NamespaceFailed
      BY <1>1, <1>3, <2>2, <2>4, <3>1
    <3>2. CASE ~NamespaceFailed /\ position' = position
      <4>1. position = Over /\ cancelled => cancelled'
        <5>1. position = Over => ~(position < Over)
          BY <1>3
        <5> QED
          BY <1>6, <3>2, <5>1, Zenon
      <4> QED
        BY <2>4, <3>2, <4>1
    <3>3. CASE ~NamespaceFailed /\ position' # position
      <4>1. suite \in {"common", "byoc"}
        BY <1>6, <3>3 DEF StopsAt
      <4> QED
        BY <1>6, <3>3, <4>1
    <3> QED
      BY <3>1, <3>2, <3>3
  <2>6. Reported'
    BY <1>2, <1>3, <2>1, <2>4, <2>5 DEF Reported
  <2> QED
    BY <2>2, <2>3, <2>6
<1>7. position' \in 1..Over /\ CommonLeft' /\ Reported'
  <2>1. CASE Check
    BY <1>4, <2>1 DEF Check
  <2>2. CASE InterruptedCheck
    BY <1>4, <2>2 DEF InterruptedCheck
  <2>3. CASE CancelledCheck
    BY <1>4, <2>3 DEF CancelledCheck
  <2>4. CASE Stop
    BY <1>6, <2>4 DEF Stop, counts
  <2>5. CASE Change
    BY <1>6, <2>5 DEF Change, counts
  <2>6. CASE Interrupt
    BY <1>6, <2>6 DEF Interrupt, counts
  <2>7. CASE UNCHANGED vars
    BY <1>6, <2>7 DEF vars
  <2> QED
    BY <1>5, <2>1, <2>2, <2>3, <2>4, <2>5, <2>6, <2>7, Zenon DEF Next
<1> QED
  BY <1>2, <1>3, <1>7 DEF ReportInv

\* In every reachable state the report so far is whole.
LEMMA ReportKept == Spec => []ReportInv
BY InitReport, StepReport, PTL DEF Spec

\* RunChecks and RunAllCommonChecks leave no gap: whatever the calls meet and
\* whenever Ctrl-C comes, every check that had its turn left its result, in its
\* place, and no other did; the run ends early only with a failed namespace or
\* after Ctrl-C; and checkOLMSubscription reports exactly without a package.
THEOREM NoGapInReport == Spec => []ReportIsWhole
<1>1. ReportInv => ReportIsWhole
  <2> SUFFICES ASSUME ReportInv
               PROVE  ReportIsWhole
    OBVIOUS
  <2>1. PICK n \in 0..Len(Order) :
          /\ ReportAt(n)
          /\ IF NamespaceFailed THEN n = 1
             ELSE \/ /\ suite \in {"common", "byoc"} /\ cancelled
                     /\ position = Over
                  \/ n = IF position < Own THEN position - 1 ELSE Len(Order)
    BY DEF ReportInv, Reported
  <2>2. ReportOf(n)
    <3>1. n \in Nat
      BY Orders DEF ReportInv
    <3> QED
      BY <2>1, <3>1, PlacesAreReported
  <2>3. suite = "common" =>
          (Left("olm_subscription_health") # {} <=> NoPackage)
    BY DEF ReportInv, CommonLeft
  <2> QED
    BY <2>1, <2>2, <2>3 DEF ReportIsWhole
<1> QED
  BY <1>1, ReportKept, PTL

(***************************************************************************)
(* Calls without an answer: what a check says when some of them were       *)
(* denied or failed, beside what it says of the same cluster when it read  *)
(* everything.                                                             *)
(***************************************************************************)
\* The absence of an answer passes, where the answer would be an alarm.
Hides(unread, read) ==
  StatusesOf(unread) = {"PASS"} /\ StatusesOf(read) \intersect Alarms # {}
\* A refusal fails, where the answer would not.
Blames(refused, read) ==
  "FAIL" \in StatusesOf(refused) /\ "FAIL" \notin StatusesOf(read)
\* Any answers to n calls, and those of a cluster that answers all of them.
Compared(ans, ok, n) == \A i \in 1..n : ans[i] \in Answers /\ ok[i] = "ok"
\* The check hides nothing and blames nobody, unless it is known to.
Tells(check, ans, n, unread, read) ==
  /\ check \notin MayPassUnread => ~Hides(unread, read)
  /\ check \notin FailsRefused /\ (\A i \in 1..n : ans[i] # "error")
       => ~Blames(unread, read)

\* What leaves no result does neither.
LEMMA NoStatus ==
  ASSUME NEW read
  PROVE  ~Hides(<<>>, read) /\ ~Blames(<<>>, read)
<1> StatusesOf(<<>>) = {}
  BY DEF StatusesOf
<1> QED
  BY DEF Hides, Blames

\* What leaves one does by its status.
LEMMA OneStatus ==
  ASSUME NEW check, NEW s, NEW t
  PROVE  LET unread == <<[check |-> check, status |-> s]>>
             read == <<[check |-> check, status |-> t]>>
         IN  /\ Hides(unread, read) <=> s = "PASS" /\ t \in Alarms
             /\ Blames(unread, read) <=> s = "FAIL" /\ t # "FAIL"
<1>1. \A u : StatusesOf(<<[check |-> check, status |-> u]>>) = {u}
  BY DEF StatusesOf
<1>2. {s} = {"PASS"} <=> s = "PASS"
  OBVIOUS
<1>3. {t} \intersect Alarms # {} <=> t \in Alarms
  OBVIOUS
<1> QED
  BY <1>1, <1>2, <1>3 DEF Hides, Blames

\* What leaves a SKIP does not only leave a PASS.
LEMMA NotOnlyPass ==
  ASSUME NEW unread, NEW read, "SKIP" \in StatusesOf(unread)
  PROVE  ~Hides(unread, read)
BY DEF Hides

\* Of the pods or deployments that a check of the hosted control planes sees
\* with some calls unanswered, it sees as much with all of them answered.
LEMMA SeenToo ==
  ASSUME NEW c, NEW ans, NEW ok, NEW left, NEW first,
         ok[first] = "ok", ok[first + 1] = "ok"
  PROVE  \A k \in DOMAIN Hcp!Seen(c, ans, left, first) :
           /\ k \in DOMAIN Hcp!Seen(c, ok, left, first)
           /\ Hcp!Seen(c, ans, left, first)[k] =
                Hcp!Seen(c, ok, left, first)[k]
BY DEF Hcp!Seen

\* The common checks; the alerts with a call that answers or fails.
LEMMA CommonTells ==
  ASSUME NEW c, NEW check \in ToSet(Common!Order),
         NEW ans, NEW ok, NEW past,
         Compared(ans, ok, Common!Calls(check))
  PROVE  Tells(check, ans, Common!Calls(check),
               Common!Results(check, c, ans, past),
               Common!Results(check, c, ok, past))
<1>0. check \in {"namespace_status", "image_pull_status", "pko_job_health",
               "pod_status_and_restarts", "pko_clusterpackage_health",
               "dual_installation_check", "orphaned_olm_artifacts",
               "version_verification", "resource_limits_validation",
               "leader_election", "resource_leak_detection",
               "log_error_analysis", "operator_events", "active_alerts"}
  BY DEF ToSet, Common!Order
<1> USE OneStatus DEF Tells, Compared, Alarms, Answers, Common!Calls,
                      Common!Results, Common!One, Common!Result
<1>1. CASE check \in {"namespace_status", "image_pull_status",
                    "pko_job_health"}
  BY <1>1 DEF Common!NamespaceStatus, Common!ImageStatus, Common!JobStatus
<1>2. CASE check = "pod_status_and_restarts"
  BY <1>2 DEF Common!PodStatus, FailsRefused
<1>3. CASE check = "pko_clusterpackage_health"
  <2>1. Blames(Common!Results(check, c, ans, past),
               Common!Results(check, c, ok, past)) => check \in FailsRefused
    BY <1>3 DEF FailsRefused
  <2>2. CASE Common!HasPackage(c, ans[1])
    <3>1. Common!HasPackage(c, ok[1])
      BY <1>3, <2>2 DEF Common!HasPackage
    <3> QED
      BY <1>3, <2>1, <2>2, <3>1 DEF Common!PackageResults
  <2>3. CASE ~Common!HasPackage(c, ans[1])
    <3>1. Common!Results(check, c, ans, past)[1].status = "SKIP"
      BY <1>3, <2>3 DEF Common!PackageResults
    <3>2. 1 \in DOMAIN Common!Results(check, c, ans, past)
      BY <1>3, <2>3 DEF Common!PackageResults
    <3>3. "SKIP" \in StatusesOf(Common!Results(check, c, ans, past))
      BY ONLY <3>1, <3>2, Zenon DEF StatusesOf
    <3>4. ~Hides(Common!Results(check, c, ans, past),
                 Common!Results(check, c, ok, past))
      BY ONLY <3>3, NotOnlyPass, Zenon
    <3> QED
      BY ONLY <2>1, <3>4, Zenon DEF Tells
  <2> QED
    BY <2>2, <2>3, Zenon
<1>4. CASE check = "dual_installation_check"
  BY <1>4 DEF MayPassUnread, FailsRefused
<1>5. CASE check = "orphaned_olm_artifacts"
  BY <1>5 DEF Common!OrphanStatus, Common!HasPackage, MayPassUnread
<1>6. CASE check \in {"version_verification", "resource_limits_validation",
                    "leader_election"}
  BY <1>6 DEF Common!VersionStatus, Common!LimitsStatus, Common!LeaderStatus,
             Common!FoundLease
<1>7. CASE check = "resource_leak_detection"
  <2> DEFINE r(a) == Common!LeakResult(c, a)
  <2>1. \A a : StatusesOf(<<r(a)>>) = {r(a).status}
    BY DEF StatusesOf
  <2>2. r(ans).status # "FAIL"
    BY DEF Common!LeakResult
  <2> HIDE DEF r
  <2>3. ~Blames(<<r(ans)>>, <<r(ok)>>)
    BY <2>1, <2>2 DEF Blames
  <2> QED
    BY <1>7, <2>3 DEF MayPassUnread, r
<1>8. CASE check \in {"log_error_analysis", "operator_events"}
  BY <1>8 DEF Common!LogResults, Common!AllRead, Common!EventStatus,
             MayPassUnread
<1>9. CASE check = "active_alerts"
  BY <1>9 DEF Common!AlertStatus
<1> QED
  BY <1>0, <1>1, <1>2, <1>3, <1>4, <1>5, <1>6, <1>7, <1>8, <1>9

\* The checks of pagerduty-operator.
LEMMA PdoTells ==
  ASSUME NEW c, NEW check \in ToSet(Pdo!Order),
         NEW ans, NEW ok, NEW past,
         Compared(ans, ok, Pdo!Calls(check))
  PROVE  Tells(check, ans, Pdo!Calls(check),
               Pdo!Results(check, c, ans, past),
               Pdo!Results(check, c, ok, past))
<1>0. check \in {"pdo_api_key_secret", "pdo_firing_alerts",
               "pdo_controller_availability", "pdo_pdi_status",
               "pdo_prometheus_metrics", "pdo_reconciliation_activity",
               "pdo_configuration_errors"}
  BY DEF ToSet, Pdo!Order
<1> USE OneStatus DEF Tells, Compared, Alarms, Answers, Pdo!Calls,
                      Pdo!Results, Pdo!One, Pdo!Result
<1>1. CASE check \in {"pdo_api_key_secret", "pdo_firing_alerts"}
  BY <1>1 DEF Pdo!APIKeyStatus, Pdo!AlertsStatus, Pdo!CanElevate,
             Pdo!ElevationSkip
<1>2. CASE check \in {"pdo_controller_availability", "pdo_pdi_status"}
  BY <1>2 DEF Pdo!ControllerStatus, Pdo!AvailabilityStatus, Pdo!PDIStatus,
             Pdo!ElevationSkip
<1>3. CASE check = "pdo_prometheus_metrics"
  BY <1>3 DEF Pdo!MetricsStatus, MayPassUnread
<1>4. CASE check \in {"pdo_reconciliation_activity",
                    "pdo_configuration_errors"}
  BY <1>4 DEF Pdo!ReconciliationStatus, Pdo!ConfigurationStatus, Pdo!LogsRead,
             Pdo!AllRead, MayPassUnread
<1> QED
  BY <1>0, <1>1, <1>2, <1>3, <1>4

\* The checks of deadmanssnitch-operator.
LEMMA DmsTells ==
  ASSUME NEW c, NEW check \in ToSet(Dms!Order),
         NEW ans, NEW ok, NEW past,
         Compared(ans, ok, Dms!Calls(check))
  PROVE  Tells(check, ans, Dms!Calls(check),
               Dms!Results(check, c, ans, past),
               Dms!Results(check, c, ok, past))
<1>0. check \in {"dms_controller_availability", "dms_integrations",
               "dms_snitch_api_health", "dms_coverage"}
  BY DEF ToSet, Dms!Order
<1> USE OneStatus DEF Tells, Compared, Alarms, Answers, Dms!Calls,
                      Dms!Results, Dms!One, Dms!Result
<1>1. CASE check = "dms_controller_availability"
  BY <1>1 DEF Dms!ControllerStatus, FailsRefused
<1>2. CASE check \in {"dms_integrations", "dms_snitch_api_health"}
  BY <1>2 DEF Dms!IntegrationsStatus, Dms!SnitchAPIStatus, Dms!CanElevate,
             Dms!ElevationSkip, MayPassUnread
<1>3. CASE check = "dms_coverage"
  <2>1. Dms!CoverageStatus(c, ans) # "FAIL"
    BY <1>3 DEF Dms!CoverageStatus, Dms!ElevationSkip
  <2> QED
    BY <1>3, <2>1 DEF MayPassUnread
<1> QED
  BY <1>0, <1>1, <1>2, <1>3

\* The checks of osd-metrics-exporter.
LEMMA OmeTells ==
  ASSUME NEW c, NEW check \in ToSet(Ome!Order),
         NEW ans, NEW ok, NEW past,
         Compared(ans, ok, Ome!Calls(check))
  PROVE  Tells(check, ans, Ome!Calls(check),
               Ome!Results(check, c, ans, past),
               Ome!Results(check, c, ok, past))
<1>0. check \in {"ome_metrics_health", "ome_pull_secret_health",
               "ome_proxy_ca_health", "ome_identity_providers",
               "ome_servicemonitor_health"}
  BY DEF ToSet, Ome!Order
<1> USE OneStatus DEF Tells, Compared, Alarms, Answers, Ome!Calls,
                      Ome!Results, Ome!One, Ome!Result
<1>1. CASE check = "ome_metrics_health"
  BY <1>1 DEF MayPassUnread, FailsRefused
<1>2. CASE check \in {"ome_pull_secret_health", "ome_proxy_ca_health",
                    "ome_identity_providers"}
  BY <1>2 DEF Ome!PullSecretStatus, Ome!ProxyCAStatus
<1>3. CASE check = "ome_servicemonitor_health"
  BY <1>3 DEF Ome!ServiceMonitorStatus, FailsRefused
<1> QED
  BY <1>0, <1>1, <1>2, <1>3

\* The check of managed-node-metadata-operator.
LEMMA MnmoTells ==
  ASSUME NEW c, NEW check \in ToSet(Mnmo!Order),
         NEW ans, NEW ok, NEW past,
         Compared(ans, ok, Mnmo!Calls(check))
  PROVE  Tells(check, ans, Mnmo!Calls(check),
               Mnmo!Results(check, c, ans, past),
               Mnmo!Results(check, c, ok, past))
<1>0. check \in {"mnmo_metadata_sync"}
  BY DEF ToSet, Mnmo!Order
<1> USE OneStatus DEF Tells, Compared, Alarms, Answers, Mnmo!Calls,
                      Mnmo!Results, Mnmo!One, Mnmo!Result
<1>1. CASE check = "mnmo_metadata_sync"
  BY <1>1
<1> QED
  BY <1>0, <1>1

\* The checks of splunk-forwarder-operator.
LEMMA SfoTells ==
  ASSUME NEW c, NEW check \in ToSet(Sfo!Order),
         NEW ans, NEW ok, NEW past,
         Compared(ans, ok, Sfo!Calls(check))
  PROVE  Tells(check, ans, Sfo!Calls(check),
               Sfo!Results(check, c, ans, past),
               Sfo!Results(check, c, ok, past))
<1>0. check \in {"sfo_controller_availability", "sfo_splunkforwarder_cr",
               "sfo_secrets", "sfo_audit_exporter_dep",
               "sfo_daemonset_health", "sfo_forwarder_pods", "sfo_configmaps",
               "sfo_forwarder_resources", "sfo_forwarder_metrics",
               "sfo_servicemonitor", "sfo_prometheusrule"}
  BY DEF ToSet, Sfo!Order
<1> USE OneStatus DEF Tells, Compared, Alarms, Answers, Sfo!Calls,
                      Sfo!Results, Sfo!One, Sfo!Result
<1>1. CASE check \in {"sfo_controller_availability", "sfo_splunkforwarder_cr"}
  BY <1>1 DEF Sfo!ControllerStatus, Sfo!AvailabilityStatus,
             Sfo!SplunkForwarderStatus, Sfo!CanElevate, Sfo!ElevationSkip,
             Sfo!Unread, Sfo!NoAnswer
<1>2. CASE check \in {"sfo_secrets", "sfo_audit_exporter_dep"}
  BY <1>2 DEF Sfo!SecretsStatus, Sfo!AuditExporterStatus, Sfo!CanElevate,
             Sfo!ElevationSkip, FailsRefused
<1>3. CASE check \in {"sfo_daemonset_health", "sfo_forwarder_pods",
                    "sfo_configmaps"}
  BY <1>3 DEF Sfo!DaemonSetStatus, Sfo!ForwarderPodsStatus,
             Sfo!ConfigMapsStatus, Sfo!ElevationSkip, Sfo!Unread,
             Sfo!NoAnswer, Sfo!AllRead
<1>4. CASE check \in {"sfo_forwarder_resources", "sfo_forwarder_metrics"}
  BY <1>4 DEF Sfo!ResourcesStatus, Sfo!ForwarderMetricsStatus,
             Sfo!ElevationSkip, MayPassUnread
<1>5. CASE check \in {"sfo_servicemonitor", "sfo_prometheusrule"}
  BY <1>5 DEF Sfo!ServiceMonitorStatus, Sfo!PrometheusRuleStatus, Sfo!AllRead
<1> QED
  BY <1>0, <1>1, <1>2, <1>3, <1>4, <1>5

\* The checks of splunk-audit-exporter.
LEMMA SaeTells ==
  ASSUME NEW c, NEW check \in ToSet(Sae!Order),
         NEW ans, NEW ok, NEW past,
         Compared(ans, ok, Sae!Calls(check))
  PROVE  Tells(check, ans, Sae!Calls(check),
               Sae!Results(check, c, ans, past),
               Sae!Results(check, c, ok, past))
<1>0. check \in {"namespace_status", "image_pull_status", "operator_events",
               "sae_daemonset_health", "sae_audit_policy", "sae_tls_certs",
               "sae_servicemonitor", "sae_event_flow", "sae_queue_depth",
               "sae_dedup_cache", "sae_filter_errors", "sae_filter_decisions",
               "sae_cloudwatch", "sae_per_pod_health",
               "sae_throughput_trends", "sae_log_errors",
               "sae_resource_trends"}
  BY DEF ToSet, Sae!Order
<1> USE OneStatus DEF Tells, Compared, Alarms, Answers, Sae!Calls,
                      Sae!Results, Sae!One, Sae!Result
<1>1. CASE check \in {"namespace_status", "image_pull_status",
                    "operator_events"}
  BY <1>1 DEF Sae!Common!NamespaceStatus, Sae!Common!ImageStatus,
             Sae!Common!EventStatus, MayPassUnread
<1>2. CASE check = "sae_daemonset_health"
  BY <1>2 DEF Sae!DaemonSetStatus, Sae!ElevationSkip, MayPassUnread
<1>3. CASE check = "sae_audit_policy"
  BY <1>3 DEF Sae!AuditPolicyStatus, FailsRefused
<1>4. CASE check \in {"sae_tls_certs", "sae_servicemonitor"}
  BY <1>4 DEF Sae!TLSCertsStatus, Sae!ServiceMonitorStatus, Sae!CanElevate,
             Sae!ElevationSkip
<1>5. CASE check \in {"sae_event_flow", "sae_queue_depth", "sae_dedup_cache"}
  BY <1>5 DEF Sae!EventFlowStatus, Sae!QueueDepthStatus, Sae!DedupCacheStatus,
             Sae!Measured
<1>6. CASE check \in {"sae_filter_errors", "sae_filter_decisions"}
  BY <1>6 DEF Sae!FilterErrorsStatus, Sae!FilterDecisionsStatus, MayPassUnread
<1>7. CASE check = "sae_cloudwatch"
  BY <1>7 DEF Sae!CloudWatchStatus, MayPassUnread
<1>8. CASE check = "sae_per_pod_health"
  <2>1. ok[1] = "ok"
    BY <1>8
  <2>2. ans[1] = "ok" =>
         Sae!PerPodStatus(c, ans) = Sae!PerPodStatus(c, ok)
    BY <1>8, <2>1, Zenon DEF Sae!PerPodStatus
  <2>3. /\ ans[1] # "ok" => Sae!PerPodStatus(c, ans) # "PASS"
        /\ ans[1] = "denied" => Sae!PerPodStatus(c, ans) # "FAIL"
    BY <1>8, Zenon DEF Sae!PerPodStatus
  <2> QED
    BY <1>8, <2>2, <2>3
<1>9. CASE check = "sae_throughput_trends"
  <2>1. /\ Sae!ThroughputStatus(c, ans) # "PASS"
        /\ Sae!ThroughputStatus(c, ans) # "FAIL"
    BY <1>9 DEF Sae!ThroughputStatus
  <2> QED
    BY <1>9, <2>1
<1>10. CASE check = "sae_log_errors"
  BY <1>10 DEF Sae!LogErrorsStatus, Sae!AllRead
<1>11. CASE check = "sae_resource_trends"
  BY <1>11 DEF Sae!ResourcesStatus, MayPassUnread
<1> QED
  BY <1>0, <1>1, <1>2, <1>3, <1>4, <1>5, <1>6, <1>7, <1>8, <1>9, <1>10, <1>11,
     Zenon

\* The checks of managed-upgrade-operator.
LEMMA MuoTells ==
  ASSUME NEW c, NEW check \in ToSet(Muo!Order),
         NEW ans, NEW ok, NEW past,
         Compared(ans, ok, Muo!Calls(check))
  PROVE  Tells(check, ans, Muo!Calls(check),
               Muo!Results(check, c, ans, past),
               Muo!Results(check, c, ok, past))
<1>0. check \in {"muo_controller_availability", "muo_configmap_health",
               "muo_servicemonitor", "muo_upgradeconfig_status",
               "muo_upgradeconfig_sync", "muo_validation_status",
               "muo_controlplane_timeout", "muo_worker_timeout",
               "muo_scaling_status", "muo_window_breach",
               "muo_node_drain_failures", "muo_notification_health",
               "muo_health_check_status", "muo_upgrade_history",
               "muo_feature_gates", "muo_upgrade_result"}
  BY DEF ToSet, Muo!Order
<1> USE OneStatus DEF Tells, Compared, Alarms, Answers, Muo!Calls,
                      Muo!Results, Muo!One, Muo!Result
<1>1. CASE check \in {"muo_controller_availability", "muo_configmap_health",
                    "muo_servicemonitor"}
  BY <1>1 DEF Muo!ControllerStatus, Muo!AvailabilityStatus, Muo!ElevationSkip,
             Muo!ConfigMapStatus, Muo!ServiceMonitorStatus, Muo!Unread,
             Muo!NoAnswer
<1>2. CASE check \in {"muo_upgradeconfig_status", "muo_upgradeconfig_sync"}
  BY <1>2 DEF Muo!UpgradeConfigStatus, Muo!CanElevate, Muo!ElevationSkip,
             Muo!Unread, Muo!NoAnswer, Muo!SyncStatus
<1>3. CASE check \in {"muo_validation_status", "muo_controlplane_timeout",
                    "muo_worker_timeout", "muo_scaling_status",
                    "muo_window_breach"}
  BY <1>3 DEF Muo!GaugeStatus, Muo!WindowStatus
<1>4. CASE check \in {"muo_node_drain_failures", "muo_notification_health",
                    "muo_health_check_status"}
  BY <1>4 DEF Muo!SeriesStatus, Muo!NodeDrainStatus, Muo!NotificationStatus,
             Muo!HealthCheckStatus
<1>5. CASE check \in {"muo_upgrade_history", "muo_feature_gates",
                    "muo_upgrade_result"}
  BY <1>5 DEF Muo!UpgradeHistoryStatus, Muo!FeatureGatesStatus,
             Muo!UpgradeResultStatus, MayPassUnread
<1> QED
  BY <1>0, <1>1, <1>2, <1>3, <1>4, <1>5

\* The checks of configure-alertmanager-operator.
LEMMA CamoTells ==
  ASSUME NEW c, NEW check \in ToSet(Camo!Order),
         NEW ans, NEW ok, NEW past,
         Compared(ans, ok, Camo!Calls(check))
  PROVE  Tells(check, ans, Camo!Calls(check),
               Camo!Results(check, c, ans, past),
               Camo!Results(check, c, ok, past))
<1>0. check \in {"alertmanager_pods", "alertmanager_statefulset",
               "controller_availability", "camo_cluster_readiness",
               "reconciliation_activity", "reconciliation_behavior",
               "dms_watchdog_firing", "configuration_errors", "camo_events",
               "camo_alerting_config", "alertmanager_reload_health",
               "alertmanager_config_compatibility", "dms_heartbeat_delivery",
               "alertmanager_logs", "alertmanager_events",
               "alertmanager_secret"}
  BY DEF ToSet, Camo!Order
<1> USE OneStatus DEF Tells, Compared, Alarms, Answers, Camo!Calls,
                      Camo!Results, Camo!One, Camo!Result
<1>1. CASE check \in {"alertmanager_pods", "alertmanager_statefulset"}
  BY <1>1 DEF Camo!AMPodsStatus, Camo!StatefulSetStatus
<1>2. CASE check \in {"controller_availability", "camo_cluster_readiness"}
  BY <1>2 DEF Camo!ControllerStatus, Camo!ReadinessStatus, Camo!Metric,
             FailsRefused
<1>3. CASE check \in {"reconciliation_activity", "reconciliation_behavior",
                    "dms_watchdog_firing"}
  BY <1>3 DEF Camo!WatchdogStatus
<1>4. CASE check \in {"configuration_errors", "camo_events"}
  BY <1>4 DEF Camo!ConfigurationStatus, Camo!AllRead, Camo!CAMOEventsStatus,
             MayPassUnread
<1>5. CASE check = "camo_alerting_config"
  <2>1. Camo!AlertingConfigStatus(c, ans) = "FAIL" =>
          \/ ans[1] = "ok" /\ c.validation = "1"
          \/ ans[2] = "ok" /\ c.amSecret = "0"
    BY <1>5, Zenon DEF Camo!AlertingConfigStatus, Camo!Metric
  <2>2. /\ Camo!Metric(ok[1], c.validation) = c.validation
        /\ Camo!Metric(ok[2], c.amSecret) = c.amSecret
    <3> ok[1] = "ok" /\ ok[2] = "ok"
      BY <1>5
    <3> QED
      BY Zenon DEF Camo!Metric
  <2>3. \A x, y, z : x = "1" \/ y = "0" => {x, y, z} # {""}
    BY Zenon
  <2>4. c.validation = "1" \/ c.amSecret = "0" =>
          Camo!AlertingConfigStatus(c, ok) = "FAIL"
    BY <2>2, <2>3, Zenon DEF Camo!AlertingConfigStatus
  <2> QED
    BY <1>5, <2>1, <2>4 DEF MayPassUnread
<1>6. CASE check = "alertmanager_reload_health"
  BY <1>6 DEF Camo!ReloadStatus, Camo!ElevationSkip, MayPassUnread
<1>7. CASE check \in {"alertmanager_config_compatibility",
                    "dms_heartbeat_delivery"}
  BY <1>7 DEF MayPassUnread, FailsRefused
<1>8. CASE check \in {"alertmanager_logs", "alertmanager_events"}
  BY <1>8 DEF Camo!AMLogsStatus, Camo!AMEventsStatus, MayPassUnread
<1>9. CASE check = "alertmanager_secret"
  BY <1>9 DEF Camo!SecretStatus, Camo!CanElevate, Camo!ElevationSkip,
             FailsRefused
<1> QED
  BY <1>0, <1>1, <1>2, <1>3, <1>4, <1>5, <1>6, <1>7, <1>8, <1>9

\* The checks of route-monitor-operator, fetchMonitorCRs among them.
LEMMA RmoTells ==
  ASSUME NEW c, NEW check \in ToSet(Rmo!Order(c)),
         NEW ans, NEW ok, NEW left,
         Compared(ans, ok, Rmo!Calls(check))
  PROVE  Tells(check, ans, Rmo!Calls(check),
               Rmo!Results(check, c, ans, left),
               Rmo!Results(check, c, ok, left))
<1>0. check \in {"fetchMonitorCRs", "rmo_controller_manager",
               "rmo_blackbox_exporter", "rmo_routemonitor_status",
               "rmo_sre_probe_expectations", "rmo_probe_health",
               "rmo_servicemonitor_health", "rmo_prometheusrule_health",
               "rmo_operator_metrics", "rmo_config", "rmo_hcp_coverage",
               "rmo_hcp_probe_coverage", "rmo_hcp_state",
               "rmo_rhobs_api_health", "rmo_limited_support_disagreement",
               "rmo_probe_disagreement", "rmo_rhobs_integration"}
  <2>1. CASE c.mc
    BY <2>1 DEF ToSet, Rmo!Order
  <2>2. CASE ~c.mc
    BY <2>2 DEF ToSet, Rmo!Order
  <2> QED
    BY <2>1, <2>2
<1> USE OneStatus, NoStatus DEF Tells, Compared, Alarms, Answers, Rmo!Calls,
                      Rmo!Results, Rmo!Status, Rmo!One, Rmo!Result
<1>1. CASE check = "fetchMonitorCRs"
  BY <1>1
<1>2. CASE check = "rmo_controller_manager"
  BY <1>2 DEF Rmo!ControllerStatus, FailsRefused
<1>3. CASE check = "rmo_blackbox_exporter"
  <2>1. (\A i \in 1..2 : ans[i] = "ok") =>
         Rmo!BlackboxStatus(c, ans, left) = Rmo!BlackboxStatus(c, ok, left)
    BY <1>3 DEF Rmo!BlackboxStatus
  <2>2. Rmo!BlackboxStatus(c, ans, left) = "PASS" =>
          \A i \in 1..2 : ans[i] = "ok"
    BY <1>3 DEF Rmo!BlackboxStatus
  <2>3. Rmo!BlackboxStatus(c, ans, left) = "FAIL" =>
         (\A i \in 1..2 : ans[i] = "ok") \/ \E i \in 1..2 : ans[i] = "error"
    BY <1>3 DEF Rmo!BlackboxStatus
  <2> QED
    BY <1>3, <2>1, <2>2, <2>3
<1>4. CASE check = "rmo_routemonitor_status"
  BY <1>4
<1>5. CASE check \in {"rmo_sre_probe_expectations", "rmo_probe_health"}
  BY <1>5 DEF Rmo!SREProbeStatus, Rmo!ProbeHealthStatus, Rmo!ElevationSkip,
             Rmo!CanElevate
<1>6. CASE check = "rmo_servicemonitor_health"
  <2>1. ans[1] = "ok" =>
         Rmo!ServiceMonitorStatus(c, ans, left) =
            Rmo!ServiceMonitorStatus(c, ok, left)
    BY <1>6 DEF Rmo!ServiceMonitorStatus, Rmo!ElevationSkip
  <2>2. /\ ans[1] # "ok" => Rmo!ServiceMonitorStatus(c, ans, left) # "PASS"
        /\ ans[1] = "denied" => Rmo!ServiceMonitorStatus(c, ans, left) # "FAIL"
    BY <1>6 DEF Rmo!ServiceMonitorStatus, Rmo!ElevationSkip
  <2> QED
    BY <1>6, <2>1, <2>2
<1>7. CASE check = "rmo_prometheusrule_health"
  <2>1. ans[1] = "ok" =>
         Rmo!PrometheusRuleStatus(c, ans, left) =
            Rmo!PrometheusRuleStatus(c, ok, left)
    BY <1>7 DEF Rmo!PrometheusRuleStatus, Rmo!ElevationSkip
  <2>2. /\ ans[1] # "ok" => Rmo!PrometheusRuleStatus(c, ans, left) # "PASS"
        /\ ans[1] = "denied" => Rmo!PrometheusRuleStatus(c, ans, left) # "FAIL"
    BY <1>7 DEF Rmo!PrometheusRuleStatus, Rmo!ElevationSkip
  <2> QED
    BY <1>7, <2>1, <2>2
<1>8. CASE check \in {"rmo_operator_metrics", "rmo_config"}
  BY <1>8 DEF Rmo!OperatorMetricsStatus, Rmo!ConfigStatus, MayPassUnread
<1>9. CASE check \in {"rmo_hcp_coverage", "rmo_hcp_probe_coverage",
                    "rmo_hcp_state"}
  BY <1>9 DEF Rmo!HCPCoverageStatus, Rmo!HCPProbeStatus, Rmo!ElevationSkip,
             Rmo!CanElevate
<1>10. CASE check \in {"rmo_rhobs_api_health",
                    "rmo_limited_support_disagreement"}
  BY <1>10 DEF Rmo!RHOBSAPIStatus, Rmo!Failing, Rmo!LimitedSupportStatus,
             Rmo!ElevationSkip, Rmo!CanElevate, MayPassUnread
<1>11. CASE check \in {"rmo_probe_disagreement", "rmo_rhobs_integration"}
  BY <1>11 DEF Rmo!ProbeDisagreementStatus, Rmo!RHOBSIntegrationStatus,
             MayPassUnread
<1> QED
  BY <1>0, <1>1, <1>2, <1>3, <1>4, <1>5, <1>6, <1>7, <1>8, <1>9, <1>10, <1>11

\* The checks of hosted control planes.
LEMMA HcpTells ==
  ASSUME NEW c, NEW check \in ToSet(Hcp!Order),
         NEW ans, NEW ok, NEW left,
         Compared(ans, ok, Hcp!Calls(check))
  PROVE  Tells(check, ans, Hcp!Calls(check),
               Hcp!Results(check, c, ans, left),
               Hcp!Results(check, c, ok, left))
<1>0. check \in {"hcp_namespace_health", "hcp_pod_health",
               "hcp_deployment_health", "hcp_resource_trends",
               "hcp_metrics_coverage", "hcp_pod_logs", "hcp_serving_nodes"}
  BY DEF ToSet, Hcp!Order
<1> USE OneStatus DEF Tells, Compared, Alarms, Answers, Hcp!Calls,
                      Hcp!Results, Hcp!Status, Hcp!One, Hcp!Result
<1>1. CASE check = "hcp_namespace_health"
  BY <1>1 DEF Hcp!NamespaceStatus, Hcp!Listed, Hcp!CanElevate
<1>2. CASE check = "hcp_pod_health"
  <2>1. ok[2] = "ok" /\ ok[3] = "ok"
    BY <1>2
  <2>2. \A k \in DOMAIN Hcp!Seen(c, ans, left, 2) :
         /\ k \in DOMAIN Hcp!Seen(c, ok, left, 2)
         /\ Hcp!Seen(c, ans, left, 2)[k] = Hcp!Seen(c, ok, left, 2)[k]
    BY <1>2, <2>1, SeenToo
  <2>3. \A p \in Hcp!Concerns(c, ans, left) :
         p.oom => p \in Hcp!Concerns(c, ok, left)
    BY <1>2, <2>2 DEF Hcp!Concerns, Hcp!Concerning
  <2>4. Hcp!PodStatus(c, ans, left) = "FAIL" =>
         left.hcps # <<>> /\ \E p \in Hcp!Concerns(c, ans, left) : p.oom
    BY <1>2 DEF Hcp!PodStatus
  <2>5. left.hcps # <<>> /\ (\E p \in Hcp!Concerns(c, ok, left) : p.oom) =>
         Hcp!PodStatus(c, ok, left) = "FAIL"
    BY <1>2 DEF Hcp!PodStatus
  <2> QED
    BY <1>2, <2>3, <2>4, <2>5 DEF MayPassUnread
<1>3. CASE check = "hcp_deployment_health"
  <2> DEFINE At(a) == Hcp!Seen(c, a, left, 1)
             Deg(a) == {k \in DOMAIN At(a) : At(a)[k].down > 0}
             Par(a) == {k \in Deg(a) : At(a)[k].down < At(a)[k].deployments}
  <2>1. ok[1] = "ok" /\ ok[2] = "ok"
    BY <1>3
  <2>2. \A k \in DOMAIN At(ans) :
          k \in DOMAIN At(ok) /\ At(ans)[k] = At(ok)[k]
    BY <2>1, SeenToo
  <2>3. Deg(ans) \subseteq Deg(ok) /\ Par(ans) \subseteq Par(ok)
    BY <2>2
  <2>4. Hcp!kSubset(4, Deg(ans)) \subseteq Hcp!kSubset(4, Deg(ok))
    BY <2>3 DEF Hcp!kSubset
  <2>5. \A a : Hcp!DeploymentStatus(c, a, left) =
                 IF left.hcps = <<>> THEN "INFO"
                 ELSE IF Deg(a) = {} THEN "PASS"
                 ELSE IF Par(a) = {} THEN "INFO"
                 ELSE IF Hcp!kSubset(4, Deg(a)) # {} THEN "FAIL"
                 ELSE "WARNING"
    BY Zenon DEF Hcp!DeploymentStatus
  <2> HIDE DEF Deg, Par
  <2>6. Hcp!DeploymentStatus(c, ans, left) = "FAIL" =>
          Hcp!DeploymentStatus(c, ok, left) = "FAIL"
    BY <2>3, <2>4, <2>5
  <2> QED
    BY <1>3, <2>6 DEF MayPassUnread
<1>4. CASE check = "hcp_resource_trends"
  <2>1. ok[1] = "ok"
    BY <1>4
  <2>2. Hcp!ToSet(<<>>) = {}
    BY DEF Hcp!ToSet
  <2> DEFINE Mem(a) == IF a[1] = "ok" THEN c.memory ELSE <<>>
             Events(a) == Hcp!Events(c, a)
             NoSample(a) == Mem(a) = <<>> /\ ~(a[2] = "ok" /\ c.cpu)
                            /\ Events(a) = {}
             Large(a) == \/ \E p \in Hcp!ToSet(left.pods) : p.mem > 1024
                         \/ Hcp!Cardinality(Events(a)) > 20
  <2>3. \A a : Hcp!TrendsStatus(c, a, left) =
                 IF left.pods = <<>> THEN "PASS"
                 ELSE IF NoSample(a) THEN "SKIP"
                 ELSE IF \E v \in Hcp!ToSet(Mem(a)) : Hcp!Leaks(v) THEN "FAIL"
                 ELSE IF Large(a) THEN "WARNING"
                 ELSE "PASS"
    BY Zenon DEF Hcp!TrendsStatus
  <2>4. Mem(ok) = c.memory /\ (Mem(ans) = Mem(ok) \/ Mem(ans) = <<>>)
    BY <2>1
  <2>5x. NoSample(ok) => Mem(ok) = <<>>
    OBVIOUS
  <2> HIDE DEF Mem, NoSample, Large
  <2>5. Hcp!TrendsStatus(c, ans, left) = "FAIL" =>
          Hcp!TrendsStatus(c, ok, left) = "FAIL"
    BY <2>2, <2>3, <2>4, <2>5x
  <2> QED
    BY <1>4, <2>5 DEF MayPassUnread
<1>5. CASE check = "hcp_metrics_coverage"
  BY <1>5 DEF Hcp!CoverageStatus, MayPassUnread
<1>6. CASE check = "hcp_pod_logs"
  BY <1>6 DEF Hcp!LogsStatus, MayPassUnread
<1>7. CASE check = "hcp_serving_nodes"
  <2>1. /\ Hcp!NodesStatus(c, ans, left) # "PASS"
        /\ Hcp!NodesStatus(c, ans, left) # "FAIL"
    BY <1>7 DEF Hcp!NodesStatus
  <2> QED
    BY <1>7, <2>1
<1> QED
  BY <1>0, <1>1, <1>2, <1>3, <1>4, <1>5, <1>6, <1>7

\* The checks of a management cluster.
LEMMA MccTells ==
  ASSUME NEW c, NEW check \in ToSet(Mcc!Order(c)),
         NEW ans, NEW ok,
         Compared(ans, ok, Mcc!Calls(check))
  PROVE  Tells(check, ans, Mcc!Calls(check),
               Mcc!Results(check, c, ans),
               Mcc!Results(check, c, ok))
<1>0. check \in {"cluster_node_health", "cluster_machine_health",
               "cluster_node_resources", "cluster_node_pod_failures",
               "cluster_node_counts", "cluster_node_metrics",
               "cluster_machine_api_logs", "cluster_managed_boot_images",
               "cluster_ami_consistency", "cluster_dynatrace_artifacts"}
  <2>1. CASE c.aws
    BY <2>1 DEF ToSet, Mcc!Order
  <2>2. CASE ~c.aws
    BY <2>2 DEF ToSet, Mcc!Order
  <2> QED
    BY <2>1, <2>2
<1> USE OneStatus DEF Tells, Compared, Alarms, Answers, Mcc!Calls,
                      Mcc!Results, Mcc!Status, Mcc!One, Mcc!Result
<1>1. CASE check \in {"cluster_node_health", "cluster_machine_health"}
  BY <1>1 DEF Mcc!NodeHealthStatus, Mcc!MachineHealthStatus, Mcc!NoAnswer,
             MayPassUnread
<1>2. CASE check = "cluster_node_resources"
  <2>1. ans[1] = "ok" =>
         Mcc!NodeResourcesStatus(c, ans) = Mcc!NodeResourcesStatus(c, ok)
    BY <1>2 DEF Mcc!NodeResourcesStatus
  <2>2. /\ ans[1] # "ok" => Mcc!NodeResourcesStatus(c, ans) # "PASS"
        /\ ans[1] = "denied" => Mcc!NodeResourcesStatus(c, ans) # "FAIL"
    BY <1>2 DEF Mcc!NodeResourcesStatus
  <2> QED
    BY <1>2, <2>1, <2>2
<1>3. CASE check = "cluster_node_pod_failures"
  <2>1. ans[1] = "ok" =>
         Mcc!PodFailuresStatus(c, ans) = Mcc!PodFailuresStatus(c, ok)
    BY <1>3 DEF Mcc!PodFailuresStatus
  <2>2. /\ ans[1] # "ok" => Mcc!PodFailuresStatus(c, ans) # "PASS"
        /\ ans[1] = "denied" => Mcc!PodFailuresStatus(c, ans) # "FAIL"
    BY <1>3 DEF Mcc!PodFailuresStatus
  <2> QED
    BY <1>3, <2>1, <2>2
<1>4. CASE check = "cluster_node_counts"
  BY <1>4 DEF Mcc!NodeCountsStatus
<1>5. CASE check \in {"cluster_node_metrics", "cluster_machine_api_logs"}
  BY <1>5 DEF Mcc!NodeMetricsStatus, Mcc!APILogsStatus, MayPassUnread
<1>6. CASE check = "cluster_managed_boot_images"
  BY <1>6 DEF Mcc!BootImagesStatus, Mcc!Unread, Mcc!NoAnswer
<1>7. CASE check = "cluster_ami_consistency"
  BY <1>7 DEF Mcc!ConsistencyStatus, Mcc!resolveExpectedAMI,
             Mcc!ListAvailable, MayPassUnread
<1>8. CASE check = "cluster_dynatrace_artifacts"
  BY <1>8 DEF Mcc!DynatraceStatus, MayPassUnread
<1> QED
  BY <1>0, <1>1, <1>2, <1>3, <1>4, <1>5, <1>6, <1>7, <1>8

\* The checks of observability, where there is something to look at.
LEMMA RhobsStatusTells ==
  ASSUME NEW c, NEW check \in ToSet(Rhobs!Order(c)),
         NEW ans, NEW ok, NEW past,
         Compared(ans, ok, Rhobs!Calls(check))
  PROVE  Tells(check, ans, Rhobs!Calls(check),
               Rhobs!One(check, Rhobs!Status(check, c, ans)),
               Rhobs!One(check, Rhobs!Status(check, c, ok)))
<1>0. check \in {"rhobs_monitoring_stack", "rhobs_monitoring_credentials",
               "rhobs_metrics_destination", "rhobs_remote_write_config",
               "rhobs_prometheus_health", "rhobs_prometheus_statefulsets",
               "rhobs_log_forwarder", "rhobs_log_collector_daemonset",
               "rhobs_log_event_collector", "rhobs_log_token_refresher",
               "rhobs_log_destination", "rhobs_cp_log_forwarding",
               "rhobs_platform_rules_namespace", "rhobs_platform_rules",
               "rhobs_clf_conditions", "rhobs_metrics_forwarder",
               "rhobs_scrape_health", "rhobs_log_collector_metrics",
               "rhobs_synthetics_probes", "rhobs_remote_write_health",
               "rhobs_synthetics_agent", "rhobs_synthetics_api_fetch"}
  <2>1. CASE c.mc
    BY <2>1 DEF ToSet, Rhobs!Order, Rhobs!PlatformMetrics
  <2>2. CASE ~c.mc
    BY <2>2 DEF ToSet, Rhobs!Order, Rhobs!PlatformMetrics
  <2> QED
    BY <2>1, <2>2
<1> USE OneStatus DEF Tells, Compared, Alarms, Answers, Rhobs!Calls,
                      Rhobs!Status, Rhobs!One, Rhobs!Result
<1>1. CASE check \in {"rhobs_monitoring_stack",
                    "rhobs_monitoring_credentials",
                    "rhobs_metrics_destination"}
  BY <1>1 DEF Rhobs!StackStatus, Rhobs!CredentialsStatus,
             Rhobs!DestinationStatus, Rhobs!Absent, Rhobs!NoAnswer,
             Rhobs!CanElevate, Rhobs!ElevationSkip
<1>2. CASE check = "rhobs_remote_write_config"
  <2>1. ok[1] = "ok"
    BY <1>2
  <2>2. ans[1] = "ok" =>
         Rhobs!RemoteWriteConfigStatus(c, ans) =
            Rhobs!RemoteWriteConfigStatus(c, ok)
    BY <1>2, <2>1, Zenon DEF Rhobs!RemoteWriteConfigStatus, Rhobs!NoAnswer
  <2>3. /\ ans[1] # "ok" => Rhobs!RemoteWriteConfigStatus(c, ans) # "PASS"
        /\ ans[1] = "denied" => Rhobs!RemoteWriteConfigStatus(c, ans) # "FAIL"
    BY <1>2, Zenon DEF Rhobs!RemoteWriteConfigStatus, Rhobs!NoAnswer
  <2> QED
    BY <1>2, <2>2, <2>3
<1>3. CASE check = "rhobs_prometheus_health"
  <2>1. ans[1] = "ok" =>
         Rhobs!PrometheusStatus(c, ans) = Rhobs!PrometheusStatus(c, ok)
    BY <1>3 DEF Rhobs!PrometheusStatus, Rhobs!NoAnswer
  <2>2. /\ ans[1] # "ok" => Rhobs!PrometheusStatus(c, ans) # "PASS"
        /\ ans[1] = "denied" => Rhobs!PrometheusStatus(c, ans) # "FAIL"
    BY <1>3 DEF Rhobs!PrometheusStatus, Rhobs!NoAnswer
  <2> QED
    BY <1>3, <2>1, <2>2
<1>4. CASE check = "rhobs_prometheus_statefulsets"
  <2>1. ans[1] = "ok" =>
         Rhobs!StatefulSetsStatus(c, ans) = Rhobs!StatefulSetsStatus(c, ok)
    BY <1>4 DEF Rhobs!StatefulSetsStatus, Rhobs!NoAnswer
  <2>2. /\ ans[1] # "ok" => Rhobs!StatefulSetsStatus(c, ans) # "PASS"
        /\ ans[1] = "denied" => Rhobs!StatefulSetsStatus(c, ans) # "FAIL"
    BY <1>4 DEF Rhobs!StatefulSetsStatus, Rhobs!NoAnswer
  <2> QED
    BY <1>4, <2>1, <2>2
<1>5. CASE check \in {"rhobs_log_forwarder", "rhobs_log_collector_daemonset"}
  BY <1>5 DEF Rhobs!LogForwarderStatus, Rhobs!CollectorStatus, Rhobs!NoAnswer,
             Rhobs!Absent
<1>6. CASE check = "rhobs_log_event_collector"
  <2>1. (\A i \in 1..2 : ans[i] = "ok") =>
         Rhobs!EventCollectorStatus(c, ans) = Rhobs!EventCollectorStatus(c, ok)
    BY <1>6 DEF Rhobs!EventCollectorStatus, Rhobs!NoAnswer, Rhobs!Absent
  <2>2. Rhobs!EventCollectorStatus(c, ans) = "PASS" =>
          \A i \in 1..2 : ans[i] = "ok"
    BY <1>6 DEF Rhobs!EventCollectorStatus, Rhobs!NoAnswer, Rhobs!Absent
  <2>3. Rhobs!EventCollectorStatus(c, ans) = "FAIL" =>
         (\A i \in 1..2 : ans[i] = "ok") \/ \E i \in 1..2 : ans[i] = "error"
    BY <1>6 DEF Rhobs!EventCollectorStatus, Rhobs!NoAnswer, Rhobs!Absent
  <2> QED
    BY <1>6, <2>1, <2>2, <2>3
<1>7. CASE check = "rhobs_log_token_refresher"
  <2>1. ans[1] = "ok" =>
         Rhobs!TokenRefresherStatus(c, ans) = Rhobs!TokenRefresherStatus(c, ok)
    BY <1>7 DEF Rhobs!TokenRefresherStatus, Rhobs!Absent, Rhobs!ElevationSkip
  <2>2. /\ ans[1] # "ok" => Rhobs!TokenRefresherStatus(c, ans) # "PASS"
        /\ ans[1] = "denied" => Rhobs!TokenRefresherStatus(c, ans) # "FAIL"
    BY <1>7 DEF Rhobs!TokenRefresherStatus, Rhobs!Absent, Rhobs!ElevationSkip
  <2> QED
    BY <1>7, <2>1, <2>2
<1>8. CASE check = "rhobs_log_destination"
  <2>1. ans[1] = "ok" =>
         Rhobs!LogDestinationStatus(c, ans) = Rhobs!LogDestinationStatus(c, ok)
    BY <1>8 DEF Rhobs!LogDestinationStatus, Rhobs!Absent, Rhobs!ElevationSkip
  <2>2. /\ ans[1] # "ok" => Rhobs!LogDestinationStatus(c, ans) # "PASS"
        /\ ans[1] = "denied" => Rhobs!LogDestinationStatus(c, ans) # "FAIL"
    BY <1>8 DEF Rhobs!LogDestinationStatus, Rhobs!Absent, Rhobs!ElevationSkip
  <2> QED
    BY <1>8, <2>1, <2>2
<1>9. CASE check \in {"rhobs_cp_log_forwarding",
                    "rhobs_platform_rules_namespace"}
  BY <1>9 DEF Rhobs!ControlPlaneStatus, Rhobs!RulesNamespaceStatus,
             Rhobs!NoAnswer
<1>10. CASE check = "rhobs_platform_rules"
  BY <1>10 DEF Rhobs!RulesStatus, Rhobs!ElevationSkip
<1>11. CASE check = "rhobs_clf_conditions"
  <2>1. ans[1] = "ok" =>
         Rhobs!ConditionsStatus(c, ans) = Rhobs!ConditionsStatus(c, ok)
    BY <1>11 DEF Rhobs!ConditionsStatus, Rhobs!NoAnswer
  <2>2. /\ ans[1] # "ok" => Rhobs!ConditionsStatus(c, ans) # "PASS"
        /\ ans[1] = "denied" => Rhobs!ConditionsStatus(c, ans) # "FAIL"
    BY <1>11 DEF Rhobs!ConditionsStatus, Rhobs!NoAnswer
  <2> QED
    BY <1>11, <2>1, <2>2
<1>12. CASE check = "rhobs_metrics_forwarder"
  <2>1. (\A i \in 1..3 : ans[i] = "ok") =>
         Rhobs!MetricsForwarderStatus(c, ans) =
            Rhobs!MetricsForwarderStatus(c, ok)
    BY <1>12 DEF Rhobs!MetricsForwarderStatus, Rhobs!NoAnswer
  <2>2. Rhobs!MetricsForwarderStatus(c, ans) = "PASS" =>
          \A i \in 1..3 : ans[i] = "ok"
    BY <1>12 DEF Rhobs!MetricsForwarderStatus, Rhobs!NoAnswer
  <2>3. Rhobs!MetricsForwarderStatus(c, ans) = "FAIL" =>
         (\A i \in 1..3 : ans[i] = "ok") \/ \E i \in 1..3 : ans[i] = "error"
    BY <1>12 DEF Rhobs!MetricsForwarderStatus, Rhobs!NoAnswer
  <2> QED
    BY <1>12, <2>1, <2>2, <2>3
<1>13. CASE check \in {"rhobs_scrape_health", "rhobs_log_collector_metrics",
                    "rhobs_synthetics_probes"}
  BY <1>13 DEF Rhobs!ScrapeStatus, Rhobs!LogMetricsStatus, Rhobs!ProbesStatus,
             Rhobs!Unread, Rhobs!NoAnswer, MayPassUnread
<1>14. CASE check \in {"rhobs_remote_write_health", "rhobs_synthetics_agent",
                    "rhobs_synthetics_api_fetch"}
  BY <1>14 DEF MayPassUnread, FailsRefused
<1> QED
  BY <1>0, <1>1, <1>2, <1>3, <1>4, <1>5, <1>6, <1>7, <1>8, <1>9, <1>10, <1>11,
     Zenon,
     <1>12, <1>13, <1>14

\* The checks of the log router.
LEMMA RlrTells ==
  ASSUME NEW c, NEW check \in ToSet(Rlr!Order(c)),
         NEW ans, NEW ok,
         Compared(ans, ok, Rlr!Calls(check))
  PROVE  Tells(check, ans, Rlr!Calls(check),
               Rlr!Results(check, c, ans),
               Rlr!Results(check, c, ok))
<1>0. check \in {"rlr_vector_namespace", "rlr_version_verification",
               "rlr_vector_pod_restarts", "rlr_vector_metrics_present",
               "rlr_vector_daemonset_health", "rlr_vector_ingestion_rate",
               "rlr_vector_component_throughput", "rlr_vector_s3_delivery",
               "rlr_vector_buffer_usage", "rlr_vector_buffer_events",
               "rlr_vector_component_utilization", "rlr_vector_error_rate",
               "rlr_vector_s3_request_latency", "rlr_vector_event_loss",
               "rlr_vector_pipeline_ratio", "rlr_vector_ingestion_balance",
               "rlr_vector_config_tracking", "rlr_vector_daemonset_rollout",
               "rlr_heartbeat_deployment", "rlr_heartbeat_pod_health",
               "rlr_processor_deployment", "rlr_processor_pod_health",
               "rlr_prometheusrule_exists", "rlr_prometheusrule_alerts",
               "rlr_active_alerts", "rlr_vector_trends",
               "rlr_hcp_log_forwarding_status", "rlr_hcp_log_collector",
               "rlr_hcp_log_collector_pods", "rlr_hcp_log_delivery_metrics"}
  <2>1. CASE c.mc
    BY <2>1 DEF ToSet, Rlr!Order
  <2>2. CASE ~c.mc
    BY <2>2 DEF ToSet, Rlr!Order
  <2> QED
    BY <2>1, <2>2
<1> USE OneStatus DEF Tells, Compared, Alarms, Answers, Rlr!Calls,
                      Rlr!Results, Rlr!Status, Rlr!One, Rlr!Result
<1>1. CASE check = "rlr_vector_namespace"
  <2>1. ans[1] = "ok" =>
         Rlr!NamespaceStatus(c, ans) = Rlr!NamespaceStatus(c, ok)
    BY <1>1 DEF Rlr!NamespaceStatus, Rlr!NoAnswer
  <2>2. /\ ans[1] # "ok" => Rlr!NamespaceStatus(c, ans) # "PASS"
        /\ ans[1] = "denied" => Rlr!NamespaceStatus(c, ans) # "FAIL"
    BY <1>1 DEF Rlr!NamespaceStatus, Rlr!NoAnswer
  <2> QED
    BY <1>1, <2>1, <2>2
<1>2. CASE check = "rlr_version_verification"
  <2>1. ans[1] = "ok" =>
         Rlr!VersionStatus(c, ans) = Rlr!VersionStatus(c, ok)
    BY <1>2 DEF Rlr!VersionStatus
  <2>2. /\ ans[1] # "ok" => Rlr!VersionStatus(c, ans) # "PASS"
        /\ ans[1] = "denied" => Rlr!VersionStatus(c, ans) # "FAIL"
    BY <1>2 DEF Rlr!VersionStatus
  <2> QED
    BY <1>2, <2>1, <2>2
<1>3. CASE check = "rlr_vector_pod_restarts"
  <2>1. ans[1] = "ok" =>
         Rlr!RestartsStatus(c, ans) = Rlr!RestartsStatus(c, ok)
    BY <1>3 DEF Rlr!RestartsStatus, Rlr!Unread, Rlr!NoAnswer
  <2>2. /\ ans[1] # "ok" => Rlr!RestartsStatus(c, ans) # "PASS"
        /\ ans[1] = "denied" => Rlr!RestartsStatus(c, ans) # "FAIL"
    BY <1>3 DEF Rlr!RestartsStatus, Rlr!Unread, Rlr!NoAnswer
  <2> QED
    BY <1>3, <2>1, <2>2
<1>4. CASE check = "rlr_vector_metrics_present"
  <2>1. ok[1] = "ok"
    BY <1>4
  <2>2. ans[1] = "ok" =>
         Rlr!MetricsPresentStatus(c, ans) = Rlr!MetricsPresentStatus(c, ok)
    BY <1>4, <2>1, Zenon DEF Rlr!MetricsPresentStatus, Rlr!NoAnswer
  <2>3. /\ ans[1] # "ok" => Rlr!MetricsPresentStatus(c, ans) # "PASS"
        /\ ans[1] = "denied" => Rlr!MetricsPresentStatus(c, ans) # "FAIL"
    BY <1>4, Zenon DEF Rlr!MetricsPresentStatus, Rlr!NoAnswer
  <2> QED
    BY <1>4, <2>2, <2>3
<1>5. CASE check = "rlr_vector_daemonset_health"
  BY <1>5 DEF MayPassUnread, FailsRefused
<1>6. CASE check = "rlr_vector_ingestion_rate"
  <2>1. Rlr!IngestionStatus(c, ans) # "FAIL"
    BY <1>6 DEF Rlr!IngestionStatus, Rlr!Judged, Rlr!NoAnswer
  <2> QED
    BY <1>6, <2>1 DEF MayPassUnread
<1>7. CASE check = "rlr_vector_component_throughput"
  <2>1. Rlr!ThroughputStatus(c, ans) # "FAIL"
    BY <1>7 DEF Rlr!ThroughputStatus, Rlr!Judged, Rlr!NoAnswer
  <2> QED
    BY <1>7, <2>1 DEF MayPassUnread
<1>8. CASE check = "rlr_vector_s3_delivery"
  <2>1. ans[1] = "ok" =>
         Rlr!DeliveryStatus(c, ans) = Rlr!DeliveryStatus(c, ok)
    BY <1>8 DEF Rlr!DeliveryStatus, Rlr!Judged, Rlr!NoAnswer
  <2>2. /\ ans[1] # "ok" => Rlr!DeliveryStatus(c, ans) # "PASS"
        /\ ans[1] = "denied" => Rlr!DeliveryStatus(c, ans) # "FAIL"
    BY <1>8 DEF Rlr!DeliveryStatus, Rlr!Judged, Rlr!NoAnswer
  <2> QED
    BY <1>8, <2>1, <2>2
<1>9. CASE check \in {"rlr_vector_buffer_usage", "rlr_vector_buffer_events",
                    "rlr_vector_component_utilization"}
  BY <1>9 DEF Rlr!BufferStatus, Rlr!BufferEventsStatus, Rlr!UtilizationStatus,
             Rlr!Judged, Rlr!Graded, Rlr!NoAnswer
<1>10. CASE check \in {"rlr_vector_error_rate",
                    "rlr_vector_s3_request_latency"}
  BY <1>10 DEF Rlr!ErrorRateStatus, Rlr!LatencyStatus, Rlr!ElevationSkip,
             Rlr!Unread, Rlr!NoAnswer, MayPassUnread
<1>11. CASE check = "rlr_vector_event_loss"
  <2>1. ans[1] = "ok" =>
         Rlr!LossStatus(c, ans) = Rlr!LossStatus(c, ok)
    BY <1>11 DEF Rlr!LossStatus, Rlr!Judged, Rlr!NoAnswer
  <2>2. /\ ans[1] # "ok" => Rlr!LossStatus(c, ans) # "PASS"
        /\ ans[1] = "denied" => Rlr!LossStatus(c, ans) # "FAIL"
    BY <1>11 DEF Rlr!LossStatus, Rlr!Judged, Rlr!NoAnswer
  <2> QED
    BY <1>11, <2>1, <2>2
<1>12. CASE check = "rlr_vector_pipeline_ratio"
  <2>1. ans[1] = "ok" =>
         Rlr!PipelineStatus(c, ans) = Rlr!PipelineStatus(c, ok)
    BY <1>12 DEF Rlr!PipelineStatus, Rlr!Judged, Rlr!NoAnswer
  <2>2. /\ ans[1] # "ok" => Rlr!PipelineStatus(c, ans) # "PASS"
        /\ ans[1] = "denied" => Rlr!PipelineStatus(c, ans) # "FAIL"
    BY <1>12 DEF Rlr!PipelineStatus, Rlr!Judged, Rlr!NoAnswer
  <2> QED
    BY <1>12, <2>1, <2>2
<1>13. CASE check = "rlr_vector_ingestion_balance"
  <2>1. ans[1] = "ok" =>
         Rlr!BalanceStatus(c, ans) = Rlr!BalanceStatus(c, ok)
    BY <1>13 DEF Rlr!BalanceStatus, Rlr!Judged, Rlr!NoAnswer
  <2>2. /\ ans[1] # "ok" => Rlr!BalanceStatus(c, ans) # "PASS"
        /\ ans[1] = "denied" => Rlr!BalanceStatus(c, ans) # "FAIL"
    BY <1>13 DEF Rlr!BalanceStatus, Rlr!Judged, Rlr!NoAnswer
  <2> QED
    BY <1>13, <2>1, <2>2
<1>14. CASE check \in {"rlr_vector_config_tracking",
                    "rlr_vector_daemonset_rollout"}
  BY <1>14 DEF Rlr!ConfigStatus, Rlr!RolloutStatus, Rlr!Unread, Rlr!NoAnswer
<1>15. CASE check \in {"rlr_heartbeat_deployment", "rlr_heartbeat_pod_health",
                    "rlr_processor_deployment", "rlr_processor_pod_health"}
  BY <1>15 DEF Rlr!HeartbeatStatus, Rlr!HeartbeatPodsStatus,
             Rlr!ProcessorStatus, Rlr!ProcessorPodsStatus,
             Rlr!DeploymentStatus, Rlr!PodsStatus, Rlr!ElevationSkip
<1>16. CASE check \in {"rlr_prometheusrule_exists",
                    "rlr_prometheusrule_alerts", "rlr_active_alerts"}
  BY <1>16 DEF Rlr!RuleStatus, Rlr!RuleAlertsStatus, Rlr!AlertsStatus,
             Rlr!NoAnswer, Rlr!ElevationSkip
<1>17. CASE check \in {"rlr_vector_trends", "rlr_hcp_log_forwarding_status"}
  BY <1>17 DEF Rlr!TrendsStatus, Rlr!ForwardersStatus
<1>18. CASE check \in {"rlr_hcp_log_collector", "rlr_hcp_log_collector_pods"}
  BY <1>18 DEF Rlr!CollectorStatus, Rlr!CollectorPodsStatus, Rlr!Unread,
             Rlr!NoAnswer
<1>19. CASE check = "rlr_hcp_log_delivery_metrics"
  BY <1>19 DEF Rlr!DeliveryMetricsStatus, Rlr!Unread, Rlr!NoAnswer,
             MayPassUnread
<1> QED
  BY <1>0, <1>1, <1>2, <1>3, <1>4, <1>5, <1>6, <1>7, <1>8, <1>9, <1>10, <1>11,
     Zenon,
     <1>12, <1>13, <1>14, <1>15, <1>16, <1>17, <1>18, <1>19

\* So where there is nothing to look at, or no MonitoringStack.
LEMMA RhobsTells ==
  ASSUME NEW c, NEW check \in ToSet(Rhobs!Order(c)),
         NEW ans, NEW ok, NEW past,
         Compared(ans, ok, Rhobs!Calls(check))
  PROVE  Tells(check, ans, Rhobs!Calls(check),
               Rhobs!Results(check, c, ans, past),
               Rhobs!Results(check, c, ok, past))
<1>1. Tells(check, ans, Rhobs!Calls(check),
            Rhobs!One(check, Rhobs!Status(check, c, ans)),
            Rhobs!One(check, Rhobs!Status(check, c, ok)))
  BY RhobsStatusTells
<1>2. ~Hides(<<>>, <<>>) /\ ~Blames(<<>>, <<>>)
  BY NoStatus
<1>3. /\ ~Hides(Rhobs!One(check, "INFO"), Rhobs!One(check, "INFO"))
      /\ ~Blames(Rhobs!One(check, "INFO"), Rhobs!One(check, "INFO"))
  BY OneStatus DEF Rhobs!One, Rhobs!Result
<1>4. CASE /\ check \in Rhobs!ToSet(Rhobs!PlatformMetrics)
           /\ ~Rhobs!HasStack(past)
  BY <1>2, <1>4 DEF Rhobs!Results, Tells
<1>5. CASE /\ ~(check \in Rhobs!ToSet(Rhobs!PlatformMetrics)
                  /\ ~Rhobs!HasStack(past))
           /\ check \in Rhobs!OfTheStack /\ ~Rhobs!HasStack(past)
  BY <1>3, <1>5 DEF Rhobs!Results, Tells
<1>6. CASE /\ ~(check \in Rhobs!ToSet(Rhobs!PlatformMetrics)
                  /\ ~Rhobs!HasStack(past))
           /\ ~(check \in Rhobs!OfTheStack /\ ~Rhobs!HasStack(past))
  BY <1>1, <1>6 DEF Rhobs!Results
<1> QED
  BY <1>4, <1>5, <1>6

\* The check of the moment, but for the commands.
LEMMA CurrentTells ==
  ASSUME FactsInv, position \in 1..Own - 1, suite # "byoc", NEW ans,
         \A i \in 1..Calls(suite, Current) : ans[i] \in Answers
  PROVE  Tells(Current, ans, Calls(suite, Current),
               ResultsOf(ans), ResultsOf(Answered(Current)))
<1> DEFINE n == Calls(suite, Current)
           ok == Answered(Current)
<1>1. suite \in Checkers /\ Current \in ToSet(Order)
  <2>1. position \in 1..Len(Order)
    BY Orders DEF Own
  <2>2. DOMAIN Order = 1..Len(Order)
    BY Orders
  <2>3. suite \in Checkers
    BY OperatorChecksAssumption DEF FactsInv
  <2> QED
    BY <2>1, <2>2, <2>3 DEF Current, ToSet
<1>2. Compared(ans, ok, n)
  BY DEF Compared, Answered
<1> HIDE DEF Current, ok
<1>3. CASE suite = "common"
  <2>1. Order = Common!Order /\ n = Common!Calls(Current)
    BY <1>3 DEF Order, OrderOf, Calls
  <2> QED
    BY <1>1, <1>2, <1>3, <2>1, CommonTells DEF ResultsOf, Results, ok
<1>4. CASE suite = "pdo"
  <2>1. Order = Pdo!Order /\ n = Pdo!Calls(Current)
    BY <1>4 DEF Order, OrderOf, Calls
  <2> QED
    BY <1>1, <1>2, <1>4, <2>1, PdoTells DEF ResultsOf, Results, ok
<1>5. CASE suite = "dms"
  <2>1. Order = Dms!Order /\ n = Dms!Calls(Current)
    BY <1>5 DEF Order, OrderOf, Calls
  <2> QED
    BY <1>1, <1>2, <1>5, <2>1, DmsTells DEF ResultsOf, Results, ok
<1>6. CASE suite = "ome"
  <2>1. Order = Ome!Order /\ n = Ome!Calls(Current)
    BY <1>6 DEF Order, OrderOf, Calls
  <2> QED
    BY <1>1, <1>2, <1>6, <2>1, OmeTells DEF ResultsOf, Results, ok
<1>7. CASE suite = "mnmo"
  <2>1. Order = Mnmo!Order /\ n = Mnmo!Calls(Current)
    BY <1>7 DEF Order, OrderOf, Calls
  <2> QED
    BY <1>1, <1>2, <1>7, <2>1, MnmoTells DEF ResultsOf, Results, ok
<1>8. CASE suite = "sfo"
  <2>1. Order = Sfo!Order /\ n = Sfo!Calls(Current)
    BY <1>8 DEF Order, OrderOf, Calls
  <2> QED
    BY <1>1, <1>2, <1>8, <2>1, SfoTells DEF ResultsOf, Results, ok
<1>9. CASE suite = "sae"
  <2>1. Order = Sae!Order /\ n = Sae!Calls(Current)
    BY <1>9 DEF Order, OrderOf, Calls
  <2> QED
    BY <1>1, <1>2, <1>9, <2>1, SaeTells DEF ResultsOf, Results, ok
<1>10. CASE suite = "muo"
  <2>1. Order = Muo!Order /\ n = Muo!Calls(Current)
    BY <1>10 DEF Order, OrderOf, Calls
  <2> QED
    BY <1>1, <1>2, <1>10, <2>1, MuoTells DEF ResultsOf, Results, ok
<1>11. CASE suite = "camo"
  <2>1. Order = Camo!Order /\ n = Camo!Calls(Current)
    BY <1>11 DEF Order, OrderOf, Calls
  <2> QED
    BY <1>1, <1>2, <1>11, <2>1, CamoTells DEF ResultsOf, Results, ok
<1>12. CASE suite = "rmo"
  <2>1. Order = Rmo!Order(facts) /\ n = Rmo!Calls(Current)
    BY <1>12 DEF Order, OrderOf, Calls
  <2> QED
    BY <1>1, <1>2, <1>12, <2>1, RmoTells DEF ResultsOf, Results, ok
<1>13. CASE suite = "hcp"
  <2>1. Order = Hcp!Order /\ n = Hcp!Calls(Current)
    BY <1>13 DEF Order, OrderOf, Calls
  <2> QED
    BY <1>1, <1>2, <1>13, <2>1, HcpTells DEF ResultsOf, Results, ok
<1>14. CASE suite = "mcc"
  <2>1. Order = Mcc!Order(facts) /\ n = Mcc!Calls(Current)
    BY <1>14 DEF Order, OrderOf, Calls
  <2> QED
    BY <1>1, <1>2, <1>14, <2>1, MccTells DEF ResultsOf, Results, ok
<1>15. CASE suite = "rhobs"
  <2>1. Order = Rhobs!Order(facts) /\ n = Rhobs!Calls(Current)
    BY <1>15 DEF Order, OrderOf, Calls
  <2> QED
    BY <1>1, <1>2, <1>15, <2>1, RhobsTells DEF ResultsOf, Results, ok
<1>16. CASE suite = "rlr"
  <2>1. Order = Rlr!Order(facts) /\ n = Rlr!Calls(Current)
    BY <1>16 DEF Order, OrderOf, Calls
  <2> QED
    BY <1>1, <1>2, <1>16, <2>1, RlrTells DEF ResultsOf, Results, ok
<1> QED
  BY <1>1, <1>3, <1>4, <1>5, <1>6, <1>7, <1>8, <1>9,
     <1>10, <1>11, <1>12, <1>13, <1>14, <1>15, <1>16 DEF Checkers

\* The commands leave one result each, so as many as have run.
LEMMA CommandsInOrder ==
  ASSUME ReportInv, suite = "byoc", position < Own
  PROVE  Len(results) + 1 = position
<1>1. /\ position \in 1..Over /\ Own = Over /\ Own = Len(Order) + 1
      /\ Len(Order) \in Nat
  BY Orders DEF ReportInv, Over, Own
<1>2. ~NamespaceFailed
  BY DEF NamespaceFailed, NamespaceFirst
<1>3. ReportAt(position - 1)
  <2>1. PICK m \in 0..Len(Order) : ReportAt(m) /\ m = position - 1
    BY <1>1, <1>2 DEF ReportInv, Reported
  <2> QED
    BY <2>1
<1>4. Extra = 0 /\ OwnLeft = 0 /\ Past = 0
  BY DEF Extra, OwnLeft, Past
<1>5. Cardinality(Silent(position)) = 0
  <2>1. Silent(position) = {}
    BY DEF Silent, NoResult
  <2> QED
    BY <2>1, FS_EmptySet
<1>6. (position - 1) + 1 = position
  BY <1>1
<1>7. Len(results) = Before(position) + 0
  BY <1>3, <1>4, <1>6 DEF ReportAt
<1>8. Before(position) = position - 1
  <2>1. Before(position) = 0 + (position - 1) - 0 + 0
    BY <1>4, <1>5 DEF Before
  <2> QED
    BY <1>1, <2>1
<1> QED
  BY <1>1, <1>7, <1>8

\* A command is judged by its exit code and its output, and by its own: one
\* that was killed before it ended has the code -1.
LEMMA CommandJudged ==
  ASSUME ReportInv, suite = "byoc", position < Own, NEW ans
  PROVE  StatusesOf(ResultsOf(ans)) =
           {Byoc!CommandStatus(facts.commands[position], ans[1])}
<1>1. Len(results) + 1 = position
  BY CommandsInOrder
<1>2. \A check, s : StatusesOf(<<[check |-> check, status |-> s]>>) = {s}
  BY DEF StatusesOf
<1> HIDE DEF Current
<1> QED
  BY <1>1, <1>2 DEF ResultsOf, Results, Byoc!Results, Byoc!One, Byoc!Result

\* No good news from silence: but for the checks that are known to, no check of
\* a suite passes, on any cluster, because a call of it was denied or failed,
\* where the answer would have been an alarm; and no command passes that was
\* killed or could not be started, unless its exit code is to be that of a
\* signal.
THEOREM UnreadIsNoGoodNews == Spec => []UnreadHidesNothing
<1>1. ReportInv => UnreadHidesNothing
  <2> SUFFICES ASSUME ReportInv, position < Own, Current \notin PassesUnread,
                      NEW ans \in [1..Calls(suite, Current)
                                     -> AnswersOf(Current)],
                      StatusesOf(ResultsOf(ans)) = {"PASS"}
               PROVE  StatusesOf(ResultsOf(Answered(Current)))
                        \intersect Alarms = {}
    BY DEF UnreadHidesNothing
  <2>1. FactsInv /\ position \in 1..Own - 1
    BY Orders DEF ReportInv
  <2>2. CASE suite # "byoc"
    <3>1. Current \notin MayPassUnread
      BY <2>2 DEF PassesUnread
    <3>2. Current # "active_alerts"
      BY <3>1 DEF MayPassUnread
    <3>3. AnswersOf(Current) = Answers
      BY <2>2, <3>2 DEF AnswersOf
    <3>4. \A i \in 1..Calls(suite, Current) : ans[i] \in Answers
      BY <3>3
    <3>5. ~Hides(ResultsOf(ans), ResultsOf(Answered(Current)))
      BY <2>1, <2>2, <3>1, <3>4, CurrentTells, Zenon DEF Tells
    <3> QED
      BY <3>5 DEF Hides
  <2>3. CASE suite = "byoc"
    <3> DEFINE command == facts.commands[position]
    <3>1. ans[1] \in Byoc!Outcomes /\ Answered(Current)[1] = "ok"
      BY <2>3 DEF AnswersOf, Calls, Byoc!Calls, Answered
    <3>2. command.expected # -1
      BY <2>3 DEF PassesUnread
    <3>3. Byoc!CommandStatus(command, ans[1]) = "PASS"
      BY <2>3, CommandJudged, Zenon
    <3>4. ans[1] = "ok"
      BY <3>1, <3>2, <3>3 DEF Byoc!CommandStatus, Byoc!ExitCode, Byoc!Outcomes
    <3>5. StatusesOf(ResultsOf(Answered(Current))) = {"PASS"}
      BY <2>3, <3>1, <3>3, <3>4, CommandJudged
    <3> QED
      BY <3>5 DEF Alarms
  <2> QED
    BY <2>2, <2>3
<1> QED
  BY <1>1, ReportKept, PTL

\* No bad news from a refusal: but for the checks that are known to, no check
\* fails, on any cluster, because some of its calls were refused
\* (IsAccessError), where it would not have failed had they been answered.
THEOREM RefusalIsNoBadNews == Spec => []RefusalIsNoFailure
<1>1. ReportInv => RefusalIsNoFailure
  <2> SUFFICES ASSUME ReportInv, position < Own, Current \notin FailsRefused,
                      NEW ans \in [1..Calls(suite, Current) ->
                                     AnswersOf(Current)
                                       \intersect {"ok", "denied"}],
                      "FAIL" \in StatusesOf(ResultsOf(ans))
               PROVE  "FAIL" \in StatusesOf(ResultsOf(Answered(Current)))
    BY DEF RefusalIsNoFailure
  <2>1. FactsInv /\ position \in 1..Own - 1
    BY Orders DEF ReportInv
  <2>2. \A i \in 1..Calls(suite, Current) : ans[i] \in {"ok", "denied"}
    OBVIOUS
  <2>3. CASE suite # "byoc"
    <3>1. \A i \in 1..Calls(suite, Current) :
            ans[i] \in Answers /\ ans[i] # "error"
      BY <2>2 DEF Answers
    <3>2. ~Blames(ResultsOf(ans), ResultsOf(Answered(Current)))
      BY <2>1, <2>3, <3>1, CurrentTells, Zenon DEF Tells
    <3> QED
      BY <3>2 DEF Blames
  <2>4. CASE suite = "byoc"
    <3>1. ans[1] = "ok" /\ Answered(Current)[1] = "ok"
      BY <2>4 DEF AnswersOf, Calls, Byoc!Calls, Byoc!Outcomes, Answered
    <3> QED
      BY <2>4, <3>1, CommandJudged, Zenon
  <2> QED
    BY <2>3, <2>4
<1> QED
  BY <1>1, ReportKept, PTL
=============================================================================
