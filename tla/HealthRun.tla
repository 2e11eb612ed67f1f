----------------------------- MODULE HealthRun -----------------------------
(***************************************************************************)
(* The run of cmd/healthcheck/main.go, from the launch of the first        *)
(* cluster goroutine to the exit of the process.                           *)
(*                                                                         *)
(* The main thread walks the cluster list, taking a slot of the semaphore  *)
(* for each position (a "job"); every job is a goroutine that fetches the  *)
(* cluster's metadata, connects, starts one goroutine per managed operator *)
(* and accounts for the elevated calls they made.  The main thread then    *)
(* runs the hive operators, one hive cluster at a time, and writes the     *)
(* report.  Ctrl-C may cancel the root context between any two steps.      *)
(***************************************************************************)
EXTENDS Integers, FiniteSets, FiniteSetsExt

CONSTANTS
  NJobs,        \* len(clusterIDs): the positions 1..NJobs of the cluster list
  HiveNames,    \* the hive clusters of the SAAS targets (hiveClusterNames)
  IdOf,         \* the cluster id of a job or of a hive cluster
  Ids,          \* the cluster ids
  Parallel,     \* the capacity of the semaphore (--parallel, already clamped)
  NManagedOps,  \* len(managedOps)
  NHiveOps,     \* len(hiveOps)
  MaxCalls,     \* bound: elevated calls one operator makes on one cluster
  None          \* no value

Jobs == 1..NJobs
Workers == Jobs \union HiveNames

ASSUME SizeAssumption ==
  /\ NJobs \in Nat /\ NManagedOps \in Nat /\ NHiveOps \in Nat
  /\ MaxCalls \in Nat
  /\ Parallel \in Nat \ {0}
ASSUME NameAssumption ==
  /\ IsFiniteSet(HiveNames)
  /\ Jobs \intersect HiveNames = {}
  /\ None \notin Workers
  /\ IdOf \in [Workers -> Ids]

VARIABLES
  main,         \* where the main thread is
  next,         \* the next position of the cluster list
  hive,         \* the hive cluster being processed, or None
  hiveTodo,     \* hive clusters the range loop has not visited
  cancelled,    \* rootCtx.Err() != nil
  interrupted,  \* the local of that name, read once at waitAndWrite
  sem,          \* slots taken: len(sem)
  wg,           \* the counter of clusterWg
  pc,           \* where each job's goroutine is
  opNext,       \* the next operator a job or a hive cluster runs
  running,      \* <<job, operator>>: operator goroutines that have not returned
  meta,         \* what the cluster's metadata said
  connected,    \* clients that have not been disconnected
  calls,        \* client.ElevatedCallCount
  outputs,      \* allOutputs
  skipped,      \* skippedClusters
  totalCalls,   \* totalElevatedCalls
  elevated,     \* clustersWithElevation
  report,       \* the report on disk, None before it is written
  summary       \* the audit line printed last, None before it is printed

mainVars   == <<main, next, hive, hiveTodo, interrupted>>
jobVars    == <<pc, opNext, running, meta, connected, calls>>
ledgerVars == <<outputs, skipped, totalCalls, elevated>>
endVars    == <<report, summary>>
vars == <<mainVars, cancelled, sem, wg, jobVars, ledgerVars, endVars>>

MainSteps == {"loop", "acquire", "openHive", "hive", "hiveOps", "hiveAudit",
              "waitAndWrite", "window", "write", "summary", "exited"}
SlotSteps == {"metadata", "connect", "launch", "wait", "audit",
              "disconnect", "release"}
JobSteps == {"idle", "wgDone", "done"} \union SlotSteps
MetaStates == {"unknown", "ready", "not_ready", "limited_support"}
SkipStatus == {"metadata_failed", "not_ready", "limited_support",
               "connection_failed"}

Output == [worker : Workers, op : Nat, ops : Workers \union {None}]
Skip == [worker : Workers, status : SkipStatus]

(***************************************************************************)
(* The ledger: what is appended under mu.                                  *)
(***************************************************************************)
AddSkip(w, status) ==
  skipped' = skipped \union {[worker |-> w, status |-> status]}

AddOutput(w, op) ==
  outputs' = outputs \union {[worker |-> w, op |-> op, ops |-> None]}

\* Mutant: the loop over allOutputs does not compare cluster ids.
AttachOpsToAll(w) ==
  outputs' = {IF o.ops = None THEN [o EXCEPT !.ops = w] ELSE o : o \in outputs}

\* Every output of the cluster that carries no elevated operations yet gets
\* those of this client; the loop tells clusters apart by their id alone.
AttachOps(w) ==
  outputs' = {IF IdOf[o.worker] = IdOf[w] /\ o.ops = None
                THEN [o EXCEPT !.ops = w] ELSE o : o \in outputs}

\* Mutant: the total is overwritten.
CountAuditOverwrite(w) ==
  IF calls[w] > 0
    THEN totalCalls' = calls[w] /\ elevated' = elevated + 1
    ELSE UNCHANGED <<totalCalls, elevated>>

CountAudit(w) ==
  IF calls[w] > 0
    THEN /\ totalCalls' = totalCalls + calls[w]
         /\ elevated' = elevated + 1
    ELSE UNCHANGED <<totalCalls, elevated>>

(***************************************************************************)
(* The main thread: launching the jobs.                                    *)
(***************************************************************************)

\* The select at the head of the loop sees the cancelled context.
StopLaunching ==
  /\ main = "loop" /\ next <= NJobs
  /\ cancelled
  /\ main' = "waitAndWrite"
  /\ UNCHANGED <<next, hive, hiveTodo, interrupted, cancelled, sem, wg,
                 jobVars, ledgerVars, endVars>>

\* It does not: clusterWg.Add(1) precedes the blocking send on the semaphore.
Admit ==
  /\ main = "loop" /\ next <= NJobs
  /\ ~cancelled
  /\ wg' = wg + 1
  /\ main' = "acquire"
  /\ UNCHANGED <<next, hive, hiveTodo, interrupted, cancelled, sem,
                 jobVars, ledgerVars, endVars>>

\* Mutant: the capacity is off by one.
LaunchOffByOne ==
  /\ main = "acquire"
  /\ sem <= Parallel
  /\ sem' = sem + 1
  /\ pc' = [pc EXCEPT ![next] = "metadata"]
  /\ next' = next + 1
  /\ main' = "loop"
  /\ UNCHANGED <<hive, hiveTodo, interrupted, cancelled, wg, opNext, running,
                 meta, connected, calls, ledgerVars, endVars>>

\* The send on the semaphore succeeds and the goroutine starts.
Launch ==
  /\ main = "acquire"
  /\ sem < Parallel
  /\ sem' = sem + 1
  /\ pc' = [pc EXCEPT ![next] = "metadata"]
  /\ next' = next + 1
  /\ main' = "loop"
  /\ UNCHANGED <<hive, hiveTodo, interrupted, cancelled, wg, opNext, running,
                 meta, connected, calls, ledgerVars, endVars>>

\* clusterWg.Wait() after the loop.
AllJobsDone ==
  /\ main = "loop" /\ next > NJobs
  /\ wg = 0
  /\ main' = "openHive"
  /\ UNCHANGED <<next, hive, hiveTodo, interrupted, cancelled, sem, wg,
                 jobVars, ledgerVars, endVars>>

(***************************************************************************)
(* The goroutine of a job.  It dies with the process.                      *)
(***************************************************************************)
At(j, step) == pc[j] = step /\ main # "exited"
GoTo(j, step) == pc' = [pc EXCEPT ![j] = step]

\* Mutant: the early return records nothing.
SkipJobUnrecorded(j, status) ==
  /\ UNCHANGED skipped
  /\ GoTo(j, "release")

\* Every early return runs the deferred calls: no client yet, so the slot is
\* the next thing released.
SkipJob(j, status) ==
  /\ AddSkip(j, status)
  /\ GoTo(j, "release")

\* GetClusterMetadata fails, or the cluster is not one to be checked.
RejectCluster(j) ==
  /\ At(j, "metadata")
  /\ \/ SkipJob(j, "metadata_failed") /\ UNCHANGED meta
     \/ \E s \in {"not_ready", "limited_support"} :
          SkipJob(j, s) /\ meta' = [meta EXCEPT ![j] = s]
  /\ UNCHANGED <<mainVars, cancelled, sem, wg, opNext, running, connected,
                 calls, outputs, totalCalls, elevated, endVars>>

AcceptCluster(j) ==
  /\ At(j, "metadata")
  /\ meta' = [meta EXCEPT ![j] = "ready"]
  /\ GoTo(j, "connect")
  /\ UNCHANGED <<mainVars, cancelled, sem, wg, opNext, running, connected,
                 calls, ledgerVars, endVars>>

ConnectFails(j) ==
  /\ At(j, "connect")
  /\ SkipJob(j, "connection_failed")
  /\ UNCHANGED <<mainVars, cancelled, sem, wg, opNext, running, meta,
                 connected, calls, outputs, totalCalls, elevated, endVars>>

Connect(j) ==
  /\ At(j, "connect")
  /\ connected' = connected \union {j}
  /\ GoTo(j, "launch")
  /\ UNCHANGED <<mainVars, cancelled, sem, wg, opNext, running, meta, calls,
                 ledgerVars, endVars>>

\* One turn of the loop over managedOps.
StartOp(j) ==
  /\ At(j, "launch")
  /\ opNext[j] <= NManagedOps /\ ~cancelled
  /\ running' = running \union {<<j, opNext[j]>>}
  /\ opNext' = [opNext EXCEPT ![j] = @ + 1]
  /\ UNCHANGED <<mainVars, cancelled, sem, wg, pc, meta, connected, calls,
                 ledgerVars, endVars>>

\* The loop ends, or breaks on a cancelled context.
EndOps(j) ==
  /\ At(j, "launch")
  /\ opNext[j] > NManagedOps \/ cancelled
  /\ GoTo(j, "wait")
  /\ UNCHANGED <<mainVars, cancelled, sem, wg, opNext, running, meta,
                 connected, calls, ledgerVars, endVars>>

\* An operator goroutine runs its checks, appends its output and returns.
RunOp(j, op) ==
  /\ main # "exited"
  /\ <<j, op>> \in running
  /\ \E c \in 0..MaxCalls : calls' = [calls EXCEPT ![j] = @ + c]
  /\ AddOutput(j, op)
  /\ running' = running \ {<<j, op>>}
  /\ UNCHANGED <<mainVars, cancelled, sem, wg, pc, opNext, meta, connected,
                 skipped, totalCalls, elevated, endVars>>

\* wg.Wait() returns and the elevated operations are attached under mu.
AttachJobOps(j) ==
  /\ At(j, "wait")
  /\ \A op \in 1..NManagedOps : <<j, op>> \notin running
  /\ IF calls[j] > 0 THEN AttachOps(j) ELSE UNCHANGED outputs
  /\ GoTo(j, "audit")
  /\ UNCHANGED <<mainVars, cancelled, sem, wg, opNext, running, meta,
                 connected, calls, skipped, totalCalls, elevated, endVars>>

AuditJob(j) ==
  /\ At(j, "audit")
  /\ CountAudit(j)
  /\ GoTo(j, "disconnect")
  /\ UNCHANGED <<mainVars, cancelled, sem, wg, opNext, running, meta,
                 connected, calls, outputs, skipped, endVars>>

\* The deferred calls, last one first.
Disconnect(j) ==
  /\ At(j, "disconnect")
  /\ connected' = connected \ {j}
  /\ GoTo(j, "release")
  /\ UNCHANGED <<mainVars, cancelled, sem, wg, opNext, running, meta, calls,
                 ledgerVars, endVars>>

\* Mutants: the slot is released twice, or never.
ReleaseSlotTwice(j) ==
  /\ At(j, "release")
  /\ sem' = sem - 2
  /\ GoTo(j, "wgDone")
  /\ UNCHANGED <<mainVars, cancelled, wg, opNext, running, meta, connected,
                 calls, ledgerVars, endVars>>
ReleaseSlotNever(j) ==
  /\ At(j, "release")
  /\ GoTo(j, "wgDone")
  /\ UNCHANGED <<mainVars, cancelled, sem, wg, opNext, running, meta,
                 connected, calls, ledgerVars, endVars>>

ReleaseSlot(j) ==
  /\ At(j, "release")
  /\ sem' = sem - 1
  /\ GoTo(j, "wgDone")
  /\ UNCHANGED <<mainVars, cancelled, wg, opNext, running, meta, connected,
                 calls, ledgerVars, endVars>>

FinishJob(j) ==
  /\ At(j, "wgDone")
  /\ wg' = wg - 1
  /\ GoTo(j, "done")
  /\ UNCHANGED <<mainVars, cancelled, sem, opNext, running, meta, connected,
                 calls, ledgerVars, endVars>>
(***************************************************************************)
(* The main thread: the hive clusters.                                     *)
(***************************************************************************)

\* hasHiveOperators, some hive cluster, no cancellation and getHiveOCM()
\* answers; otherwise the hive pass is left out.
OpenHive ==
  /\ main = "openHive"
  /\ \/ /\ NHiveOps > 0 /\ HiveNames # {} /\ ~cancelled
        /\ main' = "hive"
     \/ main' = "waitAndWrite"
  /\ UNCHANGED <<next, hive, hiveTodo, interrupted, cancelled, sem, wg,
                 jobVars, ledgerVars, endVars>>

\* One turn of the range loop begins: h is any hive cluster not yet visited.
Visit(h) ==
  /\ main = "hive" /\ h \in hiveTodo /\ ~cancelled
  /\ hiveTodo' = hiveTodo \ {h}

HiveNotFound(h) ==
  /\ Visit(h)
  /\ AddSkip(h, "metadata_failed")
  /\ UNCHANGED <<main, next, hive, interrupted, cancelled, sem, wg, jobVars,
                 outputs, totalCalls, elevated, endVars>>

\* The error is printed and the loop continues: nothing is recorded.
HiveMetadataFails(h) ==
  /\ Visit(h)
  /\ UNCHANGED <<main, next, hive, interrupted, cancelled, sem, wg, jobVars,
                 ledgerVars, endVars>>

\* Neither the state nor the support level of a hive cluster is looked at.
HiveMetadata(h) ==
  \E s \in MetaStates \ {"unknown"} : meta' = [meta EXCEPT ![h] = s]

HiveConnectFails(h) ==
  /\ Visit(h)
  /\ HiveMetadata(h)
  /\ AddSkip(h, "connection_failed")
  /\ UNCHANGED <<main, next, hive, interrupted, cancelled, sem, wg, pc, opNext,
                 running, connected, calls, outputs, totalCalls, elevated,
                 endVars>>

HiveConnect(h) ==
  /\ Visit(h)
  /\ HiveMetadata(h)
  /\ connected' = connected \union {h}
  /\ hive' = h
  /\ main' = "hiveOps"
  /\ UNCHANGED <<next, interrupted, cancelled, sem, wg, pc, opNext, running,
                 calls, ledgerVars, endVars>>

RunHiveOp ==
  /\ main = "hiveOps"
  /\ opNext[hive] <= NHiveOps /\ ~cancelled
  /\ \E c \in 0..MaxCalls : calls' = [calls EXCEPT ![hive] = @ + c]
  /\ AddOutput(hive, opNext[hive])
  /\ opNext' = [opNext EXCEPT ![hive] = @ + 1]
  /\ UNCHANGED <<mainVars, cancelled, sem, wg, pc, running, meta, connected,
                 skipped, totalCalls, elevated, endVars>>

EndHiveOps ==
  /\ main = "hiveOps"
  /\ opNext[hive] > NHiveOps \/ cancelled
  /\ main' = "hiveAudit"
  /\ UNCHANGED <<next, hive, hiveTodo, interrupted, cancelled, sem, wg,
                 jobVars, ledgerVars, endVars>>

AuditHive ==
  /\ main = "hiveAudit"
  /\ CountAudit(hive)
  /\ IF calls[hive] > 0 THEN AttachOps(hive) ELSE UNCHANGED outputs
  /\ connected' = connected \ {hive}
  /\ hive' = None
  /\ main' = "hive"
  /\ UNCHANGED <<next, hiveTodo, interrupted, cancelled, sem, wg, pc, opNext,
                 running, meta, calls, skipped, endVars>>

EndHive ==
  /\ main = "hive"
  /\ hiveTodo = {} \/ cancelled
  /\ main' = "waitAndWrite"
  /\ UNCHANGED <<next, hive, hiveTodo, interrupted, cancelled, sem, wg,
                 jobVars, ledgerVars, endVars>>

(***************************************************************************)
(* The main thread: the label waitAndWrite and the report.                 *)
(***************************************************************************)
\* Mutant: the run counts as interrupted only while some job is in flight.
WaitAndWriteInFlight ==
  /\ main = "waitAndWrite"
  /\ interrupted' = (cancelled /\ wg > 0)
  /\ main' = "window"
  /\ UNCHANGED <<next, hive, hiveTodo, cancelled, sem, wg, jobVars,
                 ledgerVars, endVars>>

WaitAndWrite ==
  /\ main = "waitAndWrite"
  /\ interrupted' = cancelled
  /\ main' = "window"
  /\ UNCHANGED <<next, hive, hiveTodo, cancelled, sem, wg, jobVars,
                 ledgerVars, endVars>>

\* Either wait ends when no job is in flight ...
JobsFinishInWindow ==
  /\ main = "window"
  /\ wg = 0
  /\ main' = "write"
  /\ UNCHANGED <<next, hive, hiveTodo, interrupted, cancelled, sem, wg,
                 jobVars, ledgerVars, endVars>>

\* Mutant: there is no timeout.
WindowExpiresNever ==
  /\ main = "window"
  /\ interrupted /\ wg = 0
  /\ main' = "write"
  /\ UNCHANGED <<next, hive, hiveTodo, interrupted, cancelled, sem, wg,
                 jobVars, ledgerVars, endVars>>

\* ... and the one after an interrupt also after five seconds.
WindowExpires ==
  /\ main = "window"
  /\ interrupted
  /\ main' = "write"
  /\ UNCHANGED <<next, hive, hiveTodo, interrupted, cancelled, sem, wg,
                 jobVars, ledgerVars, endVars>>

\* writeResults runs under mu; a marshalling or file error loses the report.
WriteReport ==
  /\ main = "write"
  /\ \/ report' = [outputs |-> outputs, skipped |-> skipped,
                   interrupted |-> interrupted,
                   calls |-> totalCalls, clusters |-> elevated]
     \/ UNCHANGED report
  /\ main' = "summary"
  /\ UNCHANGED <<next, hive, hiveTodo, interrupted, cancelled, sem, wg,
                 jobVars, ledgerVars, summary>>

\* The audit line reads the totals again, after the unlock; then the process
\* exits, with every goroutine that is still in flight.
PrintSummary ==
  /\ main = "summary"
  /\ summary' = totalCalls
  /\ main' = "exited"
  /\ UNCHANGED <<next, hive, hiveTodo, interrupted, cancelled, sem, wg,
                 jobVars, ledgerVars, report>>

(***************************************************************************)
(* Ctrl-C or SIGTERM.  A second one changes nothing.                       *)
(***************************************************************************)
Interrupt ==
  /\ main # "exited"
  /\ ~cancelled
  /\ cancelled' = TRUE
  /\ UNCHANGED <<mainVars, sem, wg, jobVars, ledgerVars, endVars>>

Exited == main = "exited" /\ UNCHANGED vars
(***************************************************************************)
(* The specification.                                                      *)
(***************************************************************************)
Init ==
  /\ main = "loop" /\ next = 1
  /\ hive = None /\ hiveTodo = HiveNames
  /\ cancelled = FALSE /\ interrupted = FALSE
  /\ sem = 0 /\ wg = 0
  /\ pc = [j \in Jobs |-> "idle"]
  /\ opNext = [w \in Workers |-> 1]
  /\ running = {}
  /\ meta = [w \in Workers |-> "unknown"]
  /\ connected = {}
  /\ calls = [w \in Workers |-> 0]
  /\ outputs = {} /\ skipped = {}
  /\ totalCalls = 0 /\ elevated = 0
  /\ report = None /\ summary = None

\* Steps of the main thread that wait for nothing but the program itself ...
MainLocal ==
  \/ StopLaunching \/ Admit \/ Launch \/ AllJobsDone \/ OpenHive
  \/ EndHiveOps \/ AuditHive \/ EndHive
  \/ WaitAndWrite \/ JobsFinishInWindow \/ WindowExpires
  \/ WriteReport \/ PrintSummary

\* ... and those that wait for a remote answer.
MainRemote ==
  \/ \E h \in HiveNames :
       HiveNotFound(h) \/ HiveMetadataFails(h) \/ HiveConnectFails(h)
         \/ HiveConnect(h)
  \/ RunHiveOp

JobLocal(j) ==
  \/ StartOp(j) \/ EndOps(j) \/ AttachJobOps(j) \/ AuditJob(j)
  \/ Disconnect(j) \/ ReleaseSlot(j) \/ FinishJob(j)

JobRemote(j) ==
  \/ RejectCluster(j) \/ AcceptCluster(j) \/ ConnectFails(j) \/ Connect(j)

Next ==
  \/ MainLocal \/ MainRemote
  \/ \E j \in Jobs : JobLocal(j) \/ JobRemote(j)
  \/ \E j \in Jobs, op \in 1..NManagedOps : RunOp(j, op)
  \/ Interrupt \/ Exited

Spec == Init /\ [][Next]_vars

\* The Go scheduler runs every goroutine that can run; a remote call may hang,
\* for the calls of the checks are not all bounded by a timeout.
LocalFairness ==
  /\ WF_vars(MainLocal)
  /\ \A j \in Jobs : WF_vars(JobLocal(j))

HangSpec == Spec /\ LocalFairness

\* Every remote call answers or fails.
RemoteFairness ==
  /\ WF_vars(MainRemote)
  /\ \A j \in Jobs : WF_vars(JobRemote(j))
  /\ \A j \in Jobs, op \in 1..NManagedOps : WF_vars(RunOp(j, op))

(***************************************************************************)
(* Safety.                                                                 *)
(***************************************************************************)
Report == [outputs : SUBSET Output, skipped : SUBSET Skip,
           interrupted : BOOLEAN, calls : Nat, clusters : Nat]

\* Every variable has its type, and a goroutine never outlives its counters:
\* sem and wg stay natural numbers.
TypeOK ==
  /\ main \in MainSteps
  /\ next \in 1..(NJobs + 1)
  /\ main = "acquire" => next <= NJobs
  /\ hive \in HiveNames \union {None}
  /\ main \in {"hiveOps", "hiveAudit"} => hive \in HiveNames
  /\ hiveTodo \subseteq HiveNames
  /\ cancelled \in BOOLEAN /\ interrupted \in BOOLEAN
  /\ sem \in Nat /\ wg \in Nat
  /\ pc \in [Jobs -> JobSteps]
  /\ opNext \in [Workers -> Nat \ {0}]
  /\ running \subseteq Jobs \X (1..NManagedOps)
  /\ meta \in [Workers -> MetaStates]
  /\ connected \subseteq Workers
  /\ calls \in [Workers -> Nat]
  /\ outputs \subseteq Output
  /\ skipped \subseteq Skip
  /\ totalCalls \in Nat /\ elevated \in Nat
  /\ report \in Report \union {None}
  /\ summary \in Nat \union {None}

InFlight == {j \in Jobs : pc[j] \in SlotSteps}

\* At most --parallel clusters are processed at the same time, on whatever
\* path their goroutines leave (main.go: sem and its deferred release).
AtMostParallel == Cardinality(InFlight) <= Parallel

\* The counters count: sem the goroutines that hold a slot, wg those that have
\* not called Done and the one the loop is about to start.
Counted == {j \in Jobs : pc[j] \notin {"idle", "done"}}
Counters ==
  /\ sem = Cardinality(InFlight) /\ sem <= Parallel
  /\ wg = Cardinality(Counted) + IF main = "acquire" THEN 1 ELSE 0

\* Goroutines are started in the order of the list.
StartedInOrder == \A j \in Jobs : pc[j] = "idle" <=> next <= j

\* The strengthening of TypeOK and AtMostParallel that every step preserves.
CountInv == TypeOK /\ Counters /\ StartedInOrder

Uninterrupted == report # None /\ ~report.interrupted

\* Among the skips and the outputs given, job j has exactly one skip and no
\* output, or no skip and an output of each managed operator and of no other.
SkippedOnce(skips, outs, j) ==
  /\ \E s \in skips : s.worker = j /\ \A t \in skips : t.worker = j => t = s
  /\ \A o \in outs : o.worker # j
CheckedInFull(skips, outs, j) ==
  /\ \A s \in skips : s.worker # j
  /\ \A o \in outs : o.worker = j => o.op \in 1..NManagedOps
  /\ \A op \in 1..NManagedOps : \E o \in outs : o.worker = j /\ o.op = op
Accounted(skips, outs, j) ==
  SkippedOnce(skips, outs, j) \/ CheckedInFull(skips, outs, j)

\* A report that is not marked as partial accounts for each cluster of the
\* list exactly once: with one skip and no output, or with no skip and the
\* output of every managed operator (main.go: the goroutine of a cluster,
\* clusterWg and the label waitAndWrite).
ReportComplete ==
  Uninterrupted =>
    \A j \in Jobs : Accounted(report.skipped, report.outputs, j)

\* How far a goroutine has got with its operators: those started are the ones
\* running and the ones in the ledger.
OpInLedger(j, op) == \E o \in outputs : o.worker = j /\ o.op = op
Untouched(j) ==
  /\ opNext[j] = 1
  /\ \A s \in skipped : s.worker # j
  /\ \A o \in outputs : o.worker # j
  /\ \A op \in 1..NManagedOps : <<j, op>> \notin running
Checking(j) ==
  /\ opNext[j] <= NManagedOps + 1
  /\ \A s \in skipped : s.worker # j
  /\ \A o \in outputs : o.worker = j => o.op \in 1..NManagedOps
  /\ \A op \in 1..NManagedOps :
       op < opNext[j] => <<j, op>> \in running \/ OpInLedger(j, op)
Quiet(j) == \A op \in 1..NManagedOps : <<j, op>> \notin running

JobInv(j) ==
  /\ pc[j] \in {"idle", "metadata", "connect"} => Untouched(j)
  /\ pc[j] \in {"launch", "wait", "audit", "disconnect"} => Checking(j)
  /\ pc[j] \in {"wait", "audit", "disconnect"} =>
       opNext[j] > NManagedOps \/ cancelled
  /\ pc[j] \notin {"launch", "wait"} => Quiet(j)
  /\ pc[j] \in {"release", "wgDone", "done"} =>
       Accounted(skipped, outputs, j) \/ cancelled

\* Past the wait for the jobs, they are all done, unless the run was
\* interrupted; the report is the ledger of that moment.
AllDone == \A j \in Jobs : pc[j] = "done"
AllAccounted ==
  AllDone /\ \A j \in Jobs : Accounted(skipped, outputs, j)
MainInv ==
  /\ main \in {"openHive", "hive", "hiveOps", "hiveAudit"} => AllDone
  /\ main = "waitAndWrite" => AllDone \/ cancelled
  /\ main \in {"window", "write", "summary", "exited"} =>
       AllAccounted \/ interrupted
  /\ report # None => /\ main \in {"summary", "exited"}
                      /\ report.interrupted = interrupted
                      /\ ReportComplete

\* The strengthening of ReportComplete that every step preserves.
CompleteInv == CountInv /\ (\A j \in Jobs : JobInv(j)) /\ MainInv

\* What the workers have together.
Sum(f) == MapThenSumSet(LAMBDA w : f[w], Workers)
TotalCalls == Sum(calls)

\* The audit entry of a report never exceeds what the clients counted, and in
\* a complete report it is the exact number of elevated calls and of clusters
\* that made some (main.go: totalElevatedCalls, clustersWithElevation).
AuditExact ==
  /\ report # None => report.calls <= TotalCalls
  /\ Uninterrupted =>
       /\ report.calls = TotalCalls
       /\ report.clusters = Cardinality({w \in Workers : calls[w] > 0})

\* In a complete report a cluster that is processed once carries its elevated
\* operations on each of its outputs, and carries no other cluster's
\* (main.go: the loop over allOutputs after wg.Wait()).
Alone(w) == \A v \in Workers \ {w} : IdOf[v] # IdOf[w]
OpsAttributed ==
  Uninterrupted =>
    \A o \in report.outputs :
      Alone(o.worker) =>
        o.ops = IF calls[o.worker] > 0 THEN o.worker ELSE None

\* A hive cluster that was not visited has nothing in the ledger; the one being
\* visited has an output of each operator before its next one.
HiveInv ==
  /\ main \notin {"hiveOps", "hiveAudit"} => hive = None
  /\ hive \notin hiveTodo
  /\ \A h \in hiveTodo : Untouched(h) /\ calls[h] = 0
  /\ main = "hiveOps" =>
       /\ \A s \in skipped : s.worker # hive
       /\ \A o \in outputs : o.worker = hive => o.op < opNext[hive]

\* An operator of a job is started once and leaves one output.
StartedOnce(j) ==
  \A op \in 1..NManagedOps :
    /\ <<j, op>> \in running => op < opNext[j] /\ ~OpInLedger(j, op)
    /\ OpInLedger(j, op) => op < opNext[j]

\* No entry of the ledger is made twice.
EntriesInv == HiveInv /\ \A j \in Jobs : StartedOnce(j)

\* The outputs of a worker have its elevated operations as soon as it has
\* stopped making them.
Attached(w) == IF w \in Jobs THEN pc[w] \notin {"launch", "wait"} ELSE w # hive
AttachedInv ==
  \A o \in outputs :
    Alone(o.worker) =>
      o.ops = IF Attached(o.worker) /\ calls[o.worker] > 0 THEN o.worker
              ELSE None

\* The totals are those of the workers whose calls were counted.
Counting(w) ==
  IF w \in Jobs THEN pc[w] \in {"launch", "wait", "audit"} ELSE w = hive
CountedCalls == [w \in Workers |-> IF Counting(w) THEN 0 ELSE calls[w]]
AuditInv ==
  /\ totalCalls = Sum(CountedCalls)
  /\ elevated = Cardinality({w \in Workers : CountedCalls[w] > 0})
  /\ \A j \in Jobs : pc[j] \in {"idle", "metadata", "connect"} => calls[j] = 0

\* The strengthenings of OpsAttributed and of AuditExact that every step
\* preserves.
OpsInv == AttachedInv /\ OpsAttributed
TotalsInv == AuditInv /\ AuditExact

\* Checks run on a cluster of the list only while its client is connected and
\* after its metadata said it is ready and supported.
JobsCheckedWhenReady ==
  /\ \A r \in running : r[1] \in connected
  /\ \A o \in outputs : o.worker \in Jobs => meta[o.worker] = "ready"

\* When the process leaves without an interrupt no client is connected, no
\* slot is held and the audit line agrees with the report.
CleanExit ==
  main = "exited" /\ ~interrupted =>
    /\ connected = {} /\ sem = 0 /\ wg = 0 /\ running = {}
    /\ report # None => summary = report.calls

\* The clients that are open are those of the goroutines between Connect and
\* Disconnect, and that of the hive cluster being visited.
WithClient == {"launch", "wait", "audit", "disconnect"}
ClientsInv ==
  connected = {w \in Workers : IF w \in Jobs THEN pc[w] \in WithClient
                               ELSE w = hive}

\* A goroutine that went past the metadata, and an output, belong to a cluster
\* that was ready.
ReadyInv ==
  \A j \in Jobs :
    (pc[j] \in WithClient \union {"connect"} \/ \E o \in outputs : o.worker = j)
      => meta[j] = "ready"

\* The audit line has the last totals, and a complete report has them already.
LastTotals ==
  /\ main = "exited" => summary = totalCalls
  /\ Uninterrupted => report.calls = totalCalls

\* The strengthening of JobsCheckedWhenReady and CleanExit that every step
\* preserves.
ExitInv == ClientsInv /\ ReadyInv /\ LastTotals

\* The ledger a reader sees: Ledger.tla's abstract book.
Book == INSTANCE Ledger WITH
  Jobs <- Jobs, Others <- HiveNames,
  Ops <- 1..NManagedOps, OtherOps <- 1..NHiveOps, Unpublished <- None,
  skips <- {s.worker : s \in skipped},
  results <- {<<o.worker, o.op>> : o \in outputs},
  published <- IF report = None THEN None
               ELSE [skips |-> {s.worker : s \in report.skipped},
                     results |-> {<<o.worker, o.op>> : o \in report.outputs},
                     partial |-> report.interrupted]

\* The run keeps the abstract book: entries are only added, never contradict
\* each other, and none is added after a complete publication.
KeepsBook == Book!Spec

(***************************************************************************)
(* Liveness.                                                               *)
(***************************************************************************)

\* When every remote call answers, the process exits, whatever was
\* interrupted: nobody waits for a slot, a counter or mu forever.
RunEnds == RemoteFairness => <>(main = "exited")

\* An interrupt that the launch loop sees ends the run even when every
\* remote call hangs, for the wait after it has a timeout.
WindowIsBounded == main = "waitAndWrite" /\ cancelled ~> main = "exited"

(***************************************************************************)
(* What the comments of main.go and the README say, and the code does not. *)
(***************************************************************************)

\* "Signal handling - graceful shutdown on ctrl-c" (main.go:666) and "Give
\* in-flight goroutines a short window" (main.go:1101): an interrupted run
\* exits even when a remote call hangs.
InterruptEnds == cancelled ~> main = "exited"
=============================================================================
