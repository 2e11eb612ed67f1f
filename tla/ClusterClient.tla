--------------------------- MODULE ClusterClient ---------------------------
(***************************************************************************)
(* pkg/kube/client.go: the client of one cluster, shared by the operators  *)
(* that main() runs at the same time on it.                                *)
(*                                                                         *)
(* An operator makes a number of calls, one after the other: an elevated   *)
(* read (GetResource, ListResources), a secret read through the elevated   *)
(* clientset, a metrics query, or the shared query for active alerts.      *)
(* elevationBroken and elevationDeniedReason are plain fields, read and    *)
(* written by every operator without a lock; the audit has a mutex; the    *)
(* port-forward and the alerts are each set up by a sync.Once.             *)
(***************************************************************************)
EXTENDS Integers, FiniteSets

CONSTANTS
  Operators,   \* the operators that run on the cluster
  CallsEach,   \* bound: calls an operator makes
  MaxRetries,  \* retries of withRetry, and bound of the loops over secrets
  Nobody

ASSUME ClientAssumption ==
  /\ Nobody \notin Operators
  /\ CallsEach \in Nat /\ MaxRetries \in Nat

VARIABLES
  login,     \* the elevated login: "off", "failed" or "ok"
  broken,    \* elevationBroken
  denied,    \* elevationDeniedReason
  brokenBy,  \* history: the operator that wrote elevationBroken last
  refused,   \* history: whether an elevated call was refused
  op,        \* what each operator is doing
  left,      \* calls each operator has yet to make
  recorded,  \* ElevatedCallCount, by operator
  sent,      \* history: elevated operations each operator sent
  pf,        \* pfSetupOnce and pfSetupErr
  alerts,    \* alertsOnce and alertsErr
  crashed,   \* the operator whose nil dereference ended the process
  open       \* FALSE after Disconnect

elevation == <<broken, denied, brokenBy>>
audit == <<recorded, sent>>
onces == <<pf, alerts>>
fixed == <<login, crashed, open>>
vars == <<fixed, elevation, refused, op, left, audit, onces>>

Kinds == {"read", "secret", "metrics", "alerts"}

\* What a call returns, by what the tests on the text of the error tell apart:
\* "request" speaks of an access request, "forbidden" has "Forbidden" or
\* "unknown (get" in it, "transient" is retryable, "other" is anything else: a
\* missing resource, "is forbidden" in small letters, a cancelled context.
Answers == {"ok", "request", "forbidden", "transient", "other"}
Refusals == {"request", "forbidden"}

Places == {"idle", "alerts", "forward", "setup", "query", "exec", "remote",
           "choose", "call", "inspect", "break", "deny", "guard", "fetch",
           "again"}

AtRest == [at |-> "idle", kind |-> "read", elevated |-> FALSE, attempt |-> 0,
           answer |-> "ok"]

CanElevate == login = "ok" /\ ~broken

Running == crashed = Nobody /\ open
At(t, place) == Running /\ op[t].at = place
Go(t, place) == op' = [op EXCEPT ![t].at = place]

\* The call is over; an answer of QueryActiveAlerts is kept for everybody.
Finish(t, answer) ==
  /\ op' = [op EXCEPT ![t] = AtRest]
  /\ alerts' = IF op[t].kind = "alerts" THEN answer ELSE alerts

Place(kind) ==
  CASE kind = "read"    -> "choose"
    [] kind = "secret"  -> "guard"
    [] kind = "metrics" -> "forward"
    [] kind = "alerts"  -> "alerts"

Start(t, kind) ==
  /\ At(t, "idle") /\ left[t] > 0
  /\ left' = [left EXCEPT ![t] = @ - 1]
  /\ op' = [op EXCEPT ![t].kind = kind, ![t].at = Place(kind)]
  /\ UNCHANGED <<fixed, elevation, refused, audit, onces>>

Record(t) == recorded' = [recorded EXCEPT ![t] = @ + 1]
Send(t) == sent' = [sent EXCEPT ![t] = @ + 1]

(***************************************************************************)
(* Elevated reads and execs: GetResource, ListResources, ExecInPod.        *)
(***************************************************************************)
IsExec(t) == op[t].kind # "read"

\* Mutant: an exec is recorded at its first attempt only.
ChooseRecordsFirst(t) ==
  /\ At(t, "choose")
  /\ op' = [op EXCEPT ![t].elevated = CanElevate, ![t].at = "call"]
  /\ IF CanElevate /\ op[t].attempt = 0 THEN Record(t) ELSE UNCHANGED recorded
  /\ UNCHANGED <<fixed, elevation, refused, left, sent, onces>>

\* The elevated client when elevation is available, else the standard one.
Choose(t) ==
  /\ At(t, "choose")
  /\ op' = [op EXCEPT ![t].elevated = CanElevate, ![t].at = "call"]
  /\ IF CanElevate THEN Record(t) ELSE UNCHANGED recorded
  /\ UNCHANGED <<fixed, elevation, refused, left, sent, onces>>

MayRetry(t) == op[t].attempt < MaxRetries

\* Mutant: the attempts are not counted.
RetryForever(t) ==
  op' = [op EXCEPT ![t].at = IF IsExec(t) THEN "choose" ELSE "call"]

\* withRetry: an exec chooses its client again, a read keeps the one it has.
Retry(t) ==
  op' = [op EXCEPT ![t].attempt = @ + 1,
                   ![t].at = IF IsExec(t) THEN "choose" ELSE "call"]

Call(t, answer) ==
  /\ At(t, "call")
  /\ IF op[t].elevated /\ (IsExec(t) \/ op[t].attempt = 0)
       THEN Send(t) ELSE UNCHANGED sent
  /\ refused' = (refused \/ (op[t].elevated /\ answer \in Refusals))
  /\ IF answer = "transient" /\ MayRetry(t)
       THEN Retry(t)
       ELSE op' = [op EXCEPT ![t].answer = answer, ![t].at = "inspect"]
  /\ UNCHANGED <<fixed, elevation, left, recorded, onces>>

\* A read is over; an exec that failed leaves the query to the remote API.
Return(t) ==
  IF IsExec(t) /\ op[t].answer # "ok"
    THEN Go(t, "remote") /\ UNCHANGED alerts
    ELSE Finish(t, op[t].answer)

\* Mutant: every error of an elevated call counts as a refusal.
BreaksOnAnyError(answer) == answer # "ok"

Breaks(answer) == answer \in Refusals

\* checkElevatedError: whether this error breaks elevation.  It is called
\* whichever client was used.
Inspect(t) ==
  /\ At(t, "inspect")
  /\ IF Breaks(op[t].answer) /\ ~broken
       THEN Go(t, "break") /\ UNCHANGED alerts
       ELSE Return(t)
  /\ UNCHANGED <<fixed, elevation, refused, left, audit, pf>>

\* Its two assignments, one after the other.
Break(t) ==
  /\ At(t, "break")
  /\ broken' = TRUE /\ brokenBy' = t
  /\ Go(t, "deny")
  /\ UNCHANGED <<fixed, denied, refused, left, audit, onces>>

\* Mutant: an access request returns before the reason is written.
DenyForbiddenOnly(t) ==
  /\ At(t, "deny")
  /\ denied' = IF op[t].answer = "forbidden" THEN "forbidden" ELSE denied
  /\ Return(t)
  /\ UNCHANGED <<fixed, broken, brokenBy, refused, left, audit, pf>>

Deny(t) ==
  /\ At(t, "deny")
  /\ denied' = op[t].answer
  /\ Return(t)
  /\ UNCHANGED <<fixed, broken, brokenBy, refused, left, audit, pf>>

(***************************************************************************)
(* Secrets: the checks test CanElevate, record the operation and call      *)
(* ElevatedClientset(), which tests it again and returns nil if it changed.*)
(***************************************************************************)
\* Mutant: the check does not test CanElevate first.
GuardDropped(t) ==
  /\ At(t, "guard")
  /\ Record(t) /\ Go(t, "fetch")
  /\ UNCHANGED <<fixed, elevation, refused, left, sent, onces>>

Guard(t) ==
  /\ At(t, "guard") /\ CanElevate
  /\ Record(t) /\ Go(t, "fetch")
  /\ UNCHANGED <<fixed, elevation, refused, left, sent, onces>>

\* ElevationSkipResult.
SkipSecret(t) ==
  /\ At(t, "guard") /\ ~CanElevate
  /\ Finish(t, "other")
  /\ UNCHANGED <<fixed, elevation, refused, left, audit, pf>>

\* The error is not shown to checkElevatedError.  Some checks read several
\* secrets in a loop.
Fetch(t, answer) ==
  /\ At(t, "fetch") /\ CanElevate
  /\ Send(t)
  /\ refused' = (refused \/ answer \in Refusals)
  /\ \/ Finish(t, answer)
     \/ /\ op[t].attempt < MaxRetries
        /\ op' = [op EXCEPT ![t].attempt = @ + 1, ![t].at = "again"]
        /\ UNCHANGED alerts
  /\ UNCHANGED <<fixed, elevation, left, recorded, pf>>

\* The loop records the next secret without a test.
NextSecret(t) ==
  /\ At(t, "again")
  /\ Record(t) /\ Go(t, "fetch")
  /\ UNCHANGED <<fixed, elevation, refused, left, sent, onces>>

\* A method of a nil interface: no goroutine recovers from the panic.
FetchFromNil(t) ==
  /\ At(t, "fetch") /\ ~CanElevate
  /\ crashed' = t
  /\ UNCHANGED <<login, open, elevation, refused, op, left, audit,
                 onces>>

(***************************************************************************)
(* Metrics: port-forward, else exec, else the remote API.                  *)
(***************************************************************************)
\* alertsOnce: the first caller asks, the others wait for its answer.
FirstAlerts(t) ==
  /\ At(t, "alerts") /\ alerts = "unset"
  /\ alerts' = "busy"
  /\ Go(t, "forward")
  /\ UNCHANGED <<fixed, elevation, refused, left, audit, pf>>

SharedAlerts(t) ==
  /\ At(t, "alerts") /\ alerts \notin {"unset", "busy"}
  /\ Finish(t, alerts)
  /\ UNCHANGED <<fixed, elevation, refused, left, audit, pf>>

\* pfSetupOnce: a failure is kept for the life of the client.
FirstForward(t) ==
  /\ At(t, "forward") /\ pf = "unset"
  /\ pf' = "busy"
  /\ Go(t, "setup")
  /\ UNCHANGED <<fixed, elevation, refused, left, audit, alerts>>

SharedForward(t) ==
  /\ At(t, "forward") /\ pf \in {"up", "down"}
  /\ Go(t, IF pf = "up" THEN "query" ELSE "exec")
  /\ UNCHANGED <<fixed, elevation, refused, left, audit, onces>>

SetupForward(t) ==
  /\ At(t, "setup")
  /\ \/ pf' = "up" /\ Go(t, "query")
     \/ pf' = "down" /\ Go(t, "exec")
  /\ UNCHANGED <<fixed, elevation, refused, left, audit, alerts>>

QueryForward(t) ==
  /\ At(t, "query")
  /\ \/ Finish(t, "ok")
     \/ Go(t, "exec") /\ UNCHANGED alerts
  /\ UNCHANGED <<fixed, elevation, refused, left, audit, pf>>

\* QueryThanos looks for a pod first, with the standard client.
ExecThanos(t) ==
  /\ At(t, "exec")
  /\ \/ CanElevate /\ Go(t, "choose")
     \/ Go(t, "remote")
  /\ UNCHANGED <<fixed, elevation, refused, left, audit, onces>>

\* The remote API, when the cluster has a cell; else the error of every source.
QueryRemote(t) ==
  /\ At(t, "remote")
  /\ \E answer \in {"ok", "other"} : Finish(t, answer)
  /\ UNCHANGED <<fixed, elevation, refused, left, audit, pf>>

(***************************************************************************)
(* Life of a client.                                                       *)
(***************************************************************************)
AllAtRest == \A t \in Operators : op[t] = AtRest /\ left[t] = 0

\* Deferred by the goroutine of the cluster, which waited for its operators.
Disconnect ==
  /\ Running /\ AllAtRest
  /\ open' = FALSE
  /\ pf' = IF pf = "up" THEN "closed" ELSE pf
  /\ UNCHANGED <<login, crashed, elevation, refused, op, left, audit,
                 alerts>>

Ended == ~Running /\ UNCHANGED vars

\* Elevated clients are made when elevation is allowed and a reason is given;
\* a failed login breaks elevation and leaves no reason.
Connected ==
  /\ login \in {"off", "failed", "ok"}
  /\ broken = (login = "failed")
  /\ denied = "" /\ brokenBy = Nobody

Init ==
  /\ Connected
  /\ refused = FALSE
  /\ op = [t \in Operators |-> AtRest]
  /\ left = [t \in Operators |-> CallsEach]
  /\ recorded = [t \in Operators |-> 0] /\ sent = [t \in Operators |-> 0]
  /\ pf = "unset" /\ alerts = "unset"
  /\ crashed = Nobody /\ open = TRUE

Continue(t) ==
  \/ Choose(t) \/ Inspect(t) \/ Break(t) \/ Deny(t)
  \/ Guard(t) \/ SkipSecret(t) \/ NextSecret(t) \/ FetchFromNil(t)
  \/ FirstAlerts(t) \/ SharedAlerts(t) \/ FirstForward(t) \/ SharedForward(t)
  \/ SetupForward(t) \/ QueryForward(t) \/ ExecThanos(t) \/ QueryRemote(t)
  \/ \E answer \in Answers : Call(t, answer) \/ Fetch(t, answer)

OperatorStep(t) == Continue(t) \/ \E kind \in Kinds : Start(t, kind)

Next ==
  \/ \E t \in Operators : OperatorStep(t)
  \/ Disconnect
  \/ Ended

Spec == Init /\ [][Next]_vars

\* Every call answers, as the timeouts of the HTTP clients have it, and the
\* scheduler runs every goroutine that can run.
FairSpec ==
  /\ Spec
  /\ \A t \in Operators : WF_vars(OperatorStep(t))
  /\ WF_vars(Disconnect)

(***************************************************************************)
(* Properties.                                                             *)
(***************************************************************************)
\* The types of the fields of ClusterClient and of the locals of a call.
TypeOK ==
  /\ login \in {"off", "failed", "ok"}
  /\ broken \in BOOLEAN
  /\ denied \in Refusals \union {""}
  /\ brokenBy \in Operators \union {Nobody}
  /\ refused \in BOOLEAN
  /\ op \in [Operators -> [at : Places, kind : Kinds, elevated : BOOLEAN,
                           attempt : 0..MaxRetries, answer : Answers]]
  /\ left \in [Operators -> 0..CallsEach]
  /\ recorded \in [Operators -> Nat] /\ sent \in [Operators -> Nat]
  /\ pf \in {"unset", "busy", "up", "down", "closed"}
  /\ alerts \in Answers \union {"unset", "busy"}
  /\ crashed \in Operators \union {Nobody}
  /\ open \in BOOLEAN

\* Where elevation was available, it is given up only after an elevated call
\* was refused: an error of any other call, a retry that ran out or a failed
\* metrics source costs the remaining checks nothing (checkElevatedError).
BrokenOnlyByRefusal == login = "ok" /\ broken => refused

\* When no operator is in the middle of a call, a working login that was given
\* up has its reason, which ElevationSkipResult turns into the message of
\* every check that is skipped for it.
ReasonFollowsBreak ==
  login = "ok" /\ broken =>
    denied # "" \/ \E t \in Operators : op[t].at = "deny"

\* The audit counts each elevated operation once, retried execs once for each
\* attempt, and nothing that was not sent: an operator between two calls has
\* recorded as much as it sent (recordElevatedOp, RecordElevatedOp).
AuditMatchesCalls ==
  \A t \in Operators : op[t] = AtRest => recorded[t] = sent[t]

\* An operator never loses the elevated client by what it did itself: the nil
\* that ElevatedClientset returns after a successful test of CanElevate is the
\* work of another operator.
NilOnlyByAnother ==
  crashed # Nobody => brokenBy # Nobody /\ brokenBy # crashed

\* Each operator's calls end, whoever runs a sync.Once and whoever waits for
\* it, and the client is closed, unless the process is gone.
OperatorsEnd == <>(~open \/ crashed # Nobody)

(***************************************************************************)
(* The inductive invariant behind the four properties above.               *)
(***************************************************************************)
\* Elevated operations that are in the audit and have not been sent yet.
Pending(t) ==
  \/ op[t].at = "fetch"
  \/ /\ op[t].at = "call" /\ op[t].elevated
     /\ IsExec(t) \/ op[t].attempt = 0

\* Where an operator is, by the kind of its call.
PlaceFits(t) ==
  /\ op[t].at = "idle" => op[t] = AtRest
  /\ op[t].at \in {"alerts", "forward", "setup", "query", "exec", "remote"} =>
       op[t].kind \in {"metrics", "alerts"}
  /\ op[t].at \in {"choose", "call", "inspect", "break", "deny"} =>
       op[t].kind # "secret"
  /\ op[t].at = "choose" => IsExec(t) \/ op[t].attempt = 0

\* With a working login an operator uses the standard client only when
\* elevation is broken, and it breaks elevation only for a refusal.
RefusalIsReal(t) ==
  /\ login = "ok" /\ op[t].at \in {"call", "inspect"} /\ ~op[t].elevated =>
       broken
  /\ op[t].at = "inspect" /\ op[t].elevated /\ op[t].answer \in Refusals =>
       refused
  /\ op[t].at = "break" /\ login = "ok" => refused
  /\ op[t].at \in {"break", "deny"} => op[t].answer \in Refusals

\* An operator that reads secrets found elevation available, and has not
\* broken it since.
ReadsSecrets(t) ==
  op[t].at \in {"fetch", "again"} => login = "ok" /\ brokenBy # t

OperatorInv(t) ==
  /\ PlaceFits(t) /\ RefusalIsReal(t) /\ ReadsSecrets(t)
  /\ recorded[t] = sent[t] + (IF Pending(t) THEN 1 ELSE 0)

SharedInv ==
  /\ BrokenOnlyByRefusal /\ ReasonFollowsBreak /\ NilOnlyByAnother
  /\ login = "ok" => (broken <=> brokenBy # Nobody)

ClientInv == TypeOK /\ SharedInv /\ \A t \in Operators : OperatorInv(t)

(***************************************************************************)
(* What the comment of ElevatedClientset says, and the callers do not use. *)
(***************************************************************************)
\* "or nil if unavailable" (client.go:438): a check that found elevation
\* available never works on the nil client.
NoNilClient == crashed = Nobody
=============================================================================
