---------------------------- MODULE RetriedCalls ----------------------------
(***************************************************************************)
(* The two retry loops of pkg/kube/client.go.  Every request of a cluster  *)
(* client goes through the transport that retries 429, 5xx and transient   *)
(* network errors; the calls of ClusterClient itself are moreover wrapped  *)
(* in withRetry.  A caller makes one such call; cancelled is the context   *)
(* that Ctrl-C or a check's deadline ends, which withRetry looks at while  *)
(* it waits and the transport does not.                                    *)
(***************************************************************************)
EXTENDS Integers, FiniteSetsExt

CONSTANTS
    Callers,      \* goroutines calling the API of a cluster
    MaxRetries    \* maxRetries

ASSUME RetryAssumption == MaxRetries \in Nat

VARIABLES
    call,         \* call[c] : is it wrapped, where it is, what it has done
    cancelled     \* is the context over?

retryVars == <<call, cancelled>>

\* What comes back from one send. again: the transport's test, the status of a
\* response or the text of an error; transient and auth: what isRetryable and
\* isAuthError find in the text the caller gets, whatever put it there.
Answer == [ok : BOOLEAN, again : BOOLEAN, transient : BOOLEAN, auth : BOOLEAN]
Fine == [ok |-> TRUE, again |-> FALSE, transient |-> FALSE, auth |-> FALSE]

\* An error of the request's context matches none of the retryable texts.
Ended == [ok |-> FALSE, again |-> FALSE, transient |-> FALSE, auth |-> FALSE]

Answers == {a \in Answer : a.ok => a = Fine}

Least(a, b) == IF a < b THEN a ELSE b

\* Seconds before the retry after an attempt, the jitter left out.
Backoff == [attempt \in Nat |-> Least(2 * 2^attempt, 15)]

RetryInit ==
    /\ call \in [Callers -> {[wrapped |-> w, at |-> "call", inner |-> 0,
                              outer |-> 0, sends |-> 0, waited |-> 0,
                              late |-> 0, last |-> Ended] : w \in BOOLEAN}]
    /\ cancelled = FALSE

\* The caller goes on: its place and what else changes.
Moves(c, at, more) ==
    call' = [call EXCEPT ![c] = [more EXCEPT !.at = at]]

\* The caller starts to wait; a wait begun under a dead context is late.
Waits(c, at, attempt, more) ==
    Moves(c, at, [more EXCEPT !.waited = @ + Backoff[attempt],
                              !.late = IF cancelled THEN @ + 1 ELSE @])

\* Mutant: the context's error counts as transient.
SendRetriesEnded(c) ==
    /\ call[c].at = "call"
    /\ IF cancelled
       THEN Moves(c, "result", [call[c] EXCEPT
                !.last = [Ended EXCEPT !.transient = TRUE]])
       ELSE Moves(c, "sent", [call[c] EXCEPT !.sends = @ + 1])
    /\ UNCHANGED cancelled

\* delegate.RoundTrip sends the request unless its context is over.
Send(c) ==
    /\ call[c].at = "call"
    /\ IF cancelled
       THEN Moves(c, "result", [call[c] EXCEPT !.last = Ended])
       ELSE Moves(c, "sent", [call[c] EXCEPT !.sends = @ + 1])
    /\ UNCHANGED cancelled

\* Mutant: the transport retries an attempt too many.
TransportTriesMore(c, a) == a.again /\ call[c].inner <= MaxRetries

\* Does the transport send once more?
TransportTries(c, a) == a.again /\ call[c].inner < MaxRetries

\* The answer of the server, or the error of the connection.
Receive(c, a) ==
    /\ call[c].at = "sent"
    /\ LET heard == [call[c] EXCEPT !.last = a]
       IN  IF TransportTries(c, a)
           THEN Waits(c, "sleep", call[c].inner, heard)
           ELSE Moves(c, "result", heard)
    /\ UNCHANGED cancelled

\* time.Sleep of the transport is over; it never looks at the context.
Wake(c) ==
    /\ call[c].at = "sleep"
    /\ Moves(c, "call", [call[c] EXCEPT !.inner = @ + 1])
    /\ UNCHANGED cancelled

\* withRetry gives up at once on success, on an error of access, and on an
\* error it does not take for a transient one.
Final(a) == a.ok \/ a.auth \/ ~a.transient

\* The result of the transport reaches withRetry, or the caller itself.
Return(c) ==
    /\ call[c].at = "result"
    /\ IF ~call[c].wrapped \/ Final(call[c].last)
          \/ call[c].outer = MaxRetries
       THEN Moves(c, "done", call[c])
       ELSE Waits(c, "wait", call[c].outer, call[c])
    /\ UNCHANGED cancelled

\* The wait of withRetry ends by its timer, or by the context: then the call
\* ends with the context's error.
TimerFires(c) ==
    /\ call[c].at = "wait"
    /\ Moves(c, "call", [call[c] EXCEPT !.outer = @ + 1, !.inner = 0])
    /\ UNCHANGED cancelled

ContextEnds(c) ==
    /\ call[c].at = "wait"
    /\ cancelled
    /\ Moves(c, "done", [call[c] EXCEPT !.last = Ended])
    /\ UNCHANGED cancelled

\* Ctrl-C, or the deadline of the check.
Cancel ==
    /\ ~cancelled
    /\ cancelled' = TRUE
    /\ UNCHANGED call

Step(c) ==
    \/ Send(c)
    \/ \E a \in Answers : Receive(c, a)
    \/ Wake(c)
    \/ Return(c)
    \/ TimerFires(c)
    \/ ContextEnds(c)

RetryNext == Cancel \/ \E c \in Callers : Step(c)

RetrySpec == RetryInit /\ [][RetryNext]_retryVars

\* A send is answered, or its connection fails: the goroutine runs on.
RetryFairness == \A c \in Callers : WF_retryVars(Step(c))

Idle(c) == call[c].at = "done"

-----------------------------------------------------------------------------

Layers(c) == IF call[c].wrapped THEN MaxRetries + 1 ELSE 1

\* The first n back-offs of a run together, and all of them.
Backoffs(n) == MapThenSumSet(LAMBDA a : Backoff[a], 0..(n - 1))
RunOfBackoffs == Backoffs(MaxRetries)

\* The two loops never multiply past (maxRetries + 1)^2 sends, and the time a
\* call spends waiting is the sum of the five runs of back-offs at most.
SendsAreBounded ==
    \A c \in Callers :
        /\ call[c].sends <= Layers(c) * (MaxRetries + 1)
        /\ call[c].waited <= Layers(c) * RunOfBackoffs
                             + (IF call[c].wrapped THEN RunOfBackoffs ELSE 0)

\* Ctrl-C comes between any two steps of a call, and what it costs is at most
\* one more back-off: the sleep a late 429 or 5xx starts in the transport,
\* which does not look at the context.
AtMostOneLateWait == \A c \in Callers : call[c].late <= 1

\* The types of a call: the counters of the two loops, what it sent and how
\* long it waited, and the last answer.
Call == [wrapped : BOOLEAN,
         at : {"call", "sent", "sleep", "result", "wait", "done"},
         inner : 0..MaxRetries, outer : 0..MaxRetries,
         sends : Nat, waited : Nat, late : Nat, last : Answer]
RetryTypeOK == call \in [Callers -> Call] /\ cancelled \in BOOLEAN

\* A call sleeps or waits only when a retry is left, and a call that is not
\* wrapped has no second loop.
RetryLeft(k) ==
    /\ k.at = "sleep" => k.inner < MaxRetries
    /\ k.at = "wait" => k.outer < MaxRetries /\ k.wrapped
    /\ ~k.wrapped => k.outer = 0

\* The sends of the rounds of withRetry that are over, and those of this one.
SentSoFar(k) ==
    k.sends <= k.outer * (MaxRetries + 1) + k.inner
               + (IF k.at = "call" THEN 0 ELSE 1)

\* The same for the waits.  The one that goes on is counted already, and so
\* is one that the context may have ended.
InnerWaits(k) == k.inner + (IF k.at = "sleep" THEN 1 ELSE 0)
OuterWaits(k) ==
    k.outer + (IF \/ k.at = "wait"
                  \/ k.at = "done" /\ k.wrapped /\ k.outer < MaxRetries
               THEN 1 ELSE 0)
WaitedSoFar(k) ==
    k.waited <= k.outer * RunOfBackoffs + Backoffs(InnerWaits(k))
                + Backoffs(OuterWaits(k))

\* A late wait is the last one: no request is sent under a dead context, and
\* the error of the context is not retried.
LateEnds(k) ==
    k.late = 0 \/ /\ k.late = 1 /\ cancelled
                  /\ \/ k.at \in {"call", "sleep", "wait", "done"}
                     \/ k.at = "result" /\ k.last = Ended

\* The inductive invariant behind SendsAreBounded and AtMostOneLateWait.
CallInv(k) ==
    RetryLeft(k) /\ SentSoFar(k) /\ WaitedSoFar(k) /\ LateEnds(k)
RetryInv == RetryTypeOK /\ \A c \in Callers : CallInv(call[c])

\* Every call ends, with an answer or an error.
CallsEnd == \A c \in Callers : <>Idle(c)
=============================================================================
