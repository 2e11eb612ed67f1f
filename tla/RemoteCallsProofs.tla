------------------------- MODULE RemoteCallsProofs --------------------------
(***************************************************************************)
(* Theorems about the remote calls: the two retry loops, for every number  *)
(* of retries, every set of callers and whatever each send is answered,    *)
(* and the shared token of the RHOBS client, for every number of           *)
(* goroutines and queries, every life SSO gives a token, every margin and  *)
(* every assumed life.                                                     *)
(***************************************************************************)
EXTENDS RetriedCalls, RhobsToken, SumTheorems

(***************************************************************************)
(* The back-offs.                                                          *)
(***************************************************************************)
\* The back-off of an attempt is a number of seconds (client.go: the shift of
\* initialBackoff, capped by maxBackoff).
LEMMA BackoffType == \A n \in Nat : Backoff[n] \in Nat
<1> SUFFICES ASSUME NEW n \in Nat
             PROVE  Backoff[n] \in Nat
  OBVIOUS
<1>1. IsFiniteSet(1..n) /\ Cardinality(1..n) = n
  BY FS_Interval
<1>2. IsFiniteSet(SUBSET (1..n)) /\ Cardinality(SUBSET (1..n)) = 2^n
  BY <1>1, FS_SUBSET
<1>3. 2^n \in Nat
  BY <1>2, FS_CardinalityType
<1> DEFINE p == 2^n
<1>4. Backoff[n] = Least(2 * p, 15)
  BY DEF Backoff
<1>5. p \in Nat
  BY <1>3
<1> HIDE DEF p
<1> QED
  BY <1>4, <1>5 DEF Least

\* The first n back-offs together: one more for each attempt (client.go: the
\* loops of retryTransport.RoundTrip and of withRetry).
LEMMA BackoffsStep ==
  /\ Backoffs(0) = 0
  /\ \A n \in Nat :
       /\ Backoffs(n) \in Nat
       /\ Backoffs(n + 1) = Backoffs(n) + Backoff[n]
<1>1. \A n \in Nat : Backoffs(n) = SumOf(Backoff, 0..(n - 1))
  BY DEF Backoffs, SumOf
<1>2. ASSUME NEW n \in Nat
      PROVE  /\ IsFiniteSet(0..(n - 1))
             /\ \A x \in 0..(n - 1) : Backoff[x] \in Nat
  BY FS_Interval, BackoffType
<1>3. Backoffs(0) = 0
  <2>1. 0..(0 - 1) = {}
    OBVIOUS
  <2> QED
    BY <1>1, <2>1, SumEmpty
<1>4. ASSUME NEW n \in Nat
      PROVE  Backoffs(n) \in Nat
  BY <1>1, <1>2, SumTake
<1>5. ASSUME NEW n \in Nat
      PROVE  Backoffs(n + 1) = Backoffs(n) + Backoff[n]
  <2> DEFINE T == 0..((n + 1) - 1)
  <2>1. n \in T /\ T \ {n} = 0..(n - 1)
    OBVIOUS
  <2>2. IsFiniteSet(T) /\ \A x \in T : Backoff[x] \in Nat
    BY <1>2, n + 1 \in Nat
  <2>3. Backoffs(n + 1) = SumOf(Backoff, T)
    BY <1>1, n + 1 \in Nat
  <2> HIDE DEF T
  <2>4. SumOf(Backoff, T) = Backoff[n] + SumOf(Backoff, T \ {n})
    BY <2>1, <2>2, SumTake
  <2>5. Backoff[n] \in Nat /\ Backoffs(n) \in Nat
    BY <1>4, BackoffType
  <2>6. SumOf(Backoff, T \ {n}) = Backoffs(n)
    BY <1>1, <2>1
  <2> QED
    BY <2>3, <2>4, <2>5, <2>6
<1> QED
  BY <1>3, <1>4, <1>5

\* Fewer back-offs take no longer than more of them.
LEMMA BackoffsGrow ==
  ASSUME NEW m \in Nat, NEW n \in Nat, m <= n
  PROVE  Backoffs(m) <= Backoffs(n)
<1> DEFINE Good == {d \in Nat : Backoffs(m) <= Backoffs(m + d)}
<1>1. 0 \in Good
  BY BackoffsStep
<1>2. ASSUME NEW d \in Nat, d \in Good
      PROVE  d + 1 \in Good
  <2>1. m + d \in Nat /\ m + (d + 1) = (m + d) + 1
    OBVIOUS
  <2>2. Backoffs(m + (d + 1)) = Backoffs(m + d) + Backoff[m + d]
    BY <2>1, BackoffsStep
  <2>3. /\ Backoff[m + d] \in Nat /\ Backoffs(m + d) \in Nat
        /\ Backoffs(m) \in Nat
    BY <2>1, BackoffType, BackoffsStep
  <2>4. Backoffs(m) <= Backoffs(m + d)
    BY <1>2
  <2> QED
    BY <2>2, <2>3, <2>4
<1>3. n - m \in Good
  <2>1. n - m \in Nat
    OBVIOUS
  <2> HIDE DEF Good
  <2> QED
    BY <1>1, <1>2, <2>1, SetInduction
<1>4. m + (n - m) = n
  OBVIOUS
<1> QED
  BY <1>3, <1>4

(***************************************************************************)
(* The inductive invariant.                                                *)
(***************************************************************************)
\* A caller that goes on leaves the calls of the others as they are.
LEMMA OneCallMoves ==
  ASSUME RetryInv, NEW c \in Callers, NEW k \in Call, CallInv(k),
         call' = [call EXCEPT ![c] = k], cancelled' = cancelled
  PROVE  RetryInv'
<1>1. RetryTypeOK'
  BY DEF RetryInv, RetryTypeOK
<1>2. ASSUME NEW d \in Callers
      PROVE  CallInv(call[d])'
  <2>1. CallInv(call'[d])
    BY DEF RetryInv, RetryTypeOK
  <2> QED
    BY <2>1
    DEF CallInv, RetryLeft, SentSoFar, WaitedSoFar, InnerWaits, OuterWaits,
        LateEnds
<1> QED
  BY <1>1, <1>2 DEF RetryInv

\* No call has been made, and each may be wrapped or not.
LEMMA InitRetryInv == RetryInit => RetryInv
<1> SUFFICES ASSUME RetryInit
             PROVE  RetryInv
  OBVIOUS
<1>1. Ended \in Answer
  BY DEF Ended, Answer
<1>2. ASSUME NEW c \in Callers
      PROVE  /\ call[c] \in Call
             /\ CallInv(call[c])
  <2>1. PICK w \in BOOLEAN :
          call[c] = [wrapped |-> w, at |-> "call", inner |-> 0, outer |-> 0,
                     sends |-> 0, waited |-> 0, late |-> 0, last |-> Ended]
    BY DEF RetryInit
  <2>2. call[c] \in Call
    BY <1>1, <2>1, RetryAssumption DEF Call
  <2>3. RetryLeft(call[c]) /\ SentSoFar(call[c]) /\ LateEnds(call[c])
    BY <2>1, RetryAssumption DEF RetryLeft, SentSoFar, LateEnds
  <2>4. WaitedSoFar(call[c])
    <3>1. InnerWaits(call[c]) = 0 /\ OuterWaits(call[c]) = 0
      BY <2>1 DEF InnerWaits, OuterWaits
    <3>2. RunOfBackoffs \in Nat /\ Backoffs(0) = 0
      BY BackoffsStep, RetryAssumption DEF RunOfBackoffs
    <3> QED
      BY <2>1, <3>1, <3>2 DEF WaitedSoFar
  <2> QED
    BY <2>2, <2>3, <2>4 DEF CallInv
<1>3. call \in [Callers -> Call]
  BY <1>2 DEF RetryInit
<1> QED
  BY <1>2, <1>3 DEF RetryInv, RetryTypeOK, RetryInit

\* One round more of a loop costs one time more what a round costs.
LEMMA OneRoundMore ==
  ASSUME NEW n \in Nat, NEW cost \in Nat
  PROVE  n * cost \in Nat /\ (n + 1) * cost = n * cost + cost
OBVIOUS

\* No more rounds cost no more.
LEMMA RoundsGrow ==
  ASSUME NEW m \in Nat, NEW n \in Nat, m <= n, NEW cost \in Nat
  PROVE  m * cost <= n * cost
OBVIOUS

\* What the invariant says of the call of one caller.
LEMMA OneCall ==
  ASSUME RetryInv, NEW c \in Callers
  PROVE  /\ call[c] \in Call /\ CallInv(call[c])
         /\ cancelled \in BOOLEAN
BY DEF RetryInv, RetryTypeOK

\* delegate.RoundTrip: one send more, or the error of a dead context.
LEMMA SendKeeps ==
  ASSUME RetryInv, NEW c \in Callers, Send(c)
  PROVE  RetryInv'
<1> DEFINE k == call[c]
<1>1. /\ k \in Call /\ CallInv(k) /\ k.at = "call"
      /\ cancelled' = cancelled
  BY OneCall DEF Send
<1>2. CASE cancelled
  <2> DEFINE n == [[k EXCEPT !.last = Ended] EXCEPT !.at = "result"]
  <2>1. n \in Call
    BY <1>1 DEF Call, Answer, Ended
  <2>2. CallInv(n)
    <3>1. RetryLeft(n) /\ SentSoFar(n) /\ LateEnds(n)
      BY <1>1, <1>2, RetryAssumption
      DEF Call, CallInv, RetryLeft, SentSoFar, LateEnds
    <3>2. WaitedSoFar(n)
      BY <1>1 DEF Call, CallInv, WaitedSoFar, InnerWaits, OuterWaits
    <3> QED
      BY <3>1, <3>2 DEF CallInv
  <2>3. call' = [call EXCEPT ![c] = n]
    BY <1>2 DEF Send, Moves
  <2> QED
    BY <1>1, <2>1, <2>2, <2>3, OneCallMoves
<1>3. CASE ~cancelled
  <2> DEFINE m == k.sends + 1
             n == [[k EXCEPT !.sends = m] EXCEPT !.at = "sent"]
  <2>1. n \in Call
    <3>1. m \in Nat
      BY <1>1 DEF Call
    <3> HIDE DEF m
    <3> QED
      BY <1>1, <3>1 DEF Call
  <2>2. CallInv(n)
    <3>1. RetryLeft(n) /\ LateEnds(n)
      BY <1>1, <1>3 DEF Call, CallInv, RetryLeft, LateEnds
    <3>2. SentSoFar(n)
      BY <1>1, RetryAssumption, OneRoundMore DEF Call, CallInv, SentSoFar
    <3>3. WaitedSoFar(n)
      BY <1>1 DEF Call, CallInv, WaitedSoFar, InnerWaits, OuterWaits
    <3> QED
      BY <3>1, <3>2, <3>3 DEF CallInv
  <2>3. call' = [call EXCEPT ![c] = n]
    BY <1>3 DEF Send, Moves
  <2> QED
    BY <1>1, <2>1, <2>2, <2>3, OneCallMoves
<1> QED
  BY <1>1, <1>2, <1>3

\* A call that starts to wait keeps its type (client.go: time.Sleep and the
\* select of withRetry).
LEMMA WaitType ==
  ASSUME NEW k \in Call, NEW n \in Nat,
         NEW at \in {"sleep", "wait"}
  PROVE  [[k EXCEPT !.waited = @ + Backoff[n],
                    !.late = IF cancelled THEN @ + 1 ELSE @]
            EXCEPT !.at = at] \in Call
<1> DEFINE w == k.waited + Backoff[n]
           l == IF cancelled THEN k.late + 1 ELSE k.late
<1>1. w \in Nat /\ l \in Nat
  BY BackoffType DEF Call
<1> HIDE DEF w, l
<1>2. [[k EXCEPT !.waited = w, !.late = l] EXCEPT !.at = at] \in Call
  BY <1>1 DEF Call
<1> QED
  BY <1>2 DEF w, l

\* retryTransport.RoundTrip: the answer is handed on, or a retry is waited for.
LEMMA ReceiveKeeps ==
  ASSUME RetryInv, NEW c \in Callers, NEW a \in Answers, Receive(c, a)
  PROVE  RetryInv'
<1> DEFINE k == call[c]
           h == [k EXCEPT !.last = a]
<1>1. /\ k \in Call /\ CallInv(k) /\ k.at = "sent"
      /\ cancelled' = cancelled
  BY OneCall DEF Receive
<1>2. a \in Answer /\ h \in Call
  BY <1>1 DEF Answers, Call
<1>3. k.late = 0
  BY <1>1 DEF CallInv, LateEnds
<1>4. CASE TransportTries(c, a)
  <2> DEFINE n == [[h EXCEPT !.waited = @ + Backoff[k.inner],
                             !.late = IF cancelled THEN @ + 1 ELSE @]
                     EXCEPT !.at = "sleep"]
  <2>1. k.inner \in Nat /\ k.inner < MaxRetries
    BY <1>1, <1>4, RetryAssumption DEF TransportTries, Call
  <2>2. n \in Call
    BY <1>2, <2>1, WaitType
  <2>3. CallInv(n)
    <3>1. RetryLeft(n)
      BY <1>1, <2>1 DEF Call, CallInv, RetryLeft
    <3>2. SentSoFar(n)
      BY <1>1 DEF Call, CallInv, SentSoFar
    <3>3. LateEnds(n)
      BY <1>1, <1>3, OneCall DEF Call, LateEnds
    <3>4. WaitedSoFar(n)
      <4>1. /\ n.waited = k.waited + Backoff[k.inner]
            /\ n.outer = k.outer /\ n.inner = k.inner /\ n.at = "sleep"
        BY <1>1 DEF Call
      <4>2. /\ InnerWaits(n) = k.inner + 1 /\ InnerWaits(k) = k.inner
            /\ OuterWaits(n) = k.outer /\ OuterWaits(k) = k.outer
        BY <1>1, <4>1 DEF InnerWaits, OuterWaits, Call
      <4>3. /\ k.waited \in Nat /\ k.outer \in Nat
            /\ RunOfBackoffs \in Nat /\ Backoff[k.inner] \in Nat
            /\ Backoffs(k.inner) \in Nat /\ Backoffs(k.outer) \in Nat
            /\ Backoffs(k.inner + 1) = Backoffs(k.inner) + Backoff[k.inner]
        BY <1>1, <2>1, BackoffsStep, BackoffType, RetryAssumption
        DEF RunOfBackoffs, Call
      <4>4. k.outer * RunOfBackoffs \in Nat
        BY <4>3, OneRoundMore
      <4>5. k.waited <= k.outer * RunOfBackoffs + Backoffs(k.inner)
                        + Backoffs(k.outer)
        BY <1>1, <4>2 DEF CallInv, WaitedSoFar
      <4>6. n.waited <= k.outer * RunOfBackoffs + Backoffs(k.inner + 1)
                        + Backoffs(k.outer)
        BY <4>1, <4>3, <4>4, <4>5
      <4> HIDE DEF n
      <4> QED
        BY <4>1, <4>2, <4>6 DEF WaitedSoFar
    <3> QED
      BY <3>1, <3>2, <3>3, <3>4 DEF CallInv
  <2>4. call' = [call EXCEPT ![c] = n]
    BY <1>4 DEF Receive, Waits, Moves
  <2> HIDE DEF n
  <2> QED
    BY <1>1, <2>2, <2>3, <2>4, OneCallMoves
<1>5. CASE ~TransportTries(c, a)
  <2> DEFINE n == [h EXCEPT !.at = "result"]
  <2>1. n \in Call
    BY <1>2 DEF Call
  <2>2. CallInv(n)
    <3>1. RetryLeft(n) /\ SentSoFar(n) /\ LateEnds(n)
      BY <1>1, <1>3, RetryAssumption
      DEF Call, CallInv, RetryLeft, SentSoFar, LateEnds
    <3>2. WaitedSoFar(n)
      BY <1>1 DEF Call, CallInv, WaitedSoFar, InnerWaits, OuterWaits
    <3> QED
      BY <3>1, <3>2 DEF CallInv
  <2>3. call' = [call EXCEPT ![c] = n]
    BY <1>5 DEF Receive, Moves
  <2> QED
    BY <1>1, <2>1, <2>2, <2>3, OneCallMoves
<1> QED
  BY <1>4, <1>5

\* The transport's sleep is over, and the next attempt is its own.
LEMMA WakeKeeps ==
  ASSUME RetryInv, NEW c \in Callers, Wake(c)
  PROVE  RetryInv'
<1> DEFINE k == call[c]
           i == k.inner + 1
           n == [[k EXCEPT !.inner = i] EXCEPT !.at = "call"]
<1>1. /\ k \in Call /\ CallInv(k) /\ k.at = "sleep"
      /\ cancelled' = cancelled
  BY OneCall DEF Wake
<1>2. i \in 0..MaxRetries
  BY <1>1, RetryAssumption DEF Call, CallInv, RetryLeft
<1>3. n \in Call
  <2> HIDE DEF i
  <2> QED
    BY <1>1, <1>2 DEF Call
<1>4. CallInv(n)
  <2>1. RetryLeft(n) /\ LateEnds(n)
    BY <1>1 DEF Call, CallInv, RetryLeft, LateEnds
  <2>2. SentSoFar(n)
    BY <1>1, RetryAssumption, OneRoundMore DEF Call, CallInv, SentSoFar
  <2>3. WaitedSoFar(n)
    BY <1>1 DEF Call, CallInv, WaitedSoFar, InnerWaits, OuterWaits
  <2> QED
    BY <2>1, <2>2, <2>3 DEF CallInv
<1>5. call' = [call EXCEPT ![c] = n]
  BY DEF Wake, Moves
<1> HIDE DEF n
<1> QED
  BY <1>1, <1>3, <1>4, <1>5, OneCallMoves

\* withRetry: the call ends, or waits for another round.
LEMMA ReturnKeeps ==
  ASSUME RetryInv, NEW c \in Callers, Return(c)
  PROVE  RetryInv'
<1> DEFINE k == call[c]
           Over == ~k.wrapped \/ Final(k.last) \/ k.outer = MaxRetries
<1>1. /\ k \in Call /\ CallInv(k) /\ k.at = "result"
      /\ cancelled' = cancelled
  BY OneCall DEF Return
<1>2. /\ k.waited \in Nat /\ k.outer \in 0..MaxRetries /\ k.outer \in Nat
      /\ k.inner \in Nat /\ RunOfBackoffs \in Nat
      /\ Backoff[k.outer] \in Nat
      /\ Backoffs(k.inner) \in Nat /\ Backoffs(k.outer) \in Nat
      /\ Backoffs(k.outer + 1) = Backoffs(k.outer) + Backoff[k.outer]
  BY <1>1, BackoffsStep, BackoffType, RetryAssumption
  DEF RunOfBackoffs, Call
<1>3. k.outer * RunOfBackoffs \in Nat
  BY <1>2, OneRoundMore
<1>4. k.waited <= k.outer * RunOfBackoffs + Backoffs(k.inner)
                  + Backoffs(k.outer)
  <2>1. InnerWaits(k) = k.inner /\ OuterWaits(k) = k.outer
    BY <1>1, <1>2 DEF InnerWaits, OuterWaits
  <2> QED
    BY <1>1, <2>1 DEF CallInv, WaitedSoFar
<1>5. CASE Over
  <2> DEFINE n == [k EXCEPT !.at = "done"]
  <2>1. n \in Call
    BY <1>1 DEF Call
  <2>2. CallInv(n)
    <3>1. RetryLeft(n) /\ SentSoFar(n) /\ LateEnds(n)
      BY <1>1, RetryAssumption
      DEF Call, CallInv, RetryLeft, SentSoFar, LateEnds
    <3>2. WaitedSoFar(n)
      <4>1. /\ n.waited = k.waited /\ n.outer = k.outer
            /\ n.inner = k.inner /\ n.at = "done"
        BY <1>1 DEF Call
      <4> HIDE DEF n
      <4>2. /\ InnerWaits(n) = k.inner
            /\ OuterWaits(n) \in {k.outer, k.outer + 1}
        BY <1>2, <4>1 DEF InnerWaits, OuterWaits
      <4>3. Backoffs(k.outer) <= Backoffs(OuterWaits(n))
            /\ Backoffs(OuterWaits(n)) \in Nat
        BY <1>2, <4>2
      <4> QED
        BY <1>2, <1>3, <1>4, <4>1, <4>2, <4>3 DEF WaitedSoFar
    <3> QED
      BY <3>1, <3>2 DEF CallInv
  <2>3. call' = [call EXCEPT ![c] = n]
    BY <1>5 DEF Return, Moves
  <2> HIDE DEF n
  <2> QED
    BY <1>1, <2>1, <2>2, <2>3, OneCallMoves
<1>6. CASE ~Over
  <2> DEFINE n == [[k EXCEPT !.waited = @ + Backoff[k.outer],
                             !.late = IF cancelled THEN @ + 1 ELSE @]
                     EXCEPT !.at = "wait"]
  <2>1. n \in Call
    BY <1>1, <1>2, WaitType
  <2>2. k.wrapped /\ k.outer < MaxRetries /\ k.last # Ended
    BY <1>2, <1>6, RetryAssumption DEF Final, Ended
  <2>3. CallInv(n)
    <3>1. RetryLeft(n) /\ SentSoFar(n)
      BY <1>1, <2>2 DEF Call, CallInv, RetryLeft, SentSoFar
    <3>2. LateEnds(n)
      BY <1>1, <2>2, OneCall DEF Call, CallInv, LateEnds
    <3>3. WaitedSoFar(n)
      <4>1. /\ n.waited = k.waited + Backoff[k.outer]
            /\ n.outer = k.outer /\ n.inner = k.inner /\ n.at = "wait"
        BY <1>1 DEF Call
      <4> HIDE DEF n
      <4>2. InnerWaits(n) = k.inner /\ OuterWaits(n) = k.outer + 1
        BY <1>2, <4>1 DEF InnerWaits, OuterWaits
      <4> QED
        BY <1>2, <1>3, <1>4, <4>1, <4>2 DEF WaitedSoFar
    <3> QED
      BY <3>1, <3>2, <3>3 DEF CallInv
  <2>4. call' = [call EXCEPT ![c] = n]
    BY <1>6 DEF Return, Waits, Moves
  <2> HIDE DEF n
  <2> QED
    BY <1>1, <2>1, <2>3, <2>4, OneCallMoves
<1> QED
  BY <1>5, <1>6

\* The timer of withRetry: another round of the transport.
LEMMA TimerKeeps ==
  ASSUME RetryInv, NEW c \in Callers, TimerFires(c)
  PROVE  RetryInv'
<1> DEFINE k == call[c]
           o == k.outer + 1
           n == [[k EXCEPT !.outer = o, !.inner = 0] EXCEPT !.at = "call"]
<1>1. /\ k \in Call /\ CallInv(k) /\ k.at = "wait"
      /\ cancelled' = cancelled
  BY OneCall DEF TimerFires
<1>2. o \in 0..MaxRetries /\ k.wrapped /\ k.outer \in Nat
  BY <1>1, RetryAssumption DEF Call, CallInv, RetryLeft
<1>3. n \in Call
  <2>1. [k EXCEPT !.outer = o, !.inner = 0] \in Call
    <3>1. 0 \in 0..MaxRetries
      BY RetryAssumption
    <3> HIDE DEF o
    <3> QED
      BY <1>1, <1>2, <3>1 DEF Call
  <2> HIDE DEF o
  <2> QED
    BY <2>1 DEF Call
<1>4. /\ n.wrapped = k.wrapped /\ n.at = "call" /\ n.inner = 0
      /\ n.outer = o /\ n.sends = k.sends /\ n.waited = k.waited
      /\ n.late = k.late /\ n.last = k.last
  BY <1>1 DEF Call
<1>5. call' = [call EXCEPT ![c] = n]
  BY DEF TimerFires, Moves
<1> HIDE DEF n
<1>6. RetryLeft(n) /\ LateEnds(n)
  BY <1>1, <1>2, <1>4 DEF Call, CallInv, RetryLeft, LateEnds
<1>7. SentSoFar(n)
  <2>1. /\ k.sends \in Nat /\ k.inner \in Nat /\ k.inner <= MaxRetries
        /\ MaxRetries + 1 \in Nat
    BY <1>1, RetryAssumption DEF Call
  <2>2. k.sends <= k.outer * (MaxRetries + 1) + k.inner + 1
    BY <1>1 DEF CallInv, SentSoFar
  <2>3. /\ k.outer * (MaxRetries + 1) \in Nat
        /\ o * (MaxRetries + 1) =
              k.outer * (MaxRetries + 1) + (MaxRetries + 1)
    BY <1>2, <2>1, OneRoundMore
  <2>4. k.sends <= o * (MaxRetries + 1)
    BY <2>1, <2>2, <2>3, RetryAssumption
  <2>5. o * (MaxRetries + 1) \in Nat
    BY <2>1, <2>3
  <2> HIDE DEF o
  <2> QED
    BY <1>4, <2>4, <2>5 DEF SentSoFar
<1>8. WaitedSoFar(n)
  <2>1. InnerWaits(k) = k.inner /\ OuterWaits(k) = o
    BY <1>1, <1>2 DEF InnerWaits, OuterWaits, Call
  <2>2. InnerWaits(n) = 0 /\ OuterWaits(n) = o
    BY <1>2, <1>4 DEF InnerWaits, OuterWaits
  <2>3. /\ k.inner \in Nat /\ k.inner <= MaxRetries /\ MaxRetries \in Nat
        /\ o \in Nat /\ k.waited \in Nat
    BY <1>1, <1>2, RetryAssumption DEF Call
  <2>4. /\ RunOfBackoffs \in Nat /\ Backoffs(o) \in Nat
        /\ Backoffs(k.inner) \in Nat /\ Backoffs(0) = 0
    BY <2>3, BackoffsStep DEF RunOfBackoffs
  <2>5. Backoffs(k.inner) <= RunOfBackoffs
    BY <2>3, BackoffsGrow DEF RunOfBackoffs
  <2>6. k.waited <= k.outer * RunOfBackoffs + Backoffs(k.inner) + Backoffs(o)
    BY <1>1, <2>1 DEF CallInv, WaitedSoFar
  <2>7. /\ k.outer * RunOfBackoffs \in Nat
        /\ o * RunOfBackoffs = k.outer * RunOfBackoffs + RunOfBackoffs
    BY <1>2, <2>4, OneRoundMore
  <2> HIDE DEF o
  <2>8. k.waited <= o * RunOfBackoffs + Backoffs(0) + Backoffs(o)
    BY <2>3, <2>4, <2>5, <2>6, <2>7
  <2> QED
    BY <1>4, <2>2, <2>8 DEF WaitedSoFar
<1> QED
  BY <1>1, <1>3, <1>5, <1>6, <1>7, <1>8, OneCallMoves DEF CallInv

\* The context ends the wait of withRetry, and the call with it.
LEMMA ContextKeeps ==
  ASSUME RetryInv, NEW c \in Callers, ContextEnds(c)
  PROVE  RetryInv'
<1> DEFINE k == call[c]
           n == [[k EXCEPT !.last = Ended] EXCEPT !.at = "done"]
<1>1. /\ k \in Call /\ CallInv(k) /\ k.at = "wait"
      /\ cancelled' = cancelled
  BY OneCall DEF ContextEnds
<1>2. n \in Call
  BY <1>1 DEF Call, Answer, Ended
<1>3. CallInv(n)
  <2>1. RetryLeft(n) /\ SentSoFar(n) /\ LateEnds(n)
    BY <1>1, RetryAssumption
    DEF Call, CallInv, RetryLeft, SentSoFar, LateEnds
  <2>2. WaitedSoFar(n)
    BY <1>1
    DEF Call, CallInv, RetryLeft, WaitedSoFar, InnerWaits, OuterWaits
  <2> QED
    BY <2>1, <2>2 DEF CallInv
<1>4. call' = [call EXCEPT ![c] = n]
  BY DEF ContextEnds, Moves
<1> HIDE DEF n
<1> QED
  BY <1>1, <1>2, <1>3, <1>4, OneCallMoves

\* No step of a call, and no Ctrl-C, breaks the invariant.
LEMMA StepKeepsRetryInv == RetryInv /\ [RetryNext]_retryVars => RetryInv'
<1> SUFFICES ASSUME RetryInv, [RetryNext]_retryVars
             PROVE  RetryInv'
  OBVIOUS
<1>1. ASSUME cancelled' \in {cancelled, TRUE}, call' = call
      PROVE  RetryInv'
  BY <1>1
  DEF RetryInv, RetryTypeOK, CallInv, RetryLeft, SentSoFar, WaitedSoFar,
      InnerWaits, OuterWaits, LateEnds
<1>2. CASE Cancel
  BY <1>1, <1>2 DEF Cancel
<1>3. CASE UNCHANGED retryVars
  BY <1>1, <1>3 DEF retryVars
<1>4. ASSUME NEW c \in Callers, Step(c)
      PROVE  RetryInv'
  BY <1>4, SendKeeps, ReceiveKeeps, WakeKeeps, ReturnKeeps, TimerKeeps,
     ContextKeeps
  DEF Step
<1> QED
  BY <1>2, <1>3, <1>4 DEF RetryNext

\* The inductive invariant holds in every behaviour of the callers.
LEMMA RetryInvariant == RetrySpec => []RetryInv
BY InitRetryInv, StepKeepsRetryInv, PTL DEF RetrySpec

-----------------------------------------------------------------------------

\* The calls keep their types; no loop retries more often than maxRetries
\* (client.go: retryTransport.RoundTrip and withRetry).
THEOREM RetryTypes == RetrySpec => []RetryTypeOK
<1>1. RetryInv => RetryTypeOK
  BY DEF RetryInv
<1> QED
  BY <1>1, RetryInvariant, PTL

\* However the answers of the server and Ctrl-C interleave, a call starts one
\* wait at most after its context is over (client.go: withRetry watches the
\* context, the transport's sleep does not).
THEOREM OneLateWait == RetrySpec => []AtMostOneLateWait
<1>1. RetryInv => AtMostOneLateWait
  BY DEF RetryInv, CallInv, LateEnds, AtMostOneLateWait
<1> QED
  BY <1>1, RetryInvariant, PTL

\* The two retry loops, one inside the other, send (maxRetries + 1)^2 requests
\* at most for one call, and wait no longer than maxRetries + 2 runs of
\* back-offs, for every number of retries.
THEOREM BoundedRetries == RetrySpec => []SendsAreBounded
<1>1. RetryInv => SendsAreBounded
  <2> SUFFICES ASSUME RetryInv, NEW c \in Callers
               PROVE  /\ call[c].sends <= Layers(c) * (MaxRetries + 1)
                      /\ call[c].waited <=
                           Layers(c) * RunOfBackoffs
                           + (IF call[c].wrapped THEN RunOfBackoffs ELSE 0)
    BY DEF SendsAreBounded
  <2> DEFINE k == call[c]
  <2>1. k \in Call /\ CallInv(k)
    BY OneCall
  <2>2. /\ k.outer \in Nat /\ k.outer <= MaxRetries /\ k.inner \in Nat
        /\ k.inner <= MaxRetries /\ MaxRetries \in Nat
        /\ MaxRetries + 1 \in Nat /\ k.sends \in Nat /\ k.waited \in Nat
        /\ k.wrapped \in BOOLEAN
    BY <2>1, RetryAssumption DEF Call
  <2>3. RunOfBackoffs \in Nat
    BY <2>2, BackoffsStep DEF RunOfBackoffs
  <2> DEFINE i == InnerWaits(k)
             o == OuterWaits(k)
  <2>4. i \in Nat /\ i <= MaxRetries /\ o \in Nat /\ o <= MaxRetries
    BY <2>1, <2>2 DEF CallInv, RetryLeft, InnerWaits, OuterWaits
  <2>5. /\ Backoffs(i) \in Nat /\ Backoffs(o) \in Nat
        /\ Backoffs(i) <= RunOfBackoffs /\ Backoffs(o) <= RunOfBackoffs
    BY <2>2, <2>4, BackoffsStep, BackoffsGrow DEF RunOfBackoffs
  <2>6. /\ k.sends <= k.outer * (MaxRetries + 1) + k.inner + 1
        /\ k.waited <= k.outer * RunOfBackoffs + Backoffs(i) + Backoffs(o)
    <3>1. k.outer * (MaxRetries + 1) \in Nat
      BY <2>2, OneRoundMore
    <3> QED
      BY <2>1, <2>2, <3>1 DEF CallInv, SentSoFar, WaitedSoFar
  <2> HIDE DEF i, o
  <2>7. CASE k.wrapped
    <3>1. Layers(c) = MaxRetries + 1
      BY <2>7 DEF Layers
    <3>2. /\ k.outer * (MaxRetries + 1) <= MaxRetries * (MaxRetries + 1)
          /\ k.outer * RunOfBackoffs <= MaxRetries * RunOfBackoffs
      BY <2>2, <2>3, RoundsGrow
    <3>3. /\ (MaxRetries + 1) * (MaxRetries + 1) =
               MaxRetries * (MaxRetries + 1) + (MaxRetries + 1)
          /\ (MaxRetries + 1) * RunOfBackoffs =
               MaxRetries * RunOfBackoffs + RunOfBackoffs
          /\ MaxRetries * (MaxRetries + 1) \in Nat
          /\ MaxRetries * RunOfBackoffs \in Nat
          /\ k.outer * (MaxRetries + 1) \in Nat
          /\ k.outer * RunOfBackoffs \in Nat
      BY <2>2, <2>3, OneRoundMore
    <3>4. k.sends <= (MaxRetries + 1) * (MaxRetries + 1)
      BY <2>2, <2>6, <3>2, <3>3
    <3>5. k.waited <= (MaxRetries + 1) * RunOfBackoffs + RunOfBackoffs
      BY <2>2, <2>3, <2>5, <2>6, <3>2, <3>3
    <3> QED
      BY <2>7, <3>1, <3>4, <3>5
  <2>8. CASE ~k.wrapped
    <3>1. Layers(c) = 1 /\ k.outer = 0
      BY <2>1, <2>8 DEF Layers, CallInv, RetryLeft
    <3>2. o = 0
      BY <2>1, <2>8, <3>1 DEF o, OuterWaits, CallInv, RetryLeft
    <3>3. Backoffs(0) = 0
      BY BackoffsStep
    <3>4. k.sends <= k.inner + 1 /\ k.waited <= Backoffs(i)
      BY <2>2, <2>3, <2>5, <2>6, <3>1, <3>2, <3>3
    <3>5. k.sends <= MaxRetries + 1 /\ k.waited <= RunOfBackoffs
      BY <2>2, <2>3, <2>5, <3>4
    <3> QED
      BY <2>2, <2>3, <2>8, <3>1, <3>5
  <2> QED
    BY <2>2, <2>7, <2>8
<1> QED
  BY <1>1, RetryInvariant, PTL

-----------------------------------------------------------------------------
(***************************************************************************)
(* The token of the RHOBS client.                                          *)
(***************************************************************************)
\* Before the first query nobody holds the mutex and the client has no token.
LEMMA InitTokenInv == TokenInit => TokenInv
<1> SUFFICES ASSUME TokenInit
             PROVE  TokenInv
  OBVIOUS
<1> USE TokenAssumption DEF TokenInit
<1>1. NoToken \in Token
  BY DEF NoToken, Token
<1>2. TokenTypeOK
  BY <1>1 DEF TokenTypeOK
<1>3. RefreshInv
  BY DEF RefreshInv
<1>4. TimesInv
  BY DEF TimesInv, InTime, NoToken
<1>5. QED
  BY <1>2, <1>3, <1>4 DEF TokenInv

\* A token that is no longer fresh does not become fresh as time passes
\* (client.go: the test compares the clock with a fixed expiry).
LEMMA StaleStaysStale ==
  ASSUME NEW t \in Token, clock \in Nat, clock' \in Nat, clock <= clock',
         ~Fresh(t)
  PROVE  ~(t # NoToken /\ clock' < Expiry(t) - Margin)
<1>1. Expiry(t) - Margin \in Int
  BY TokenAssumption DEF Token, Expiry
<1>2. QED
  BY <1>1 DEF Fresh

\* getToken and doGet, step by step: each keeps the types, the ownership of the
\* mutex and the order of the times.
LEMMA StepKeepsTokenInv == TokenInv /\ [TokenNext]_tokenVars => TokenInv'
<1> SUFFICES ASSUME TokenInv, [TokenNext]_tokenVars
             PROVE  TokenInv'
  OBVIOUS
<1>0. TokenTypeOK /\ RefreshInv /\ TimesInv
  BY DEF TokenInv
<1>1. ASSUME NEW a \in Askers, Lock(a)
      PROVE  TokenInv'
  <2>1. CASE Fresh(cached)
    <3>1. /\ holder = NoOne /\ holder' = NoOne
          /\ asker' = [asker EXCEPT ![a].at = "has", ![a].token = cached,
                                    ![a].since = clock]
          /\ UNCHANGED <<clock, cached>>
      BY <1>1, <2>1 DEF Lock, HandOut
    <3>2. asker[a].at = "idle" /\ asker[a].left > 0
      BY <1>1 DEF Lock
    <3>3. TokenTypeOK'
      BY <1>0, <3>1, <3>2 DEF TokenTypeOK
    <3>4. RefreshInv'
      BY <1>0, <3>1, <3>2, TokenAssumption
      DEF RefreshInv, TokenTypeOK, Fresh
    <3>5. TimesInv'
      BY <1>0, <2>1, <3>1, <3>2
      DEF TimesInv, TokenTypeOK, HandedOut, InTime, Fresh, Expiry
    <3> QED
      BY <3>3, <3>4, <3>5 DEF TokenInv
  <2>2. CASE ~Fresh(cached)
    <3>1. /\ holder = NoOne /\ holder' = a
          /\ asker' = [asker EXCEPT ![a].at = "asking"]
          /\ UNCHANGED <<clock, cached>>
      BY <1>1, <2>2 DEF Lock, Goes
    <3>2. asker[a].at = "idle" /\ asker[a].left > 0
      BY <1>1 DEF Lock
    <3>3. TokenTypeOK'
      BY <1>0, <3>1, <3>2 DEF TokenTypeOK
    <3>4. RefreshInv'
      BY <1>0, <2>2, <3>1, <3>2, TokenAssumption
      DEF RefreshInv, TokenTypeOK, Fresh
    <3>5. TimesInv'
      BY <1>0, <3>1, <3>2
      DEF TimesInv, TokenTypeOK, HandedOut, InTime, Expiry
    <3> QED
      BY <3>3, <3>4, <3>5 DEF TokenInv
  <2> QED
    BY <2>1, <2>2
<1>2. ASSUME NEW a \in Askers, Issue(a)
      PROVE  TokenInv'
  <2>1. PICK life \in Lives, stated \in BOOLEAN :
          asker' = [asker EXCEPT ![a].at = "answered",
                      ![a].token = [issued |-> clock, got |-> 0,
                                    life |-> life, stated |-> stated]]
    BY <1>2 DEF Issue
  <2>2. asker[a].at = "asking" /\ UNCHANGED <<clock, cached, holder>>
    BY <1>2 DEF Issue
  <2>3. TokenTypeOK'
    <3> DEFINE new == [issued |-> clock, got |-> 0,
                       life |-> life, stated |-> stated]
    <3>1. new \in Token
      BY <1>0, TokenAssumption DEF TokenTypeOK, Token
    <3>2. asker' = [asker EXCEPT ![a].at = "answered", ![a].token = new]
      BY <2>1
    <3> HIDE DEF new
    <3> QED
      BY <1>0, <2>2, <3>1, <3>2 DEF TokenTypeOK
  <2>4. RefreshInv'
    BY <1>0, <2>1, <2>2 DEF RefreshInv, TokenTypeOK, Fresh
  <2>5. TimesInv'
    BY <1>0, <2>1, <2>2
    DEF TimesInv, TokenTypeOK, HandedOut, InTime, Expiry
  <2> QED
    BY <2>3, <2>4, <2>5 DEF TokenInv
<1>3. ASSUME NEW a \in Askers, Keep(a)
      PROVE  TokenInv'
  <2>1. /\ asker[a].at = "answered" /\ holder = a
        /\ \A b \in Askers \ {a} : asker[b].at \notin {"asking", "answered"}
    BY <1>0, <1>3 DEF Keep, RefreshInv
  <2>2. /\ cached' = [asker[a].token EXCEPT !.got = clock]
        /\ holder' = NoOne /\ clock' = clock
        /\ asker' = [asker EXCEPT ![a].at = "has", ![a].token = cached',
                                  ![a].since = clock]
    BY <1>3 DEF Keep, HandOut
  <2>3. cached' \in Token /\ InTime(cached') /\ cached'.got = clock
    BY <1>0, <2>1, <2>2 DEF TokenTypeOK, TimesInv, Token, InTime
  <2>4. TokenTypeOK'
    <3>1. PICK new \in Token : new = cached'
      BY <2>3
    <3>2. asker' = [asker EXCEPT ![a].at = "has", ![a].token = new,
                                 ![a].since = clock]
      BY <2>2, <3>1
    <3>3. cached' \in Token /\ holder' = NoOne /\ clock' = clock
      BY <2>2, <2>3
    <3>4. asker[a].at # "idle" /\ asker[a].left > 0
      BY <1>0, <2>1 DEF TokenTypeOK
    <3> QED
      BY <1>0, <3>2, <3>3, <3>4 DEF TokenTypeOK
  <2>5. RefreshInv'
    BY <1>0, <2>1, <2>2, TokenAssumption DEF RefreshInv, TokenTypeOK
  <2>6. TimesInv'
    BY <1>0, <2>1, <2>2, <2>3
    DEF TimesInv, TokenTypeOK, HandedOut, InTime, Expiry
  <2> QED
    BY <2>4, <2>5, <2>6 DEF TokenInv
<1>4. ASSUME NEW a \in Askers, Refuse(a)
      PROVE  TokenInv'
  <2>1. /\ asker[a].at \in {"asking", "answered"} /\ holder = a
        /\ holder' = NoOne /\ UNCHANGED <<clock, cached>>
    BY <1>0, <1>4 DEF Refuse, RefreshInv
  <2>2. asker' = [asker EXCEPT ![a].at = "idle", ![a].left = @ - 1,
                               ![a].token = NoToken, ![a].since = 0]
    BY <1>4 DEF Refuse, Ends
  <2>3. TokenTypeOK'
    BY <1>0, <2>1, <2>2, TokenAssumption DEF TokenTypeOK, Token, NoToken
  <2>4. RefreshInv'
    BY <1>0, <2>1, <2>2, TokenAssumption DEF RefreshInv, TokenTypeOK, Fresh
  <2>5. TimesInv'
    BY <1>0, <2>1, <2>2
    DEF TimesInv, TokenTypeOK, HandedOut, InTime, Expiry
  <2> QED
    BY <2>3, <2>4, <2>5 DEF TokenInv
<1>5. ASSUME NEW a \in Askers, Hang(a)
      PROVE  TokenInv'
  <2>1. /\ asker[a].at = "asking"
        /\ asker' = [asker EXCEPT ![a].at = "hung"]
        /\ UNCHANGED <<clock, cached, holder>>
    BY <1>5 DEF Hang, Goes
  <2>2. TokenTypeOK'
    BY <1>0, <2>1 DEF TokenTypeOK
  <2>3. RefreshInv'
    BY <1>0, <2>1 DEF RefreshInv, TokenTypeOK, Fresh
  <2>4. TimesInv'
    BY <1>0, <2>1 DEF TimesInv, TokenTypeOK, HandedOut, InTime, Expiry
  <2> QED
    BY <2>2, <2>3, <2>4 DEF TokenInv
<1>6. ASSUME NEW a \in Askers, Query(a)
      PROVE  TokenInv'
  <2>1. /\ asker[a].at = "has"
        /\ asker' = [asker EXCEPT ![a].at = "idle", ![a].left = @ - 1,
                                  ![a].token = NoToken, ![a].since = 0]
        /\ UNCHANGED <<clock, cached, holder>>
    BY <1>6 DEF Query, Ends
  <2>2. TokenTypeOK'
    BY <1>0, <2>1, TokenAssumption DEF TokenTypeOK, Token, NoToken
  <2>3. RefreshInv'
    BY <1>0, <2>1 DEF RefreshInv, TokenTypeOK, Fresh
  <2>4. TimesInv'
    BY <1>0, <2>1 DEF TimesInv, TokenTypeOK, HandedOut, InTime, Expiry
  <2> QED
    BY <2>2, <2>3, <2>4 DEF TokenInv
<1>7. CASE Tick
  <2>1. /\ clock' = clock + 1 /\ clock \in Nat
        /\ UNCHANGED <<cached, holder, asker>>
    BY <1>0, <1>7 DEF Tick, TokenTypeOK
  <2>2. TokenTypeOK'
    BY <1>0, <2>1 DEF TokenTypeOK
  <2>3. RefreshInv'
    <3>1. ~Fresh(cached) => ~Fresh(cached)'
      BY <1>0, <2>1, StaleStaysStale DEF TokenTypeOK, Fresh, Expiry
    <3> QED
      BY <1>0, <2>1, <3>1 DEF RefreshInv
  <2>4. TimesInv'
    BY <1>0, <2>1
    DEF TimesInv, TokenTypeOK, Token, HandedOut, InTime, Expiry
  <2> QED
    BY <2>2, <2>3, <2>4 DEF TokenInv
<1>8. CASE UNCHANGED tokenVars
  BY <1>0, <1>8
  DEF tokenVars, TokenInv, TokenTypeOK, RefreshInv, TimesInv, HandedOut,
      InTime, Fresh, Expiry
<1>9. QED
  BY <1>1, <1>2, <1>3, <1>4, <1>5, <1>6, <1>7, <1>8 DEF TokenNext, Asks

\* The inductive invariant holds in every behaviour of the client.
LEMMA TokenInvariant == TokenSpec => []TokenInv
BY InitTokenInv, StepKeepsTokenInv, PTL DEF TokenSpec

-----------------------------------------------------------------------------

\* The client's token, its mutex and the goroutines keep their types; one that
\* is not idle still has the query it is making (client.go: getToken, doGet).
THEOREM TokenTypes == TokenSpec => []TokenTypeOK
<1>1. TokenInv => TokenTypeOK
  BY DEF TokenInv
<1>2. QED
  BY <1>1, TokenInvariant, PTL

\* However many operators query a cluster at once, only the one that holds the
\* mutex asks SSO for a token, and only while the client has no fresh one
\* (client.go: getToken).
THEOREM OneRefreshAtATime == TokenSpec => []OneRefresh
<1>1. TokenInv => OneRefresh
  BY DEF TokenInv, RefreshInv, OneRefresh
<1>2. QED
  BY <1>1, TokenInvariant, PTL

\* A token whose life SSO stated is alive when the query is sent, whatever the
\* life and the margin are, as long as the reading of the answer and the wait
\* before doGet together stay below the margin (client.go: tokenMargin).
THEOREM QueryTokenAlive == TokenSpec => []TokenOutlivesQuery
<1>1. TokenInv => TokenOutlivesQuery
  <2> SUFFICES ASSUME TokenInv, NEW a \in Askers, asker[a].at = "has",
                      asker[a].token.stated, asker[a].token.life > Margin,
                      (clock - asker[a].since)
                        + (asker[a].token.got - asker[a].token.issued)
                          < Margin
               PROVE  clock < Dies(asker[a].token)
    BY DEF TokenOutlivesQuery
  <2> DEFINE t == asker[a].token
  <2>1. /\ t \in Token /\ asker[a].since \in Nat /\ clock \in Nat
        /\ Margin \in Nat
    BY TokenAssumption DEF TokenInv, TokenTypeOK
  <2>2. \/ asker[a].since = t.got
        \/ asker[a].since < Expiry(t) - Margin
    BY DEF TokenInv, TimesInv, HandedOut
  <2>3. Expiry(t) = t.got + t.life
    BY DEF Expiry
  <2>4. CASE asker[a].since = t.got
    BY <2>1, <2>4 DEF Token, Dies
  <2>5. CASE asker[a].since < Expiry(t) - Margin
    BY <2>1, <2>3, <2>5 DEF Token, Dies
  <2> QED
    BY <2>2, <2>4, <2>5
<1>2. QED
  BY <1>1, TokenInvariant, PTL
=============================================================================
