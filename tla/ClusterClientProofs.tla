------------------------ MODULE ClusterClientProofs ------------------------
(***************************************************************************)
(* Theorems about the client of one cluster, for every set of operators    *)
(* that share it, every number of calls and every number of retries.       *)
(***************************************************************************)
EXTENDS ClusterClient, TLAPS

(***************************************************************************)
(* What one step of an operator leaves alone.                              *)
(***************************************************************************)
OpType == [at : Places, kind : Kinds, elevated : BOOLEAN,
           attempt : 0..MaxRetries, answer : Answers]

\* A step of t: the others stay where they are, what was refused or broken
\* stays so, and only t can be the one that broke it (client.go: the fields
\* of ClusterClient are only ever set).
StepOf(t) ==
  /\ \A u \in Operators \ {t} :
       /\ op'[u] = op[u]
       /\ recorded'[u] = recorded[u] /\ sent'[u] = sent[u]
  /\ login' = login
  /\ broken' \in {broken, TRUE} /\ refused' \in {refused, TRUE}
  /\ brokenBy' \in {brokenBy, t}

\* The step of one operator keeps what the invariant says of the others.
LEMMA OneOperatorMoves ==
  ASSUME ClientInv, NEW t \in Operators, StepOf(t), TypeOK', SharedInv',
         OperatorInv(t)'
  PROVE  ClientInv'
<1> SUFFICES ASSUME NEW u \in Operators \ {t}
             PROVE  OperatorInv(u)'
  BY DEF ClientInv
<1>1. /\ OperatorInv(u) /\ op'[u] = op[u]
      /\ recorded'[u] = recorded[u] /\ sent'[u] = sent[u]
      /\ login' = login
  BY DEF ClientInv, StepOf
<1>2. PlaceFits(u)'
  BY <1>1 DEF OperatorInv, PlaceFits, IsExec
<1>3. RefusalIsReal(u)'
  BY <1>1 DEF OperatorInv, RefusalIsReal, StepOf
<1>4. ReadsSecrets(u)'
  BY <1>1 DEF OperatorInv, ReadsSecrets, StepOf
<1>5. recorded'[u] = sent'[u] + (IF Pending(u)' THEN 1 ELSE 0)
  BY <1>1 DEF OperatorInv, Pending, IsExec
<1> QED
  BY <1>2, <1>3, <1>4, <1>5 DEF OperatorInv

\* A step that neither breaks elevation nor writes the reason keeps the
\* relations between the fields of the client.
LEMMA SharedStays ==
  ASSUME ClientInv, NEW t \in Operators, StepOf(t), op[t].at # "deny",
         UNCHANGED <<elevation, crashed>>
  PROVE  SharedInv'
<1>1. SharedInv
  BY DEF ClientInv
<1>2. UNCHANGED <<broken, denied, brokenBy, crashed, login>>
  BY DEF StepOf, elevation
<1>3. BrokenOnlyByRefusal'
  BY <1>1, <1>2 DEF SharedInv, BrokenOnlyByRefusal, StepOf
<1>4. ReasonFollowsBreak'
  BY <1>1, <1>2 DEF SharedInv, ReasonFollowsBreak, StepOf
<1>5. NilOnlyByAnother'
  BY <1>1, <1>2 DEF SharedInv, NilOnlyByAnother
<1> QED
  BY <1>1, <1>2, <1>3, <1>4, <1>5 DEF SharedInv

\* An operator that goes to another place, and changes nothing but its own
\* locals, the port-forward or the alerts.
LEMMA QuietMove ==
  ASSUME ClientInv, NEW t \in Operators, NEW r \in OpType,
         op' = [op EXCEPT ![t] = r],
         UNCHANGED <<fixed, elevation, refused, left, audit>>,
         pf' \in {"unset", "busy", "up", "down", "closed"},
         alerts' \in Answers \union {"unset", "busy"},
         op[t].at \notin {"deny", "fetch", "call"}, OperatorInv(t)'
  PROVE  ClientInv'
<1>1. TypeOK
  BY DEF ClientInv
<1>2. TypeOK'
  BY <1>1 DEF TypeOK, OpType, fixed, elevation, audit
<1>3. StepOf(t)
  BY <1>1 DEF StepOf, TypeOK, fixed, elevation, audit
<1>4. SharedInv'
  BY <1>3, SharedStays DEF fixed
<1> QED
  BY <1>2, <1>3, <1>4, OneOperatorMoves

\* The call of an operator that finishes it leaves nothing pending.
LEMMA RestIsFine ==
  ASSUME NEW t, op'[t] = AtRest, recorded'[t] = sent'[t],
         sent'[t] \in Nat
  PROVE  OperatorInv(t)'
BY DEF OperatorInv, PlaceFits, RefusalIsReal, ReadsSecrets, Pending, AtRest

\* The locals of an operator between two calls.
LEMMA RestType == AtRest \in OpType
BY ClientAssumption DEF AtRest, OpType, Places, Kinds, Answers

\* What the invariant says of one operator.
LEMMA OneOperator ==
  ASSUME ClientInv, NEW t \in Operators
  PROVE  /\ op[t] \in OpType /\ OperatorInv(t)
         /\ recorded[t] \in Nat /\ sent[t] \in Nat
BY DEF ClientInv, TypeOK, OpType

\* An operator that is not about to send what it recorded, and is on its way
\* to another place where nothing is recorded.
LEMMA GoesOn ==
  ASSUME ClientInv, NEW t \in Operators,
         NEW place \in Places \ {"fetch", "call", "deny", "again", "idle",
                                 "inspect"},
         op' = [op EXCEPT ![t].at = place],
         UNCHANGED <<fixed, elevation, refused, left, audit>>,
         pf' \in {"unset", "busy", "up", "down", "closed"},
         alerts' \in Answers \union {"unset", "busy"},
         op[t].at \notin {"deny", "fetch", "call"},
         place = "break" =>
           /\ op[t].answer \in Refusals
           /\ login = "ok" => refused,
         place \in {"alerts", "forward", "setup", "query", "exec", "remote"} =>
           op[t].kind \in {"metrics", "alerts"},
         place \in {"choose", "break"} => op[t].kind # "secret",
         place = "choose" => IsExec(t)
  PROVE  ClientInv'
<1> DEFINE r == [op[t] EXCEPT !.at = place]
<1>1. op[t] \in OpType /\ OperatorInv(t)
  BY OneOperator
<1>2. r \in OpType
  BY <1>1 DEF OpType
<1>3. op' = [op EXCEPT ![t] = r]
  OBVIOUS
<1>4. op'[t] = r
  BY DEF ClientInv, TypeOK
<1>5. /\ r.at = place /\ r.kind = op[t].kind /\ r.answer = op[t].answer
      /\ r.elevated = op[t].elevated /\ r.attempt = op[t].attempt
  BY <1>1 DEF OpType
<1> HIDE DEF r
<1>6. OperatorInv(t)'
  <2>1. PlaceFits(t)'
    BY <1>4, <1>5 DEF PlaceFits, IsExec
  <2>2. RefusalIsReal(t)'
    BY <1>4, <1>5 DEF RefusalIsReal, fixed
  <2>3. ReadsSecrets(t)'
    BY <1>4, <1>5 DEF ReadsSecrets
  <2>4. recorded'[t] = sent'[t] + (IF Pending(t)' THEN 1 ELSE 0)
    <3>1. ~Pending(t) /\ ~Pending(t)'
      BY <1>4, <1>5 DEF Pending
    <3> QED
      BY <1>1, <3>1 DEF OperatorInv, audit
  <2> QED
    BY <2>1, <2>2, <2>3, <2>4 DEF OperatorInv
<1> QED
  BY <1>2, <1>3, <1>6, QuietMove

\* An operator whose call is over, with nothing left to send.
LEMMA Finishes ==
  ASSUME ClientInv, NEW t \in Operators, NEW answer \in Answers,
         Finish(t, answer),
         UNCHANGED <<fixed, elevation, refused, left, audit>>,
         pf' \in {"unset", "busy", "up", "down", "closed"},
         op[t].at \notin {"deny", "fetch", "call"}
  PROVE  ClientInv'
<1>1. OperatorInv(t) /\ recorded[t] \in Nat /\ sent[t] \in Nat
  BY OneOperator
<1>2. ~Pending(t)
  BY DEF Pending
<1>3. op' = [op EXCEPT ![t] = AtRest] /\ op'[t] = AtRest
  BY DEF Finish, ClientInv, TypeOK
<1>4. OperatorInv(t)'
  BY <1>1, <1>2, <1>3, RestIsFine DEF OperatorInv, audit
<1>5. alerts' \in Answers \union {"unset", "busy"}
  BY DEF Finish, ClientInv, TypeOK
<1> QED
  BY <1>3, <1>4, <1>5, RestType, QuietMove

\* recordElevatedOp counts one operation more for its operator.
LEMMA RecordStep ==
  ASSUME ClientInv, NEW t \in Operators, Record(t)
  PROVE  /\ recorded' \in [Operators -> Nat]
         /\ recorded'[t] = recorded[t] + 1
         /\ \A u \in Operators \ {t} : recorded'[u] = recorded[u]
<1>1. recorded \in [Operators -> Nat]
  BY DEF ClientInv, TypeOK
<1>2. recorded' = [recorded EXCEPT ![t] = recorded[t] + 1]
  BY DEF Record
<1> QED
  BY <1>1, <1>2

\* So does an elevated request that is sent.
LEMMA SendStep ==
  ASSUME ClientInv, NEW t \in Operators, Send(t)
  PROVE  /\ sent' \in [Operators -> Nat]
         /\ sent'[t] = sent[t] + 1
         /\ \A u \in Operators \ {t} : sent'[u] = sent[u]
<1>1. sent \in [Operators -> Nat]
  BY DEF ClientInv, TypeOK
<1>2. sent' = [sent EXCEPT ![t] = sent[t] + 1]
  BY DEF Send
<1> QED
  BY <1>1, <1>2

-----------------------------------------------------------------------------
(***************************************************************************)
(* The steps of an operator.                                               *)
(***************************************************************************)
\* An operator begins a call at the place of its kind.
LEMMA StartKeeps ==
  ASSUME ClientInv, NEW t \in Operators, NEW kind \in Kinds, Start(t, kind)
  PROVE  ClientInv'
<1> DEFINE r == [op[t] EXCEPT !.kind = kind, !.at = Place(kind)]
<1>1. op[t] = AtRest /\ OperatorInv(t)
  BY OneOperator DEF Start, At, OperatorInv, PlaceFits
<1>2. /\ Place(kind) \in {"choose", "guard", "forward", "alerts"}
      /\ Place(kind) \in {"forward", "alerts"} =>
           kind \in {"metrics", "alerts"}
      /\ Place(kind) = "choose" => kind # "secret"
  BY DEF Place, Kinds
<1>3. r = [AtRest EXCEPT !.kind = kind, !.at = Place(kind)]
  BY <1>1
<1>4. r \in OpType
  BY <1>2, <1>3, RestType DEF OpType, Places
<1>5. op' = [op EXCEPT ![t] = r] /\ op'[t] = r
  BY DEF Start, ClientInv, TypeOK
<1>6. /\ r.at = Place(kind) /\ r.kind = kind /\ r.attempt = 0
  BY <1>3 DEF AtRest
<1> HIDE DEF r
<1>7. OperatorInv(t)'
  <2>1. PlaceFits(t)' /\ RefusalIsReal(t)' /\ ReadsSecrets(t)'
    BY <1>2, <1>5, <1>6 DEF PlaceFits, RefusalIsReal, ReadsSecrets
  <2>2. ~Pending(t) /\ ~Pending(t)'
    BY <1>1, <1>2, <1>5, <1>6 DEF Pending, AtRest
  <2> QED
    BY <1>1, <2>1, <2>2 DEF OperatorInv, Start, audit
<1>8. TypeOK'
  <2>1. left' \in [Operators -> 0..CallsEach]
    <3>1. left \in [Operators -> 0..CallsEach]
      BY DEF ClientInv, TypeOK
    <3>2. left[t] > 0 /\ left' = [left EXCEPT ![t] = left[t] - 1]
      BY DEF Start
    <3>3. left[t] - 1 \in 0..CallsEach
      BY <3>1, <3>2, ClientAssumption
    <3> QED
      BY <3>1, <3>2, <3>3
  <2> QED
    BY <1>4, <1>5, <2>1
    DEF ClientInv, TypeOK, OpType, Start, fixed, elevation, audit, onces
<1>9. StepOf(t)
  BY DEF StepOf, Start, ClientInv, TypeOK, fixed, elevation, audit
<1>10. SharedInv'
  BY <1>1, <1>9, SharedStays DEF Start, AtRest, fixed
<1> QED
  BY <1>7, <1>8, <1>9, <1>10, OneOperatorMoves

\* GetResource, ListResources and ExecInPod choose a client: the elevated one
\* is recorded, and the standard one means that elevation is not available.
LEMMA ChooseKeeps ==
  ASSUME ClientInv, NEW t \in Operators, Choose(t)
  PROVE  ClientInv'
<1> DEFINE r == [op[t] EXCEPT !.elevated = CanElevate, !.at = "call"]
<1>1. /\ op[t] \in OpType /\ OperatorInv(t) /\ op[t].at = "choose"
      /\ recorded[t] \in Nat /\ sent[t] \in Nat
  BY OneOperator DEF Choose, At
<1>2. login \in {"off", "failed", "ok"} /\ broken \in BOOLEAN
      /\ CanElevate \in BOOLEAN
  BY DEF ClientInv, TypeOK, CanElevate
<1>3. r \in OpType
  BY <1>1, <1>2 DEF OpType, Places
<1>4. op' = [op EXCEPT ![t] = r] /\ op'[t] = r
  BY DEF Choose, ClientInv, TypeOK
<1>5. /\ r.at = "call" /\ r.elevated = CanElevate /\ r.kind = op[t].kind
      /\ r.attempt = op[t].attempt
  BY <1>1 DEF OpType
<1> HIDE DEF r
<1>6. OperatorInv(t)'
  <2>1. PlaceFits(t)' /\ ReadsSecrets(t)'
    BY <1>1, <1>4, <1>5 DEF OperatorInv, PlaceFits, ReadsSecrets
  <2>2. RefusalIsReal(t)'
    BY <1>2, <1>4, <1>5
    DEF RefusalIsReal, Choose, CanElevate, fixed, elevation
  <2>3. Pending(t)' <=> CanElevate
    BY <1>1, <1>4, <1>5 DEF Pending, OperatorInv, PlaceFits, IsExec
  <2>4. ~Pending(t)
    BY <1>1 DEF Pending
  <2>5. /\ recorded'[t] = recorded[t] + (IF CanElevate THEN 1 ELSE 0)
        /\ sent'[t] = sent[t]
    BY <1>1, RecordStep DEF Choose
  <2> QED
    BY <1>1, <2>1, <2>2, <2>3, <2>4, <2>5 DEF OperatorInv
<1>7. recorded' \in [Operators -> Nat]
  BY RecordStep DEF Choose, ClientInv, TypeOK
<1>8. TypeOK'
  BY <1>3, <1>4, <1>7
  DEF ClientInv, TypeOK, OpType, Choose, fixed, elevation, onces
<1>9. StepOf(t)
  BY RecordStep DEF StepOf, Choose, ClientInv, TypeOK, fixed, elevation
<1>10. SharedInv'
  BY <1>1, <1>9, SharedStays DEF Choose, fixed
<1> QED
  BY <1>6, <1>8, <1>9, <1>10, OneOperatorMoves

\* One attempt of an elevated read or exec: what was recorded is sent, and a
\* retry of an exec chooses its client again.
LEMMA CallKeeps ==
  ASSUME ClientInv, NEW t \in Operators, NEW answer \in Answers,
         Call(t, answer)
  PROVE  ClientInv'
<1> DEFINE k == op[t]
           Sends == k.elevated /\ (IsExec(t) \/ k.attempt = 0)
<1>1. /\ k \in OpType /\ OperatorInv(t) /\ k.at = "call"
      /\ recorded[t] \in Nat /\ sent[t] \in Nat
  BY OneOperator DEF Call, At
<1>2. sent' \in [Operators -> Nat] /\ sent'[t] = recorded'[t]
  <2>1. Pending(t) <=> Sends
    BY <1>1 DEF Pending
  <2>2. sent' \in [Operators -> Nat] /\ recorded' = recorded
    BY SendStep DEF Call, ClientInv, TypeOK
  <2>3. CASE Sends
    BY <1>1, <2>1, <2>2, <2>3, SendStep DEF Call, OperatorInv
  <2>4. CASE ~Sends
    BY <1>1, <2>1, <2>2, <2>4 DEF Call, OperatorInv
  <2> QED
    BY <2>2, <2>3, <2>4
<1>3. StepOf(t) /\ SharedInv'
  <2>1. op \in [Operators -> OpType] /\ refused \in BOOLEAN
    BY DEF ClientInv, TypeOK, OpType
  <2>2. \A u \in Operators \ {t} : op'[u] = op[u]
    BY <2>1 DEF Call, Retry
  <2>3. \A u \in Operators \ {t} : sent'[u] = sent[u]
    BY SendStep DEF Call
  <2>4. refused' \in {refused, TRUE}
    BY <2>1 DEF Call
  <2>5. StepOf(t)
    BY <2>2, <2>3, <2>4 DEF StepOf, Call, fixed, elevation
  <2> QED
    BY <1>1, <2>5, SharedStays DEF Call, fixed
<1>4. ASSUME NEW r \in OpType, op' = [op EXCEPT ![t] = r], OperatorInv(t)'
      PROVE  ClientInv'
  <2>1. TypeOK'
    <3>1. refused' \in BOOLEAN
      BY DEF Call, ClientInv, TypeOK
    <3> QED
      BY <1>2, <1>4, <3>1
      DEF ClientInv, TypeOK, OpType, Call, fixed, elevation, onces
  <2> QED
    BY <1>3, <1>4, <2>1, OneOperatorMoves
<1>5. CASE answer = "transient" /\ MayRetry(t)
  <2> DEFINE a == k.attempt + 1
             place == IF IsExec(t) THEN "choose" ELSE "call"
             r == [k EXCEPT !.attempt = a, !.at = place]
  <2>1. a \in 0..MaxRetries /\ a # 0
    BY <1>1, <1>5, ClientAssumption DEF MayRetry, OpType
  <2>2. place \in {"choose", "call"} /\ (place = "choose" <=> IsExec(t))
    OBVIOUS
  <2>3. op' = [op EXCEPT ![t] = r] /\ op'[t] = r
    BY <1>5 DEF Call, Retry, ClientInv, TypeOK
  <2> HIDE DEF a, place
  <2>4. r \in OpType
    BY <1>1, <2>1, <2>2 DEF OpType, Places
  <2>5. /\ r.at = place /\ r.attempt = a /\ r.kind = k.kind
        /\ r.elevated = k.elevated
    BY <1>1 DEF OpType
  <2> HIDE DEF r
  <2>6. OperatorInv(t)'
    <3>1. PlaceFits(t)' /\ ReadsSecrets(t)'
      BY <1>1, <2>2, <2>3, <2>5
      DEF OperatorInv, PlaceFits, ReadsSecrets, IsExec
    <3>2. RefusalIsReal(t)'
      BY <1>1, <2>2, <2>3, <2>5
      DEF RefusalIsReal, OperatorInv, Call, fixed, elevation
    <3>3. ~Pending(t)'
      BY <2>1, <2>2, <2>3, <2>5 DEF Pending, IsExec
    <3>4. recorded'[t] = sent'[t] + 0
      BY <1>2
    <3> QED
      BY <3>1, <3>2, <3>3, <3>4 DEF OperatorInv
  <2> QED
    BY <1>4, <2>3, <2>4, <2>6
<1>6. CASE ~(answer = "transient" /\ MayRetry(t))
  <2> DEFINE r == [k EXCEPT !.answer = answer, !.at = "inspect"]
  <2>1. r \in OpType
    BY <1>1 DEF OpType, Places
  <2>2. op' = [op EXCEPT ![t] = r] /\ op'[t] = r
    BY <1>6 DEF Call, ClientInv, TypeOK
  <2>3. /\ r.at = "inspect" /\ r.answer = answer /\ r.kind = k.kind
        /\ r.elevated = k.elevated
    BY <1>1 DEF OpType
  <2> HIDE DEF r
  <2>4. OperatorInv(t)'
    <3>1. PlaceFits(t)' /\ ReadsSecrets(t)'
      BY <1>1, <2>2, <2>3 DEF OperatorInv, PlaceFits, ReadsSecrets
    <3>2. RefusalIsReal(t)'
      BY <1>1, <2>2, <2>3
      DEF RefusalIsReal, OperatorInv, Call, fixed, elevation
    <3>3. ~Pending(t)'
      BY <2>2, <2>3 DEF Pending
    <3>4. recorded'[t] = sent'[t] + 0
      BY <1>2
    <3> QED
      BY <3>1, <3>2, <3>3, <3>4 DEF OperatorInv
  <2> QED
    BY <1>4, <2>1, <2>2, <2>4
<1> QED
  BY <1>5, <1>6

\* checkElevatedError: a refusal is about to break elevation, anything else
\* returns.
LEMMA InspectKeeps ==
  ASSUME ClientInv, NEW t \in Operators, Inspect(t)
  PROVE  ClientInv'
<1>1. /\ op[t] \in OpType /\ OperatorInv(t) /\ op[t].at = "inspect"
      /\ UNCHANGED <<fixed, elevation, refused, left, audit>> /\ pf' = pf
  BY OneOperator DEF Inspect, At
<1>2. /\ pf \in {"unset", "busy", "up", "down", "closed"}
      /\ alerts \in Answers \union {"unset", "busy"}
      /\ login \in {"off", "failed", "ok"}
  BY DEF ClientInv, TypeOK
<1>3. CASE Breaks(op[t].answer) /\ ~broken
  <2>1. Go(t, "break") /\ UNCHANGED alerts
    BY <1>3 DEF Inspect
  <2>2. /\ op[t].answer \in Refusals /\ (login = "ok" => refused)
        /\ op[t].kind # "secret"
    BY <1>1, <1>3 DEF Breaks, OperatorInv, RefusalIsReal, PlaceFits
  <2>3. "break" \in Places \ {"fetch", "call", "deny", "again", "idle",
                              "inspect"}
    BY DEF Places
  <2> QED
    BY <1>1, <1>2, <2>1, <2>2, <2>3, GoesOn DEF Go
<1>4. CASE ~(Breaks(op[t].answer) /\ ~broken)
  <2>1. Return(t)
    BY <1>4 DEF Inspect
  <2>2. CASE IsExec(t) /\ op[t].answer # "ok"
    <3>1. Go(t, "remote") /\ UNCHANGED alerts
      BY <2>1, <2>2 DEF Return
    <3>2. op[t].kind \in {"metrics", "alerts"}
      BY <1>1, <2>2 DEF OperatorInv, PlaceFits, IsExec, OpType, Kinds
    <3>3. "remote" \in Places \ {"fetch", "call", "deny", "again", "idle",
                                 "inspect"}
      BY DEF Places
    <3> QED
      BY <1>1, <1>2, <3>1, <3>2, <3>3, GoesOn DEF Go
  <2>3. CASE ~(IsExec(t) /\ op[t].answer # "ok")
    <3>1. Finish(t, op[t].answer) /\ op[t].answer \in Answers
      BY <1>1, <2>1, <2>3 DEF Return, OpType
    <3> QED
      BY <1>1, <1>2, <3>1, Finishes
  <2> QED
    BY <2>2, <2>3
<1> QED
  BY <1>3, <1>4

\* Its first assignment: with a working login an elevated call was refused,
\* and the operator that broke elevation is not reading secrets.
LEMMA BreakKeeps ==
  ASSUME ClientInv, NEW t \in Operators, Break(t)
  PROVE  ClientInv'
<1> DEFINE r == [op[t] EXCEPT !.at = "deny"]
<1>1. /\ op[t] \in OpType /\ OperatorInv(t) /\ op[t].at = "break"
      /\ recorded[t] \in Nat /\ sent[t] \in Nat
  BY OneOperator DEF Break, At
<1>2. r \in OpType
  BY <1>1 DEF OpType, Places
<1>3. op' = [op EXCEPT ![t] = r] /\ op'[t] = r
  BY DEF Break, Go, ClientInv, TypeOK
<1>4. r.at = "deny" /\ r.kind = op[t].kind /\ r.answer = op[t].answer
  BY <1>1 DEF OpType
<1> HIDE DEF r
<1>5. OperatorInv(t)'
  <2>1. PlaceFits(t)' /\ ReadsSecrets(t)' /\ RefusalIsReal(t)'
    BY <1>1, <1>3, <1>4
    DEF OperatorInv, PlaceFits, ReadsSecrets, RefusalIsReal
  <2>2. ~Pending(t) /\ ~Pending(t)'
    BY <1>1, <1>3, <1>4 DEF Pending
  <2> QED
    BY <1>1, <2>1, <2>2 DEF OperatorInv, Break, audit
<1>6. TypeOK'
  BY <1>2, <1>3 DEF ClientInv, TypeOK, OpType, Break, fixed, audit, onces
<1>7. StepOf(t)
  BY DEF StepOf, Break, Go, ClientInv, TypeOK, fixed, audit
<1>8. SharedInv'
  <2>1. BrokenOnlyByRefusal'
    BY <1>1
    DEF BrokenOnlyByRefusal, OperatorInv, RefusalIsReal, Break, fixed
  <2>2. ReasonFollowsBreak'
    BY <1>3, <1>4 DEF ReasonFollowsBreak
  <2>3. NilOnlyByAnother'
    BY DEF NilOnlyByAnother, Break, At, Running, fixed
  <2>4. broken' /\ brokenBy' # Nobody
    BY ClientAssumption DEF Break
  <2> QED
    BY <2>1, <2>2, <2>3, <2>4 DEF SharedInv
<1> QED
  BY <1>5, <1>6, <1>7, <1>8, OneOperatorMoves

\* Its second assignment: the reason is there before the operator returns.
LEMMA DenyKeeps ==
  ASSUME ClientInv, NEW t \in Operators, Deny(t)
  PROVE  ClientInv'
<1> DEFINE Leaves == IsExec(t) /\ op[t].answer # "ok"
           r == IF Leaves THEN [op[t] EXCEPT !.at = "remote"] ELSE AtRest
<1>1. /\ op[t] \in OpType /\ OperatorInv(t) /\ op[t].at = "deny"
      /\ recorded[t] \in Nat /\ sent[t] \in Nat
      /\ op[t].answer \in Refusals
  BY OneOperator DEF Deny, At, OperatorInv, RefusalIsReal
<1>2. r \in OpType
  BY <1>1, RestType DEF OpType, Places
<1>3. op' = [op EXCEPT ![t] = r] /\ op'[t] = r
  BY DEF Deny, Return, Go, Finish, ClientInv, TypeOK
<1>4. r.at \in {"remote", "idle"} /\ (r.at = "idle" => r = AtRest)
      /\ (r.at = "remote" => r.kind = op[t].kind /\ Leaves)
  BY <1>1 DEF OpType, AtRest
<1> HIDE DEF r
<1>5. OperatorInv(t)'
  <2>1. PlaceFits(t)'
    BY <1>1, <1>3, <1>4 DEF OperatorInv, PlaceFits, OpType, Kinds, IsExec
  <2>2. ReadsSecrets(t)' /\ RefusalIsReal(t)'
    BY <1>3, <1>4 DEF ReadsSecrets, RefusalIsReal
  <2>3. ~Pending(t) /\ ~Pending(t)'
    BY <1>1, <1>3, <1>4 DEF Pending
  <2> QED
    BY <1>1, <2>1, <2>2, <2>3 DEF OperatorInv, Deny, audit
<1>6. TypeOK'
  <2>1. alerts' \in Answers \union {"unset", "busy"}
    BY <1>1 DEF Deny, Return, Finish, ClientInv, TypeOK, OpType
  <2> QED
    BY <1>1, <1>2, <1>3, <2>1
    DEF ClientInv, TypeOK, OpType, Deny, fixed, audit
<1>7. StepOf(t)
  BY <1>3 DEF StepOf, Deny, ClientInv, TypeOK, fixed, audit
<1>8. SharedInv'
  <2>1. BrokenOnlyByRefusal' /\ NilOnlyByAnother'
    BY DEF ClientInv, SharedInv, BrokenOnlyByRefusal, NilOnlyByAnother,
           Deny, fixed
  <2>2. ReasonFollowsBreak'
    BY <1>1 DEF ReasonFollowsBreak, Deny, Refusals
  <2> QED
    BY <2>1, <2>2 DEF ClientInv, SharedInv, Deny, fixed
<1> QED
  BY <1>5, <1>6, <1>7, <1>8, OneOperatorMoves

\* A check records the secret it is going to read.
LEMMA RecordsSecret ==
  ASSUME ClientInv, NEW t \in Operators, op[t].at \in {"guard", "again"},
         Record(t), Go(t, "fetch"), login = "ok", brokenBy # t,
         UNCHANGED <<fixed, elevation, refused, left, sent, onces>>
  PROVE  ClientInv'
<1> DEFINE r == [op[t] EXCEPT !.at = "fetch"]
<1>1. /\ op[t] \in OpType /\ OperatorInv(t)
      /\ recorded[t] \in Nat /\ sent[t] \in Nat
  BY OneOperator
<1>2. r \in OpType
  BY <1>1 DEF OpType, Places
<1>3. op' = [op EXCEPT ![t] = r] /\ op'[t] = r
  BY DEF Go, ClientInv, TypeOK
<1>4. r.at = "fetch"
  BY <1>1 DEF OpType
<1> HIDE DEF r
<1>5. OperatorInv(t)'
  <2>1. PlaceFits(t)' /\ ReadsSecrets(t)' /\ RefusalIsReal(t)'
    BY <1>3, <1>4
    DEF PlaceFits, ReadsSecrets, RefusalIsReal, fixed, elevation
  <2>2. ~Pending(t) /\ Pending(t)'
    BY <1>3, <1>4 DEF Pending
  <2>3. recorded'[t] = recorded[t] + 1 /\ sent'[t] = sent[t]
    BY RecordStep
  <2> QED
    BY <1>1, <2>1, <2>2, <2>3 DEF OperatorInv
<1>6. TypeOK'
  <2>1. recorded' \in [Operators -> Nat]
    BY RecordStep
  <2> QED
    BY <1>2, <1>3, <2>1
    DEF ClientInv, TypeOK, OpType, fixed, elevation, onces
<1>7. StepOf(t)
  BY <1>3, RecordStep DEF StepOf, ClientInv, TypeOK, fixed, elevation
<1>8. SharedInv'
  BY <1>7, SharedStays DEF fixed
<1> QED
  BY <1>5, <1>6, <1>7, <1>8, OneOperatorMoves

\* The check tested CanElevate, so nobody has broken elevation yet.
LEMMA GuardKeeps ==
  ASSUME ClientInv, NEW t \in Operators, Guard(t)
  PROVE  ClientInv'
<1>1. login = "ok" /\ ~broken
  BY DEF Guard, CanElevate
<1>2. brokenBy # t
  BY <1>1, ClientAssumption DEF ClientInv, SharedInv
<1> QED
  BY <1>1, <1>2, RecordsSecret DEF Guard, At

\* The loop of a check that reads several secrets.
LEMMA NextSecretKeeps ==
  ASSUME ClientInv, NEW t \in Operators, NextSecret(t)
  PROVE  ClientInv'
<1>1. op[t].at = "again" /\ OperatorInv(t)
  BY OneOperator DEF NextSecret, At
<1> QED
  BY <1>1, RecordsSecret DEF NextSecret, OperatorInv, ReadsSecrets

\* A secret that was recorded is read, and the check ends or goes on.
LEMMA FetchKeeps ==
  ASSUME ClientInv, NEW t \in Operators, NEW answer \in Answers,
         Fetch(t, answer)
  PROVE  ClientInv'
<1>1. /\ op[t] \in OpType /\ OperatorInv(t) /\ op[t].at = "fetch"
      /\ recorded[t] \in Nat /\ sent[t] \in Nat
  BY OneOperator DEF Fetch, At
<1>2. /\ sent' \in [Operators -> Nat] /\ sent'[t] = recorded'[t]
      /\ \A u \in Operators \ {t} : sent'[u] = sent[u]
  <2>1. sent'[t] = sent[t] + 1 /\ recorded'[t] = recorded[t]
    BY SendStep DEF Fetch
  <2>2. recorded[t] = sent[t] + 1
    BY <1>1 DEF OperatorInv, Pending
  <2> QED
    BY <2>1, <2>2, SendStep DEF Fetch
<1>3. StepOf(t) /\ SharedInv'
  <2>1. StepOf(t)
    BY <1>2
    DEF StepOf, Fetch, Finish, ClientInv, TypeOK, fixed, elevation
  <2> QED
    BY <1>1, <2>1, SharedStays DEF Fetch, fixed
<1>4. ASSUME NEW r \in OpType, op' = [op EXCEPT ![t] = r],
             OperatorInv(t)', alerts' \in Answers \union {"unset", "busy"}
      PROVE  ClientInv'
  <2>1. TypeOK'
    <3>1. refused' \in BOOLEAN
      BY DEF Fetch, ClientInv, TypeOK
    <3> QED
      BY <1>2, <1>4, <3>1
      DEF ClientInv, TypeOK, OpType, Fetch, fixed, elevation
  <2> QED
    BY <1>3, <1>4, <2>1, OneOperatorMoves
<1>5. CASE Finish(t, answer)
  <2>1. op' = [op EXCEPT ![t] = AtRest] /\ op'[t] = AtRest
        /\ alerts' \in Answers \union {"unset", "busy"}
    BY <1>5 DEF Finish, ClientInv, TypeOK
  <2>2. OperatorInv(t)'
    BY <1>2, <2>1, RestIsFine
  <2> QED
    BY <1>4, <2>1, <2>2, RestType
<1>6. CASE /\ op[t].attempt < MaxRetries
           /\ op' = [op EXCEPT ![t].attempt = @ + 1, ![t].at = "again"]
           /\ UNCHANGED alerts
  <2> DEFINE a == op[t].attempt + 1
             r == [op[t] EXCEPT !.attempt = a, !.at = "again"]
  <2>1. a \in 0..MaxRetries
    BY <1>1, <1>6, ClientAssumption DEF OpType
  <2>2. op' = [op EXCEPT ![t] = r] /\ op'[t] = r
    BY <1>6 DEF ClientInv, TypeOK
  <2> HIDE DEF a
  <2>3. r \in OpType /\ r.at = "again"
    BY <1>1, <2>1 DEF OpType, Places
  <2> HIDE DEF r
  <2>4. OperatorInv(t)'
    <3>1. PlaceFits(t)' /\ RefusalIsReal(t)' /\ ReadsSecrets(t)'
      BY <1>1, <2>2, <2>3
      DEF PlaceFits, RefusalIsReal, ReadsSecrets, OperatorInv, Fetch,
          fixed, elevation
    <3>2. ~Pending(t)'
      BY <2>2, <2>3 DEF Pending
    <3>3. recorded'[t] = sent'[t] + 0
      BY <1>2
    <3> QED
      BY <3>1, <3>2, <3>3 DEF OperatorInv
  <2>5. alerts' \in Answers \union {"unset", "busy"}
    BY <1>6 DEF ClientInv, TypeOK
  <2> QED
    BY <1>4, <2>2, <2>3, <2>4, <2>5
<1> QED
  BY <1>5, <1>6 DEF Fetch

\* A nil clientset: the operator had found elevation available and did not
\* break it, so another one did.
LEMMA NilKeeps ==
  ASSUME ClientInv, NEW t \in Operators, FetchFromNil(t)
  PROVE  ClientInv'
<1>1. OperatorInv(t) /\ op[t].at = "fetch" /\ ~CanElevate
  BY OneOperator DEF FetchFromNil, At
<1>2. login = "ok" /\ brokenBy # t
  BY <1>1 DEF OperatorInv, ReadsSecrets
<1>3. broken /\ brokenBy # Nobody
  BY <1>1, <1>2 DEF CanElevate, ClientInv, SharedInv
<1>4. TypeOK'
  BY DEF FetchFromNil, ClientInv, TypeOK, elevation, audit, onces
<1>5. StepOf(t)
  BY DEF StepOf, FetchFromNil, ClientInv, TypeOK, elevation, audit
<1>6. SharedInv'
  BY <1>2, <1>3
  DEF ClientInv, SharedInv, BrokenOnlyByRefusal, ReasonFollowsBreak,
      NilOnlyByAnother, FetchFromNil, elevation
<1>7. OperatorInv(t)'
  BY <1>1
  DEF OperatorInv, PlaceFits, RefusalIsReal, ReadsSecrets, Pending, IsExec,
      FetchFromNil, elevation, audit
<1> QED
  BY <1>4, <1>5, <1>6, <1>7, OneOperatorMoves

\* A check that cannot elevate is skipped.
LEMMA SkipKeeps ==
  ASSUME ClientInv, NEW t \in Operators, SkipSecret(t)
  PROVE  ClientInv'
<1>1. op[t].at = "guard" /\ pf \in {"unset", "busy", "up", "down", "closed"}
  BY DEF SkipSecret, At, ClientInv, TypeOK
<1>2. "other" \in Answers
  BY DEF Answers
<1> QED
  BY <1>1, <1>2, Finishes DEF SkipSecret

\* The sources of metrics, one after the other: an operator goes from place to
\* place, the sync.Onces are left set, and nothing is recorded on the way.
LEMMA MetricsKeep ==
  ASSUME ClientInv, NEW t \in Operators,
         \/ FirstAlerts(t) \/ FirstForward(t) \/ SharedForward(t)
         \/ SetupForward(t) \/ QueryForward(t) \/ ExecThanos(t)
         \/ SharedAlerts(t) \/ QueryRemote(t)
  PROVE  ClientInv'
<1> DEFINE Forwards == {"unset", "busy", "up", "down", "closed"}
           Kept == Answers \union {"unset", "busy"}
           Same == UNCHANGED <<fixed, elevation, refused, left, audit>>
<1>0. pf \in Forwards /\ alerts \in Kept
  BY DEF ClientInv, TypeOK
<1>1. /\ op[t].at \in {"alerts", "forward", "setup", "query", "exec",
                       "remote"}
      /\ op[t].kind \in {"metrics", "alerts"} /\ Same
  <2>1. /\ op[t].at \in {"alerts", "forward", "setup", "query", "exec",
                         "remote"}
        /\ Same
    BY DEF FirstAlerts, FirstForward, SharedForward, SetupForward,
           QueryForward, ExecThanos, SharedAlerts, QueryRemote, At, onces
  <2> QED
    BY <2>1, OneOperator DEF OperatorInv, PlaceFits
<1>2. ASSUME NEW place \in {"forward", "setup", "query", "exec", "remote",
                           "choose"},
             Go(t, place), pf' \in Forwards, alerts' \in Kept
      PROVE  ClientInv'
  <2>1. place \in Places \ {"fetch", "call", "deny", "again", "idle",
                            "inspect"}
    BY DEF Places
  <2>2. place = "choose" => IsExec(t)
    BY <1>1 DEF IsExec
  <2> QED
    BY <1>1, <1>2, <2>1, <2>2, GoesOn DEF Go
<1>3. ASSUME NEW answer \in Answers, Finish(t, answer), pf' = pf
      PROVE  ClientInv'
  BY <1>0, <1>1, <1>3, Finishes
<1>4. CASE FirstAlerts(t)
  BY <1>0, <1>2, <1>4 DEF FirstAlerts
<1>5. CASE FirstForward(t)
  BY <1>0, <1>2, <1>5 DEF FirstForward
<1>6. CASE SharedForward(t)
  BY <1>0, <1>2, <1>6 DEF SharedForward, onces
<1>7. CASE SetupForward(t)
  BY <1>0, <1>2, <1>7 DEF SetupForward
<1>8. CASE QueryForward(t)
  <2>1. "ok" \in Answers
    BY DEF Answers
  <2> QED
    BY <1>0, <1>2, <1>3, <1>8, <2>1 DEF QueryForward
<1>9. CASE ExecThanos(t)
  BY <1>0, <1>2, <1>9 DEF ExecThanos, onces
<1>10. CASE SharedAlerts(t)
  <2>1. alerts \in Answers
    BY <1>0, <1>10 DEF SharedAlerts
  <2> QED
    BY <1>3, <1>10, <2>1 DEF SharedAlerts
<1>11. CASE QueryRemote(t)
  <2>1. {"ok", "other"} \subseteq Answers
    BY DEF Answers
  <2> QED
    BY <1>3, <1>11, <2>1 DEF QueryRemote
<1> QED
  BY <1>4, <1>5, <1>6, <1>7, <1>8, <1>9, <1>10, <1>11

\* The end of the client leaves its fields as they are.
LEMMA DisconnectKeeps ==
  ASSUME ClientInv, Disconnect
  PROVE  ClientInv'
<1>1. TypeOK'
  BY DEF Disconnect, ClientInv, TypeOK, elevation, audit
<1>2. SharedInv'
  BY DEF Disconnect, ClientInv, SharedInv, BrokenOnlyByRefusal,
         ReasonFollowsBreak, NilOnlyByAnother, elevation
<1>3. ASSUME NEW t \in Operators
      PROVE  OperatorInv(t)'
  BY DEF Disconnect, ClientInv, OperatorInv, PlaceFits, RefusalIsReal,
         ReadsSecrets, Pending, IsExec, elevation, audit
<1> QED
  BY <1>1, <1>2, <1>3 DEF ClientInv

\* A step of somebody else leaves them alone too.
LEMMA StutterKeeps ==
  ASSUME ClientInv, UNCHANGED vars
  PROVE  ClientInv'
<1> USE DEF vars, fixed, elevation, audit, onces
<1>1. TypeOK'
  BY DEF ClientInv, TypeOK
<1>2. SharedInv'
  BY DEF ClientInv, SharedInv, BrokenOnlyByRefusal, ReasonFollowsBreak,
         NilOnlyByAnother
<1>3. ASSUME NEW t \in Operators
      PROVE  OperatorInv(t)'
  BY DEF ClientInv, OperatorInv, PlaceFits, RefusalIsReal, ReadsSecrets,
         Pending, IsExec
<1> QED
  BY <1>1, <1>2, <1>3 DEF ClientInv

\* A client that has just been made: nothing was asked of it.
LEMMA InitClientInv == Init => ClientInv
<1> SUFFICES ASSUME Init
             PROVE  ClientInv
  OBVIOUS
<1>1. TypeOK
  <2>1. op \in [Operators -> OpType]
    BY RestType DEF Init
  <2>2. CallsEach \in 0..CallsEach
    BY ClientAssumption
  <2> QED
    BY <2>1, <2>2 DEF Init, Connected, TypeOK, OpType
<1>2. SharedInv
  BY ClientAssumption
  DEF Init, Connected, SharedInv, BrokenOnlyByRefusal, ReasonFollowsBreak,
      NilOnlyByAnother
<1>3. ASSUME NEW t \in Operators
      PROVE  OperatorInv(t)
  BY DEF Init, OperatorInv, PlaceFits, RefusalIsReal, ReadsSecrets, Pending,
         AtRest
<1> QED
  BY <1>1, <1>2, <1>3 DEF ClientInv

\* No step of any operator breaks the invariant.
LEMMA StepKeepsClientInv == ClientInv /\ [Next]_vars => ClientInv'
<1> SUFFICES ASSUME ClientInv, [Next]_vars
             PROVE  ClientInv'
  OBVIOUS
<1>1. ASSUME NEW t \in Operators, Continue(t)
      PROVE  ClientInv'
  BY <1>1, ChooseKeeps, InspectKeeps, BreakKeeps, DenyKeeps, GuardKeeps,
     SkipKeeps, NextSecretKeeps, NilKeeps, MetricsKeep, CallKeeps, FetchKeeps
  DEF Continue
<1>2. ASSUME NEW t \in Operators, OperatorStep(t)
      PROVE  ClientInv'
  BY <1>1, <1>2, StartKeeps DEF OperatorStep
<1>3. CASE Ended \/ UNCHANGED vars
  BY <1>3, StutterKeeps DEF Ended
<1> QED
  BY <1>2, <1>3, DisconnectKeeps DEF Next

\* The inductive invariant holds in every behaviour of the client.
LEMMA ClientInvariant == Spec => []ClientInv
BY InitClientInv, StepKeepsClientInv, PTL DEF Spec

-----------------------------------------------------------------------------

\* The fields of the client and the locals of its callers keep their types: a
\* reason is a refusal, and no call is retried past the bound (client.go:
\* ClusterClient, withRetry).
THEOREM ClientTypes == Spec => []TypeOK
<1>1. ClientInv => TypeOK
  BY DEF ClientInv
<1> QED
  BY <1>1, ClientInvariant, PTL

\* A working elevation is given up only for a refusal of an elevated call,
\* however many operators read and write the fields without a lock
\* (client.go: checkElevatedError, which is called for every call).
THEOREM BrokenByRefusal == Spec => []BrokenOnlyByRefusal
<1>1. ClientInv => BrokenOnlyByRefusal
  BY DEF ClientInv, SharedInv
<1> QED
  BY <1>1, ClientInvariant, PTL

\* Between its two assignments, and only there, broken elevation has no reason
\* (client.go: elevationBroken, elevationDeniedReason).
THEOREM ReasonIsWritten == Spec => []ReasonFollowsBreak
<1>1. ClientInv => ReasonFollowsBreak
  BY DEF ClientInv, SharedInv
<1> QED
  BY <1>1, ClientInvariant, PTL

\* Between two calls of an operator the audit has counted what it sent, retries
\* and refusals included (client.go: recordElevatedOp, RecordElevatedOp).
THEOREM AuditIsExact == Spec => []AuditMatchesCalls
<1>1. ClientInv => AuditMatchesCalls
  <2> SUFFICES ASSUME ClientInv, NEW t \in Operators, op[t] = AtRest
               PROVE  recorded[t] = sent[t]
    BY DEF AuditMatchesCalls
  <2>1. ~Pending(t)
    BY DEF Pending, AtRest
  <2> QED
    BY <2>1, OneOperator DEF OperatorInv
<1> QED
  BY <1>1, ClientInvariant, PTL

\* The nil clientset that ends the process is another operator's doing: the
\* one that crashes had tested CanElevate (client.go: ElevatedClientset).
THEOREM NilIsAnothersDoing == Spec => []NilOnlyByAnother
<1>1. ClientInv => NilOnlyByAnother
  BY DEF ClientInv, SharedInv
<1> QED
  BY <1>1, ClientInvariant, PTL
=============================================================================
