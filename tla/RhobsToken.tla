----------------------------- MODULE RhobsToken -----------------------------
(***************************************************************************)
(* The RHOBS client of a cluster (pkg/rhobs/client.go).  The operators of  *)
(* the cluster share one client: getToken holds its mutex while it asks    *)
(* SSO for a token, through a client without a timeout, and keeps the      *)
(* token until tokenMargin before the expiry it worked out when the answer *)
(* had been read; the query is then sent without the mutex, once.          *)
(***************************************************************************)
EXTENDS Integers

CONSTANTS
    Askers,      \* goroutines of the operators that query RHOBS
    Queries,     \* queries each of them makes
    Lives,       \* seconds a token of SSO may live
    Margin,      \* tokenMargin
    Default,     \* the life assumed when SSO states none
    MaxClock,    \* bound of the clock
    NoOne        \* no goroutine

ASSUME TokenAssumption ==
    /\ NoOne \notin Askers
    /\ Queries \in Nat \ {0}
    /\ Lives \subseteq Nat \ {0}
    /\ {Margin, Default} \subseteq Nat \ {0}
    /\ MaxClock \in Nat

VARIABLES
    clock,    \* the time
    cached,   \* the client's token and what it remembers of it
    holder,   \* who holds the mutex of the client
    asker     \* asker[a] : where a is, the token it was given and when

tokenVars == <<clock, cached, holder, asker>>

\* A token lives for life seconds from its issue at SSO; the client reads it
\* at got and is told its life or not.
NoToken == [issued |-> 0, got |-> 0, life |-> 0, stated |-> FALSE]
Dies(t) == t.issued + t.life
Expiry(t) == t.got + (IF t.stated THEN t.life ELSE Default)

\* Mutant: the token is used up to its expiry.
FreshToTheEnd(t) == t # NoToken /\ clock < Expiry(t)

\* getToken's test of the cached token.
Fresh(t) == t # NoToken /\ clock < Expiry(t) - Margin

TokenInit ==
    /\ clock = 1
    /\ cached = NoToken
    /\ holder = NoOne
    /\ asker = [a \in Askers |-> [at |-> "idle", left |-> Queries,
                                  token |-> NoToken, since |-> 0]]

Goes(a, at) == asker' = [asker EXCEPT ![a].at = at]

\* getToken returns t: the mutex is released and the query can be sent.
HandOut(a, t) ==
    /\ holder' = NoOne
    /\ asker' = [asker EXCEPT ![a].at = "has", ![a].token = t,
                              ![a].since = clock]

\* The query of a is over, with an answer or an error.
Ends(a) ==
    asker' = [asker EXCEPT ![a].at = "idle", ![a].left = @ - 1,
                           ![a].token = NoToken, ![a].since = 0]

\* Mutant: the cached token is looked at before the mutex is taken.
LockAfterTheTest(a) ==
    /\ asker[a].at = "idle" /\ asker[a].left > 0
    /\ IF Fresh(cached) THEN HandOut(a, cached) /\ UNCHANGED holder
                        ELSE Goes(a, "asking") /\ UNCHANGED holder
    /\ UNCHANGED <<clock, cached>>

\* getToken takes the mutex and hands out the cached token, or asks SSO.
Lock(a) ==
    /\ asker[a].at = "idle" /\ asker[a].left > 0
    /\ holder = NoOne
    /\ IF Fresh(cached)
       THEN HandOut(a, cached)
       ELSE holder' = a /\ Goes(a, "asking")
    /\ UNCHANGED <<clock, cached>>

\* External: SSO issues a token; the answer is on its way.
Issue(a) ==
    /\ asker[a].at = "asking"
    /\ \E life \in Lives, stated \in BOOLEAN :
          asker' = [asker EXCEPT ![a].at = "answered",
                      ![a].token = [issued |-> clock, got |-> 0,
                                    life |-> life, stated |-> stated]]
    /\ UNCHANGED <<clock, cached, holder>>

\* The answer has been read: the token is kept, with its expiry.
Keep(a) ==
    /\ asker[a].at = "answered"
    /\ cached' = [asker[a].token EXCEPT !.got = clock]
    /\ HandOut(a, cached')
    /\ UNCHANGED clock

\* Mutant: the mutex is not released on an error.
RefuseLocked(a) ==
    /\ asker[a].at \in {"asking", "answered"}
    /\ Ends(a)
    /\ UNCHANGED <<clock, cached, holder>>

\* SSO refuses, or its answer cannot be read: the query ends in an error and
\* the cached token stays as it was.
Refuse(a) ==
    /\ asker[a].at \in {"asking", "answered"}
    /\ holder' = NoOne
    /\ Ends(a)
    /\ UNCHANGED <<clock, cached>>

\* External: SSO never answers, and PostForm has no timeout.
Hang(a) ==
    /\ asker[a].at = "asking"
    /\ Goes(a, "hung")
    /\ UNCHANGED <<clock, cached, holder>>

\* doGet sends the query with the token, and its own timeout ends it.
Query(a) ==
    /\ asker[a].at = "has"
    /\ Ends(a)
    /\ UNCHANGED <<clock, cached, holder>>

Tick ==
    /\ clock < MaxClock
    /\ clock' = clock + 1
    /\ UNCHANGED <<cached, holder, asker>>

Asks(a) ==
    Lock(a) \/ Issue(a) \/ Keep(a) \/ Refuse(a) \/ Hang(a) \/ Query(a)

TokenNext == Tick \/ \E a \in Askers : Asks(a)

TokenSpec == TokenInit /\ [][TokenNext]_tokenVars

\* The mutex is fair to its waiters, and every call but a hung one returns.
TokenFairness ==
    \A a \in Askers :
        /\ SF_tokenVars(Lock(a))
        /\ WF_tokenVars(Keep(a) \/ Refuse(a) \/ Query(a))

Served(a) == asker[a].at = "idle" /\ asker[a].left = 0
Hung == \E a \in Askers : asker[a].at = "hung"

-----------------------------------------------------------------------------

\* A token about to be sent is still alive at SSO, although its expiry was
\* counted from the reading of the answer and time passes between getToken
\* and doGet: the margin pays for both as long as together they stay below
\* it. Excluded are the tokens whose life the client had to guess and those
\* that live no longer than the margin, which are never served from the cache.
TokenOutlivesQuery ==
    \A a \in Askers :
        LET t == asker[a].token
            spent == (clock - asker[a].since) + (t.got - t.issued)
        IN  asker[a].at = "has" /\ t.stated /\ t.life > Margin
            /\ spent < Margin
            => clock < Dies(t)

\* No goroutine asks SSO for a token while the client holds a fresh one: those
\* that queued behind a refresh take its result.
OneRefresh ==
    \A a \in Askers : asker[a].at \in {"asking", "answered"}
        => holder = a /\ ~Fresh(cached)

\* The types of the client's token, of its mutex and of what a goroutine keeps
\* between getToken and the end of its query.
Token == [issued : Nat, got : Nat, life : Nat, stated : BOOLEAN]
TokenTypeOK ==
    /\ clock \in Nat
    /\ cached \in Token
    /\ holder \in Askers \cup {NoOne}
    /\ asker \in [Askers ->
                    [at : {"idle", "asking", "answered", "has", "hung"},
                     left : 0..Queries, token : Token, since : Nat]]
    /\ \A a \in Askers : asker[a].at # "idle" => asker[a].left > 0

\* The mutex belongs to the goroutine that is in its request to SSO, and a
\* request is begun, and goes on, without a fresh token in the client.
RefreshInv ==
    \A a \in Askers :
        /\ asker[a].at \in {"asking", "answered", "hung"} <=> holder = a
        /\ asker[a].at \in {"asking", "answered"} => ~Fresh(cached)

\* A token was issued before it was read, and read before it was handed out.
InTime(t) == t.issued <= t.got /\ t.got <= clock

\* A token in use was handed out when it had been read, or while it was fresh.
HandedOut(a) ==
    LET t == asker[a].token
    IN  /\ InTime(t) /\ t.got <= asker[a].since /\ asker[a].since <= clock
        /\ asker[a].since = t.got \/ asker[a].since < Expiry(t) - Margin

TimesInv ==
    /\ InTime(cached)
    /\ \A a \in Askers :
          /\ asker[a].at = "answered" => asker[a].token.issued <= clock
          /\ asker[a].at = "has" => HandedOut(a)

\* The inductive invariant behind TokenOutlivesQuery and OneRefresh.
TokenInv == TokenTypeOK /\ RefreshInv /\ TimesInv

\* Every query of every operator ends, unless SSO leaves a request hanging.
QueriesEnd == <>(Hung \/ \A a \in Askers : Served(a))
=============================================================================
