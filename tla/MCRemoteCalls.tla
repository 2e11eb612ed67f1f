---------------------------- MODULE MCRemoteCalls ---------------------------
(***************************************************************************)
(* A cluster's remote calls: API calls through the two retry loops, and    *)
(* RHOBS queries that share one token.  Ctrl-C ends the context of the     *)
(* first and does not reach the second.  They share no state, so a         *)
(* behaviour runs one kind; the other one's variables stay as they began.  *)
(***************************************************************************)
EXTENDS RetriedCalls, RhobsToken

VARIABLE kind   \* the calls this behaviour makes

remoteVars == <<retryVars, tokenVars, kind>>

\* Two operators; the times are in steps of ten seconds.
TwoAskers == {"camo", "rmo"}
TwoLives == {2, 5}

RemoteInit ==
    /\ RetryInit
    /\ TokenInit
    /\ kind \in {"api", "rhobs"}

RemoteNext ==
    /\ UNCHANGED kind
    /\ \/ kind = "api" /\ RetryNext /\ UNCHANGED tokenVars
       \/ kind = "rhobs" /\ TokenNext /\ UNCHANGED retryVars

RemoteSpec ==
    /\ RemoteInit
    /\ [][RemoteNext]_remoteVars
    /\ kind = "api" => RetryFairness
    /\ kind = "rhobs" => TokenFairness

\* The fields of a call and of a query stay in their ranges, and the mutex
\* belongs to the one operator that is asking for a token.
TypeOK ==
    /\ \A c \in Callers :
          /\ call[c].at \in {"call", "sent", "sleep", "result", "wait",
                             "done"}
          /\ {call[c].inner, call[c].outer} \subseteq 0..MaxRetries
    /\ cancelled \in BOOLEAN
    /\ holder \in Askers \cup {NoOne}
    /\ \A a \in Askers :
          /\ asker[a].at \in {"idle", "asking", "answered", "has", "hung"}
          /\ asker[a].left \in 0..Queries
          /\ asker[a].at \in {"asking", "answered", "hung"} <=> holder = a

\* Every API call ends, with an answer or an error; every RHOBS query ends
\* too, unless SSO leaves one hanging: then they all wait for its mutex.
EveryoneEnds ==
    /\ kind = "api" => CallsEnd
    /\ kind = "rhobs" => QueriesEnd
=============================================================================
