----------------------------- MODULE MCRunModes -----------------------------
(***************************************************************************)
(* Small instances of RunModes for TLC.                                    *)
(***************************************************************************)
EXTENDS RunModes, TLC

File(state, refuse, text) ==
  [state |-> state, noElevate |-> refuse, reason |-> text]
Absent == File("absent", FALSE, "")
Bad == File("bad", FALSE, "")
Refusing == File("good", TRUE, "")
WithReason == File("good", FALSE, "team default")

Files(arg, given, found) == [arg |-> arg, given |-> given, found |-> found]

SomeConfigs ==
  {Files("none", Absent, Absent), Files("none", Absent, WithReason),
   Files("middle", Refusing, WithReason), Files("middle", Bad, Absent),
   Files("last", Refusing, Absent)}

AllFlags ==
  [noElevate : {"unset", "yes", "no"}, elevate : BOOLEAN,
   reason : {"unset", "operator health check", "SREP-1234"}]

Scope(list, byHive, saasOnly, managed, hive) ==
  [list |-> list, byHive |-> byHive, saasOnly |-> saasOnly,
   managedOps |-> managed, hiveOps |-> hive]

\* Ten clusters on one goroutine take an estimated 1200 seconds.
SomeScopes ==
  {Scope(10, FALSE, FALSE, TRUE, TRUE), Scope(1, TRUE, FALSE, TRUE, FALSE),
   Scope(0, TRUE, FALSE, TRUE, TRUE), Scope(0, FALSE, FALSE, TRUE, TRUE),
   Scope(0, FALSE, TRUE, TRUE, TRUE)}

Ocm(file, url) == [file |-> file, url |-> url]
SomeOcm == {Ocm(FALSE, ""), Ocm(FALSE, "stage"), Ocm(TRUE, "")}

Token(url, left) == [url |-> url, left |-> left]
Two(active, given) == "active" :> active @@ "given" :> given

\* 900 seconds are enough for one cluster and not for ten.
SomeFiles ==
  {Two(Token(u, l), Token("api", 4000)) :
     u \in {"api", "api.stage"}, l \in {0, 900, 4000}}
  \union {Two(Token("api", 0), Token("api.stage", 0))}
  \union {Two(Token("api", 900), Token("api", 4000))
            @@ ("production" :> Token("api", l)) : l \in {0, 4000}}
  \union {Two(Token("api.stage", 900), Token("api", 4000))
            @@ ("production" :> Token("api", 4000))}

ActiveProduction == {Two(Token("api", 0), Token("api", 4000))}
OnlyStage == {Ocm(FALSE, "stage")}
=============================================================================
