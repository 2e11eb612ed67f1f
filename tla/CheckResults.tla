---------------------------- MODULE CheckResults ----------------------------
(***************************************************************************)
(* What every check of pkg/checks works with: the statuses, a result, and  *)
(* the answers to the calls of a check.                                    *)
(*                                                                         *)
(* A checker module defines, for a record c of the facts its checks ask    *)
(* for and a function ans of the answers to the calls of one check,        *)
(*   Order                          its checks, in the order they run in,  *)
(*   Calls(check)                   how many calls a check makes at most,  *)
(*   Results(check, c, ans, past)   the results it adds to those of past   *)
(*                                  (RMO's checks look at lists instead).  *)
(***************************************************************************)
EXTENDS Integers, FiniteSets, FiniteSetsExt, Sequences, SequencesExt

Statuses == {"PASS", "WARNING", "FAIL", "SKIP", "INFO", "UNKNOWN",
             "ACCESS_DENIED"}

Result(check, status) == [check |-> check, status |-> status]
One(check, status) == <<Result(check, status)>>

StatusesOf(rs) == {rs[i].status : i \in DOMAIN rs}
Alarms == {"WARNING", "FAIL"}

\* A call is answered, refused (IsAccessError), or fails in another way.
Answers == {"ok", "denied", "error"}

\* The fact c.elevation is "ok" when CanElevate, or why not: "off",
\* "access_request" or "forbidden".  Whatever the reason, ElevationSkipResult
\* has one status.
CanElevate(c) == c.elevation = "ok"
ElevationSkip == "ACCESS_DENIED"

\* Mutant: whoever is refused does not see the deployment.
AvailabilityStatusOfAny(answer, available) ==
  IF answer = "ok" /\ available = "True" THEN "PASS" ELSE "FAIL"

\* The Available condition of a deployment, available being "none" when there
\* is no deployment; several checkers read it alike.
AvailabilityStatus(answer, available) ==
  IF answer = "denied" THEN ElevationSkip
  ELSE IF answer = "ok" /\ available = "True" THEN "PASS"
  ELSE "FAIL"

\* Whether all of the calls first..last were answered.
AllRead(ans, first, last) == \A i \in first..last : ans[i] = "ok"

\* What a check says of a call without an answer: that it was refused, or
\* else the status it has for errors, which is SKIP in many.
NoAnswer(answer, status) ==
  IF answer = "denied" THEN "ACCESS_DENIED" ELSE status
Unread(answer) == NoAnswer(answer, "SKIP")

\* How bad a status is.
Rank(status) == CASE status = "FAIL" -> 2 [] status = "WARNING" -> 1
                  [] OTHER -> 0
=============================================================================
