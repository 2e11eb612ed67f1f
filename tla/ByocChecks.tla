---------------------------- MODULE ByocChecks ----------------------------
(***************************************************************************)
(* pkg/checks/byoc/byoc.go: the user's own commands, each a check.  Its    *)
(* only fact:                                                              *)
(*   commands   a sequence of [name, code, expected, output, partial]: the *)
(*              exit code, the one asked for, and whether the expressions  *)
(*              allow the output; partial is output for a command that was *)
(*              killed before it wrote all of it                           *)
(*                                                                         *)
(* A command that ends by itself answers "ok".  One that its deadline or   *)
(* Ctrl-C ends is "killed"; "error" is one that could not be started, or   *)
(* that ended well at the very moment of its deadline.                     *)
(***************************************************************************)
EXTENDS CheckResults

\* The commands of the file, then that of the command line.
Order(c) == [i \in DOMAIN c.commands |-> c.commands[i].name]

Outcomes == {"ok", "killed", "error"}

\* exec.ExitError has it: a process that a signal ends has -1, and the branch
\* for the deadline comes after the one of the ExitError.
ExitCode(command, answer) == IF answer = "killed" THEN -1 ELSE command.code

CommandStatus(command, answer) ==
  LET output == IF answer = "killed" THEN command.partial ELSE command.output
  IN  IF /\ answer # "error"
         /\ ExitCode(command, answer) = command.expected
         /\ output THEN "PASS"
      ELSE "FAIL"

Calls(check) == 1

\* The commands run in their order, and each leaves one result: names need
\* not differ.
Results(check, c, ans, past) ==
  One(check, CommandStatus(c.commands[Len(past) + 1], ans[1]))
=============================================================================
