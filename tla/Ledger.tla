------------------------------- MODULE Ledger -------------------------------
(***************************************************************************)
(* What a run promises about its report, whatever the goroutines do: a     *)
(* book that only grows and never holds two contradictory entries for a    *)
(* worker, and one publication of the book.  A publication that is not     *)
(* marked as interrupted finds every job settled, and closes the book.     *)
(*                                                                         *)
(* A worker is a cluster to be checked; a job is a worker that must be     *)
(* accounted for.  Its entries are either one skip or one output for each  *)
(* operator.                                                               *)
(***************************************************************************)
EXTENDS Naturals

CONSTANTS
  Jobs,      \* the clusters of the list
  Others,    \* further workers (hive clusters), which need no entry
  Ops,       \* the operators a job has an output of when it is not skipped
  OtherOps,  \* the operators another worker may have an output of
  Unpublished

Workers == Jobs \union Others

VARIABLES
  skips,     \* the workers with a skip entry
  results,   \* <<worker, operator>>: the output entries
  published  \* Unpublished, or the book as it was published
vars == <<skips, results, published>>

Settled(j) == j \in skips \/ \A op \in Ops : <<j, op>> \in results

Closed == published # Unpublished /\ ~published.partial

Init ==
  /\ skips = {} /\ results = {}
  /\ published = Unpublished

RecordSkip(w) ==
  /\ ~Closed
  /\ w \notin skips
  /\ \A op \in Ops \union OtherOps : <<w, op>> \notin results
  /\ skips' = skips \union {w}
  /\ UNCHANGED <<results, published>>

RecordOutput(w, op) ==
  /\ ~Closed
  /\ w \notin skips
  /\ <<w, op>> \notin results
  /\ results' = results \union {<<w, op>>}
  /\ UNCHANGED <<skips, published>>

Publish(partial) ==
  /\ published = Unpublished
  /\ ~partial => \A j \in Jobs : Settled(j)
  /\ published' = [skips |-> skips, results |-> results, partial |-> partial]
  /\ UNCHANGED <<skips, results>>

Next ==
  \/ \E w \in Workers : RecordSkip(w)
  \/ \E j \in Jobs, op \in Ops : RecordOutput(j, op)
  \/ \E h \in Others, op \in OtherOps : RecordOutput(h, op)
  \/ \E partial \in BOOLEAN : Publish(partial)

Spec == Init /\ [][Next]_vars
=============================================================================
