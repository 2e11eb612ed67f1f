------------------------------- MODULE Places -------------------------------
(***************************************************************************)
(* What a loop with a condition takes out of a list, as a function of the  *)
(* places where the condition holds: SelectSeq in a form that says which   *)
(* place each element comes from.                                          *)
(***************************************************************************)
EXTENDS Integers, FiniteSets

\* The numbers of a set, from the smallest to the largest.
InOrder(S) ==
  CHOOSE f \in [1..Cardinality(S) -> S] :
    \A i, k \in DOMAIN f : i < k => f[i] < f[k]

\* The elements at some places of a list, in the order of the list.
At(s, places) ==
  [k \in 1..Cardinality(places) |-> s[InOrder(places)[k]]]
=============================================================================
