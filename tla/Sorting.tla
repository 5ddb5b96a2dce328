------------------------------- MODULE Sorting -------------------------------
(***************************************************************************)
(* sorted(), as it is used on entries that differ.                         *)
(***************************************************************************)
EXTENDS Integers, FiniteSets

\* `before` has the pairs of elements of S of which the first comes first.
InOrder(S, before) ==
  [n \in 1 .. Cardinality(S) |->
     CHOOSE x \in S : Cardinality({y \in S : <<y, x>> \in before}) = n - 1]
=============================================================================
