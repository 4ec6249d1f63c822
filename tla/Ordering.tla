------------------------------- MODULE Ordering -------------------------------
(***************************************************************************)
(* A finite set of integers as a list: SetToSortSeq(S, <) of the community *)
(* modules by its result instead of by how it is computed, so that proofs  *)
(* can speak of it.                                                        *)
(***************************************************************************)
EXTENDS Integers, FiniteSets

InOrder(S) ==
  CHOOSE s \in [1..Cardinality(S) -> S] :
    \A m, n \in 1..Cardinality(S) : m < n => s[m] < s[n]
=============================================================================
