----------------------------- MODULE Ascending -----------------------------
(* The elements of a finite set of numbers in ascending order: what the    *)
(* directory scan of a *.MSG area leaves after its sort, and the index of  *)
(* a JAM base after the records of no message are skipped.                 *)
EXTENDS Integers, FiniteSets

UpTo(S, u) == {v \in S : v <= u}

InOrder(S) ==
  [n \in 1 .. Cardinality(S) |-> CHOOSE u \in S : Cardinality(UpTo(S, u)) = n]
=============================================================================
