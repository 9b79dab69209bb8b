------------------------------ MODULE SortedSeq ------------------------------
(***************************************************************************)
(* Sequences in order.  Elements are placed by their rank, so that what a  *)
(* sorted sequence holds, and where, follows from cardinalities.           *)
(***************************************************************************)
EXTENDS Integers, FiniteSets, Sequences

(* The elements of S in the order of the relation `before`.                *)
InOrder(S, before(_, _)) ==
  [n \in 1..Cardinality(S) |->
     CHOOSE x \in S : Cardinality({y \in S : before(y, x)}) = n - 1]

(* The elements of s at the positions I, in the order of s.                *)
Picked(s, I) ==
  LET positions == InOrder(I, <)
  IN  [n \in 1..Cardinality(I) |-> s[positions[n]]]
=============================================================================
