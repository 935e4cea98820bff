------------------------------- MODULE Sublists -------------------------------
(***************************************************************************)
(* Lists as a comprehension with a condition makes them from a list: the   *)
(* elements at some of its positions, in their order.  (SelectSeq says the *)
(* same by recursion, which no proof could be given about.)                *)
(***************************************************************************)
EXTENDS Naturals, FiniteSets

(* The n-th smallest of the naturals in I.                                 *)
Nth(I, n) == CHOOSE i \in I : Cardinality({j \in I : j < i}) = n - 1

(* The elements of s at the positions I.                                   *)
Those(s, I) == [n \in 1 .. Cardinality(I) |-> s[Nth(I, n)]]

=============================================================================
