------------------------------ MODULE Selection --------------------------------
(***************************************************************************)
(* What a filter leaves of a slice: the elements at some of its positions, *)
(* in their order.  It is stated by counting positions instead of by       *)
(* recursion, so that it can be reasoned about.                            *)
(***************************************************************************)
EXTENDS Integers, FiniteSets

\* How many members of a set of numbers are no greater than x, and the k-th member.
Rank(S, x) == Cardinality({y \in S : y <= x})
Nth(S, k) == CHOOSE x \in S : Rank(S, x) = k

\* The elements of sequence s at the positions of I.
Selected(s, I) == [k \in 1..Cardinality(I) |-> s[Nth(I, k)]]
==============================================================================
