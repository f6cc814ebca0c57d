------------------------------ MODULE Listing ------------------------------
(* The sequence that lists a finite set of numbers in order. *)
EXTENDS Naturals, FiniteSets

\* The element of every rank.
Sorted(S) == [i \in 1..Cardinality(S) |-> CHOOSE x \in S : Cardinality({y \in S : y <= x}) = i]

=============================================================================
