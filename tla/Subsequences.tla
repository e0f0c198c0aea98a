----------------------------- MODULE Subsequences -----------------------------
(* Sorting, filtering and removing duplicates, by the order of the indices. *)
EXTENDS Naturals, Sequences, FiniteSets

(* The p-th element of S in an order. *)
AtRank(S, order, p) == CHOOSE i \in S : Cardinality({j \in S : <<j, i>> \in order}) = p - 1

Increasing(S) == {e \in S \X S : e[1] < e[2]}
InOrder(S) == [p \in 1..Cardinality(S) |-> AtRank(S, Increasing(S), p)]

(* The elements of s whose index is in keep, in order. *)
Subsequence(s, keep) == [p \in 1..Cardinality(keep) |-> s[InOrder(keep)[p]]]
=============================================================================
