------------------------------ MODULE Selections ------------------------------
(***************************************************************************)
(* Entries of a sequence taken by position, the members of a set in an      *)
(* order, the groups of a sequence and a sum, each in a form that can be    *)
(* proved about: SelectSeq and the folds are recursive, these are not.      *)
(***************************************************************************)
EXTENDS Naturals, Sequences, FiniteSets

\* The k-th smallest number of K.
Nth(K, k) == CHOOSE i \in K : Cardinality({j \in K : j < i}) = k - 1

\* The entries of s at the positions in K, in their order.
Selected(s, K) == [k \in 1..Cardinality(K) |-> s[Nth(K, k)]]

\* s in groups: each begins at one of the positions in K and ends before the next.
Groups(s, K) ==
  [k \in 1..Cardinality(K) |->
     SubSeq(s, Nth(K, k), IF k < Cardinality(K) THEN Nth(K, k + 1) - 1 ELSE Len(s))]

\* The members of S by the order R, a set of pairs that has no ties in S.
InOrder(S, R) ==
  [i \in 1..Cardinality(S) |->
     CHOOSE m \in S : Cardinality({n \in S : <<n, m>> \in R}) = i - 1]

\* The sum of the weights of S: how many units they are made of.
Total(S, weight) == Cardinality(UNION {{m} \X (1..weight[m]) : m \in S})
=============================================================================
