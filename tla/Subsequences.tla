---------------------------- MODULE Subsequences ----------------------------
(* What is left of a sequence when only the elements of a set are kept:    *)
(* SelectSeq, stated without recursion, by the rank of each element that   *)
(* stays, so that theorems can be proved about it (SubsequencesProofs).    *)
EXTENDS Integers, Sequences, FiniteSets

(* The n-th of the places in ps, in their order *)
Rank(ps, k)  == Cardinality({j \in ps : j <= k})
Nth(ps, n) == CHOOSE k \in ps : Rank(ps, k) = n

Chosen(q, ps) == [n \in 1..Cardinality(ps) |-> q[Nth(ps, n)]]

Where(q, S)   == {k \in DOMAIN q : q[k] \in S}
Keeping(q, S) == Chosen(q, Where(q, S))
=============================================================================
