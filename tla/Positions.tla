------------------------------ MODULE Positions ------------------------------
(* Sets of positions in a sequence, and the sequence a set of them makes.   *)
EXTENDS Naturals, FiniteSets

\* The members of S in increasing order.
InOrder(S) ==
    [n \in 1 .. Cardinality(S) |-> CHOOSE i \in S : Cardinality({j \in S : j < i}) = n - 1]
=============================================================================
