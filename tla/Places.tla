------------------------------ MODULE Places ------------------------------
(***************************************************************************)
(* Part of a sequence, picked by the places of its elements.               *)
(***************************************************************************)
EXTENDS Naturals, FiniteSets

(* The number of the place i among the places P, and the k-th of them.      *)
Rank(P, i) == Cardinality({j \in P : j <= i})
Place(P, k) == CHOOSE i \in P : Rank(P, i) = k

(* The elements of s at the places P, in their order.                       *)
ElementsAt(s, P) == [k \in 1 .. Cardinality(P) |-> s[Place(P, k)]]
=============================================================================
