----------------------------- MODULE NaturalSets ------------------------------
(***************************************************************************)
(* Finite sets of naturals in ascending order.                             *)
(***************************************************************************)
EXTENDS Naturals, FiniteSets

(* The number of members of S up to i. *)
Rank(S, i) == Cardinality({j \in S : j <= i})

(* The members of S as a sequence, the least one first. *)
Ascending(S) == [k \in 1..Cardinality(S) |-> CHOOSE i \in S : Rank(S, i) = k]
===============================================================================
