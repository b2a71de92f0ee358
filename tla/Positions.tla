------------------------------ MODULE Positions ------------------------------
(***************************************************************************)
(* Filtering a sequence without leaving its order, as the comprehensions   *)
(* of the code do, in terms that do not recur: by the positions kept.      *)
(***************************************************************************)
EXTENDS Integers, FiniteSets

\* The i-th of the positions P, counted from the front.
Nth(P, i) == CHOOSE m \in P : Cardinality({l \in P : l <= m}) = i

\* The elements of s at the positions P, in their order.
Picked(s, P) == [i \in 1..Cardinality(P) |-> s[Nth(P, i)]]
=============================================================================
