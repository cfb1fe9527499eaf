-------------------------------- MODULE Lists --------------------------------
(***************************************************************************)
(* What is left of a list when the elements at some positions are erased.  *)
(***************************************************************************)
EXTENDS Integers, FiniteSets

\* Which one k is among the positions P.
Orden(P, k) == Cardinality({j \in P : j <= k})

\* The elements of s at the positions P, in their order.
EnOrden(s, P) ==
  [j \in 1 .. Cardinality(P) |-> s[CHOOSE k \in P : Orden(P, k) = j]]
=============================================================================
