------------------------------- MODULE Places -------------------------------
(***************************************************************************)
(* The members of a list at some of its places, in the list's order: what  *)
(* a loop keeps that walks through the list and leaves some members out.   *)
(***************************************************************************)
EXTENDS Integers, FiniteSets

Picked(list, places) ==
  LET nth(n) == CHOOSE i \in places : Cardinality({k \in places : k <= i}) = n
  IN [n \in 1..Cardinality(places) |-> list[nth(n)]]
=============================================================================
