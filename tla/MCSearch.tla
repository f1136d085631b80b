------------------------------ MODULE MCSearch ------------------------------
(* Constants for the runs of SearchIndex. *)
EXTENDS SearchIndex

TwoIcaos   == 1..2
ThreeIcaos == 1..3
=============================================================================
