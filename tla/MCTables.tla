------------------------------ MODULE MCTables ------------------------------
(* Constants for the runs of TableReplace. *)
EXTENDS TableReplace

CONSTANTS r1, r2, r3, k1, k2

ThreeRuns   == {r1, r2, r3}
TwoKeys     == {k1, k2}
=============================================================================
