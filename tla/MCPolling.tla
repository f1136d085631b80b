----------------------------- MODULE MCPolling -----------------------------
(* Constants for the run of JobPolling. *)
EXTENDS JobPolling

CONSTANTS i1, i2

TwoAerodromes == {i1, i2}
=============================================================================
