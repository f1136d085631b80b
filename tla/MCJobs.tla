------------------------------- MODULE MCJobs -------------------------------
(* Constants for the runs of ExtractionJobs. *)
EXTENDS ExtractionJobs, TLC

CONSTANTS j1, j2, a1, a2, h1, h2

OneAerodrome   == {a1}
TwoAerodromes  == {a1, a2}
TwoJobs        == {j1, j2}
OneHandler     == {h1}
TwoHandlers    == {h1, h2}
NoBulk         == {}
BulkOfBoth     == {<<a1, a2>>}

\* Rows are interchangeable, and so are the threads.
JobSymmetry    == Permutations(Jobs) \cup Permutations(Handlers)
=============================================================================
