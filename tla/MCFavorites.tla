---------------------------- MODULE MCFavorites ----------------------------
(* Constants for the run of Favorites. *)
EXTENDS Favorites, TLC

CONSTANTS p1, p2, i1, i2

TwoPages      == {p1, p2}
TwoAerodromes == {i1, i2}

\* Pages are interchangeable, and so are aerodromes.
PageSymmetry  == Permutations(TwoPages) \cup Permutations(TwoAerodromes)
=============================================================================
