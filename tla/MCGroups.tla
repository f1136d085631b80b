------------------------------ MODULE MCGroups -------------------------------
(* Constants for the run of ExtractionGroups. *)
EXTENDS ExtractionGroups, TLC

Lists(strips, n) == UNION {[1..k -> strips] : k \in 0..n}
D(number, letters) == [number |-> number, letters |-> letters]

\* Up to two strips 08/26 on a chart, with surfaces that may disagree, and
\* perhaps a chart on which the one beside them is 08G/26G.
ParallelReadings ==
  Lists({Strip(D(8, <<>>), D(26, <<>>), surface) :
           surface \in {<<"asphalt">>, <<"concrete", "asphalt">>,
                        <<"grass">>, <<>>}}, 2)
    \cup {<<Strip(D(8, <<"G">>), D(26, <<"G">>), <<"grass">>)>>}

\* Up to three runways of an airport with 07L, 07R and 18, in any order, and
\* what models made of their high ends.
AirportReadings ==
  {list \in Lists({Strip(D(7, <<"L">>), D(25, <<"R">>), <<"asphalt">>),
                   Strip(D(7, <<"R">>), None, <<"asphalt">>),
                   Strip(D(7, <<"R">>), D(25, <<"R">>), <<"asphalt">>),
                   Strip(D(18, <<>>), None, <<"concrete">>)}, 3) :
     \A i, k \in DOMAIN list : list[i].le = list[k].le => i = k}

AllReadings == ParallelReadings \cup AirportReadings

\* A rung and a budget of small numbers: a picture that is within bounds, one
\* with too many bytes that is small otherwise, one that fits at the second
\* rung, and one that never fits.
Rungs       == <<20, 15, 10>>
Picture(edge, bytes, x, y, z) == [edge |-> edge, bytes |-> bytes,
                                  at |-> <<x, y, z>>]
AllPictures == {Picture(20, 3, 3, 2, 1), Picture(12, 5, 6, 4, 2),
                Picture(40, 9, 5, 3, 2), Picture(40, 20, 9, 7, 5)}

\* An elevation that one model reads rounded or wrong, and a city.
TwoFields   == {"elevation_ft", "city"}
Tolerances  == [elevation_ft |-> 2]
Cities      == {[word |-> "mainz", as |-> "Mainz"],
                [word |-> "mainz", as |-> "MAINZ"],
                [word |-> "worms", as |-> "Worms"]}
Elevations  == {"elevation_ft" :> e : e \in {1486, 1488, 1490}} \cup {<<>>}
Towns       == {"city" :> c : c \in Cities} \cup {<<>>}
SomeGeo     == {e @@ c : e \in Elevations, c \in Towns}

\* Lines of a tower by two names and of a service nobody knows, written with
\* one or three digits, one and two steps of the tolerance apart.
Line(label, khz, digits) == [label |-> label, khz |-> khz, digits |-> digits]
SomeLines == {Line(<<"tower", "turm">>, 118700, 1), Line(<<"twr">>, 118700, 3),
              Line(<<"twr">>, 118705, 3), Line(<<"twr">>, 118720, 3),
              Line(<<"radar">>, 118700, 1)}
SomeFreqs == {list \in Lists(SomeLines, 2) :
                \A i, k \in DOMAIN list : list[i] = list[k] => i = k}
=============================================================================
