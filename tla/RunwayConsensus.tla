--------------------------- MODULE RunwayConsensus ---------------------------
(***************************************************************************)
(* What ExtractionRunner makes of the runways that two vision models read  *)
(* on the charts of an aerodrome.  Chart by chart, the strips both models  *)
(* read are merged into a dictionary; at the end parallel strips get       *)
(* distinct designators and are written to ingest.runways, where a pair of *)
(* designators is unique per aerodrome.                                    *)
(*                                                                         *)
(* A designator is its number and the letters behind it: those of parallel *)
(* runways, and others, which the strips beside a better one get and which *)
(* count alike when a model reads them.  A surface that was read is the    *)
(* sequence of its tokens: "concrete/asphalt" has two, a missing one none. *)
(* Lengths and widths never decide what is written and are left out, as    *)
(* are abbreviated surfaces.                                               *)
(***************************************************************************)
EXTENDS Integers, Sequences, FiniteSetsExt, Places

CONSTANTS
  Readings,   \* the runway lists a model may read on a chart
  MaxCharts   \* candidate charts of the aerodrome

Letters     == {<<>>, <<"L">>, <<"R">>, <<"C">>}
None        == [number |-> 0, letters |-> <<>>]
Surfaces    == {"concrete", "asphalt", "gravel", "grass", "sand", "snow",
                "water", "other"}
Marks       == {"L", "R", "C"} \cup {"G", "V", "S", "W", "N", "X"}
Designators == [number : Nat, letters : Seq(Marks)]
Strips      == [le : Designators, he : Designators, surface : Seq(Surfaces)]
Rows        == [le : Designators, he : Designators \ {None}, surface : Surfaces]

ASSUME RunwayAssumption ==
  Readings \subseteq Seq(Strips) /\ MaxCharts \in Nat

VARIABLES
  phase,    \* "reading", "written", "kept" or "failed"
  charts,   \* charts done with
  chart,    \* what the two models read on the chart at hand
  merged,   \* the merged strips by key
  lists,    \* the strips the models agreed on, for each chart (history)
  table     \* the rows of ingest.runways the run wrote

vars == <<phase, charts, chart, merged, lists, table>>

NoChart == [read |-> FALSE, a |-> <<>>, b |-> <<>>]
Strip(le, he, surface) == [le |-> le, he |-> he, surface |-> surface]

-----------------------------------------------------------------------------
(* The consensus on one chart.                                             *)

Opposite(d) ==
  IF d.number \in 1..36 /\ d.letters \in Letters
  THEN [number  |-> ((d.number + 17) % 36) + 1,
        letters |-> CASE d.letters = <<"L">> -> <<"R">>
                      [] d.letters = <<"R">> -> <<"L">>
                      [] OTHER -> d.letters]
  ELSE None

\* Mutant: rule 4 is dropped, and what one model read is taken.
ResolveHeTrusting(le, a, b) ==
  IF a # None /\ b # None THEN IF a = b THEN a ELSE None
  ELSE IF a # None THEN a ELSE IF b # None THEN b ELSE Opposite(le)

\* The rules of _resolve_he: both models read one, or what at most one of
\* them read is the opposite of the low end.
ResolveHe(le, a, b) ==
  IF a # None /\ b # None THEN IF a = b THEN a ELSE None
  ELSE IF {a, b} \subseteq {None, Opposite(le)} THEN Opposite(le) ELSE None

\* A compound name counts as asphalt before concrete, grass and gravel.
MapSurface(tokens) ==
  IF Len(tokens) = 1 THEN tokens[1]
  ELSE LET is(s) == \E i \in DOMAIN tokens : tokens[i] = s
       IN CASE is("asphalt")  -> "asphalt"
            [] is("concrete") -> "concrete"
            [] is("grass")    -> "grass"
            [] is("gravel")   -> "gravel"
            [] OTHER          -> "other"

AgreeSurface(a, b) ==
  LET common == {i \in DOMAIN a : \E k \in DOMAIN b : a[i] = b[k]}
  IN IF a = b /\ a # <<>> THEN MapSurface(a)
     ELSE IF common # {} THEN a[Min(common)] ELSE "other"

LowEnds(list)   == {list[i].le : i \in DOMAIN list} \ {None}
ByLe(list, le)  == Picked(list, {i \in DOMAIN list : list[i].le = le})
Shorter(s, t)   == IF Len(s) < Len(t) THEN s ELSE t
Resolved(list)  == Picked(list, {i \in DOMAIN list : list[i].he # None})
Entry(a, b)     == Strip(a.le, ResolveHe(a.le, a.he, b.he),
                         AgreeSurface(a.surface, b.surface))

\* Mutant: the lists are paired by position before they are grouped.
AgreedByIndex(a, b, le) ==
  LET pairs == [i \in DOMAIN Shorter(a, b) |->
                  IF a[i].le = b[i].le THEN Entry(a[i], b[i])
                  ELSE Strip(le, None, "other")]
  IN ByLe(Resolved(pairs), le)

\* The strips of one low end that both models read, paired by position.
Agreed(a, b, le) ==
  LET x == ByLe(a, le)
      y == ByLe(b, le)
  IN Resolved([i \in DOMAIN Shorter(x, y) |-> Entry(x[i], y[i])])

AgreedOnChart(c) ==
  [le \in LowEnds(c.a) \cap LowEnds(c.b) |-> Agreed(c.a, c.b, le)]

-----------------------------------------------------------------------------
(* The merge across charts.                                                *)

SamePair(x, y) == x.le = y.le /\ x.he = y.he

\* Mutant: the surface is part of every key.
KeyWithSurface(list, i) == <<list[i].le, list[i].he, list[i].surface>>

Key(list, i) ==
  IF \E k \in 1..(i - 1) : SamePair(list[k], list[i])
  THEN <<list[i].le, list[i].he, list[i].surface>>
  ELSE <<list[i].le, list[i].he>>

Keys(list) == {Key(list, i) : i \in DOMAIN list}
First(list, key) ==
  list[CHOOSE i \in DOMAIN list :
         Key(list, i) = key /\ \A k \in 1..(i - 1) : Key(list, k) # key]

\* The earlier chart's strip stays.
Merge(agreed) ==
  [key \in DOMAIN merged \cup UNION {Keys(agreed[le]) : le \in DOMAIN agreed} |->
     IF key \in DOMAIN merged THEN merged[key]
     ELSE First(agreed[key[1]], key)]

-----------------------------------------------------------------------------
(* Designators for parallel strips.                                        *)

SurfaceRank ==
  [s \in Surfaces |->
     CASE s = "concrete" -> 0 [] s = "asphalt" -> 1 [] s = "gravel" -> 2
       [] s = "grass" -> 3    [] s = "sand" -> 4    [] s = "snow" -> 5
       [] s = "water" -> 6    [] s = "other" -> 7]

\* A paved strip that is not the primary one gets the default.
SurfaceSuffix ==
  [s \in Surfaces |->
     CASE s = "grass" -> "G" [] s = "gravel" -> "V" [] s = "sand" -> "S"
       [] s = "water" -> "W" [] s = "snow" -> "N"   [] OTHER -> "X"]

Suffixed(d, s)  == [d EXCEPT !.letters = Append(@, SurfaceSuffix[s])]
SameLe(key)     == {k \in DOMAIN merged : merged[k].le = merged[key].le}
Rank(key)       == SurfaceRank[merged[key].surface]

\* Mutant: the strips are not sorted, and the first key is the primary one.
PrimariesUnsorted ==
  {CHOOSE p \in SameLe(key) : Len(p) = 2 : key \in DOMAIN merged}

\* One strip of best rank for every low end.
Primaries ==
  {CHOOSE p \in SameLe(key) : \A k \in SameLe(key) : Rank(p) <= Rank(k) :
     key \in DOMAIN merged}

\* Mutant: paved strips keep their designator.
DisambiguatedUnpaved(key) ==
  LET rw == merged[key]
  IN IF key \in Primaries \/ rw.surface \in {"concrete", "asphalt"} THEN rw
     ELSE Strip(Suffixed(rw.le, rw.surface), Suffixed(rw.he, rw.surface),
                rw.surface)

Disambiguated(key) ==
  LET rw == merged[key]
  IN IF key \in Primaries THEN rw
     ELSE Strip(Suffixed(rw.le, rw.surface), Suffixed(rw.he, rw.surface),
                rw.surface)

PairsDiffer ==
  \A k, l \in DOMAIN merged :
     k # l => ~SamePair(Disambiguated(k), Disambiguated(l))

-----------------------------------------------------------------------------
Init ==
  /\ phase = "reading" /\ charts = 0 /\ chart = NoChart
  /\ merged = [key \in {} |-> None]
  /\ lists = {} /\ table = {}

\* Both models answer for the next chart.
CallBothProviders ==
  /\ phase = "reading" /\ charts < MaxCharts /\ chart = NoChart
  /\ \E a, b \in Readings : chart' = [read |-> TRUE, a |-> a, b |-> b]
  /\ UNCHANGED <<phase, charts, merged, lists, table>>

\* One of them raises, and the chart is left out.
ProviderFails ==
  /\ phase = "reading" /\ charts < MaxCharts /\ chart = NoChart
  /\ charts' = charts + 1
  /\ UNCHANGED <<phase, chart, merged, lists, table>>

MergeChart ==
  /\ chart.read
  /\ merged' = Merge(AgreedOnChart(chart))
  /\ lists' = lists \cup {AgreedOnChart(chart)}
  /\ charts' = charts + 1 /\ chart' = NoChart
  /\ UNCHANGED <<phase, table>>

Finished == phase = "reading" /\ charts = MaxCharts /\ chart = NoChart

\* The old rows are deleted and the new ones inserted; without new ones the
\* old ones are kept; and the unique index may refuse a pair.
WriteRunways ==
  /\ Finished /\ merged # <<>> /\ PairsDiffer
  /\ table' = {Disambiguated(key) : key \in DOMAIN merged}
  /\ phase' = "written"
  /\ UNCHANGED <<charts, chart, merged, lists>>

KeepRunways ==
  /\ Finished /\ merged = <<>>
  /\ phase' = "kept"
  /\ UNCHANGED <<charts, chart, merged, lists, table>>

WriteFails ==
  /\ Finished /\ ~PairsDiffer
  /\ phase' = "failed"
  /\ UNCHANGED <<charts, chart, merged, lists, table>>

Next ==
  \/ CallBothProviders \/ ProviderFails \/ MergeChart
  \/ WriteRunways \/ KeepRunways \/ WriteFails

Spec == Init /\ [][Next]_vars

-----------------------------------------------------------------------------
(* Properties.                                                             *)

TypeOK ==
  /\ phase \in {"reading", "written", "kept", "failed"}
  /\ charts \in 0..MaxCharts
  /\ chart.read \in BOOLEAN /\ {chart.a, chart.b} \subseteq Readings \cup {<<>>}
  /\ \A key \in DOMAIN merged : merged[key] \in Rows
  /\ table \subseteq Rows

\* _resolve_he never guesses: the high end that a chart brings in is the
\* opposite of the low end, or it is what both models read.
HighEndIsSafe ==
  [][\A key \in DOMAIN merged' \ DOMAIN merged :
       LET rw == merged'[key]
           both == \A list \in {chart.a, chart.b} : \E i \in DOMAIN list :
                      list[i].le = rw.le /\ list[i].he = rw.he
       IN rw.he # None /\ (rw.he = Opposite(rw.le) \/ both)]_vars

\* The order in which a model lists runways of different low ends does not
\* matter (07L/07R/07C against 07L/07C/07R, as seen on EDDF).
Reordered(list) ==
  {[i \in DOMAIN list |-> list[p[i]]] :
     p \in {q \in [DOMAIN list -> DOMAIN list] :
              \A i, k \in DOMAIN list : q[i] = q[k] => i = k}}
SameGroups(x, y) == \A le \in LowEnds(x) : ByLe(x, le) = ByLe(y, le)
ListingOrderIrrelevant ==
  \A b \in Reordered(chart.b) :
     SameGroups(chart.b, b)
       => AgreedOnChart([chart EXCEPT !.b = b]) = AgreedOnChart(chart)

\* How the charts list the strips of a pair of designators.
Pairs           == {<<merged[k].le, merged[k].he>> : k \in DOMAIN merged}
OfPair(list, p) ==
  Picked(list, {i \in DOMAIN list : <<list[i].le, list[i].he>> = p})
Listings(p)     == {OfPair(agreed[p[1]], p) :
                      agreed \in {l \in lists : p[1] \in DOMAIN l}}
MoreSurfaces(list) == {list[i].surface : i \in DOMAIN list \ {1}}
Consistent(p)   ==
  \A x, y \in Listings(p) : \/ MoreSurfaces(x) \subseteq MoreSurfaces(y)
                            \/ MoreSurfaces(y) \subseteq MoreSurfaces(x)
RowsOf(p)       == {k \in DOMAIN merged : <<merged[k].le, merged[k].he>> = p}

\* Charts that agree on what lies beside the first strip add up to no more
\* strips than one of them lists, even if they differ on the first surface.
NoMoreStripsThanListed(p) ==
  \E list \in Listings(p) : Cardinality(RowsOf(p)) <= Len(list)
ConsistentChartsAddNoStrip ==
  \A p \in Pairs : Consistent(p) => NoMoreStripsThanListed(p)

\* Every low end that was read is written, for a strip that has the best
\* surface of those that share it: a grass strip read first does not take the
\* designator from the paved one beside it.
PrimaryHasBestSurface ==
  phase = "written" =>
    \A key \in DOMAIN merged : \E rw \in table :
       /\ rw.le = merged[key].le
       /\ \A k \in SameLe(key) : SurfaceRank[rw.surface] <= Rank(k)

\* Consistent charts with at most two strips of a designator can be written,
\* unless one of them reads a pair as the strip beside another is named.
TwoStripsAreWritten ==
  (\A p, q \in Pairs :
      /\ p[1] = q[1] => p = q
      /\ \A s \in Surfaces : p # <<Suffixed(q[1], s), Suffixed(q[2], s)>>
      /\ Consistent(p) /\ \A list \in Listings(p) : Len(list) <= 2)
    => phase # "failed"

\* What _disambiguate_designators says of its result: every pair is unique.
EveryPairIsUnique == Finished => PairsDiffer
=============================================================================
