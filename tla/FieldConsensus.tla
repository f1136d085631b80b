--------------------------- MODULE FieldConsensus ---------------------------
(***************************************************************************)
(* What ExtractionRunner makes of the scalar fields of an aerodrome        *)
(* ("geo") and of its frequencies.  Chart by chart both models are asked;  *)
(* what both read on one chart is merged into what earlier charts gave;    *)
(* the result is written at the end.  Of the calls only the outcome is     *)
(* kept: both models answer, or the chart is left out (ProviderCalls).     *)
(*                                                                         *)
(* The value of a field is a number, in units that make its tolerance one  *)
(* of Tolerance, or a text: a word and how it is written.  A frequency is  *)
(* in kHz, with the fractional digits it was written with.                 *)
(***************************************************************************)
EXTENDS Integers, Sequences, FiniteSetsExt, Places

CONSTANTS
  GeoReadings,   \* what a model may read: a partial function on fields
  FreqReadings,  \* what a model may read: a list of lines
  GeoFields,     \* _GEO_FIELDS
  Tolerance,     \* of the fields that are numbers
  MaxCandidates  \* charts of a group, MAX_CANDIDATES_PER_GROUP at most

\* A line as a model gives it; of a number that is none, khz is Unparsed.
Lines == [label : Seq(STRING), khz : Int, digits : Int]

ASSUME FieldAssumption ==
  /\ FreqReadings \subseteq Seq(Lines)
  /\ DOMAIN Tolerance \subseteq GeoFields /\ MaxCandidates \in Nat
  /\ \A f \in DOMAIN Tolerance :
       /\ Tolerance[f] \in Nat
       /\ \A reading \in GeoReadings : f \in DOMAIN reading => reading[f] \in Int

VARIABLES
  group,    \* the field group that is run
  status,   \* "running", "accepted", "no_consensus" or "failed"
  left,     \* candidate charts that are left
  vote,     \* what the two models read on the chart at hand
  voted,    \* the votes on scalars so far (history)
  geo,      \* accumulator of _run_geo
  freqs     \* merged of _run_frequencies, without the keys

fieldVars == <<group, status, left, vote, voted, geo, freqs>>

NoVote     == [a |-> <<>>, b |-> <<>>, cast |-> FALSE]
Cast(a, b) == [a |-> a, b |-> b, cast |-> TRUE]
Distance(x, y) == Max({x - y, y - x})

-----------------------------------------------------------------------------
(* Scalar fields.                                                          *)

\* _agree and _agree_int_with_unit: texts agree up to case and blanks.
Agrees(f, a, b) == IF f \in DOMAIN Tolerance
                   THEN Distance(a[f], b[f]) <= Tolerance[f]
                   ELSE a[f].word = b[f].word

\* The first model's value is taken.
AgreedGeo(a, b) ==
  [f \in {f \in DOMAIN a \cap DOMAIN b : Agrees(f, a, b)} |-> a[f]]

\* Mutant: a later chart overwrites what an earlier one gave.
OverwriteGaps(old, new) ==
  [f \in DOMAIN old \cup DOMAIN new |-> IF f \in DOMAIN new THEN new[f]
                                                            ELSE old[f]]

FillGaps(old, new) ==
  [f \in DOMAIN old \cup DOMAIN new |-> IF f \in DOMAIN old THEN old[f]
                                                            ELSE new[f]]

-----------------------------------------------------------------------------
(* Frequencies.                                                            *)

FrequencyType == {"twr", "gnd", "atis", "afis", "app", "dep", "del", "info",
                  "radio", "cta", "fis", "emergency", "other"}

\* The words that are no values of the enum but stand for one.
Aliases == [
  tower |-> "twr", turm |-> "twr", vdf |-> "twr",
  ground |-> "gnd", boden |-> "gnd", rollkontrolle |-> "gnd",
  approach |-> "app", anflug |-> "app", anflugkontrolle |-> "app",
  departure |-> "dep", abflug |-> "dep", abflugkontrolle |-> "dep",
  delivery |-> "del", freigabe |-> "del", information |-> "info",
  funk |-> "radio", notfrequenz |-> "emergency", notruf |-> "emergency"]
NoType  == "no_type"

MapWord(w) == IF w \in FrequencyType THEN w
              ELSE IF w \in DOMAIN Aliases THEN Aliases[w] ELSE NoType

\* A label is the sequence of its parts: the first that is known counts.
MapFreqType(label) ==
  LET known == {i \in DOMAIN label : MapWord(label[i]) # NoType}
  IN IF known = {} THEN NoType ELSE MapWord(label[Min(known)])

\* _parse_freq_mhz: what is not a number has no kHz.
Unparsed == 0
Normalized(list) ==
  LET line(l) == [type |-> MapFreqType(l.label), khz |-> l.khz,
                  digits |-> l.digits]
      lines == [i \in DOMAIN list |-> line(list[i])]
  IN Picked(lines, {i \in DOMAIN list : lines[i].type # NoType
                                          /\ lines[i].khz # Unparsed})

FreqTolerance == 5

\* Mutant: lines are compared as they are written.
SameLineAsWritten(x, y) == x = y

SameLine(x, y) ==
  x.type = y.type /\ Distance(x.khz, y.khz) <= FreqTolerance

\* The first line of the second model that the i-th line of the first one is
\* matched with and none before it was; 0 if there is none.
Partner(p, a, b, i) ==
  LET free == {k \in DOMAIN b : /\ SameLine(a[i], b[k])
                                /\ \A h \in 1..(i - 1) : p[h] # k}
  IN IF free = {} THEN 0 ELSE Min(free)

Partners(a, b) == LET p[i \in DOMAIN a] == Partner(p, a, b, i) IN p

MorePrecise(x, y) == IF x.digits >= y.digits THEN x ELSE y

\* The lines both models read, in the first one's order.
AgreedFreqs(listA, listB) ==
  LET a == Normalized(listA)
      b == Normalized(listB)
      p == Partners(a, b)
      matched == {i \in DOMAIN a : p[i] # 0}
  IN Picked([i \in matched |-> MorePrecise(a[i], b[p[i]])], matched)

\* The key is the type and the text of the number: the digits count.
MergeFreqs(old, agreed) == old \cup {agreed[n] : n \in DOMAIN agreed}

-----------------------------------------------------------------------------
FieldInit ==
  /\ status = "running" /\ left \in 0..MaxCandidates
  /\ vote = NoVote /\ voted = <<>>
  /\ geo = [f \in {} |-> 0] /\ freqs = {}

FieldReadings == IF group = "geo" THEN GeoReadings ELSE FreqReadings

\* The geo group stops when every field is filled.
MoreCharts == left > 0 /\ ~(group = "geo" /\ GeoFields \subseteq DOMAIN geo)
NextChart  == status = "running" /\ ~vote.cast /\ MoreCharts /\ left' = left - 1

ChartFails == NextChart /\ UNCHANGED <<group, status, vote, voted, geo, freqs>>

ChartAnswered ==
  /\ NextChart
  /\ \E a, b \in FieldReadings : vote' = Cast(a, b)
  /\ voted' = IF group = "geo" THEN Append(voted, vote') ELSE voted
  /\ UNCHANGED <<group, status, geo, freqs>>

\* A model answers with a list, not with the object it was asked for: a list
\* has no get, and the exception ends the job.
ListAnswered ==
  /\ NextChart /\ status' = "failed"
  /\ UNCHANGED <<group, vote, voted, geo, freqs>>

MergeVote ==
  /\ vote.cast /\ vote' = NoVote
  /\ IF group = "geo"
     THEN geo' = FillGaps(geo, AgreedGeo(vote.a, vote.b)) /\ UNCHANGED freqs
     ELSE freqs' = MergeFreqs(freqs, AgreedFreqs(vote.a, vote.b))
          /\ UNCHANGED geo
  /\ UNCHANGED <<group, status, left, voted>>

\* _apply_geo_dict and _write_frequencies; nothing is replaced by nothing.
\* Scalars the row has already are not written, and do not count.
WriteGroup ==
  /\ status = "running" /\ ~vote.cast /\ ~MoreCharts
  /\ \E known \in SUBSET DOMAIN geo :
       status' = IF known = DOMAIN geo /\ freqs = {} THEN "no_consensus"
                                                     ELSE "accepted"
  /\ UNCHANGED <<group, left, vote, voted, geo, freqs>>

FieldNext ==
  \/ ChartAnswered \/ ChartFails \/ ListAnswered \/ MergeVote \/ WriteGroup

FieldSpec == /\ FieldInit /\ group \in {"geo", "frequencies"}
             /\ [][FieldNext]_fieldVars

-----------------------------------------------------------------------------
(* Properties.                                                             *)

\* A scalar comes from one chart: both models read it there within the
\* tolerance, and on no chart ranked before that one did they.  A value of
\* one model is never confirmed by the other on another chart.
NearOn(v, f) == /\ f \in DOMAIN v.a \cap DOMAIN v.b
                /\ \/ v.a[f] = v.b[f]
                   \/ f \in DOMAIN Tolerance
                        /\ v.a[f] - v.b[f] \in -Tolerance[f]..Tolerance[f]
                   \/ f \notin DOMAIN Tolerance /\ v.a[f].word = v.b[f].word
ScalarsFromFirstAgreement ==
  group = "geo" => \A f \in DOMAIN geo :
    LET near == {i \in DOMAIN voted : NearOn(voted[i], f)}
    IN near # {} /\ geo[f] = voted[Min(near)].a[f]

\* Each line of a chart supports at most one frequency; and if the lines of a
\* service lie apart by more than twice the tolerance in the first reading,
\* none that both models read is lost, whatever they call the service.
LinesOf(list, t) == {i \in DOMAIN list : MapFreqType(list[i].label) = t
                                          /\ list[i].khz # Unparsed}
FarApart(list) ==
  \A i, k \in DOMAIN list :
     i # k /\ MapFreqType(list[i].label) = MapFreqType(list[k].label)
       => Distance(list[i].khz, list[k].khz) > 2 * FreqTolerance
Common(list, other, t) ==
  {i \in LinesOf(list, t) :
     \E k \in LinesOf(other, t) :
        Distance(list[i].khz, other[k].khz) <= FreqTolerance}
LinesPairUp ==
  group = "frequencies" /\ vote.cast =>
    LET agreed == AgreedFreqs(vote.a, vote.b)
        found(t) == {n \in DOMAIN agreed : agreed[n].type = t}
    IN \A t \in FrequencyType :
         /\ Cardinality(found(t)) <= Cardinality(LinesOf(vote.a, t))
         /\ Cardinality(found(t)) <= Cardinality(LinesOf(vote.b, t))
         /\ FarApart(vote.a) =>
              Cardinality(found(t)) = Cardinality(Common(vote.a, vote.b, t))
=============================================================================
