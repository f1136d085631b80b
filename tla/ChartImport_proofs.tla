------------------------- MODULE ChartImport_proofs -------------------------
(***************************************************************************)
(* The rows of ingest.charts under imports, rotation requests, the script  *)
(* and the migration, for any number of rows, titles and manifests: a      *)
(* rotation stays (RotationSurvives), a title has one row once the         *)
(* migration has run (OneRowPerTitle), and an import that has read all     *)
(* rows leaves what its manifest lists (ImportMirrorsManifest).  What      *)
(* carries them is the session of the import: the titles it holds are      *)
(* still those of the rows that are still there, and no two are the same.  *)
(***************************************************************************)
EXTENDS ChartImport, FiniteSetTheorems, TLAPS

Urls   == UNION {{Url(m, t) : t \in DOMAIN m.docs} : m \in Manifests}
Charts == [title : Titles, url : Urls, rotation : Rotations]

TypeOK ==
  /\ Rows \subseteq Ids /\ \A c \in Rows : charts[c] \in Charts
  /\ import.on \in BOOLEAN /\ (import.on => import.manifest \in Manifests)
  /\ DOMAIN import.rows \subseteq Ids
  /\ \A c \in DOMAIN import.rows : import.rows[c] \in Titles
  /\ patch \in [id : Ids \cup {None}, rotation : Rotations]
  /\ migrated \in BOOLEAN /\ loose \in BOOLEAN
  /\ wanted \in [Titles -> Rotations \cup {None}]

\* What the import read of a row still holds of it, and it read no title twice.
SessionTrue ==
  /\ \A c \in Rows \cap DOMAIN import.rows : import.rows[c] = charts[c].title
  /\ \A c, d \in DOMAIN import.rows : import.rows[c] = import.rows[d] => c = d

\* An import under way has read all the rows, or it would make a twin.
NoTwins ==
  migrated /\ ~loose =>
    /\ \A c, d \in Rows : charts[c].title = charts[d].title => c = d
    /\ import.on => Rows \subseteq DOMAIN import.rows

\* With what the property says itself, this is inductive.
ChartsInv == TypeOK /\ SessionTrue /\ NoTwins /\ RotationSurvives

-----------------------------------------------------------------------------
(* What the migration keeps.                                               *)

\* In a finite set, a strict order has an element that none lies above: the
\* one with the least set of elements above it.
LEMMA FiniteHasMaximal ==
  ASSUME NEW S, IsFiniteSet(S), S # {}, NEW R,
         \A x \in S : <<x, x>> \notin R,
         \A x, y, z \in S : <<x, y>> \in R /\ <<y, z>> \in R => <<x, z>> \in R
  PROVE  \E x \in S : \A y \in S : <<x, y>> \notin R
<1> DEFINE Above(x) == {y \in S : <<x, y>> \in R}
           T == {Above(x) : x \in S}
<1>1. T \subseteq FiniteSubsetsOf(S) /\ T # {}
  <2>1. FiniteSubsetsOf(S) = SUBSET S
    BY FS_FiniteSubsetsOfFinite
  <2>2. \A x \in S : Above(x) \in SUBSET S
    OBVIOUS
  <2> HIDE DEF Above
  <2>. QED BY <2>1, <2>2
<1>2. PICK A \in T : \A B \in T : <<B, A>> \notin StrictSubsetOrdering(S)
  <2> HIDE DEF T
  <2>. QED BY <1>1, WFMin, FS_StrictSubsetOrderingWellFounded
<1>3. PICK x \in S : A = Above(x)
  OBVIOUS
<1>4. ASSUME NEW y \in S, <<x, y>> \in R PROVE FALSE
  <2>1. Above(y) \subseteq Above(x) /\ y \in Above(x) /\ y \notin Above(y)
    BY <1>4
  <2>2. <<Above(y), A>> \in StrictSubsetOrdering(S)
    BY <1>3, <2>1 DEF StrictSubsetOrdering
  <2>. QED BY <1>2, <2>2
<1>. QED BY <1>4

\* A row that exists has a natural number as its cycle and as its rotation.
LEMMA AiracType ==
  ASSUME TypeOK, NEW c \in Rows
  PROVE  c \in Nat /\ Airac(c) \in Nat /\ charts[c].rotation \in Nat
<1>1. PICK m \in Manifests : \E t \in DOMAIN m.docs : charts[c].url = Url(m, t)
  BY DEF TypeOK, Charts, Urls
<1>2. Airac(c) = MonthOf[m.edition]
  BY <1>1 DEF Airac, Url
<1>. QED BY <1>2, ManifestAssumption DEF TypeOK, Charts

\* The rows of a title are finitely many.
LEMMA OfFinite ==
  ASSUME TypeOK, NEW t
  PROVE  IsFiniteSet(Of(t)) /\ Of(t) \subseteq Rows
<1>1. Of(t) \in SUBSET Ids /\ Of(t) \subseteq Rows
  BY DEF Of, TypeOK
<1>. QED BY <1>1, FS_Subset, ManifestAssumption

\* Of the rows of a title, some row has the largest rotation.
LEMMA LargestIsOne ==
  ASSUME TypeOK, NEW t, Of(t) # {}
  PROVE  /\ \E c \in Of(t) : charts[c].rotation = Largest(t)
         /\ \A c \in Of(t) : charts[c].rotation <= Largest(t)
<1> DEFINE S == {charts[c].rotation : c \in Of(t)}
           R == {ss \in Nat \X Nat : ss[1] < ss[2]}
<1>1. S \in SUBSET Rotations /\ S # {} /\ S \subseteq Nat
  <2>1. \A c \in Of(t) : charts[c].rotation \in Rotations
    BY OfFinite DEF TypeOK, Charts
  <2>. QED BY <2>1, ManifestAssumption
<1>2. IsFiniteSet(S)
  <2> HIDE DEF S
  <2>. QED BY <1>1, FS_Subset, ManifestAssumption
<1>3. /\ \A x \in S : <<x, x>> \notin R
      /\ \A x, y, z \in S : <<x, y>> \in R /\ <<y, z>> \in R => <<x, z>> \in R
  BY <1>1
<1>4. PICK r \in S : \A s \in S : <<r, s>> \notin R
  <2> HIDE DEF S, R
  <2>. QED BY <1>1, <1>2, <1>3, FiniteHasMaximal
<1>5. \A s \in S : s <= r
  <2> SUFFICES ASSUME NEW s \in S PROVE s <= r
    OBVIOUS
  <2>1. s \in Nat /\ r \in Nat /\ <<r, s>> \in Nat \X Nat /\ ~(r < s)
    BY <1>1, <1>4
  <2>. QED BY ONLY <2>1
<1>. QED BY <1>5 DEF Largest

\* The migration keeps a row of each title, and only one.
LEMMA OneSurvives ==
  ASSUME TypeOK, NEW t, Of(t) # {}
  PROVE  /\ \E c \in Of(t) : Survives(c, t)
         /\ \A c, d \in Of(t) : Survives(c, t) /\ Survives(d, t) => c = d
<1> DEFINE S == Of(t)
           Behind(c, d) == Airac(c) < Airac(d) \/ (Airac(c) = Airac(d) /\ c < d)
           R == {ss \in S \X S : Behind(ss[1], ss[2])}
<1>1. \A c \in S : c \in Nat /\ Airac(c) \in Nat
  BY AiracType, OfFinite
<1>2. /\ \A x \in S : <<x, x>> \notin R
      /\ \A x, y, z \in S : <<x, y>> \in R /\ <<y, z>> \in R => <<x, z>> \in R
  BY <1>1
<1>3. PICK c \in S : \A d \in S : <<c, d>> \notin R
  <2> HIDE DEF S, R
  <2>1. IsFiniteSet(S) /\ S # {}
    BY OfFinite DEF S
  <2>. QED BY <1>2, <2>1, FiniteHasMaximal
<1>4. Survives(c, t)
  <2> SUFFICES ASSUME NEW d \in S
               PROVE  Airac(d) < Airac(c) \/ (Airac(d) = Airac(c) /\ d <= c)
    BY DEF Survives
  <2>1. ~Behind(c, d)
    BY <1>3
  <2>2. /\ c \in Nat /\ d \in Nat /\ Airac(c) \in Nat /\ Airac(d) \in Nat
    BY <1>1
  <2>. QED BY ONLY <2>1, <2>2
<1>. QED BY <1>1, <1>4 DEF Survives

\* The migration: no twins are left, and the rotation that stays is the largest.
LEMMA MigrateKeeps ==
  ASSUME ChartsInv, Migrate
  PROVE  ChartsInv'
<1> USE DEF ChartsInv
<1>1. /\ Rows' = {d \in Rows : Survives(d, charts[d].title)}
      /\ \A c \in Rows' : charts'[c] = [charts[c] EXCEPT !.rotation = Largest(charts[c].title)]
      /\ migrated' = TRUE /\ loose' = import.on /\ UNCHANGED <<import, patch>>
      /\ wanted' = [t \in Titles |-> IF wanted[t] # None /\ wanted[t] < Largest(t)
                                     THEN None ELSE wanted[t]]
  BY DEF Migrate, Rows
<1>2. ASSUME NEW t \in Titles, Of(t) # {} PROVE Largest(t) \in Rotations
  BY <1>2, LargestIsOne, OfFinite DEF TypeOK, Charts
<1>3. ASSUME NEW c \in Rows'
      PROVE  /\ c \in Rows /\ charts'[c].title = charts[c].title
             /\ charts'[c].rotation = Largest(charts[c].title)
             /\ charts'[c] \in Charts
  <2>1. c \in Rows /\ charts[c] \in Charts /\ c \in Of(charts[c].title)
    BY <1>1, <1>3 DEF TypeOK, Of
  <2>2. Largest(charts[c].title) \in Rotations
    BY <1>2, <2>1 DEF Charts
  <2>. QED BY <1>1, <1>3, <2>1, <2>2 DEF Charts
<1>4. TypeOK'
  BY <1>1, <1>3 DEF TypeOK
<1>5. SessionTrue'
  BY <1>1, <1>3 DEF SessionTrue
<1>6. NoTwins'
  <2>1. ASSUME NEW c \in Rows', NEW d \in Rows', charts'[c].title = charts'[d].title
        PROVE  c = d
    <3>1. /\ charts[c].title = charts[d].title
          /\ c \in Of(charts[c].title) /\ d \in Of(charts[c].title)
          /\ Survives(c, charts[c].title) /\ Survives(d, charts[c].title)
      BY <1>1, <1>3, <2>1 DEF Of
    <3>. QED BY <3>1, OneSurvives
  <2>. QED BY <1>1, <2>1 DEF NoTwins
<1>7. ASSUME NEW t \in Titles, wanted'[t] # None
      PROVE  \E c \in Rows' : charts'[c].title = t /\ charts'[c].rotation = wanted'[t]
  <2>1. wanted[t] # None /\ wanted'[t] = wanted[t] /\ ~(wanted[t] < Largest(t))
    BY <1>1, <1>7
  <2>2. PICK c \in Of(t) : charts[c].rotation = wanted[t]
    BY <2>1 DEF RotationSurvives, Of
  <2>3. wanted[t] = Largest(t)
    <3>1. wanted[t] <= Largest(t) /\ Largest(t) \in Nat /\ wanted[t] \in Nat
      BY <1>2, <2>2, LargestIsOne, AiracType, OfFinite, ManifestAssumption
    <3>. QED BY <2>1, <3>1
  <2>4. PICK d \in Of(t) : Survives(d, t)
    BY <2>2, OneSurvives
  <2>. QED BY <1>1, <1>3, <2>1, <2>3, <2>4 DEF Of
<1>. QED BY <1>4, <1>5, <1>6, <1>7 DEF RotationSurvives

-----------------------------------------------------------------------------
(* The import.                                                             *)

\* New rows get keys that no row has.
LEMMA KeysAreFresh ==
  ASSUME TypeOK, NEW new, NEW ids \in Keys(new)
  PROVE  /\ \A t \in new : /\ ids[t] \in Ids /\ ids[t] \notin Rows
                           /\ ids[t] \notin DOMAIN import.rows
         /\ \A t, u \in new : ids[t] = ids[u] => t = u
BY DEF Keys, Lowest, Fresh

\* The row that an import makes for a listed document.
LEMMA NewRow ==
  ASSUME NEW m \in Manifests, NEW t \in Listed(m)
  PROVE  Row(m, t) \in Charts /\ Row(m, t).title = t /\ Row(m, t).url = Url(m, t)
<1>1. t \in DOMAIN m.docs /\ t \in Titles
  BY ManifestAssumption DEF Listed
<1>2. Url(m, t) \in Urls
  BY <1>1 DEF Urls
<1>. QED BY <1>1, <1>2, ManifestAssumption DEF Row, Charts

\* An import reads rows: its session holds one row of each title.
LEMMA ReadKeeps ==
  ASSUME ChartsInv, NEW m \in Manifests, ImportRead(m)
  PROVE  ChartsInv'
<1> USE DEF ChartsInv
<1>1. PICK kept \in SUBSET Rows :
        /\ \A t \in Titles : Of(t) # {} => \E c \in kept : kept \cap Of(t) = {c}
        /\ import' = [on |-> TRUE, manifest |-> m,
                      rows |-> [c \in kept |-> charts[c].title]]
  BY DEF ImportRead
<1>2. UNCHANGED <<charts, patch, migrated, loose, wanted>>
  BY DEF ImportRead
<1>3. \A c \in Rows : charts[c].title \in Titles
  BY DEF TypeOK, Charts
<1>4. /\ import'.on /\ import'.manifest = m /\ DOMAIN import'.rows = kept
      /\ \A c \in kept : import'.rows[c] = charts[c].title
  BY <1>1
<1>5. ASSUME NEW c \in kept, NEW d \in Rows, charts[c].title = charts[d].title,
             d \in kept \/ \A b \in Of(charts[d].title) : b = d
      PROVE  c = d
  <2>1. c \in Of(charts[d].title) /\ d \in Of(charts[d].title)
    BY <1>5 DEF Of
  <2>. QED BY <1>1, <1>3, <1>5, <2>1
<1>6. TypeOK'
  BY <1>1, <1>2, <1>3, <1>4 DEF TypeOK, Rows
<1>7. SessionTrue'
  BY <1>1, <1>2, <1>4, <1>5 DEF SessionTrue, Rows
<1>8. NoTwins'
  <2>1. ASSUME migrated, ~loose, NEW d \in Rows PROVE d \in kept
    <3>1. d \in Of(charts[d].title) /\ \A b \in Of(charts[d].title) : b = d
      BY <2>1 DEF NoTwins, Of
    <3>. QED BY <1>1, <1>3, <2>1, <3>1
  <2>. QED BY <1>2, <1>4, <2>1 DEF NoTwins, Rows
<1>9. RotationSurvives'
  BY <1>2 DEF RotationSurvives, Rows
<1>. QED BY <1>6, <1>7, <1>8, <1>9

\* What a commit leaves: the rows it does not remove, at their new addresses,
\* and a row for each new document.
LEMMA CommitWrites ==
  ASSUME ChartsInv, ImportCommit, NEW m, m = import.manifest
  PROVE  /\ m \in Manifests
         /\ \E ids \in Keys(NewDocs) :
              /\ Rows' = (Rows \ Removed) \cup {ids[t] : t \in NewDocs}
              /\ \A t \in NewDocs : charts'[ids[t]] = Row(m, t)
         /\ \A c \in Rows \ Removed :
              /\ charts'[c] \in Charts
              /\ charts'[c].title = charts[c].title
              /\ charts'[c].rotation = charts[c].rotation
              /\ c \in DOMAIN import.rows =>
                   /\ charts[c].title \in Listed(m)
                   /\ charts'[c].url = Url(m, charts[c].title)
<1> USE DEF ChartsInv
<1>1. import.on /\ m \in Manifests
  BY DEF ImportCommit, TypeOK
<1>2. PICK ids \in Keys(NewDocs) :
        charts' = [c \in (Rows \ Removed) \cup {ids[t] : t \in NewDocs} |->
            IF c \notin Rows
            THEN Row(import.manifest, CHOOSE t \in NewDocs : ids[t] = c)
            ELSE IF c \in Updated THEN AfterUpdate(c) ELSE charts[c]]
  BY DEF ImportCommit
<1>3. Rows' = (Rows \ Removed) \cup {ids[t] : t \in NewDocs}
  BY <1>2 DEF Rows
<1>4. ASSUME NEW t \in NewDocs PROVE charts'[ids[t]] = Row(m, t)
  <2>1. ids[t] \notin Rows /\ (CHOOSE u \in NewDocs : ids[u] = ids[t]) = t
    BY KeysAreFresh
  <2>. QED BY <1>2, <2>1
<1>5. ASSUME NEW c \in Rows \ Removed
      PROVE  /\ charts'[c] \in Charts
             /\ charts'[c].title = charts[c].title
             /\ charts'[c].rotation = charts[c].rotation
             /\ c \in DOMAIN import.rows =>
                  /\ charts[c].title \in Listed(m)
                  /\ charts'[c].url = Url(m, charts[c].title)
  <2>1. charts[c] \in Charts
    BY DEF TypeOK
  <2>2. charts'[c] = IF c \in Updated THEN AfterUpdate(c) ELSE charts[c]
    BY <1>2
  <2>3. CASE c \in DOMAIN import.rows
    <3>1. charts[c].title \in Listed(m) /\ import.rows[c] = charts[c].title
      BY <1>5, <2>3 DEF Removed, SessionTrue
    <3>2. c \in Updated /\ NewUrl(c) = Url(m, charts[c].title)
      BY <2>3, <3>1 DEF Updated, Matches, NewUrl
    <3>3. NewUrl(c) \in Urls
      BY <1>1, <3>1, <3>2, NewRow DEF Charts
    <3>4. charts'[c] = [charts[c] EXCEPT !.url = Url(m, charts[c].title)]
      BY <2>2, <3>2 DEF AfterUpdate
    <3>. QED BY <2>1, <3>1, <3>2, <3>3, <3>4 DEF Charts
  <2>4. CASE c \notin DOMAIN import.rows
    BY <2>1, <2>2, <2>4 DEF Updated
  <2>. QED BY <2>3, <2>4
<1>. QED BY <1>1, <1>3, <1>4, <1>5

\* The commit of an import: rows that stay keep their title and rotation.
LEMMA CommitKeeps ==
  ASSUME ChartsInv, ImportCommit
  PROVE  ChartsInv'
<1> USE DEF ChartsInv
<1> DEFINE m == import.manifest
<1>1. /\ m \in Manifests /\ import.on
      /\ \A c \in Rows \ Removed : /\ charts'[c] \in Charts
                                   /\ charts'[c].title = charts[c].title
                                   /\ charts'[c].rotation = charts[c].rotation
  BY CommitWrites DEF ImportCommit
<1>2. PICK ids \in Keys(NewDocs) :
        /\ Rows' = (Rows \ Removed) \cup {ids[t] : t \in NewDocs}
        /\ \A t \in NewDocs : charts'[ids[t]] = Row(m, t)
  BY CommitWrites
<1>3. /\ import' = Resting /\ UNCHANGED <<patch, migrated, loose>>
      /\ wanted' = [t \in Titles |->
                      IF t \in Listed(m) THEN wanted[t] ELSE None]
  BY DEF ImportCommit
<1>4. \A t \in NewDocs : /\ Row(m, t) \in Charts /\ Row(m, t).title = t
                         /\ ids[t] \in Ids
  BY <1>1, NewRow, KeysAreFresh DEF NewDocs
<1>5. ~import'.on /\ DOMAIN import'.rows = {}
  BY <1>3 DEF Resting, NoRows
<1>6. TypeOK'
  <2>1. Rows' \subseteq Ids /\ \A c \in Rows' : charts'[c] \in Charts
    BY <1>1, <1>2, <1>4 DEF TypeOK
  <2>. QED BY <1>3, <1>5, <2>1 DEF TypeOK, Resting
<1>7. SessionTrue'
  BY <1>5 DEF SessionTrue
<1>8. NoTwins'
  <2> SUFFICES ASSUME migrated, ~loose, NEW c \in Rows', NEW d \in Rows',
                      charts'[c].title = charts'[d].title
               PROVE  c = d
    BY <1>3, <1>5 DEF NoTwins
  <2>1. \A b \in Rows : b \in DOMAIN import.rows /\ import.rows[b] = charts[b].title
    BY <1>1 DEF NoTwins, SessionTrue
  <2>2. \A t \in NewDocs, b \in Rows : charts[b].title # t
    BY <2>1 DEF NewDocs, Matches
  <2>3. CASE c \in Rows \ Removed /\ d \in Rows \ Removed
    BY <1>1, <2>3 DEF NoTwins
  <2>4. CASE c \notin Rows \ Removed
    <3>1. PICK t \in NewDocs : c = ids[t] /\ charts'[c].title = t
      BY <1>2, <1>4, <2>4
    <3>. QED BY <1>1, <1>2, <1>4, <2>2, <3>1
  <2>5. CASE d \notin Rows \ Removed
    <3>1. PICK t \in NewDocs : d = ids[t] /\ charts'[d].title = t
      BY <1>2, <1>4, <2>5
    <3>. QED BY <1>1, <1>2, <1>4, <2>2, <3>1
  <2>. QED BY <2>3, <2>4, <2>5
<1>9. ASSUME NEW t \in Titles, wanted'[t] # None
      PROVE  \E c \in Rows' : charts'[c].title = t /\ charts'[c].rotation = wanted'[t]
  <2>1. t \in Listed(m) /\ wanted'[t] = wanted[t]
    BY <1>3, <1>9
  <2>2. PICK c \in Rows : charts[c].title = t /\ charts[c].rotation = wanted[t]
    BY <1>9, <2>1 DEF RotationSurvives
  <2>3. c \notin Removed
    BY <2>1, <2>2 DEF Removed, SessionTrue
  <2>. QED BY <1>1, <1>2, <2>1, <2>2, <2>3
<1>. QED BY <1>6, <1>7, <1>8, <1>9 DEF RotationSurvives

-----------------------------------------------------------------------------
(* Rotation requests and the script.                                       *)

\* A rotation request: what it read is still the same row, or gone.
LEMMA PatchKeeps ==
  ASSUME ChartsInv,
         \/ \E c \in Ids, degrees \in Rotations : PatchSelect(c, degrees)
         \/ PatchCommit \/ PatchFails
  PROVE  ChartsInv'
<1> USE DEF ChartsInv
<1>1. CASE \E c \in Ids, degrees \in Rotations : PatchSelect(c, degrees)
  BY <1>1 DEF PatchSelect, TypeOK, SessionTrue, NoTwins, RotationSurvives, Rows, Airac
<1>2. CASE PatchCommit
  <2> DEFINE p == patch.id
             titleOf == charts[p].title
  <2>1. /\ p \in Rows /\ patch.rotation \in Rotations /\ charts[p] \in Charts
        /\ UNCHANGED <<import, migrated, loose>> /\ patch' = NoPatch
        /\ wanted' = [wanted EXCEPT ![titleOf] = patch.rotation]
    BY <1>2 DEF PatchCommit, TypeOK
  <2>2. /\ Rows' = Rows
        /\ charts'[p] = [charts[p] EXCEPT !.rotation = patch.rotation]
        /\ \A c \in Rows : c # p => charts'[c] = charts[c]
    BY <1>2, <2>1 DEF PatchCommit, Rows
  <2>3. /\ \A c \in Rows : charts'[c] \in Charts /\ charts'[c].title = charts[c].title
        /\ charts'[p].rotation = patch.rotation
    BY <2>1, <2>2 DEF Charts, TypeOK
  <2>4. NoPatch \in [id : Ids \cup {None}, rotation : Rotations]
    BY ManifestAssumption DEF NoPatch
  <2>5. TypeOK'
    BY <2>1, <2>2, <2>3, <2>4 DEF TypeOK
  <2>6. SessionTrue' /\ NoTwins'
    BY <2>1, <2>2, <2>3 DEF SessionTrue, NoTwins
  <2>7. ASSUME NEW t \in Titles, wanted'[t] # None
        PROVE  \E c \in Rows' : charts'[c].title = t /\ charts'[c].rotation = wanted'[t]
    <3>1. CASE t = titleOf
      <4>1. wanted'[t] = patch.rotation
        BY <2>1, <3>1 DEF TypeOK
      <4>. QED BY <2>1, <2>2, <2>3, <3>1, <4>1
    <3>2. CASE t # titleOf
      <4>1. wanted'[t] = wanted[t]
        BY <2>1, <3>2 DEF TypeOK
      <4>2. PICK c \in Rows : charts[c].title = t /\ charts[c].rotation = wanted[t]
        BY <2>7, <4>1 DEF RotationSurvives
      <4>. QED BY <2>2, <3>2, <4>1, <4>2
    <3>. QED BY <3>1, <3>2
  <2>. QED BY <2>5, <2>6, <2>7 DEF RotationSurvives
<1>3. CASE PatchFails
  BY <1>3, ManifestAssumption
  DEF PatchFails, NoPatch, TypeOK, SessionTrue, NoTwins, RotationSurvives, Rows
<1>. QED BY <1>1, <1>2, <1>3

\* The import script: it adds twins, and it wipes the rows.
LEMMA ScriptKeeps ==
  ASSUME ChartsInv, NEW m \in Manifests, ScriptAdds(m) \/ ScriptWipes(m)
  PROVE  ChartsInv'
<1> USE DEF ChartsInv
<1>1. CASE ScriptAdds(m)
  <2> DEFINE new == {t \in Listed(m) : \A c \in Rows : charts[c].url # Url(m, t)}
  <2>1. /\ UNCHANGED <<import, patch, migrated, wanted>> /\ loose' = (loose \/ migrated)
        /\ \E k \in Keys(new) :
             charts' = [c \in Rows \cup {k[t] : t \in new} |->
                          IF c \in Rows THEN charts[c]
                          ELSE Row(m, CHOOSE t \in new : k[t] = c)]
    BY <1>1 DEF ScriptAdds
  <2>2. PICK ids \in Keys(new) :
          charts' = [c \in Rows \cup {ids[t] : t \in new} |->
                       IF c \in Rows THEN charts[c]
                       ELSE Row(m, CHOOSE t \in new : ids[t] = c)]
    BY <2>1
  <2>3. /\ Rows' = Rows \cup {ids[t] : t \in new}
        /\ \A c \in Rows : charts'[c] = charts[c]
    BY <2>2 DEF Rows
  <2>4. ASSUME NEW t \in new
        PROVE  charts'[ids[t]] \in Charts /\ ids[t] \in Ids /\ ids[t] \notin DOMAIN import.rows
    <3>1. ids[t] \notin Rows /\ (CHOOSE u \in new : ids[u] = ids[t]) = t
      BY KeysAreFresh
    <3>2. charts'[ids[t]] = Row(m, t)
      BY <2>2, <3>1
    <3>. QED BY <3>2, NewRow, KeysAreFresh
  <2> HIDE DEF new
  <2>5. TypeOK'
    <3>1. Rows' \subseteq Ids /\ \A c \in Rows' : charts'[c] \in Charts
      BY <2>3, <2>4 DEF TypeOK
    <3>. QED BY <2>1, <3>1 DEF TypeOK
  <2>6. SessionTrue'
    BY <2>1, <2>3, <2>4 DEF SessionTrue
  <2>7. NoTwins'
    BY <2>1 DEF NoTwins, TypeOK
  <2>8. RotationSurvives'
    BY <2>1, <2>3 DEF RotationSurvives
  <2>. QED BY <2>5, <2>6, <2>7, <2>8
<1>2. CASE ScriptWipes(m)
  <2>1. /\ UNCHANGED <<import, patch, migrated>> /\ loose' = (loose \/ migrated)
        /\ wanted' = [t \in Titles |-> None]
    BY <1>2 DEF ScriptWipes
  <2>2. PICK ids \in Keys(Listed(m)) :
          charts' = [c \in {ids[t] : t \in Listed(m)} |->
                       Row(m, CHOOSE t \in Listed(m) : ids[t] = c)]
    BY <1>2 DEF ScriptWipes
  <2>3. ASSUME NEW t \in Listed(m)
        PROVE  charts'[ids[t]] \in Charts /\ ids[t] \in Ids /\ ids[t] \notin DOMAIN import.rows
    <3>1. (CHOOSE u \in Listed(m) : ids[u] = ids[t]) = t
      BY KeysAreFresh
    <3>2. charts'[ids[t]] = Row(m, t)
      BY <2>2, <3>1
    <3>. QED BY <3>2, NewRow, KeysAreFresh
  <2>4. Rows' = {ids[t] : t \in Listed(m)}
    BY <2>2 DEF Rows
  <2>5. TypeOK'
    <3>1. Rows' \subseteq Ids /\ \A c \in Rows' : charts'[c] \in Charts
      BY <2>3, <2>4
    <3>. QED BY <2>1, <3>1 DEF TypeOK
  <2>6. SessionTrue'
    BY <2>1, <2>3, <2>4 DEF SessionTrue
  <2>7. NoTwins' /\ RotationSurvives'
    BY <2>1 DEF NoTwins, RotationSurvives, TypeOK
  <2>. QED BY <2>5, <2>6, <2>7
<1>. QED BY <1>1, <1>2

-----------------------------------------------------------------------------
(* The theorems.                                                           *)

\* At first there are no charts.
LEMMA ChartsInit == Init => ChartsInv
<1> SUFFICES ASSUME Init PROVE ChartsInv
  OBVIOUS
<1>1. Rows = {} /\ DOMAIN import.rows = {} /\ import.on = FALSE
  BY DEF Init, Rows, NoRows, Resting
<1>2. TypeOK
  BY <1>1, ManifestAssumption DEF Init, TypeOK, NoPatch
<1>. QED BY <1>1, <1>2 DEF Init, ChartsInv, SessionTrue, NoTwins, RotationSurvives

\* Every step keeps the invariant.
LEMMA ChartsStep == ChartsInv /\ [Next]_vars => ChartsInv'
<1> SUFFICES ASSUME ChartsInv, [Next]_vars PROVE ChartsInv'
  OBVIOUS
<1>1. CASE ImportClashes
  BY <1>1
  DEF ImportClashes, Resting, NoRows, Rows, ChartsInv, TypeOK, SessionTrue,
      NoTwins, RotationSurvives
<1>2. CASE UNCHANGED vars
  BY <1>2 DEF vars, Rows, ChartsInv, TypeOK, SessionTrue, NoTwins, RotationSurvives
<1>. QED
  BY <1>1, <1>2, ScriptKeeps, MigrateKeeps, ReadKeeps, CommitKeeps, PatchKeeps DEF Next

\* The rows, the sessions and what users were told keep their types.
THEOREM ChartsTypeCorrect == Spec => []TypeOK
BY ChartsInit, ChartsStep, PTL DEF Spec, ChartsInv

\* A rotation that a user was told is set stays with its document, through
\* imports, the script and the migration.
THEOREM RotationSurvivesCorrect == Spec => []RotationSurvives
BY ChartsInit, ChartsStep, PTL DEF Spec, ChartsInv

\* Once the migration has run, no import, rotation request or new edition
\* gives a title a second row: only the script does.
THEOREM OneRowPerTitleCorrect == Spec => []OneRowPerTitle
<1>1. ChartsInv => OneRowPerTitle
  <2> SUFFICES ASSUME ChartsInv, migrated, ~loose, NEW t \in Titles
               PROVE  Cardinality(Of(t)) <= 1
    BY DEF OneRowPerTitle
  <2>1. \A c, d \in Of(t) : c = d
    BY DEF ChartsInv, NoTwins, Of
  <2>2. Of(t) = {} \/ \E c : Of(t) = {c}
    BY <2>1
  <2>3. Cardinality(Of(t)) = 0 \/ Cardinality(Of(t)) = 1
    BY <2>2, FS_EmptySet, FS_Singleton
  <2>. QED BY <2>3
<1>. QED BY <1>1, ChartsInit, ChartsStep, PTL DEF Spec

\* An import that has read every row of the table leaves one row for each
\* document its manifest lists, at its address, and keeps the rows there were.
THEOREM ImportMirrorsCorrect == Spec => ImportMirrorsManifest
<1>1. ASSUME ChartsInv, [Next]_vars, import.on, ~import'.on, charts' # charts, ReadsAll
      PROVE  Mirrors(import.manifest)
  <2> DEFINE m == import.manifest
  <2>0. ImportCommit
    <3>1. ASSUME NEW n, ScriptAdds(n) \/ ScriptWipes(n) \/ ImportRead(n) PROVE FALSE
      BY <1>1, <3>1 DEF ScriptAdds, ScriptWipes, ImportRead
    <3>2. ~Migrate /\ ~ImportClashes /\ ~PatchCommit /\ ~PatchFails /\ ~UNCHANGED vars
      BY <1>1 DEF Migrate, ImportClashes, PatchCommit, PatchFails, vars
    <3>3. ASSUME NEW c, NEW degrees, PatchSelect(c, degrees) PROVE FALSE
      BY <1>1, <3>3 DEF PatchSelect
    <3>. QED BY <1>1, <3>1, <3>2, <3>3 DEF Next
  <2>1. /\ m \in Manifests
        /\ \A c \in Rows \ Removed :
             /\ charts[c].title \in Listed(m)
             /\ charts'[c].title = charts[c].title
             /\ charts'[c].url = Url(m, charts[c].title)
    BY <1>1, <2>0, CommitWrites DEF ReadsAll
  <2>2. PICK ids \in Keys(NewDocs) :
          /\ Rows' = (Rows \ Removed) \cup {ids[t] : t \in NewDocs}
          /\ \A t \in NewDocs : charts'[ids[t]] = Row(m, t)
    BY <1>1, <2>0, CommitWrites
  <2>3. ASSUME NEW t \in NewDocs
        PROVE  /\ ids[t] \in Ids /\ t \in Listed(m)
               /\ charts'[ids[t]].title = t /\ charts'[ids[t]].url = Url(m, t)
    BY <1>1, <2>1, <2>2, NewRow, KeysAreFresh DEF NewDocs, ChartsInv
  <2>4. \A c \in Rows : c \in DOMAIN import.rows /\ import.rows[c] = charts[c].title
    BY <1>1 DEF ReadsAll, ChartsInv, SessionTrue
  <2>5. ASSUME NEW c \in Rows'
        PROVE  /\ charts'[c].title \in Listed(m)
               /\ charts'[c].url = Url(m, charts'[c].title)
    BY <2>1, <2>2, <2>3
  <2>6. ASSUME NEW t \in Listed(m) PROVE \E c \in Rows' : charts'[c].title = t
    <3>1. CASE t \in NewDocs
      BY <2>2, <2>3, <3>1
    <3>2. CASE t \notin NewDocs
      <4>1. PICK c \in Rows : charts[c].title = t
        BY <1>1, <2>4, <3>2 DEF NewDocs, Matches, ReadsAll
      <4>. QED BY <2>1, <2>2, <2>4, <2>6, <4>1 DEF Removed
    <3>. QED BY <3>1, <3>2
  <2>7. ASSUME NEW c \in Rows', NEW d \in Rows', charts'[c].title = charts'[d].title
        PROVE  c = d
    <3>1. \A t \in NewDocs, b \in Rows : charts[b].title # t
      BY <2>4 DEF NewDocs, Matches
    <3>2. \A a, b \in Rows : charts[a].title = charts[b].title => a = b
      BY <1>1, <2>4 DEF ChartsInv, SessionTrue
    <3>. QED BY <2>1, <2>2, <2>3, <2>7, <3>1, <3>2
  <2>8. Cardinality(Rows') = Cardinality(Listed(m))
    <3> DEFINE R == Rows'
               L == Listed(m)
               f == [c \in R |-> charts'[c].title]
    <3>1. f \in [R -> L] /\ \A c \in R : f[c] = charts'[c].title
      BY <2>5
    <3>2. f \in Injection(R, L) /\ f \in Surjection(R, L)
      <4> HIDE DEF f
      <4>. QED BY <2>6, <2>7, <3>1 DEF Injection, Surjection, IsInjective
    <3>3. IsFiniteSet(R)
      <4>1. R \in SUBSET Ids
        BY <1>1, CommitKeeps, <2>0 DEF ChartsInv, TypeOK
      <4> HIDE DEF R
      <4>. QED BY <4>1, FS_Subset, ManifestAssumption
    <3> HIDE DEF f, R, L
    <3>4. ExistsBijection(R, L)
      BY <3>2 DEF ExistsBijection, Bijection
    <3>. QED BY <3>3, <3>4, FS_Bijection DEF R, L
  <2>9. {<<charts'[c].title, charts'[c].url>> : c \in Rows'}
          = {<<t, Url(m, t)>> : t \in Listed(m)}
    <3>1. \A c \in Rows' : <<charts'[c].title, charts'[c].url>>
                             \in {<<t, Url(m, t)>> : t \in Listed(m)}
      BY <2>5
    <3>2. \A t \in Listed(m) : \E c \in Rows' :
             <<charts'[c].title, charts'[c].url>> = <<t, Url(m, t)>>
      BY <2>5, <2>6
    <3>. QED BY <3>1, <3>2
  <2>10. \A c \in Rows : charts[c].title \in Listed(m) => c \in Rows'
    BY <2>2, <2>4 DEF Removed
  <2>11. Rows' = DOMAIN charts'
    BY DEF Rows
  <2>. QED BY <2>8, <2>9, <2>10, <2>11 DEF Mirrors
<1>2. ChartsInv /\ [Next]_vars =>
        [import.on /\ ~import'.on /\ charts' # charts /\ ReadsAll
           => Mirrors(import.manifest)]_vars
  BY <1>1
<1>. QED BY <1>2, ChartsInit, ChartsStep, PTL DEF Spec, ImportMirrorsManifest
=============================================================================
