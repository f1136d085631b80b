----------------------------- MODULE ChartImport -----------------------------
(***************************************************************************)
(* The charts of one aerodrome: the scraper writes manifest.json, the sync *)
(* pipeline imports it into ingest.charts, and users set the rotation of a *)
(* chart meanwhile.  The import reads the manifest and the rows, and       *)
(* changes the rows in one commit later; a rotation request selects its    *)
(* row and commits later, from a thread of its own.  Imports do not        *)
(* overlap: they run on the event loop, which they block.  Scrapes do, and *)
(* an older one may write last, so an import may read any manifest.  One   *)
(* that is missing, cut off or of another aerodrome changes nothing.       *)
(*                                                                         *)
(* Beside the pipeline, the script import_scraped_data.py adds charts by   *)
(* source_url, as the pipeline once did, and so leaves twins: rows of one  *)
(* title.  A migration, run while the service is up, removes them.         *)
(*                                                                         *)
(* A document is its title, its page and whether its download failed.  A   *)
(* source_url is the pair of edition and page.  Chart type, language and   *)
(* local path follow from these and are left out.                          *)
(***************************************************************************)
EXTENDS Integers, FiniteSets

CONSTANTS
  Ids,         \* keys of ingest.charts rows, in order
  Titles,      \* names of documents
  Rotations,   \* what rotation_degrees may be, 0 among them
  Manifests,   \* the manifests the scraper may write
  MonthOf      \* the month of an edition: two may lie in one month

\* The documents of a manifest are keyed by title: no two have one title.
ASSUME ManifestAssumption ==
  /\ Ids \subseteq Nat /\ IsFiniteSet(Ids)
  /\ Rotations \subseteq Nat /\ IsFiniteSet(Rotations) /\ 0 \in Rotations
  /\ \A m \in Manifests : /\ DOMAIN m.docs \subseteq Titles
                          /\ MonthOf[m.edition] \in Nat

VARIABLES
  charts,    \* the rows: title, url and rotation, by id
  import,    \* the session of the import: its manifest, and titles of the rows read
  patch,     \* the session of a rotation request
  migrated,  \* the migration has run
  loose,     \* history: the script ran after it, or an import was under way
  wanted     \* the last rotation a user was told is set, by title (history)

vars == <<charts, import, patch, migrated, loose, wanted>>

None    == -1
Rows    == DOMAIN charts
NoPatch == [id |-> None, rotation |-> 0]
NoRows  == [c \in {} |-> None]
NoManifest == [edition |-> 0, docs |-> [t \in {} |-> None]]
Resting == [on |-> FALSE, manifest |-> NoManifest, rows |-> NoRows]

\* The documents without an error, and the source_url of one.
Listed(m)    == {t \in DOMAIN m.docs : ~m.docs[t].failed}
Url(m, t)    == <<m.edition, m.docs[t].page>>
Airac(c)     == MonthOf[charts[c].url[1]]
Row(m, t)    == [title |-> t, url |-> Url(m, t), rotation |-> 0]
Of(t)        == {c \in Rows : charts[c].title = t}

Init ==
  /\ charts = NoRows
  /\ import = Resting
  /\ patch = NoPatch
  /\ migrated = FALSE /\ loose = FALSE
  /\ wanted = [t \in Titles |-> None]

-----------------------------------------------------------------------------
\* existing_by_title keeps one row of each title, and of twins any one.
ImportRead(m) ==
  /\ import = Resting
  /\ \E kept \in SUBSET Rows :
       /\ \A t \in Titles : Of(t) # {} => \E c \in kept : kept \cap Of(t) = {c}
       /\ import' = [on |-> TRUE, manifest |-> m,
                     rows |-> [c \in kept |-> charts[c].title]]
  /\ UNCHANGED <<charts, patch, migrated, loose, wanted>>

\* Mutant: rows are matched by source_url, as before BUG-013.
MatchesByUrl(c, t) == c \in Rows /\ charts[c].url = Url(import.manifest, t)

\* A row the session read is matched with a listed document by title.
Matches(c, t) == import.rows[c] = t

NewDocs    == {t \in Listed(import.manifest) :
                 \A c \in DOMAIN import.rows : ~Matches(c, t)}
Updated    == {c \in DOMAIN import.rows :
                 \E t \in Listed(import.manifest) : Matches(c, t)}
NewUrl(c)  == Url(import.manifest,
                  CHOOSE t \in Listed(import.manifest) : Matches(c, t))
Removed    == {c \in DOMAIN import.rows :
                 import.rows[c] \notin Listed(import.manifest)}

\* source_url is unique.  The session updates in the order of the keys, then
\* inserts, and deletes last.
UrlAfterUpdates(d, c) == IF d \in Updated /\ d < c THEN NewUrl(d)
                                                   ELSE charts[d].url
UpdateClash == \E c \in Updated \cap Rows : \E d \in Rows \ {c} :
                  NewUrl(c) = UrlAfterUpdates(d, c)
InsertClash == \E t \in NewDocs : \E d \in Rows :
                  Url(import.manifest, t) =
                    IF d \in Updated THEN NewUrl(d) ELSE charts[d].url
\* A row to update is gone: the migration took it, or the script wiped all.
RowGone == ~(Updated \subseteq Rows)
Clash   == RowGone \/ UpdateClash \/ InsertClash

\* Mutant: the update sets every column of the row.
AfterUpdateWholeRow(c) == [charts[c] EXCEPT !.url = NewUrl(c), !.rotation = 0]

AfterUpdate(c) == [charts[c] EXCEPT !.url = NewUrl(c)]

\* Keys that no row has and no session holds are fresh ones; the lowest are
\* taken, in any order.
Fresh        == Ids \ (Rows \cup {patch.id} \cup DOMAIN import.rows)
Lowest(n)    == {i \in Fresh : Cardinality({k \in Fresh : k < i}) < n}
Keys(new)    == {ids \in [new -> Lowest(Cardinality(new))] :
                   \A t, u \in new : ids[t] = ids[u] => t = u}
NoKeys(new) == Cardinality(new) > Cardinality(Fresh)

ImportCommit ==
  /\ import.on /\ ~Clash
  /\ \E ids \in Keys(NewDocs) :
       charts' = [c \in (Rows \ Removed) \cup {ids[t] : t \in NewDocs} |->
            IF c \notin Rows
            THEN Row(import.manifest, CHOOSE t \in NewDocs : ids[t] = c)
            ELSE IF c \in Updated THEN AfterUpdate(c) ELSE charts[c]]
  /\ wanted' = [t \in Titles |->
                  IF t \in Listed(import.manifest) THEN wanted[t] ELSE None]
  /\ import' = Resting
  /\ UNCHANGED <<patch, migrated, loose>>

\* The commit is refused (or no key is left: bound) and rolled back, and the
\* job fails.
ImportClashes ==
  /\ import.on /\ (Clash \/ NoKeys(NewDocs))
  /\ import' = Resting
  /\ UNCHANGED <<charts, patch, migrated, loose, wanted>>

-----------------------------------------------------------------------------
(* PATCH .../rotation.  Only one of 0, 90, 180 and 270 passes validation.  *)

PatchSelect(c, degrees) ==
  /\ patch = NoPatch /\ c \in Rows
  /\ patch' = [id |-> c, rotation |-> degrees]
  /\ UNCHANGED <<charts, import, migrated, loose, wanted>>

PatchCommit ==
  /\ patch # NoPatch /\ patch.id \in Rows
  /\ charts' = [charts EXCEPT ![patch.id].rotation = patch.rotation]
  /\ wanted' = [wanted EXCEPT ![charts[patch.id].title] = patch.rotation]
  /\ patch' = NoPatch
  /\ UNCHANGED <<import, migrated, loose>>

\* The row was deleted since it was selected: the UPDATE finds none.
PatchFails ==
  /\ patch # NoPatch /\ patch.id \notin Rows
  /\ patch' = NoPatch
  /\ UNCHANGED <<charts, import, migrated, loose, wanted>>

-----------------------------------------------------------------------------
(* The script and the migration.                                           *)

\* Rows are matched by source_url: a row for each listed document without
\* one.  (What changes between the reads and the commit of the script can only
\* make it fail, or leave out a document whose row has just gone.)
ScriptAdds(m) ==
  LET new == {t \in Listed(m) : \A c \in Rows : charts[c].url # Url(m, t)}
  IN /\ \E ids \in Keys(new) :
          charts' = [c \in Rows \cup {ids[t] : t \in new} |->
                       IF c \in Rows THEN charts[c]
                       ELSE Row(m, CHOOSE t \in new : ids[t] = c)]
     /\ loose' = (loose \/ migrated)
     /\ UNCHANGED <<import, patch, migrated, wanted>>

\* --wipe: TRUNCATE locks the table until the commit.
ScriptWipes(m) ==
  /\ \E ids \in Keys(Listed(m)) :
       charts' = [c \in {ids[t] : t \in Listed(m)} |->
                       Row(m, CHOOSE t \in Listed(m) : ids[t] = c)]
  /\ wanted' = [t \in Titles |-> None]
  /\ loose' = (loose \/ migrated)
  /\ UNCHANGED <<import, patch, migrated>>

\* Mutant: the newest row of each cycle is kept.
SurvivesPerCycle(c, t) == \A d \in Of(t) : Airac(d) = Airac(c) => d <= c

\* One row of the latest cycle; of two, any (keys are used again here).
Survives(c, t) == \A d \in Of(t) : \/ Airac(d) < Airac(c)
                                   \/ Airac(d) = Airac(c) /\ d <= c

Largest(t) == CHOOSE r \in {charts[c].rotation : c \in Of(t)} :
                \A c \in Of(t) : charts[c].rotation <= r

\* 20260518_0001: the largest rotation of the twins goes to the one that is
\* kept.  A user who had set a smaller one on a twin loses it.
Migrate ==
  /\ ~migrated /\ migrated' = TRUE
  /\ charts' = [c \in {d \in Rows : Survives(d, charts[d].title)} |->
                  [charts[c] EXCEPT !.rotation = Largest(charts[c].title)]]
  /\ wanted' = [t \in Titles |-> IF wanted[t] # None /\ wanted[t] < Largest(t)
                                 THEN None ELSE wanted[t]]
  /\ loose' = import.on
  /\ UNCHANGED <<import, patch>>

Next ==
  \/ \E m \in Manifests : ScriptAdds(m) \/ ScriptWipes(m)
  \/ Migrate
  \/ \E m \in Manifests : ImportRead(m)
  \/ ImportCommit \/ ImportClashes
  \/ \E c \in Ids, degrees \in Rotations : PatchSelect(c, degrees)
  \/ PatchCommit \/ PatchFails

Spec == Init /\ [][Next]_vars

-----------------------------------------------------------------------------
(* Properties.                                                             *)

\* A rotation that a user was told is set stays with the document through
\* imports, editions and requests that run into them, as long as every
\* import lists the document without an error.
RotationSurvives ==
  \A t \in Titles : wanted[t] # None =>
     \E c \in Rows : charts[c].title = t /\ charts[c].rotation = wanted[t]

\* What an import commits is the manifest it read: one row for each listed
\* document, at its new address, and no other row; and a listed document that
\* had a row keeps it.  (BUG-013 was a violation of this.)  Not so if there
\* were twins: the import sees one of them, and the other stays.
Mirrors(m) ==
  /\ {<<charts'[c].title, charts'[c].url>> : c \in DOMAIN charts'}
       = {<<t, Url(m, t)>> : t \in Listed(m)}
  /\ Cardinality(DOMAIN charts') = Cardinality(Listed(m))
  /\ \A c \in Rows : charts[c].title \in Listed(m) => c \in DOMAIN charts'
ReadsAll == DOMAIN import.rows = Rows
ImportMirrorsManifest ==
  [][import.on /\ ~import'.on /\ charts' # charts /\ ReadsAll
       => Mirrors(import.manifest)]_vars

\* Once the migration has run, a title has one row: no way of the pipeline
\* makes twins again, only the script or what was under way meanwhile.
OneRowPerTitle ==
  migrated /\ ~loose => \A t \in Titles : Cardinality(Of(t)) <= 1
=============================================================================
