----------------------------- MODULE SearchIndex -----------------------------
(***************************************************************************)
(* How the Meilisearch index follows the aerodrome rows of data-ingestion. *)
(* An extraction job commits the geo fields of its aerodrome and, when it  *)
(* completes, publishes aerodrome.upsert on Redis; a publication reaches   *)
(* only the subscribers of that moment.  At startup the search service     *)
(* pages through all rows, upserts them in one call, and then subscribes.  *)
(* For each message it fetches the row again and upserts or deletes one    *)
(* document.  The import script changes rows and publishes nothing.        *)
(*                                                                         *)
(* A row is abstracted to a version number, and so is a document.          *)
(* publish_aerodrome_delete has no caller and is left out.                 *)
(***************************************************************************)
EXTENDS Integers, Sequences, FiniteSets

CONSTANTS
  Icaos,        \* aerodrome codes, as numbers in the order of ORDER BY icao
  PageSize,     \* rows per page of bulk_load
  MaxVersion,   \* bound on the versions of a row (model only)
  MaxFaults     \* bound on crashes, failures and script runs (model only)

ASSUME SearchAssumption ==
  /\ Icaos \subseteq Nat /\ IsFiniteSet(Icaos)
  /\ PageSize \in Nat \ {0} /\ MaxVersion \in Nat /\ MaxFaults \in Nat

VARIABLES
  row,      \* version of the committed aerodrome row, 0 if there is none
  last,     \* last version the row had
  job,      \* what the extraction job of an aerodrome has done
  load,     \* bulk_load: "off", "paging" or "done"
  offset,   \* its offset
  items,    \* the rows it has read, 0 for those it has not
  sub,      \* subscribe_loop: "off", "retry", "listening" or "fetching"
  queue,    \* messages of the subscription not yet handled
  doc,      \* the aerodrome that is being re-indexed, and what was fetched
  index,    \* version of the document in the index, 0 if there is none
  lost,     \* aerodromes with a change search was not told of (history)
  faults

ingest == <<row, last, job>>
search == <<load, offset, items, sub, queue, doc>>
vars   == <<ingest, search, index, lost, faults>>

NoDoc     == [icao |-> -1, version |-> 0]
NoItems   == [a \in Icaos |-> 0]
Queued    == {queue[i] : i \in DOMAIN queue}
InFlight  == Queued \cup ({doc.icao} \ {-1})
Fault     == faults < MaxFaults /\ faults' = faults + 1

TypeOK ==
  /\ row \in [Icaos -> Nat] /\ last \in [Icaos -> Nat]
  /\ job \in [Icaos -> {"idle", "written", "completed"}]
  /\ load \in {"off", "paging", "done"} /\ offset \in Nat
  /\ items \in [Icaos -> Nat]
  /\ sub \in {"off", "retry", "listening", "fetching"}
  /\ queue \in Seq(Icaos)
  /\ doc \in [icao : Icaos \cup {-1}, version : Nat]
  /\ index \in [Icaos -> Nat]
  /\ lost \subseteq Icaos
  /\ faults \in Nat

Init ==
  /\ row \in [Icaos -> {0, 1}] /\ last = row
  /\ job = [a \in Icaos |-> "idle"]
  /\ load = "off" /\ offset = 0 /\ items = NoItems
  /\ sub = "off" /\ queue = <<>> /\ doc = NoDoc
  /\ index = [a \in Icaos |-> 0]
  /\ lost = {}
  /\ faults = 0

-----------------------------------------------------------------------------
(* The data-ingestion service.                                             *)

NewVersion(a) ==
  /\ last[a] < MaxVersion
  /\ last' = [last EXCEPT ![a] = @ + 1]
  /\ row'  = [row EXCEPT ![a] = last[a] + 1]

\* The job commits the geo group.
JobWrites(a) ==
  /\ row[a] # 0 /\ job[a] = "idle" /\ NewVersion(a)
  /\ job' = [job EXCEPT ![a] = "written"]
  /\ UNCHANGED <<search, index, lost, faults>>

JobCompletes(a) ==
  /\ job[a] = "written"
  /\ job' = [job EXCEPT ![a] = "completed"]
  /\ UNCHANGED <<row, last, search, index, lost, faults>>

\* PUBLISH reaches the connections that are subscribed at that moment.
Listening == sub \in {"listening", "fetching"}

Publish(a) ==
  /\ job[a] = "completed"
  /\ job' = [job EXCEPT ![a] = "idle"]
  /\ IF Listening THEN queue' = Append(queue, a) /\ UNCHANGED lost
                  ELSE lost' = lost \cup {a} /\ UNCHANGED queue
  /\ UNCHANGED <<row, last, load, offset, items, sub, doc, index, faults>>

\* The job fails in a later field group, the process dies, or the
\* publication raises: nothing is published.
JobEndsUnpublished(a) ==
  /\ Fault /\ job[a] # "idle"
  /\ job'  = [job EXCEPT ![a] = "idle"]
  /\ lost' = lost \cup {a}
  /\ UNCHANGED <<row, last, search, index>>

\* The import script: TRUNCATE, and the INSERT of rows.
ScriptDeletes(a) ==
  /\ Fault /\ row[a] # 0 /\ job[a] = "idle"
  /\ row'  = [row EXCEPT ![a] = 0]
  \* the rows behind this one move up by one, past the offset of a page
  /\ lost' = IF load = "paging" THEN Icaos ELSE lost \cup {a}
  /\ UNCHANGED <<last, job, search, index>>

ScriptCreates(a) ==
  /\ Fault /\ row[a] = 0 /\ NewVersion(a)
  /\ lost' = lost \cup {a}
  /\ UNCHANGED <<job, search, index>>

-----------------------------------------------------------------------------
(* The search service: lifespan, bulk_load, subscribe_loop, reindex_one.   *)

SearchStart ==
  /\ load = "off"
  /\ load' = "paging" /\ offset' = 0 /\ items' = NoItems
  \* bulk_load reads every row, and only rows
  /\ lost' = {a \in Icaos : row[a] = 0}
  /\ UNCHANGED <<ingest, sub, queue, doc, index, faults>>

Present == {a \in Icaos : row[a] # 0}
Rank(a) == Cardinality({b \in Present : b < a})
Page    == {a \in Present : Rank(a) \in offset .. offset + PageSize - 1}

ReadPage == [a \in Icaos |-> IF a \in Page THEN row[a] ELSE items[a]]

Upserted(docs) == [a \in Icaos |-> IF docs[a] # 0 THEN docs[a] ELSE index[a]]

\* Mutant: the offset skips a row.
FullPageSkips ==
  /\ load = "paging" /\ Cardinality(Page) = PageSize
  /\ items' = ReadPage /\ offset' = offset + PageSize + 1
  /\ UNCHANGED <<ingest, load, sub, queue, doc, index, lost, faults>>

FullPage ==
  /\ load = "paging" /\ Cardinality(Page) = PageSize
  /\ items' = ReadPage /\ offset' = offset + PageSize
  /\ UNCHANGED <<ingest, load, sub, queue, doc, index, lost, faults>>

\* After the first short page everything is upserted in one call.
LastPage ==
  /\ load = "paging" /\ Cardinality(Page) < PageSize
  /\ items' = ReadPage /\ index' = Upserted(items') /\ load' = "done"
  /\ UNCHANGED <<ingest, offset, sub, queue, doc, lost, faults>>

\* A page cannot be fetched: nothing is upserted and the service goes on.
LoadFails ==
  /\ Fault /\ load = "paging" /\ load' = "done" /\ lost' = Icaos
  /\ UNCHANGED <<ingest, offset, items, sub, queue, doc, index>>

\* Mutant: the subscriber is started before bulk_load is awaited.
SubscribeAtOnce ==
  /\ load # "off" /\ sub \in {"off", "retry"}
  /\ sub' = "listening" /\ queue' = <<>>
  /\ UNCHANGED <<ingest, load, offset, items, doc, index, lost, faults>>

Subscribe ==
  /\ load = "done" /\ sub \in {"off", "retry"}
  /\ sub' = "listening" /\ queue' = <<>>
  /\ UNCHANGED <<ingest, load, offset, items, doc, index, lost, faults>>

\* Mutant: a message for an aerodrome that has a document is dropped.
FetchUnlessIndexed ==
  /\ sub = "listening" /\ queue # <<>>
  /\ LET a == Head(queue) IN
        IF index[a] # 0 THEN UNCHANGED <<doc, sub>>
        ELSE doc' = [icao |-> a, version |-> row[a]] /\ sub' = "fetching"
  /\ queue' = Tail(queue) /\ lost' = lost \ {Head(queue)}
  /\ UNCHANGED <<ingest, load, offset, items, index, faults>>

\* reindex_one gets the row of the next message, or a 404.
Fetch ==
  /\ sub = "listening" /\ queue # <<>>
  /\ LET a == Head(queue) IN
        doc' = [icao |-> a, version |-> row[a]] /\ lost' = lost \ {a}
  /\ queue' = Tail(queue) /\ sub' = "fetching"
  /\ UNCHANGED <<ingest, load, offset, items, index, faults>>

\* The document is upserted, or deleted after a 404.
Apply ==
  /\ sub = "fetching"
  /\ index' = [index EXCEPT ![doc.icao] = doc.version]
  /\ doc' = NoDoc /\ sub' = "listening"
  /\ UNCHANGED <<ingest, load, offset, items, queue, lost, faults>>

\* The row cannot be fetched or the document not sent: the message is gone.
ApplyFails ==
  /\ Fault /\ sub = "fetching"
  /\ lost' = lost \cup {doc.icao}
  /\ doc' = NoDoc /\ sub' = "listening"
  /\ UNCHANGED <<ingest, load, offset, items, queue, index>>

\* The connection to Redis drops with what it had not delivered.
Disconnect ==
  /\ Fault /\ sub = "listening"
  /\ sub' = "retry" /\ queue' = <<>> /\ lost' = lost \cup Queued
  /\ UNCHANGED <<ingest, load, offset, items, doc, index>>

SearchCrash ==
  /\ Fault /\ load # "off"
  /\ load' = "off" /\ sub' = "off" /\ queue' = <<>> /\ doc' = NoDoc
  /\ lost' = lost \cup InFlight
  /\ UNCHANGED <<ingest, offset, items, index>>

-----------------------------------------------------------------------------
JobStep(a)    == JobWrites(a) \/ JobCompletes(a) \/ Publish(a)
Script(a)     == ScriptDeletes(a) \/ ScriptCreates(a)
SearchStep    == SearchStart \/ FullPage \/ LastPage \/ Subscribe
                   \/ Fetch \/ Apply
SearchFault   == LoadFails \/ ApplyFails \/ Disconnect \/ SearchCrash

Next ==
  \/ \E a \in Icaos : JobStep(a) \/ JobEndsUnpublished(a) \/ Script(a)
  \/ SearchStep \/ SearchFault

Spec == Init /\ [][Next]_vars

\* The event loop of the search service runs its tasks.
FairSpec == Spec /\ WF_vars(SearchStep)

-----------------------------------------------------------------------------
(* Properties.                                                             *)

\* When nothing is under way for an aerodrome, its document is its row unless
\* one of its changes was never announced to a listening search service.
Settled(a) == load = "done" /\ job[a] = "idle" /\ a \notin InFlight
StaleOnlyIfLost ==
  \A a \in Icaos : Settled(a) /\ a \notin lost => index[a] = row[a]

\* The index lags behind but never goes back to an older version, nor to one
\* that never was.
Lagging == INSTANCE LaggingIndex WITH Icaos <- Icaos, last <- last, index <- index
LagsBehind == Lagging!Spec

\* A change that was announced to the listening service reaches the index,
\* unless the service then loses it.
AnnouncedReachesIndex ==
  \A a \in Icaos : \A v \in 1..MaxVersion :
     a \in Queued /\ row[a] = v
       ~> index[a] >= v \/ row[a] = 0 \/ a \in lost
=============================================================================
