------------------------------- MODULE Scraper -------------------------------
(***************************************************************************)
(* The scraper service, for one aerodrome: the cached AIRAC edition, the   *)
(* index of chapter hashes, the jobs in memory, and the files and manifest *)
(* in the directory of the aerodrome.  The CLI script scrape_dfs_aip.py is *)
(* an older copy of it that works on the same directory; the operators     *)
(* that take an actor serve both.                                          *)
(*                                                                         *)
(* DFS is external: it publishes editions 1, 2, ..., gives every edition   *)
(* new hashes, and may withdraw old ones.  A page that is not there        *)
(* answers without links and images, which the browser does not report.    *)
(***************************************************************************)
EXTENDS Integers

CONSTANTS
  Tasks,        \* scrape jobs: the requests that will ever be made
  Cli,          \* the run of the CLI script
  Titles,       \* documents of the aerodrome
  LastEdition,  \* bound: the editions that are published
  ListedIn      \* the documents DFS lists in each edition

Actors   == Tasks \cup {Cli}
Editions == 1..LastEdition
Outcomes == {"ok", "bare", "error"}

ASSUME ScraperAssumption ==
  /\ LastEdition \in Nat \ {0} /\ Cli \notin Tasks
  /\ ListedIn \in [Editions -> SUBSET Titles]

VARIABLES
  site,      \* the edition DFS links at its root
  oldest,    \* the oldest edition DFS still serves
  cache,     \* _cache: an edition, 0 for none
  index,     \* airport_index.json: its edition, and whether it has the aerodrome
  pc,        \* the step a scrape is at
  edition,   \* the edition a scrape is of
  hash,      \* AirportInfo.chapter_hash: the edition it was taken from
  todo,      \* the documents a scrape has yet to download
  docs,      \* the outcomes so far, by document
  files,     \* the images in the directory: the edition each was taken from
  manifest   \* manifest.json: edition and outcomes, and who wrote it

jobVars  == <<pc, edition, hash, todo, docs>>
dirVars  == <<files, manifest>>
dfsVars  == <<site, oldest>>
vars     == <<dfsVars, cache, index, jobVars, dirVars>>

NoDocs == [d \in {} |-> "ok"]

Steps == {"none", "queued", "root", "letters", "unknown", "documents",
          "download", "writing", "written", "completed", "failed"}

TypeOK ==
  /\ site \in Editions /\ oldest \in 1..site
  /\ cache \in 0..site
  /\ index \in [edition : 0..LastEdition, listed : BOOLEAN]
  /\ pc \in [Actors -> Steps]
  /\ edition \in [Actors -> 0..LastEdition]
  /\ hash \in [Actors -> 0..LastEdition]
  /\ todo \in [Actors -> SUBSET Titles]
  /\ \A a \in Actors : /\ DOMAIN docs[a] \subseteq Titles \ todo[a]
                       /\ \A d \in DOMAIN docs[a] : docs[a][d] \in Outcomes
  /\ files \in [Titles -> 0..LastEdition]
  /\ manifest.edition \in 0..LastEdition
  /\ manifest.by \in {"nobody", "torn", "service", "script"}
  /\ \A d \in DOMAIN manifest.docs : manifest.docs[d] \in Outcomes

Init ==
  /\ site = 1 /\ oldest = 1
  /\ cache = 0
  /\ index = [edition |-> 0, listed |-> FALSE]
  /\ pc = [a \in Actors |-> "none"]
  /\ edition = [a \in Actors |-> 0]
  /\ hash = [a \in Actors |-> 0]
  /\ todo = [a \in Actors |-> {}]
  /\ docs = [a \in Actors |-> NoDocs]
  /\ files = [d \in Titles |-> 0]
  /\ manifest = [edition |-> 0, docs |-> NoDocs, by |-> "nobody"]

-----------------------------------------------------------------------------
(* DFS.  An edition lives for 28 days and the cache for an hour, so the     *)
(* cached edition is never two behind.                                      *)

Serves(e) == oldest <= e /\ e <= site

Publish ==
  /\ site < LastEdition /\ cache \in {0, site}
  /\ site' = site + 1
  /\ UNCHANGED <<oldest, cache, index, jobVars, dirVars>>

Withdraw ==
  /\ oldest < site
  /\ oldest' = oldest + 1
  /\ UNCHANGED <<site, cache, index, jobVars, dirVars>>

-----------------------------------------------------------------------------
(* The API and the job store.                                               *)

CacheExpires ==
  /\ cache # 0
  /\ cache' = 0
  /\ UNCHANGED <<dfsVars, index, jobVars, dirVars>>

\* discover_current_edition holds its lock over the request to DFS.
CurrentEdition == IF cache # 0 THEN cache ELSE site

\* GET /airac/current?force_refresh=true
Refresh ==
  /\ cache' = site
  /\ UNCHANGED <<dfsVars, index, jobVars, dirVars>>

\* POST /scrape: the edition is fixed, the job stored and its task started.
StartScrape(t) ==
  /\ cache' = CurrentEdition
  /\ pc' = [pc EXCEPT ![t] = "queued"]
  /\ edition' = [edition EXCEPT ![t] = CurrentEdition]
  /\ UNCHANGED <<dfsVars, index, hash, todo, docs, dirVars>>

\* What GET /scrape/jobs answers; "none" is a 404.
Status(t) == IF pc[t] \in {"none", "queued", "completed", "failed"} THEN pc[t]
                                                                   ELSE "running"

Active(a) == pc[a] \notin {"none", "completed", "failed"}

Goto(a, from, to) == pc[a] = from /\ pc' = [pc EXCEPT ![a] = to]

OnlyPc == UNCHANGED <<dfsVars, cache, index, edition, hash, todo, docs, dirVars>>

\* The scrapes of `over` have ended; what they knew is gone.
Forget(over) ==
  /\ edition' = [a \in Actors |-> IF a \in over THEN 0 ELSE edition[a]]
  /\ hash' = [a \in Actors |-> IF a \in over THEN 0 ELSE hash[a]]
  /\ todo' = [a \in Actors |-> IF a \in over THEN {} ELSE todo[a]]
  /\ docs' = [a \in Actors |-> IF a \in over THEN NoDocs ELSE docs[a]]
  /\ UNCHANGED <<dfsVars, index, dirVars>>

MarkCompleted(t) ==
  Goto(t, "written", "completed") /\ Forget({t}) /\ UNCHANGED cache

\* A scrape has no deadline of its own, but each of its awaits has one; any
\* of them may raise.
Failing(a) == pc[a] \in {"queued", "root", "letters", "unknown", "documents",
                         "download", "writing", "written"}

\* Mutant: an exception of the scrape does not reach the job.
MarkFailedNever(t) == FALSE

\* Mutant: the job is reported as done whatever became of the scrape.
MarkFailedAsDone(t) ==
  /\ Failing(t) /\ pc' = [pc EXCEPT ![t] = "completed"]
  /\ Forget({t}) /\ UNCHANGED cache

\* The browser, the network or the disk raised, or the aerodrome is unknown.
MarkFailed(t) ==
  /\ Failing(t) /\ pc' = [pc EXCEPT ![t] = "failed"]
  /\ Forget({t}) /\ UNCHANGED cache

\* The process ends: tasks, jobs and the cached edition are gone.
Crash ==
  /\ cache' = 0
  /\ pc' = [a \in Actors |-> IF a \in Tasks THEN "none" ELSE pc[a]]
  /\ Forget(Tasks)

-----------------------------------------------------------------------------
(* The steps of a scrape.                                                   *)

\* _run_scrape marks the job running, starts the browser and looks into the
\* index, which is the first that others can tell.
\* Mutant: the hash of the index is used whatever edition it is of.
LoadCachedAnyEdition(t) ==
  /\ IF index.listed THEN Goto(t, "queued", "documents")
                     ELSE Goto(t, "queued", "root")
  /\ hash' = [hash EXCEPT ![t] = index.edition]
  /\ UNCHANGED <<dfsVars, cache, index, edition, todo, docs, dirVars>>

LoadCachedAirport(t) ==
  /\ IF index = [edition |-> edition[t], listed |-> TRUE]
     THEN /\ Goto(t, "queued", "documents")
          /\ hash' = [hash EXCEPT ![t] = edition[t]]
     ELSE Goto(t, "queued", "root") /\ UNCHANGED hash
  /\ UNCHANGED <<dfsVars, cache, index, edition, todo, docs, dirVars>>

\* The root links the section of the current edition; under another edition
\* its hash is a 404, and the task can only fail.
DiscoverLetters(t) ==
  /\ site = edition[t]
  /\ Goto(t, "root", "letters") /\ OnlyPc

\* A letter page that is gone lists nobody.
LetterLists(e) == Serves(e)

\* The letter pages, and the index written from what they list.
RefreshIndex(t) ==
  LET found == LetterLists(edition[t])
  IN /\ Goto(t, "letters", IF found THEN "documents" ELSE "unknown")
     /\ index' = [edition |-> edition[t], listed |-> found]
     /\ hash' = [hash EXCEPT ![t] = edition[t]]
     /\ UNCHANGED <<dfsVars, cache, edition, todo, docs, dirVars>>

\* The links of the chapter page; a page that is not there has none.
Links(a) == IF Serves(edition[a]) /\ hash[a] = edition[a]
            THEN ListedIn[edition[a]] ELSE {}

DiscoverDocuments(a) ==
  /\ Goto(a, "documents", "download")
  /\ todo' = [todo EXCEPT ![a] = Links(a)]
  /\ hash' = [hash EXCEPT ![a] = 0]  \* it is not read again
  /\ UNCHANGED <<dfsVars, cache, index, edition, docs, dirVars>>

\* Mutant: an image that is there already is not downloaded again.
SavedIfMissing(a, d, saved) ==
  [files EXCEPT ![d] = IF saved /\ @ = 0 THEN edition[a] ELSE @]

Saved(a, d, saved) ==
  [files EXCEPT ![d] = IF saved THEN edition[a] ELSE @]

Left(a, d) == [todo EXCEPT ![a] = @ \ {d}]

\* "bare": no image and no error, if the page has none or the disk refuses
\* it.  "error": one of the steps raised, before or after an image was saved.
DownloadDocument(a, d, outcome, saved) ==
  /\ pc[a] = "download" /\ d \in todo[a]
  /\ saved => Serves(edition[a])
  /\ outcome = "ok" => saved
  /\ outcome = "bare" => ~saved
  /\ todo' = Left(a, d)
  /\ docs' = [docs EXCEPT ![a] = [x \in DOMAIN @ \cup {d} |->
                                    IF x = d THEN outcome ELSE @[x]]]
  /\ files' = Saved(a, d, saved)
  /\ UNCHANGED <<dfsVars, cache, index, pc, edition, hash, manifest>>

\* write_text truncates the file and then writes it.
OpenManifest(a) ==
  /\ todo[a] = {}
  /\ Goto(a, "download", "writing")
  /\ manifest' = [edition |-> 0, docs |-> NoDocs, by |-> "torn"]
  /\ UNCHANGED <<dfsVars, cache, index, edition, hash, todo, docs, files>>

WriteManifest(a) ==
  /\ Goto(a, "writing", "written")
  /\ manifest' = [edition |-> edition[a], docs |-> docs[a],
                  by |-> IF a = Cli THEN "script" ELSE "service"]
  /\ docs' = [docs EXCEPT ![a] = NoDocs]
  /\ edition' = [edition EXCEPT ![a] = 0]
  /\ UNCHANGED <<dfsVars, cache, index, hash, todo, files>>
=============================================================================
