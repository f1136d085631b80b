----------------------------- MODULE ScrapeFlow -----------------------------
(***************************************************************************)
(* The scraper together with those it works for and beside: the sync       *)
(* pipelines of data-ingestion, which start a scrape over HTTP, poll it    *)
(* and import the manifest from the directory both services mount; and a   *)
(* run of the CLI script in the same directory.  Task t is the scrape that *)
(* pipeline t asks for.                                                    *)
(***************************************************************************)
EXTENDS Scraper, FiniteSets

CONSTANTS
  HashEdition,  \* the edition whose hashes LETTER_INDEX holds
  MaxScrapes    \* bound: the scrapes that are ever started

VARIABLES
  wait,    \* where a pipeline stands
  charts,  \* the charts of the aerodrome: the edition each came with, 0 for none
  fresh,   \* history: a manifest was written since the POST of a live pipeline
  met      \* history: two scrapes were at work at once, or the script was

flowVars == <<wait, charts, fresh, met>>
allVars  == <<vars, flowVars>>

FlowTypeOK ==
  /\ TypeOK
  /\ wait \in [Tasks -> {"idle", "waiting", "scraped", "imported", "failed"}]
  /\ charts \in [Titles -> 0..LastEdition]
  /\ fresh \in [Tasks -> BOOLEAN]
  /\ met \in BOOLEAN

FlowInit ==
  /\ Init
  /\ wait = [t \in Tasks |-> "idle"]
  /\ charts = [d \in Titles |-> 0]
  /\ fresh = [t \in Tasks |-> FALSE]
  /\ met = FALSE

-----------------------------------------------------------------------------
(* A pipeline.                                                             *)

Becomes(t, from, to) == wait[t] = from /\ wait' = [wait EXCEPT ![t] = to]

Begun == {a \in Actors : IF a = Cli THEN pc[a] # "none" ELSE wait[a] # "idle"}

MayBegin == Cardinality(Begun) < MaxScrapes

Meets(a) == MayBegin /\ met' = (met \/ \E b \in Actors \ {a} : Active(b))

PostStart(t) ==
  /\ Becomes(t, "idle", "waiting") /\ StartScrape(t)
  /\ Meets(t) /\ UNCHANGED <<charts, fresh>>

\* The answer to the POST is lost: the scrape runs for nobody.
PostLost(t) ==
  /\ Becomes(t, "idle", "failed") /\ StartScrape(t)
  /\ Meets(t) /\ UNCHANGED <<charts, fresh>>

\* No connection, or DFS does not answer: 502.
PostFails(t) ==
  /\ Becomes(t, "idle", "failed")
  /\ UNCHANGED <<vars, charts, fresh, met>>

PollCompleted(t) ==
  /\ Status(t) = "completed" /\ Becomes(t, "waiting", "scraped")
  /\ UNCHANGED <<vars, charts, fresh, met>>

\* A scrape that failed, or a job the scraper no longer knows.
PollFails(t) ==
  /\ Status(t) \in {"failed", "none"} /\ Becomes(t, "waiting", "failed")
  /\ fresh' = [fresh EXCEPT ![t] = FALSE]
  /\ UNCHANGED <<vars, charts, met>>

\* Three polls without an answer, or the deadline.
GiveUp(t) ==
  /\ Becomes(t, "waiting", "failed")
  /\ fresh' = [fresh EXCEPT ![t] = FALSE]
  /\ UNCHANGED <<vars, charts, met>>

\* import_one_manifest: a chart for each document without an error.
ImportManifest(t) ==
  /\ wait[t] = "scraped"
  /\ IF manifest.by \in {"nobody", "torn"}
     THEN Becomes(t, "scraped", "failed") /\ UNCHANGED charts
     ELSE /\ Becomes(t, "scraped", "imported")
          /\ charts' = [d \in Titles |->
               IF d \in DOMAIN manifest.docs /\ manifest.docs[d] # "error"
               THEN manifest.edition ELSE 0]
  /\ fresh' = [fresh EXCEPT ![t] = FALSE]
  /\ UNCHANGED <<vars, met>>

-----------------------------------------------------------------------------
(* The CLI script.                                                         *)

FlowSame == UNCHANGED <<wait, charts>>
Quiet    == FlowSame /\ UNCHANGED <<fresh, met>>
Freshen  == /\ fresh' = [t \in Tasks |-> wait[t] \in {"waiting", "scraped"}]
            /\ UNCHANGED met

\* Every pipeline and every scrape has ended; the world stops there (bound).
Over == /\ \A t \in Tasks : wait[t] \in {"imported", "failed"}
        /\ \A a \in Actors : ~Active(a)

ScriptStart(e) ==
  /\ pc[Cli] = "none" /\ e <= site /\ ~Over /\ MayBegin
  /\ edition' = [edition EXCEPT ![Cli] = e]
  /\ met' = TRUE /\ FlowSame /\ UNCHANGED fresh

\* --icao: the hash of the index, which may be of another edition than the URLs.
ScriptSingle(e) ==
  /\ ScriptStart(e) /\ index.listed
  /\ pc' = [pc EXCEPT ![Cli] = "documents"]
  /\ hash' = [hash EXCEPT ![Cli] = index.edition]
  /\ UNCHANGED <<dfsVars, cache, index, todo, docs, dirVars>>

\* LETTER_INDEX has the hashes of one edition.
ScriptLetterLists(e) == e = HashEdition /\ Serves(e)

\* All letters.  With --limit the index may end before the aerodrome.
ScriptBulk(e) ==
  /\ ScriptStart(e)
  /\ \E found \in {FALSE, ScriptLetterLists(e)} :
       /\ index' = [edition |-> e, listed |-> found]
       /\ pc' = [pc EXCEPT ![Cli] = IF found THEN "documents" ELSE "written"]
       /\ hash' = [hash EXCEPT ![Cli] = e]
  /\ UNCHANGED <<dfsVars, cache, todo, docs, dirVars>>

ScriptDocuments == DiscoverDocuments(Cli) /\ Quiet

ScriptDownload ==
  /\ \E d \in Titles, outcome \in Outcomes, saved \in BOOLEAN :
        DownloadDocument(Cli, d, outcome, saved)
  /\ Quiet

ScriptManifest ==
  \/ OpenManifest(Cli) /\ Quiet
  \/ WriteManifest(Cli) /\ FlowSame /\ Freshen

\* The loop over the aerodromes logs the exception and goes on.
ScriptEnds ==
  /\ pc[Cli] \in {"documents", "download", "writing", "written"}
  /\ pc' = [pc EXCEPT ![Cli] = IF @ = "written" THEN "completed" ELSE "failed"]
  /\ Forget({Cli}) /\ UNCHANGED cache
  /\ FlowSame /\ UNCHANGED <<fresh, met>>

-----------------------------------------------------------------------------
(* Steps of the scraper, of DFS and of the clock.                          *)

Serve(t) ==
  \/ LoadCachedAirport(t) /\ Quiet
  \/ DiscoverLetters(t) /\ Quiet
  \/ RefreshIndex(t) /\ Quiet
  \/ DiscoverDocuments(t) /\ Quiet
  \/ \E d \in Titles, outcome \in Outcomes, saved \in BOOLEAN :
        DownloadDocument(t, d, outcome, saved) /\ Quiet
  \/ OpenManifest(t) /\ Quiet
  \/ WriteManifest(t) /\ FlowSame /\ Freshen
  \/ MarkCompleted(t) /\ Quiet
  \/ MarkFailed(t) /\ Quiet

Await(t) == PollCompleted(t) \/ PollFails(t)

Pipeline(t) ==
  \/ PostStart(t) \/ PostLost(t) \/ PostFails(t)
  \/ Await(t) \/ GiveUp(t) \/ ImportManifest(t)

Script ==
  \/ \E e \in Editions : ScriptSingle(e) \/ ScriptBulk(e)
  \/ ScriptDocuments \/ ScriptDownload \/ ScriptManifest \/ ScriptEnds

World == ~Over /\
  \/ Publish /\ Quiet
  \/ Withdraw /\ Quiet
  \/ CacheExpires /\ Quiet
  \/ Refresh /\ Quiet
  \/ Crash /\ Quiet

Finished == Over /\ UNCHANGED allVars

FlowNext ==
  \/ \E t \in Tasks : Pipeline(t) \/ Serve(t)
  \/ Script \/ World \/ Finished

\* Every await of a scrape is bounded, and so is the time between two polls.
\* GiveUp has no fairness: ScrapeEnds does not rest on the deadline.
FlowSpec ==
  /\ FlowInit /\ [][FlowNext]_allVars
  /\ \A t \in Tasks : WF_allVars(Serve(t)) /\ WF_allVars(Await(t))

-----------------------------------------------------------------------------
(* Properties.                                                             *)

\* A pipeline that goes on to import finds a manifest that was written after
\* it asked for the scrape: neither a crash, a lost job nor a scrape
\* that failed lets it take up what an earlier scrape has left.
FreshManifest ==
  \A t \in Tasks : wait[t] = "scraped" => fresh[t]

\* A manifest the service writes lists what DFS lists in its edition, or
\* nothing if DFS has withdrawn that edition while the scrape was queued or
\* under way.  (It is then a manifest like any other, and its import removes
\* every chart.)
EmptyOnlyIfWithdrawn ==
  manifest.by = "service" =>
    \/ DOMAIN manifest.docs = ListedIn[manifest.edition]
    \/ manifest.docs = NoDocs /\ manifest.edition < oldest

\* While scrapes do not overlap, the image behind a chart is at least of the
\* edition the chart was imported with, whatever failed in between.
ImageNotOlder ==
  ~met => \A d \in Titles :
    charts[d] # 0 /\ d \in DOMAIN manifest.docs /\ manifest.docs[d] = "ok"
      => files[d] >= charts[d]

\* A pipeline that waits for a scrape learns what became of it, without the
\* deadline of ten minutes.
ScrapeEnds == \A t \in Tasks : wait[t] = "waiting" ~> wait[t] # "waiting"
=============================================================================
