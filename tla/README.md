# AeroFly: a formal model

TLA+ modules, TLC configurations and TLAPS proofs for the parts of AeroFly
where the order of events decides what ends up in the database, in the search
index or on the screen.  AeroFly collects the VFR charts of German aerodromes
from the DFS site, lets two vision models read them, writes what both agree on
to PostgreSQL, and serves it to a web frontend with a search index.

## 1. The system

| Component | Code | State it keeps | Operations | What is hard |
|---|---|---|---|---|
| Job lifecycle | `data-ingestion/app/api/{extraction,sync}.py`, `services/{bulk_sync,sync_pipeline}.py`, `main.py` | rows of `ingest.extraction_jobs`; background tasks in the process | `POST /extract`, `/sync`, `/sync-bulk`; the phases scrape, import, extract; the sweep at startup | handlers in a thread pool, tasks on the event loop and in worker threads, a staleness guard that cannot see whether a task is alive, restarts |
| Extraction runner | `services/extraction_runner.py` | aerodrome columns, `ingest.runways`, `ingest.frequencies` | five field groups, each committed on its own | 2-of-2 agreement within tolerances, merge across charts, unique designators, overlapping runs |
| Manifest import, rotation | `services/manifest_import.py`, `api/aerodromes.py`, `scripts/import_scraped_data.py`, migration `20260518_0001` | `ingest.charts` | import of `manifest.json`; `PATCH .../rotation`; the script and the deduplication | editions change every URL; user edits in between; twins |
| Search | `search/app/{main,sync,meili}.py`, `data-ingestion/app/services/events.py` | the Meilisearch index; a Redis subscription | bulk load, subscribe, re-index, delete | events are not stored; load and subscription are two steps |
| Scraper | `scraper/app/`, `scripts/scrape_dfs_aip.py` | job store in memory, edition cache, index of chapters, images and `manifest.json` | `POST /scrape`, poll, a scrape in nine steps; the CLI script in the same directory | restart loses jobs; scrapes outlive their pipelines; DFS changes and withdraws editions |
| Providers, usage | `parser/providers`, `usage_tracker.py`, `image_guard.py`, `api/usage.py` | `ingest.api_usage` | call, downscale and retry, record, sum up | one call, how many rows; what is charged and then fails |
| Consensus library | `parser/{consensus,domain_validator,unit_normalizer,grounding}.py` | none | pure functions, called by tests and scripts only | numeric edges |
| Favorites | `gateway/app/api/favorites.py`, `frontend/src/hooks/useFavorites.ts` | `gateway.favorites`; the store of the page | list, add, remove; optimistic toggle with rollback | overlapping requests |
| Job polling | `frontend/src/hooks/useExtractionJob.ts`, `components/BulkSyncButton.tsx` | timers, the job shown | poll, trigger, navigate away | polls under way when polling stops |
| Gateway proxies, read endpoints, rendering, scripts, migrations | the rest | none of their own | forwarding, queries | – |

How they interact.  The frontend talks to the gateway, which forwards to
data-ingestion and search.  A sync request inserts a job row and adds a
background task; the task asks the scraper over HTTP and polls it, imports the
manifest the scraper wrote to a shared volume, and runs the extraction runner
in a worker thread.  The runner commits field group by field group, marks the
row completed and publishes `aerodrome.upsert` on Redis.  Search, if it is
subscribed at that moment, fetches the row over HTTP and updates its index.

What makes each part correct:

- **Jobs**: an aerodrome has one active job; a row that is active has a task
  that will end it, or is cleared by a later request; nobody ends or revives a
  row that another one works on.
- **Runner**: what is written was agreed on by both models; charts that agree
  add no strip; pairs of designators are distinct; the table is one run's result.
- **Charts**: after an import the charts are those of the manifest; a rotation
  stays with its document.
- **Search**: a document lags behind its row but never goes back; every change
  gets there.
- **Scraper**: a pipeline imports what was scraped for it, or something newer;
  a manifest lists what DFS lists; whoever waits for a scrape hears of its end.
- **Usage**: what is shown as spent is what was charged.
- **Favorites**: a page whose requests are answered shows what the server has.
- **Polling**: one chain of timers per page; the display of a job goes forward and
  reaches its end.

## 2. Modules

| Module | Models | Proofs |
|---|---|---|
| `JobLifecycle` | abstract: what a job row promises its readers | |
| `ExtractionJobs` | job rows, endpoints, pipeline, sweep; implements `JobLifecycle` | `ExtractionJobs_proofs` |
| `JobPolling` | a browser tab that follows jobs; reads rows that behave as `JobLifecycle` | `JobPolling_proofs` |
| `LaggingIndex` | abstract: a copy that lags and never goes back | |
| `SearchIndex` | publication, bulk load, subscription, re-indexing; implements `LaggingIndex` | `SearchIndex_proofs` |
| `Scraper` | the scraper service: edition, index, jobs, directory | |
| `ScrapeFlow` | `Scraper` composed with pipelines, the CLI script and the import | `ScrapeFlow_proofs` (of both) |
| `ChartImport` | manifest import, rotation requests, import script, migration | `ChartImport_proofs` |
| `RunwayConsensus` | from two models' readings to rows of `ingest.runways` | |
| `FieldConsensus` | the same for scalar fields and frequencies | |
| `Places` | the elements of a list at given places, in order (`Picked`), which both use | |
| `ProviderCalls` | the calls of the models, the retry, the rows of `api_usage` | |
| `ExtractionGroups` | the three above as the groups of one job | `ExtractionGroups_proofs` (of all four) |
| `TableReplace` | overlapping DELETE and INSERT of runs | `TableReplace_proofs` |
| `Favorites` | the endpoints and the stores of two tabs | `Favorites_proofs` |
| `MCJobs`, `MCSearch`, `MCTables`, `MCCharts`, `MCGroups`, `MCScrape`, `MCFavorites`, `MCPolling` | constants of the TLC runs | |

The modules meet where one takes the outcome of another as an input that it
leaves open.  A phase of a job in `ExtractionJobs` ends well or raises: what
a scrape does is `ScrapeFlow`, what an import does is `ChartImport`, what an
extraction agrees on is `ExtractionGroups` and how it is written `TableReplace`.
`ChartImport` reads any manifest in any order, since `ScrapeFlow` shows that
an older scrape may write last.  The rows of `JobPolling` and those of
`ExtractionJobs` implement one specification, `JobLifecycle`; both are proved.  `TableReplace` lets runs of one aerodrome
overlap, which `ExtractionJobs` (run `jobs_one_active`) shows to happen.
`SearchIndex` takes a job as the sequence write, complete, publish.

In the modules an operator whose comment begins with "Mutant" is a plausible
slip in the code next to it; each is there for one property that must notice it.

### ExtractionJobs

A row is `status`, `icao`, `created`, `started` and `error` (by its author: the
staleness guard writes "stuck", the sweep "orphan", a failing task "failure").
`task` says where the background task of the row stands and `batch` which list
`BulkSync.run` was given; `req` is what a handler thread knows.

| Action | Code |
|---|---|
| `Receive`, `Lookup` | the head of the endpoint and its SELECT of the newest active row |
| `Promote` | the commit that fails a stale row (`/extract`, `/sync`); `/sync-bulk` does it in the commit of `InsertJobs` |
| `InsertJobs`, `InsertFails`, `InsertWithoutTask` | the INSERT and its commit; the commit raises; the commit is done and the lines behind it raise |
| `SyncStart` ... `Handoff` | `SyncPipeline.run`, one step for each commit or phase |
| `RunStart`, `Complete`, `ExtractFails` | `ExtractionRunner.run` |
| `FailJob` | `_fail_job`, and the runner's handler |
| `SyncStartFails`, `HandoffLost`, `RunStartLost`, `FailJobLost` | a database error at that commit |
| `Crash`, `Restart`, `RestartSweepFails` | the process dies; `_sweep_orphaned_jobs` |
| `Tick` | time; a scrape is given up when its 10 minutes have passed |

`Life` is `JobLifecycle` on the same rows, and `KeepsLifecycle` the refinement:
a row is inserted queued and runs and ends; the only other ways it goes are the
revisions of an end that the staleness guard causes.  It never waits again and
never changes its aerodrome, through crashes and the startup sweep.

The look-up and the commit are two steps because the endpoints are sync
functions that FastAPI runs in a thread pool, and nothing locks the rows.  A
task writes only the columns it changed: the session keeps its objects after a
commit (`expire_on_commit=False`) and SQLAlchemy updates the columns that were
assigned, so a task that ends a row leaves the error text of another author
unless it writes its own.

### SearchIndex and LaggingIndex

A row and a document are a version number.  `bulk_load` reads page by page
(`FullPage`, `LastPage`) and rows may change between two pages; `Subscribe` is
a step of its own after it, as in `lifespan`.  `Publish` appends to the
subscription's queue only while it exists.  `Fetch` and `Apply` are the two
awaits of `reindex_one`.  The history variable `lost` is the set of aerodromes with a
change that a listening search service was not told of.

### ChartImport

A document is its title, page and whether its download failed; a `source_url`
is the edition and the page.  `ImportRead` is everything up to the commit,
`ImportCommit` the flush and commit, with the order SQLAlchemy's unit of work
keeps (updates by key, inserts, deletes) because `source_url` is unique at each
statement.  Imports do not overlap: `_import` is synchronous on the event
loop.  Rotation requests run in threads and do overlap with it.  Titles are
taken to be distinct in a manifest.

`ScriptAdds` and `ScriptWipes` are `import_scraped_data.py`, which matches by
`source_url` and so adds a twin for every document when the edition changes.
`ImportRead` keeps one of the twins, any one, as the dictionary of the code
does.  `Migrate` is the migration that removes twins: the largest rotation and
the row of the latest AIRAC cycle stay.  It may run while an import is between
its read and its commit; `RowGone` is then a refused commit.  `MonthOf` is the
cycle an edition is filed under, which is its month: 13 editions a year have
12 months, so two editions may share one.

### Scraper and ScrapeFlow

DFS is external: it publishes edition after edition and withdraws old ones,
and a page that is not there answers without links and images (`Serves`).
`cache` is the edition of `airac.py`, `index` the file with the chapter hashes.
A scrape goes through `Steps`: queued, the root page, the letter pages, the
documents of the aerodrome, one download after the other, the manifest opened
(`write_text` truncates first) and written.  Each awaits something, and each
may raise (`MarkFailed`).  `Crash` forgets the jobs and the cache and leaves
the files.

`ScrapeFlow` adds the pipelines of data-ingestion, one for each task (`PostStart`,
`PostLost`, `PostFails`, polls, `GiveUp`, `ImportManifest`), and a run of
`scrape_dfs_aip.py`, the older twin of the scraper with hashes of its own
(`HashEdition`), in the same directory.  `fresh` and `met` are history.

### ProviderCalls, FieldConsensus and ExtractionGroups

`ProviderCalls` follows `_call_both_providers` for the groups that are only
looked at: ask the first model, perhaps once more with a smaller picture
(`SizeRejected`, `Downscale`), record, parse, ask the second.  Rows in
`api_usage` are counts; a row the tracker fails to write goes to `lost`, since
`record` never raises.  `sent`, `billed` and `twice` are history.

`FieldConsensus` takes the outcome of the calls (`ChartAnswered`, `ChartFails`)
and models what is agreed on: `Agrees` with tolerances for numbers and words
for texts, `FillGaps` across charts, and for frequencies the labels
(`MapFreqType`), the greedy matching (`Partners`), the more precise of two
readings and the merge by text.  A frequency is in kHz with the number of its
fractional digits.  `voted` is history.

`ExtractionGroups` runs one group of `_run_pipeline`.  The groups share nothing but
the usage rows and commit one by one, so their states are not multiplied.

### Favorites

A page is its set and its load; a request is a record that goes through the
statements of its endpoint (`Insert`, `SelectAdded`; `GetRemoved`,
`DeleteRemoved`), each its own step because endpoints run in a thread pool.
`CallRefused` is a request that is not carried out, `AnswerLost` one that is and
whose answer does not come.  `clean` and `unsure` are history: which requests
nothing interfered with, and where page and server need not agree.

### JobPolling

`chains` are the timers and polls of the hook; `ref` says whether `timerRef`
holds the timer, which is all `StopPolling` can reach.  `GoToOther` is the effect's
cleanup and re-run with the hook's state kept, `Mount` a new component.  `post` and
`latest` are the requests of a trigger and of the mount effect.  `button` is the
BulkSyncButton with what it counted.  A request fails in the gateway after or
before it was carried out.

### RunwayConsensus

`CallBothProviders` chooses what the two models read, from the set `Readings`;
`MergeChart` pairs the strips (`Agreed`), resolves the high end (`ResolveHe`)
and the surface, and merges them by `Key`; `WriteRunways`, `KeepRunways` and
`WriteFails` are the ends of `_write_runways`.  Agreement of texts up to case
and blanks is equality here.  (`FieldConsensus` tells them apart.)

### TableReplace

PostgreSQL's READ COMMITTED is modelled from how the code relies on it: a
DELETE takes the rows committed when it starts, waits for a transaction that
holds one of them, and skips what that one has deleted; the INSERTs are sent
with the COMMIT, which is one step here.  Two transactions that wait for each
other's uncommitted keys are ended by PostgreSQL with an error, which is
`Fail`.

## 3. Runs

All runs finish in well under five minutes.

| Run | Instance | Checks |
|---|---|---|
| `jobs_bulk` | 2 rows, 2 aerodromes, 1 handler, a bulk list of both, clock to 2, fairness, no fault | `TypeOK`, `SecondActiveIsStuck`, `BulkSequential`, `NoGhostWithoutFault`, `EveryJobSettles` |
| `jobs_threads` | 2 rows, 1 aerodrome, 2 handlers, 1 fault, clock to 2 | `LiveTerminalIsStuck`, `SyncWindowCoversScrape` |
| `jobs_retry` | 2 rows, 1 handler, 2 faults, fairness, restarts and retries | `GhostIsCleared`, `KeepsLifecycle` (refinement) |
| `jobs_one_active` | 2 rows, 2 handlers, no fault | finding: `OneActive` fails |
| `search_index` | 3 aerodromes, pages of 2, 2 versions, 2 faults, fairness | `StaleOnlyIfLost`, `LagsBehind` (refinement), `AnnouncedReachesIndex` |
| `tables_replace` | 3 runs, 2 keys, unique key, fairness | `WholeResults`, `MixedOnlyIfMet`, `NeverEmptied`, `ReplaceEnds` |
| `charts_import` | 6 manifests of 2 editions, 2 titles and 2 pages; 3 keys; 2 rotations; script and migration | `RotationSurvives`, `OneRowPerTitle`, `ImportMirrorsManifest` |
| `extraction_groups` | runways: 2 charts with up to 2 strips 08/26 with 4 readings of the surface, a strip 08G/26G, or up to 3 of 07L, 07R, 18 in any order; fields: 2 charts, an elevation and a city, up to 2 of 5 lines; calls: 3 charts, 4 pictures, 1 lost row | `ConsistentChartsAddNoStrip`, `PrimaryHasBestSurface`, `TwoStripsAreWritten`, `ListingOrderIrrelevant`, `HighEndIsSafe`; `ScalarsFromFirstAgreement`, `LinesPairUp`; `SpentIsShown`, `EveryCallHasItsRow`, `RetryFits` |
| `runways_unique` | the same | finding: `EveryPairIsUnique` fails |
| `scrape_import` | 2 pipelines and the script, 2 scrapes in all, 2 editions, 1 document, fairness | `FreshManifest`, `EmptyOnlyIfWithdrawn`, `ImageNotOlder`, `ScrapeEnds` |
| `favorites` | 2 tabs, 2 aerodromes, 2 requests under way, 1 fault | `SettledPageAgrees`, `RaisesOnlyIfOverlapping` |
| `polling` | 2 aerodromes and the dashboard, 2 jobs, 2 moves, 2 chains, 1 fault, fairness | `OneChain`, `ShownGoesForward`, `BulkCountsNewJobs`, `EndIsShown`, `BulkEnds` |

Of the type invariants only that of the jobs is listed; those of the other
modules are proved (section 5).

**Why the bounds suffice.**  The job properties relate two rows of one
aerodrome, or two of one list, and are proved for any number of rows.  A window of n units has passed when n + 1 of them have, so
the shortest windows the assumptions allow let a short clock go past them: the
scrape is given up after 0 units, `/sync` waits 1, and `/extract` waits 0 in
`jobs_threads`, where the difference of the two windows matters, and 1
elsewhere.  With the clock at 2 a row can become stale for either endpoint
while its task lives, and in `jobs_retry` a row without a task can be cleared.
The two faults of `jobs_retry` let the startup sweep fail after a crash.
Faults are left out of `jobs_bulk`, since `EveryJobSettles` and
`NoGhostWithoutFault` are about a process that stays up and writes that succeed;
`jobs_threads` has every other fault, and the theorems have any number.
In `search_index` two faults let a crash follow a loss; three aerodromes with
pages of two have a full page, a short one and rows that cross the boundary,
and the deletion of a row makes the last page empty.  Two titles and two pages
are enough to swap, hand over and clash; three keys let a title have a twin, and a
deleted row's successor a new key.  Two charts suffice for a strip of one to meet a
strip of the other; three runs let one start before, during and after another.
`tables_replace` has the unique key of the runways; the frequencies have none,
and the theorems of section 5 cover both.  In `scrape_import` any two scrapes can meet (two pipelines, or one and the
script), with an edition that changes and one that is withdrawn under either; a third
would only repeat one of the two.  In `favorites` two requests under way are
two of one tab or one of each, on one aerodrome or on two.  In `polling` two
moves let a page be left, or a sync be triggered, while a poll is under way, and two jobs
let one be older than the button; two chains let a second one arise.  The
elevations lie one tolerance and two apart, the frequencies one, three and four;
the pictures fit as they are, at the second rung, at the last, or never.

The bounds in guards are `MaxClock`, `MaxFaults`, `MaxVersion`, `MaxCharts`,
`MaxCandidates` and `MaxAudited` (the code has these three too, as
`MAX_CANDIDATES_PER_GROUP`), `MaxLost`, `LastEdition`, `MaxScrapes`, `MaxCalls`,
`MaxJobs`, `MaxChains` and `MaxMoves`; the keys of `ChartImport` are finite
(`NoKeys`), and the script and DFS stand still when all pipelines are over
(`Over`).

**Symmetry** in the rows and in the handler threads is used in the two job runs
that check no liveness, and in the tabs and the aerodromes of `favorites`.

**Deadlock** is checked in the job, chart, scrape and favorites runs; where all
scrapes are over (`Finished`) the scrape run stutters.  The other runs
turn it off since their systems stop: the version bound is used up, the group
or the run has written, the jobs have ended and the user makes no more moves.

**Fairness.**  `ExtractionJobs!Fairness` is weak fairness of each task and each
handler: the event loop and the thread pool run whatever is ready, and every
wait in the code has a timeout.  Nothing is assumed of requests, faults or
time.  `RetrySpec` adds what the promise of the staleness guard rests on: time
passes, somebody restarts a dead service and the user asks again, again and
again (strong fairness, since a handler is idle only between its requests).
`SearchIndex!FairSpec` is weak fairness of the search service's own steps;
jobs are under no obligation.  `TableReplace!FairSpec` lets the threads and
the database go on.  `ScrapeFlow!FlowSpec` is weak fairness of each scrape, whose
awaits all have timeouts, and of the polls; not of `GiveUp`, so that
`ScrapeEnds` does not rest on the ten minutes, and not of the script.
`JobPolling!Fairness` says that timers fire, that requests are answered or fail,
and that jobs end, which `EveryJobSettles` shows of a service that stays up.

## 4. What the runs found

Two requests can insert two active rows (`OneActive`, run `jobs_one_active`):
the look-up and the insert are two transactions, and handlers run in threads.
The property states what the comment above the look-up says; `PROJECT.json`
quotes it.

`_disambiguate_designators` does not make pairs of designators unique, as its
docstring (`extraction_runner.py:768`) says it does (`EveryPairIsUnique`, run
`runways_unique`).  It appends one suffix per surface and compares the result with
nothing: two grass strips beside a paved one both become 08G/26G, and so does a
grass strip beside a chart's own 08G/26G.  The unique constraint then fails the
job, each time it is repeated.  `TwoStripsAreWritten` is what does hold: two
strips of a designator are written, unless a chart reads the name that one of
them is given.

Where comments and code part otherwise, the properties are stated as the code
has it:

- `events.py:36-38` calls the startup bulk load the safety net for missed
  events.  `main.py:36` awaits it before the subscription, so a change between
  the two is missed without any fault; `StaleOnlyIfLost` counts it as lost.
- `manifest_import.py:102-103` deletes charts that DFS dropped; line 157 also
  deletes those whose download failed, with their rotation.
  `RotationSurvives` and `Listed` have it so.
- `_call_both_providers` says that a provider that fails costs a chart and not
  the job (lines 404-409).  A model that answers with a list has not failed
  there, and ends the job at line 585 (`ListAnswered`).
- The tolerance of frequencies is to keep adjacent channels apart (lines
  803-806); it is 5 kHz, and designators of 8.33 kHz channels are 5 kHz
  apart.  Hence the premise `FarApart` of `LinesPairUp`, which the
  lines of the first model have to meet.
- `usage_tracker.py:5` speaks of one row per call; a call that was charged and
  cannot be parsed leaves two, and one that is refused for its size
  leaves one per attempt (`twice` in `EveryCallHasItsRow`).
- The migration calls itself idempotent; the import script, which is still
  there, makes twins again in every edition (`loose` in `OneRowPerTitle`).

The models also show behaviour that has no run of its own.  The 10
minute guard of `/extract` takes a row that waits in a bulk list for an
abandoned one.  A row that the guard failed is revived by its task's next
step; `RevivedOnlyIfStuck`, which is proved and has no run (it follows from
`LiveTerminalIsStuck`, as only a live task revives a row), has that exception.
A document whose row was deleted survives the bulk load, which only upserts (`lost` covers it).
Two charts that list two strips in opposite order add up to three strips,
which is why `ConsistentChartsAddNoStrip` has its premise.  Overlapping runs
leave the frequencies of both, which is why `MixedOnlyIfMet` has `met`.
Two charts that write a frequency as 118.7 and as 118.700 give two rows of it.
The ladder of the image guard enlarges a small picture of many bytes.  A
scrape that runs with the cached edition when DFS withdraws it writes an empty
manifest, and the import removes every chart (`EmptyOnlyIfWithdrawn`).  A
request that is under way when a page changes its aerodrome arms a second chain of
timers (`raced` in `OneChain`), and its answer may put the job on display back to an
earlier status (`raced` in `ShownGoesForward`).  The set of favorites that the initial load
brings replaces a toggle made meanwhile (`unsure`).

## 5. Proofs

TLAPS checks the following for every value of the constants.  No invariant but
`TypeOK` of the jobs and of the tables is inductive as it stands; the
strengthened one that carries the others is named in the last column.  TLC has
checked each of them on the instance of the component's run.

| Theorem | Statement | Argument |
|---|---|---|
| `TypeCorrect` (jobs) | `[]TypeOK` | one case per action |
| `LiveTerminalIsStuckCorrect`, `RevivedOnlyIfStuckCorrect` | who ends and who revives a row | `LifeInv`: types; while the process is down no task lives and no handler serves; an absent row has no task; and the property itself |
| `NoGhostWithoutFaultCorrect` | without faults active rows have tasks | `GhostInv`: `LifeInv` and the property: a row leaves its task only by becoming terminal, and the sweep and the crash count as faults |
| `SyncWindowCoversScrapeCorrect` | sync never takes a row that is being scraped | `WindowInv`: a row that is being scraped has its start set, at most `ScrapeMaxWait + 1` ago; a row not yet begun has none; a request's `now` is not in the future; needs `ScrapeMaxWait < SyncStaleAfter` |
| `BulkSequentialCorrect` | one row of a list at a time | `BatchInv`: `LifeInv`; the rows of a list share it and are distinct; an `/extract` request makes at most one row; and the property |
| `SecondActiveIsStuckCorrect` | two active rows mean that one was stuck | `SerialInv`, for one handler: creation times are ordered and rows marked stuck are older than the clock (`TimeInv`); an active row not marked is alone and newer than every marked one (`OwnerInv`); what a request knows stays true until its commit (`RequestInv`) |
| `KeepsLifecycleCorrect` | `ExtractionJobs` implements `JobLifecycle` | `WayInv`: `LifeInv`; a task that lives has a row that is not completed, and an extracting one a row that no longer waits; the rows a request calls stale exist.  Each commit then moves each row along an edge of `JobLifecycle`, or not at all |
| `SearchTypeCorrect`, `LagsBehindCorrect` | `SearchIndex` implements `LaggingIndex` | `LagInv`: what was read, fetched or queued is an old version of its row, and no older than the document once the load is done |
| `StaleOnlyIfLostCorrect` | a stale document means a lost change | `FollowInv`: `LagInv`, and of every row of which nothing was lost: while pages are read it was read as it is, or is still ahead of the offset (`Rank`), or its job is going to announce it; from then on its document is current, or being fetched, or announced, or going to be |
| `TypeCorrect` (tables) | types; no lock is left | one case per action |
| `WholeResultsCorrect`, `NeverEmptiedCorrect` | readers see whole results; the table is never emptied | `WholeInv`: the table, what a DELETE looks for and what it deletes are unions of whole results, so differences are too |
| `MixedOnlyIfMetCorrect` | rows mix only if the runs overlapped | `MetInv`: a row that escapes a DELETE was inserted by a run it met |
| `ChartsTypeCorrect`, `RotationSurvivesCorrect`, `OneRowPerTitleCorrect`, `ImportMirrorsCorrect` | a rotation stays, titles stay unique, an import leaves what its manifest lists | `ChartsInv`: what the session read of a row is still its title, and no two of its rows share one (`SessionTrue`); once migrated, and without the script, an import under way has read all rows, or it would make a twin (`NoTwins`) |
| `FavoritesTypeCorrect`, `SettledPageAgreesCorrect`, `RaisesOnlyIfOverlappingCorrect` | a page agrees with the server where nothing interfered | `FavInv`: a request that is clean is the only one of its aerodrome, and its two statements act as one (`Undisturbed`); the server follows the page once the request is carried out (`Tracks`) |
| `FlowTypeCorrect`, `FreshManifestCorrect`, `EmptyOnlyIfWithdrawnCorrect`, `ImageNotOlderCorrect` | what a pipeline imports, and what stands behind a chart | `FlowInv`: what is to do and what is done cover what the edition lists, or it was withdrawn before the links were asked for (`ListInv`); a pipeline that hears of its end has had its manifest written (`FreshInv`); without an overlap, editions only grow from DFS to the manifest, the images and the rows (`AgeInv`) |
| `CallsTypeCorrect`, `SpentIsShownCorrect`, `EveryCallHasItsRowCorrect`, `RetryFitsCorrect` | what is charged is shown; what is sent again fits | `CallsInv`: rows written and lost add up to what was charged, and with the call that is out to what was sent; a second attempt sends the rendering `Downscale` chose |
| `ScalarsFromFirstAgreementCorrect` | a scalar is that of the first chart both models agree on | `GeoInv`: a field is set if and only if a merged vote was near, and by the first of these; the vote at hand is the last |
| `RunwaysTypeCorrect`, `HighEndIsSafeCorrect`, `PrimaryHasBestSurfaceCorrect`, `ListingOrderIrrelevantCorrect` | no high end is guessed; the best surface keeps the designator; order does not matter | `RunwayInv`: merged and written rows have designators at both ends, and what is written is what the suffixes make of what was merged.  `ByLe`, `Resolved` and `Agreed` pick strips out of lists in order (`PickedFrom`), which is what the reordering lemma needs |
| `LinesPairUpCorrect` | lines that are one tolerance apart are paired with each other | `VoteInv`: the lines of a vote at hand are readings.  The recursion of `Partners` has the value `Partner` gives at every place: a least place without it would have a least one before (`PartnersIs`); different lines then have different partners (`PartnersDiffer`), so a line close to one of the first model is still free when that one asks for it |
| `ConsistentChartsAddNoStripCorrect`, `TwoStripsAreWrittenCorrect` | charts that agree add no strip; two strips of a designator can be written | `ListedInv`: a merged key is the key of a strip that some chart lists, and only the unique index fails the group.  A key is a pair, or a pair and the surface of a strip listed behind the first of the pair (`KeysOfRows`); of listings of which any two are comparable one has all these surfaces (`LargestListing`), so it has a strip for each row (`RowsAreFew`).  Of two rows one is the primary (`OnePrimary`), and the name of the other is nobody else's (`TwoStripsDiffer`) |
| `PollingTypeCorrect`, `OneChainCorrect`, `BulkCountsNewJobsCorrect` | one chain of timers; old jobs are not counted | `PollInv`, one part for each party.  `RowsInv`: rows are made in the order of their numbers, and an active row is its aerodrome's newest.  `ButtonInv`: every aerodrome the button has asked for has a row newer than the old ones.  `HookInv`: without a race there is one timer, poll or request, and `timerRef` holds the timer (`AloneInv`) |
| `ShownGoesForwardCorrect` | the display of a job never goes back | `DisplayInv`: `PollInv`; what is displayed and what was read is not ahead of its row (`SeenInv`), and without a race the answer under way is not behind the display (`OrderInv`), since nothing else could have reached it in between |
| `RowsKeepLifecycle` | the rows of `JobPolling` implement `JobLifecycle` | `PollInv`, and for each action that the rows it makes are queued ones of an aerodrome, or that it takes one row forward (`WayStep`) |

The groups are proved about as `ExtractionGroups` composes them: the theorems
are about `GroupsSpec`, whose steps are those of one group and leave the
variables of the others alone.

**Assumptions.**  Each module declares its own, and TLC evaluates them.  Beside
finite sets of keys, lists without duplicates and natural numbers: the scrape's
deadline is shorter than the window of a sync request; a manifest lists known
titles and its edition has a month (`ManifestAssumption`), keys and rotations
are natural numbers and finitely many, and 0, the default of the column, is a
rotation; tolerances are natural numbers of fields whose readings are integers
(`FieldAssumption`: other fields must agree exactly), and readings of frequencies are
lists of lines with a whole number of kHz; there is an edition
(`ScraperAssumption`: DFS publishes one when the service starts); the dashboard
is not an aerodrome (`PollingAssumption`).  The ladder of the image guard has a
rung, the edges and bytes are numbers (`PictureAssumption`).  The bounds of the
runs are parameters of the specifications, so a theorem holds for any value of
them.

**Only model-checked** is liveness, out of the prover's reach: `EveryJobSettles`,
`GhostIsCleared`, `AnnouncedReachesIndex`, `ReplaceEnds`, `ScrapeEnds`, `EndIsShown`,
`BulkEnds`.  Every invariant and every action property of the runs is a theorem,
except the two that fail.  `RevivedOnlyIfStuck` and `RowsKeepLifecycle` are
theorems that no run repeats.

The proofs changed two properties.  `TwoStripsAreWritten` was false without the
premise about names: an instance with a strip 08G/26G refutes it, and
`EveryPairIsUnique` came of that.  `LinesPairUp` had asked both models' lines to be
far apart; those of one are enough.

## 6. Not modelled, and the plan

Not modelled: rendering and i18n; pure queries; the proxies that only forward;
migrations that only declare tables; the seed of demo rows and the spike, which
are single passes over fixed data; what a vision model answers; and the consensus
library, which no service calls.  In the modelled parts: progress and step texts,
lengths and widths of runways, callsigns and hours of frequencies, names and
languages of charts, the AIRAC cycle rows, prices and the breakdown of the usage
page, an explicit `edition` in a scrape request.

Done: the other components of section 1 are modelled and model-checked; every invariant and
action property that a run checks and that holds is proved, and so are the three
refinements.

Left:

1. Two documents of one title in a manifest.
2. Two bulk requests that fail stale rows of the same aerodromes in opposite order
   wait for each other's rows inside PostgreSQL (`sync.py:211`); the rows of
   `ExtractionJobs` have no locks.
