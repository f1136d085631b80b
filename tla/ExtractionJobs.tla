--------------------------- MODULE ExtractionJobs ---------------------------
(***************************************************************************)
(* The life of a row of ingest.extraction_jobs in the data-ingestion       *)
(* service.  Three endpoints create rows (POST /extract, /sync and         *)
(* /sync-bulk), each after a check that the aerodrome has no active row;   *)
(* a background task of the same process carries each row through the      *)
(* scrape, import and extract phases; a staleness guard in the endpoints   *)
(* fails rows that look abandoned; and a sweep at startup fails whatever a *)
(* dead process left active.                                               *)
(*                                                                         *)
(* The endpoints are sync functions that run in a thread pool, so the      *)
(* look-up of the active row and the commit that follows are two steps,    *)
(* and so are any two database sessions.  What a scrape, an import or an   *)
(* extraction does to other tables is left out here: each phase ends well  *)
(* or raises.                                                              *)
(***************************************************************************)
EXTENDS Integers, Sequences, FiniteSets

CONSTANTS
  Jobs,               \* primary keys of extraction_jobs rows
  Aerodromes,         \* ICAO codes of the rows of ingest.aerodromes
  Handlers,           \* threads that serve requests
  BulkRequests,       \* ICAO lists a bulk request may name, duplicates dropped
  ExtractStaleAfter,  \* STALE_AFTER of POST /extract
  SyncStaleAfter,     \* STALE_AFTER of POST /sync and /sync-bulk
  ScrapeMaxWait,      \* _SCRAPE_MAX_WAIT_SECONDS
  MaxClock,           \* bound on the clock (model only)
  MaxFaults           \* bound on crashes and failed writes (model only)

ASSUME ConstantsAssumption ==
  /\ IsFiniteSet(Jobs)
  /\ BulkRequests \subseteq Seq(Aerodromes)
  /\ \A icaos \in BulkRequests :
        \A i, k \in DOMAIN icaos : icaos[i] = icaos[k] => i = k
  /\ ExtractStaleAfter \in Nat
  /\ SyncStaleAfter \in Nat
  /\ ScrapeMaxWait \in Nat
  /\ MaxClock \in Nat
  /\ MaxFaults \in Nat

\* The poll loop gives up before the window of a sync request has passed.
ASSUME WindowAssumption == ScrapeMaxWait < SyncStaleAfter

VARIABLES
  status,     \* column status, "absent" before the row is inserted
  icao,       \* column aerodrome_icao
  created,    \* column created_at
  started,    \* column started_at, Null until some task sets it
  error,      \* column error, by who wrote it
  task,       \* where the background task that owns the row stands
  batch,      \* the list of rows BulkSync.run was given with this one
  req,        \* what each handler thread knows
  clock,      \* the time, in units that measure the windows
  up,         \* the process is running
  faults      \* crashes and failed writes so far

rows == <<status, icao, created, started, error>>
vars == <<status, icao, created, started, error, task, batch, req,
          clock, up, faults>>

Null       == -1
NoIcao     == "no_icao"
Active     == {"queued", "running"}
Terminal   == {"completed", "failed"}
Kinds      == {"extract", "sync", "bulk"}

\* "pending": not begun; "run": about to enter ExtractionRunner.run;
\* "failing": about to write the failure; "gone": ended or killed.
InPipeline == {"scraping", "importing", "handoff"}
InRunner   == {"run", "extracting"}
LiveTask   == {"pending", "failing"} \cup InPipeline \cup InRunner
Busy       == LiveTask \ {"pending"}

Live(j)     == task[j] \in LiveTask
IsActive(j) == status[j] \in Active
Unused      == {j \in Jobs : status[j] = "absent"}

Idle == [pc |-> "idle", kind |-> "sync", todo |-> <<>>, now |-> 0,
         stale |-> {}, make |-> <<>>]

TypeOK ==
  /\ status  \in [Jobs -> {"absent"} \cup Active \cup Terminal]
  /\ icao    \in [Jobs -> Aerodromes \cup {NoIcao}]
  /\ created \in [Jobs -> Nat]
  /\ started \in [Jobs -> Nat \cup {Null}]
  /\ error   \in [Jobs -> {"none", "stuck", "orphan", "failure"}]
  /\ task    \in [Jobs -> {"none", "gone"} \cup LiveTask]
  /\ batch   \in [Jobs -> Seq(Jobs)]
  /\ req     \in [Handlers -> [pc : {"idle", "serving"}, kind : Kinds,
                               todo : Seq(Aerodromes), now : Nat,
                               stale : SUBSET Jobs, make : Seq(Aerodromes)]]
  /\ clock \in Nat
  /\ up \in BOOLEAN
  /\ faults \in Nat

Init ==
  /\ status  = [j \in Jobs |-> "absent"]
  /\ icao    = [j \in Jobs |-> NoIcao]
  /\ created = [j \in Jobs |-> 0]
  /\ started = [j \in Jobs |-> Null]
  /\ error   = [j \in Jobs |-> "none"]
  /\ task    = [j \in Jobs |-> "none"]
  /\ batch   = [j \in Jobs |-> <<>>]
  /\ req     = [h \in Handlers |-> Idle]
  /\ clock = 0
  /\ up = TRUE
  /\ faults = 0

-----------------------------------------------------------------------------
(* The endpoints.                                                          *)

\* Mutant: the look-up forgets the rows that still wait.
ActiveJobsRunningOnly(a) == {j \in Jobs : icao[j] = a /\ status[j] = "running"}

ActiveJobs(a) == {j \in Jobs : icao[j] = a /\ IsActive(j)}

\* ORDER BY created_at DESC LIMIT 1: any of the newest.
LatestActive(a) ==
  {j \in ActiveJobs(a) : \A k \in ActiveJobs(a) : created[k] <= created[j]}

LastActivity(j) == IF started[j] = Null THEN created[j] ELSE started[j]

\* Mutant: /sync keeps the window of /extract.
StaleAfterNarrow(kind) == ExtractStaleAfter

StaleAfter(kind) == IF kind = "extract" THEN ExtractStaleAfter
                                        ELSE SyncStaleAfter

\* Mutant: the guard does not fall back to created_at.
IsStaleOnceStarted(j, kind, now) ==
  started[j] # Null /\ now - started[j] > StaleAfter(kind)

IsStale(j, kind, now) == now - LastActivity(j) > StaleAfter(kind)

Serving(kind, icaos) == [pc |-> "serving", kind |-> kind, todo |-> icaos,
                         now |-> clock, stale |-> {}, make |-> <<>>]

\* A request arrives; `now` is taken before the first look-up.
Receive(h, kind, icaos) ==
  /\ up
  /\ req[h].pc = "idle"
  /\ req' = [req EXCEPT ![h] = Serving(kind, icaos)]
  /\ UNCHANGED <<rows, task, batch, clock, up, faults>>

ReceiveSome(h) ==
  \/ \E kind \in {"extract", "sync"}, a \in Aerodromes :
        Receive(h, kind, <<a>>)
  \/ \E icaos \in BulkRequests : Receive(h, "bulk", icaos)

\* The SELECT for the active row of the next ICAO, and what it decides: a
\* fresh row is reused, a stale one is to be failed, and a new row is to be
\* made unless one was reused.
Lookup(h) ==
  /\ req[h].pc = "serving" /\ req[h].todo # <<>>
  /\ LET a == Head(req[h].todo)
         next == [req[h] EXCEPT !.todo = Tail(@)]
         create == [next EXCEPT !.make = Append(@, a)]
     IN \/ /\ ActiveJobs(a) = {}
           /\ req' = [req EXCEPT ![h] = create]
        \/ \E j \in LatestActive(a) :
              req' = [req EXCEPT ![h] =
                        IF IsStale(j, req[h].kind, req[h].now)
                        THEN [create EXCEPT !.stale = @ \cup {j}]
                        ELSE next]
  /\ UNCHANGED <<rows, task, batch, clock, up, faults>>

LookedUp(h) == req[h].pc = "serving" /\ req[h].todo = <<>>

\* /extract and /sync commit the failed status before they insert, which
\* opens a new transaction.
Promote(h) ==
  /\ LookedUp(h) /\ req[h].kind # "bulk" /\ req[h].stale # {}
  /\ status' = [j \in Jobs |-> IF j \in req[h].stale THEN "failed"
                                                     ELSE status[j]]
  /\ error'  = [j \in Jobs |-> IF j \in req[h].stale THEN "stuck"
                                                     ELSE error[j]]
  /\ req'    = [req EXCEPT ![h].stale = {}, ![h].now = clock]
  /\ UNCHANGED <<icao, created, started, task, batch, clock, up, faults>>

ReadyToInsert(h) ==
  LookedUp(h) /\ (req[h].kind = "bulk" \/ req[h].stale = {})

\* The INSERTs of the rows in `make` (with the promotions, in the bulk
\* endpoint) in one commit.  `tasked`: the background task was added.
Insert(h, ids, tasked) ==
  LET r == req[h]
      new == {ids[i] : i \in DOMAIN ids}
      index(j) == CHOOSE i \in DOMAIN ids : ids[i] = j
      first == IF r.kind = "extract" THEN "run" ELSE "pending"
  IN /\ status' = [j \in Jobs |-> IF j \in new THEN "queued"
                                  ELSE IF j \in r.stale THEN "failed"
                                  ELSE status[j]]
     /\ error' = [j \in Jobs |-> IF j \in r.stale THEN "stuck" ELSE error[j]]
     /\ icao' = [j \in Jobs |-> IF j \in new THEN r.make[index(j)]
                                             ELSE icao[j]]
     /\ created' = [j \in Jobs |-> IF j \in new THEN r.now ELSE created[j]]
     /\ task' = [j \in Jobs |-> IF j \in new
                                THEN IF tasked THEN first ELSE "gone"
                                ELSE task[j]]
     /\ batch' = [j \in Jobs |-> IF j \in new THEN ids ELSE batch[j]]
     /\ req' = [req EXCEPT ![h] = Idle]
     /\ UNCHANGED <<started, clock, up>>

\* One unused key for each row to make.
FreshIds(n) == {ids \in [1..n -> Unused] :
                  \A i, k \in 1..n : ids[i] = ids[k] => i = k}

InsertJobs(h) ==
  /\ ReadyToInsert(h)
  /\ \E ids \in FreshIds(Len(req[h].make)) : Insert(h, ids, TRUE)
  /\ UNCHANGED faults

-----------------------------------------------------------------------------
(* The background task of a row: SyncPipeline.run, then ExtractionRunner.  *)

\* Mutant: BulkSync.run starts all its pipelines together.
TurnOfGathered(j) == \E i \in DOMAIN batch[j] : batch[j][i] = j

\* The rows BulkSync.run goes through before this one are finished.
TurnOf(j) ==
  \E i \in DOMAIN batch[j] :
     batch[j][i] = j /\ \A k \in 1..(i - 1) : task[batch[j][k]] = "gone"

Goes(j, from, to) == task[j] = from /\ task' = [task EXCEPT ![j] = to]

SyncStart(j) ==
  /\ TurnOf(j) /\ Goes(j, "pending", "scraping")
  /\ status'  = [status EXCEPT ![j] = "running"]
  /\ started' = [started EXCEPT ![j] = IF @ = Null THEN clock ELSE @]
  /\ UNCHANGED <<icao, created, error, batch, req, clock, up, faults>>

NoRowChange == UNCHANGED <<rows, batch, req, clock, up, faults>>

ScrapeOk(j)    == Goes(j, "scraping", "importing") /\ NoRowChange
ScrapeFails(j) == Goes(j, "scraping", "failing") /\ NoRowChange
ImportOk(j)    == Goes(j, "importing", "handoff") /\ NoRowChange

\* Mutant: no return after the failed import is written.
ImportFailsOn(j) ==
  /\ Goes(j, "importing", "handoff")
  /\ status' = [status EXCEPT ![j] = "failed"]
  /\ error'  = [error EXCEPT ![j] = "failure"]
  /\ UNCHANGED <<icao, created, started, batch, req, clock, up, faults>>

ImportFails(j) == Goes(j, "importing", "failing") /\ NoRowChange

Handoff(j)     == Goes(j, "handoff", "run") /\ NoRowChange

RunStart(j) ==
  /\ Goes(j, "run", "extracting")
  /\ status'  = [status EXCEPT ![j] = "running"]
  /\ started' = [started EXCEPT ![j] = clock]
  /\ UNCHANGED <<icao, created, error, batch, req, clock, up, faults>>

Complete(j) ==
  /\ Goes(j, "extracting", "gone")
  /\ status' = [status EXCEPT ![j] = "completed"]
  /\ UNCHANGED <<icao, created, started, error, batch, req, clock, up, faults>>

\* Mutant: the runner logs the exception and returns.
ExtractFailsSilently(j) == Goes(j, "extracting", "gone") /\ NoRowChange

ExtractFails(j) == Goes(j, "extracting", "failing") /\ NoRowChange

\* Mutant: a status outside the vocabulary of the column.
FailJobTypo(j) ==
  /\ Goes(j, "failing", "gone")
  /\ status' = [status EXCEPT ![j] = "error"]
  /\ error'  = [error EXCEPT ![j] = "failure"]
  /\ UNCHANGED <<icao, created, started, batch, req, clock, up, faults>>

FailJob(j) ==
  /\ Goes(j, "failing", "gone")
  /\ status' = [status EXCEPT ![j] = "failed"]
  /\ error'  = [error EXCEPT ![j] = "failure"]
  /\ UNCHANGED <<icao, created, started, batch, req, clock, up, faults>>

-----------------------------------------------------------------------------
(* Faults: a write that raises, a crash, a sweep that raises.              *)

Fault == faults < MaxFaults /\ faults' = faults + 1

TaskDies(j, at) ==
  Goes(j, at, "gone") /\ UNCHANGED <<rows, batch, req, clock, up>>

\* The first _update_job raises inside the try block: the row is failed.
SyncStartFails(j) ==
  /\ Fault /\ TurnOf(j) /\ Goes(j, "pending", "failing")
  /\ UNCHANGED <<rows, batch, req, clock, up>>

\* The _update_job between the two try blocks raises out of the task.
HandoffLost(j)  == Fault /\ TaskDies(j, "handoff")
\* ExtractionRunner.run cannot mark the row running and returns.
RunStartLost(j) == Fault /\ TaskDies(j, "run")
\* The write of the failure raises itself.
FailJobLost(j)  == Fault /\ TaskDies(j, "failing")

\* The rows are committed, then the refresh or the providers raise, and no
\* task is added.
InsertWithoutTask(h) ==
  /\ Fault /\ ReadyToInsert(h)
  /\ \E ids \in FreshIds(Len(req[h].make)) : Insert(h, ids, FALSE)

\* The commit raises and is rolled back; also taken when the model has no
\* key left for the rows.
InsertFails(h) ==
  /\ ReadyToInsert(h)
  /\ IF Cardinality(Unused) < Len(req[h].make) THEN UNCHANGED faults ELSE Fault
  /\ req' = [req EXCEPT ![h] = Idle]
  /\ UNCHANGED <<rows, task, batch, clock, up>>

Crash ==
  /\ Fault /\ up /\ up' = FALSE
  /\ task' = [j \in Jobs |-> IF Live(j) THEN "gone" ELSE task[j]]
  /\ req' = [h \in Handlers |-> Idle]
  /\ UNCHANGED <<rows, batch, clock>>

\* Mutant: the sweep puts the rows back into the queue.
RestartRequeues ==
  /\ ~up /\ up' = TRUE
  /\ status' = [j \in Jobs |-> IF IsActive(j) THEN "queued" ELSE status[j]]
  /\ error'  = [j \in Jobs |-> IF IsActive(j) THEN "orphan" ELSE error[j]]
  /\ UNCHANGED <<icao, created, started, task, batch, req, clock, faults>>

\* _sweep_orphaned_jobs runs before the first request is served.
Restart ==
  /\ ~up /\ up' = TRUE
  /\ status' = [j \in Jobs |-> IF IsActive(j) THEN "failed" ELSE status[j]]
  /\ error'  = [j \in Jobs |-> IF IsActive(j) THEN "orphan" ELSE error[j]]
  /\ UNCHANGED <<icao, created, started, task, batch, req, clock, faults>>

RestartSweepFails ==
  /\ Fault /\ ~up /\ up' = TRUE
  /\ UNCHANGED <<rows, task, batch, req, clock>>

\* Time passes.  A scrape is not polled past its deadline by more than one
\* unit; extraction has no deadline.
Tick ==
  /\ clock < MaxClock
  /\ \A j \in Jobs :
        task[j] = "scraping" => clock - started[j] <= ScrapeMaxWait
  /\ clock' = clock + 1
  /\ UNCHANGED <<rows, task, batch, req, up, faults>>

-----------------------------------------------------------------------------
HandlerStep(h) == Lookup(h) \/ Promote(h) \/ InsertJobs(h) \/ InsertFails(h)

TaskStep(j) ==
  \/ SyncStart(j) \/ ScrapeOk(j) \/ ScrapeFails(j)
  \/ ImportOk(j) \/ ImportFails(j) \/ Handoff(j)
  \/ RunStart(j) \/ Complete(j) \/ ExtractFails(j) \/ FailJob(j)

TaskFault(j) ==
  SyncStartFails(j) \/ HandoffLost(j) \/ RunStartLost(j) \/ FailJobLost(j)

Next ==
  \/ \E h \in Handlers :
        ReceiveSome(h) \/ HandlerStep(h) \/ InsertWithoutTask(h)
  \/ \E j \in Jobs : TaskStep(j) \/ TaskFault(j)
  \/ Crash \/ Restart \/ RestartSweepFails
  \/ Tick

Spec == Init /\ [][Next]_vars

\* The event loop and the thread pool run every task and every handler.
Fairness ==
  /\ \A j \in Jobs : WF_vars(TaskStep(j))
  /\ \A h \in Handlers : WF_vars(HandlerStep(h))

FairSpec == Spec /\ Fairness

\* Time passes, somebody restarts the service, and the user keeps asking
\* for a sync.
RetrySpec ==
  /\ FairSpec
  /\ WF_vars(Tick) /\ WF_vars(Restart)
  /\ \A h \in Handlers, a \in Aerodromes : SF_vars(Receive(h, "sync", <<a>>))

-----------------------------------------------------------------------------
(* Properties.                                                             *)

\* A row that is failed or completed while its task still works on it was
\* failed by the staleness guard: no other path ends a row early.
LiveTerminalIsStuck ==
  \A j \in Jobs : Live(j) /\ status[j] \in Terminal => error[j] = "stuck"

\* As long as nothing crashed and no write failed, an active row has a task
\* that will end it: no path of the handlers, the bulk queue, the handoff or
\* the failure handling forgets a row.
NoGhostWithoutFault ==
  faults = 0 => \A j \in Jobs : IsActive(j) => Live(j)

\* BulkSync works on one row of its list at a time, in the order of the list.
BulkSequential ==
  \A j \in Jobs : \A i, k \in DOMAIN batch[j] :
     i < k /\ task[batch[j][k]] \in Busy => task[batch[j][i]] = "gone"

\* A row that was terminal becomes active again only when the staleness guard
\* had failed it: a swept, completed or failed row is never revived.
RevivedOnlyIfStuck ==
  [][\A j \in Jobs : status[j] \in Terminal /\ status'[j] \in Active
                       => error[j] = "stuck"]_vars

\* The 20 minute window of a sync request covers the scrape's 10 minutes: it
\* never takes a row that is being scraped for abandoned.
SyncWindowCoversScrape ==
  [][\A h \in Handlers : \A j \in req'[h].stale \ req[h].stale :
       req[h].kind # "extract" => task[j] # "scraping"]_vars

\* With requests served one at a time: two rows of one aerodrome are active
\* together only if the staleness guard had failed one of them while its task
\* was alive.  (For two handler threads this is false, see OneActive.)
SecondActiveIsStuck ==
  \A j, k \in Jobs :
     j # k /\ icao[j] = icao[k] /\ IsActive(j) /\ IsActive(k)
       => error[j] = "stuck" \/ error[k] = "stuck"

\* Unless something crashes or a write fails, every row that was queued is in
\* the end terminal for good, whatever becomes of the rows before it in its
\* bulk list and however often the guard fails it under its task's hands.
EveryJobSettles ==
  \A j \in Jobs :
     status[j] = "queued" ~> faults > 0 \/ [](status[j] \in Terminal)

\* A row that lost its task does not block its aerodrome for ever: retries
\* fail it once it is stale (the clock bound leaves room for the window).
Ghost(j) == IsActive(j) /\ ~Live(j)
GhostIsCleared ==
  \A j \in Jobs :
     Ghost(j) /\ LastActivity(j) + SyncStaleAfter < MaxClock
       ~> status[j] \in Terminal

\* Whatever the endpoints, the tasks, the guard and the sweep do to a row, in
\* whatever order their commits come, its readers see it go the ways of
\* JobLifecycle: it never waits again, and never changes its aerodrome.
Life == INSTANCE JobLifecycle WITH Jobs <- Jobs, Aerodromes <- Aerodromes,
                                   status <- status, icao <- icao
KeepsLifecycle == Life!Spec

\* The dedup of the endpoints: one active row for an aerodrome.
OneActive ==
  \A j, k \in Jobs :
     icao[j] = icao[k] /\ IsActive(j) /\ IsActive(k) => j = k
=============================================================================
