----------------------------- MODULE JobPolling -----------------------------
(***************************************************************************)
(* One browser tab that follows extraction jobs: the detail page of an     *)
(* aerodrome with the hook useExtractionJob, or the dashboard with the     *)
(* BulkSyncButton.  Requests pass the gateway, which may answer 502 for a  *)
(* request that was carried out.  Going from one aerodrome to another      *)
(* keeps the hook's state; going to or from the dashboard makes it anew,   *)
(* and what an unmounted component still has under way has no effect.      *)
(*                                                                         *)
(* The rows are those of JobLifecycle, numbered as they are created; a row *)
(* whose end is revised is left out.                                       *)
(***************************************************************************)
EXTENDS Integers, FiniteSets, FiniteSetsExt

CONSTANTS
  Icaos,      \* aerodromes
  Dashboard,  \* the other page
  MaxJobs,    \* bound on the rows
  MaxChains,  \* bound on the timers and polls of the hook
  MaxMoves,   \* bound on what the user does
  MaxFaults   \* bound on failed requests

Rows   == 1..MaxJobs
Chains == 1..MaxChains
Views  == Icaos \cup {Dashboard}

ASSUME PollingAssumption ==
  Dashboard \notin Icaos /\ {MaxJobs, MaxChains, MaxMoves, MaxFaults} \subseteq Nat

VARIABLES
  status, icao,  \* the rows
  view,          \* the page on display
  moves, faults,
  shown,         \* job of the hook: a row (0 for null) and the status it was read with
  error,         \* error of the hook is set
  chains,        \* timers and polls of the hook; `ref`: timerRef is its timer
  latest,        \* the request of the mount effect
  post,          \* the request of triggerExtraction
  button,        \* the state of the BulkSyncButton
  raced,         \* history: a request was under way when the hook was given another task
  old            \* history: the rows that had ended when the button was pressed

rowVars  == <<status, icao>>
hookVars == <<shown, error, chains, latest, post, raced>>
bulkVars == <<button, old>>
vars     == <<rowVars, view, moves, faults, hookVars, bulkVars>>

Life == INSTANCE JobLifecycle WITH Jobs <- Rows, Aerodromes <- Icaos,
                                   status <- status, icao <- icao

Nothing  == [job |-> 0, seen |-> "absent"]
NoChain  == [at |-> "free", job |-> 0, seen |-> "absent", ref |-> FALSE]
NoAnswer == [at |-> "none", job |-> 0, seen |-> "absent"]
Sent     == [NoAnswer EXCEPT !.at = "sent"]
Unpressed == [at |-> "idle", running |-> FALSE, tracked |-> {}, counted |-> {},
              error |-> FALSE]

Init ==
  /\ Life!Init /\ icao = [j \in Rows |-> Dashboard]
  /\ view \in Views /\ moves = 0 /\ faults = 0
  /\ shown = Nothing /\ error = FALSE
  /\ chains = [c \in Chains |-> NoChain]
  /\ latest = IF view = Dashboard THEN NoAnswer ELSE Sent
  /\ post = NoAnswer /\ raced = FALSE
  /\ button = Unpressed /\ old = {}

Fault == faults < MaxFaults /\ faults' = faults + 1
Move  == moves < MaxMoves /\ moves' = moves + 1

-----------------------------------------------------------------------------
(* The rows.                                                               *)

RowsOf(a)   == {j \in Rows : status[j] # "absent" /\ icao[j] = a}
ActiveOf(a) == {j \in RowsOf(a) : status[j] \in Life!Active}
Newest(s)   == IF s = {} THEN 0 ELSE Max(s)
Unused      == {j \in Rows : status[j] = "absent"}
Seen(j)     == IF j = 0 THEN "absent" ELSE status[j]

Creates(a, j) ==
  /\ j = Min(Unused)
  /\ status' = [status EXCEPT ![j] = "queued"]
  /\ icao' = [icao EXCEPT ![j] = a]

\* Somebody else asks for a sync.
OtherSync(a) ==
  /\ ActiveOf(a) = {} /\ Unused # {}
  /\ Creates(a, Min(Unused))
  /\ UNCHANGED <<view, moves, faults, hookVars, bulkVars>>

Changes(j, edges) ==
  \E s \in {"running", "completed", "failed"} :
     <<status[j], s>> \in edges /\ status' = [status EXCEPT ![j] = s]

Advance(j) ==
  /\ Changes(j, Life!Forward)
  /\ UNCHANGED <<icao, view, moves, faults, hookVars, bulkVars>>

-----------------------------------------------------------------------------
(* useExtractionJob: its timers.                                           *)

\* Mutant: the timer is left alone.
StopPollingNever(chs) == chs

\* clearTimeout(timerRef.current): a poll under way is not stopped.
StopPolling(chs) ==
  [c \in Chains |-> IF ~chs[c].ref THEN chs[c]
                    ELSE IF chs[c].at = "timer" THEN NoChain
                    ELSE [chs[c] EXCEPT !.ref = FALSE]]

\* setTimeout: timerRef forgets the timer it held.
Arm(chs, c, j) ==
  [d \in Chains |-> IF d = c THEN [at |-> "timer", job |-> j, seen |-> "absent",
                                   ref |-> TRUE]
                    ELSE [chs[d] EXCEPT !.ref = FALSE]]

FreeChain == {c \in Chains : chains[c].at = "free"}
UnderWay  == \/ latest.at # "none" \/ post.at # "none"
             \/ \E c \in Chains : chains[c].at \in {"sent", "read"}

\* setJob, and a timer if the job is active.  Waits for a free chain (bound).
Follow(answer, arms) ==
  /\ shown' = [job |-> answer.job, seen |-> answer.seen]
  /\ IF arms THEN /\ FreeChain # {}
                  /\ chains' = Arm(chains, Min(FreeChain), answer.job)
             ELSE UNCHANGED chains

-----------------------------------------------------------------------------
(* useExtractionJob: the mount effect.                                     *)

HookOnly == UNCHANGED <<rowVars, view, moves, bulkVars>>

\* The job of the aerodrome that was on display stays on display.
GoToOther(a) ==
  /\ view \in Icaos \ {a}
  /\ Move /\ view' = a
  /\ chains' = StopPolling(chains)
  /\ latest' = Sent
  /\ raced' = (raced \/ UnderWay)
  /\ UNCHANGED <<rowVars, faults, shown, error, post, bulkVars>>

Mount(v) ==
  /\ (view = Dashboard) # (v = Dashboard)
  /\ Move /\ view' = v
  /\ shown' = Nothing /\ error' = FALSE
  /\ chains' = [c \in Chains |-> NoChain]
  /\ latest' = IF v = Dashboard THEN NoAnswer ELSE Sent
  /\ post' = NoAnswer /\ raced' = FALSE
  /\ button' = Unpressed /\ old' = {}
  /\ UNCHANGED <<rowVars, faults>>

GetLatest ==
  /\ latest.at = "sent"
  /\ LET j == Newest(RowsOf(view))
     IN latest' = [at |-> "read", job |-> j, seen |-> Seen(j)]
  /\ HookOnly /\ UNCHANGED <<faults, shown, error, chains, post, raced>>

LatestArrives ==
  /\ latest.at = "read" /\ latest' = NoAnswer
  /\ IF latest.job = 0 THEN UNCHANGED <<shown, chains>>
                       ELSE Follow(latest, latest.seen \in Life!Active)
  /\ HookOnly /\ UNCHANGED <<faults, error, post, raced>>

LatestFails ==
  /\ Fault /\ latest.at # "none" /\ latest' = NoAnswer /\ error' = TRUE
  /\ HookOnly /\ UNCHANGED <<shown, chains, post, raced>>

-----------------------------------------------------------------------------
(* useExtractionJob: pollOnce.                                             *)

ChainTo(c, from, to) ==
  chains[c].at = from /\ chains' = [chains EXCEPT ![c].at = to]

TimerFires(c) ==
  /\ ChainTo(c, "timer", "sent")
  /\ HookOnly /\ UNCHANGED <<faults, shown, error, latest, post, raced>>

GetJob(c) ==
  /\ chains[c].at = "sent"
  /\ chains' = [chains EXCEPT ![c].at = "read", ![c].seen = status[chains[c].job]]
  /\ HookOnly /\ UNCHANGED <<faults, shown, error, latest, post, raced>>

\* Mutant: a job that still waits is not asked about again.
GoesOnIfRunning(seen) == seen = "running"

GoesOn(seen) == seen \in Life!Active

PollArrives(c) ==
  /\ chains[c].at = "read"
  /\ shown' = [job |-> chains[c].job, seen |-> chains[c].seen]
  /\ chains' = IF GoesOn(chains[c].seen)
               THEN Arm(chains, c, chains[c].job)
               ELSE StopPolling([chains EXCEPT ![c] = NoChain])
  /\ HookOnly /\ UNCHANGED <<faults, error, latest, post, raced>>

\* One failed poll ends the polling.
PollFails(c) ==
  /\ Fault /\ chains[c].at \in {"sent", "read"}
  /\ chains' = StopPolling([chains EXCEPT ![c] = NoChain])
  /\ error' = TRUE
  /\ HookOnly /\ UNCHANGED <<shown, latest, post, raced>>

-----------------------------------------------------------------------------
(* useExtractionJob: triggerExtraction.                                    *)

\* The button is disabled while the job on display is active.
Trigger ==
  /\ Move /\ view \in Icaos /\ shown.seen \notin Life!Active
  /\ post.at = "none"  \* bound: one trigger at a time
  /\ post' = [Sent EXCEPT !.seen = view]
  /\ error' = FALSE /\ chains' = StopPolling(chains)
  /\ raced' = (raced \/ UnderWay)
  /\ UNCHANGED <<rowVars, view, faults, shown, latest, bulkVars>>

\* POST /aerodromes/{icao}/sync, of the aerodrome that was on display.
PostSync ==
  /\ post.at = "sent"
  /\ LET a == post.seen
         answer(j, s) == [at |-> "read", job |-> j, seen |-> s]
     IN IF ActiveOf(a) # {}
        THEN /\ post' = answer(Max(ActiveOf(a)), status[Max(ActiveOf(a))])
             /\ UNCHANGED <<status, icao>>
        ELSE /\ Unused # {} /\ Creates(a, Min(Unused))
             /\ post' = answer(Min(Unused), "queued")
  /\ UNCHANGED <<view, moves, faults, shown, error, chains, latest,
                 raced, bulkVars>>

PostArrives ==
  /\ post.at = "read" /\ post' = NoAnswer
  /\ Follow(post, TRUE)
  /\ HookOnly /\ UNCHANGED <<faults, error, latest, raced>>

PostEnds ==
  /\ post' = NoAnswer /\ error' = TRUE
  /\ HookOnly /\ UNCHANGED <<shown, chains, latest, raced>>

\* The row may have been made before the request fails.
PostFails == Fault /\ post.at # "none" /\ PostEnds

\* The model has no row left (bound).
PostRefused ==
  /\ post.at = "sent" /\ Unused = {} /\ ActiveOf(post.seen) = {}
  /\ PostEnds /\ UNCHANGED faults

-----------------------------------------------------------------------------
(* BulkSyncButton.                                                         *)

ButtonOnly == UNCHANGED <<view, moves, hookVars>>

ButtonTo(from, to) == button.at = from /\ button' = [button EXCEPT !.at = to]

Ended == {j \in Rows : status[j] \in Life!Terminal}

\* Mutant: the first poll does not wait for the answer to the request.
OnTriggerAtOnce(icaos) ==
  /\ Move /\ view = Dashboard /\ ~button.running
  /\ button' = [Unpressed EXCEPT !.running = TRUE, !.tracked = icaos, !.at = "timer"]
  /\ old' = Ended
  /\ UNCHANGED <<rowVars, view, faults, hookVars>>

\* `icaos`: the favorites at that moment.
OnTrigger(icaos) ==
  /\ Move /\ view = Dashboard /\ ~button.running
  /\ button' = [Unpressed EXCEPT !.running = TRUE, !.tracked = icaos, !.at = "posting"]
  /\ old' = Ended
  /\ UNCHANGED <<rowVars, view, faults, hookVars>>

\* POST /aerodromes/sync-bulk: one commit makes a row for every aerodrome
\* that has no active one.
BulkPost ==
  /\ ButtonTo("posting", "posted")
  /\ old' = old \cap Ended
  /\ LET idle == {a \in button.tracked : ActiveOf(a) = {}}
     IN /\ Cardinality(idle) <= Cardinality(Unused)
        /\ \E new \in kSubset(Cardinality(idle), Unused) :
             /\ \A j \in new, k \in Unused \ new : j < k
             /\ \E owner \in [new -> idle] :
                  /\ \A a \in idle : \E j \in new : owner[j] = a
                  /\ icao' = [j \in Rows |-> IF j \in new THEN owner[j] ELSE icao[j]]
             /\ status' = [j \in Rows |-> IF j \in new THEN "queued" ELSE status[j]]
  /\ ButtonOnly /\ UNCHANGED faults

Posted ==
  /\ ButtonTo("posted", "timer")
  /\ ButtonOnly /\ UNCHANGED <<rowVars, faults, old>>

ButtonFires ==
  /\ ButtonTo("timer", "polling")
  /\ ButtonOnly /\ UNCHANGED <<rowVars, faults, old>>

\* GET latest-bulk, and what summarise counts as completed or failed.
GetLatestBulk ==
  /\ button.at = "polling"
  /\ button' = [button EXCEPT !.at = "answered",
                  !.counted = {Newest(RowsOf(a)) : a \in button.tracked} \cap Ended]
  /\ ButtonOnly /\ UNCHANGED <<rowVars, faults, old>>

\* Mutant: only the completed ones are summed up.
AllEndedCompleted ==
  \A a \in button.tracked : \E j \in button.counted : icao[j] = a /\ status[j] = "completed"

\* completed + failed >= total
AllEnded == Cardinality(button.counted) = Cardinality(button.tracked)

BulkPollArrives ==
  /\ button.at = "answered"
  /\ button' = IF AllEnded THEN [button EXCEPT !.running = FALSE, !.at = "idle"]
                           ELSE [button EXCEPT !.at = "timer"]
  /\ ButtonOnly /\ UNCHANGED <<rowVars, faults, old>>

ButtonEnds ==
  /\ button' = [Unpressed EXCEPT !.error = TRUE]
  /\ ButtonOnly /\ UNCHANGED <<rowVars, old>>

\* One favorite the table of aerodromes lacks is a 404 for all of them.
BulkFails ==
  /\ Fault /\ button.at \in {"posting", "posted", "polling", "answered"}
  /\ ButtonEnds

\* The model has no rows left (bound).
BulkRefused ==
  /\ button.at = "posting"
  /\ Cardinality({a \in button.tracked : ActiveOf(a) = {}}) > Cardinality(Unused)
  /\ ButtonEnds /\ UNCHANGED faults

-----------------------------------------------------------------------------

Hook ==
  \/ GetLatest \/ LatestArrives
  \/ PostSync \/ PostRefused \/ PostArrives
  \/ \E c \in Chains : TimerFires(c) \/ GetJob(c) \/ PollArrives(c)

Button ==
  BulkPost \/ BulkRefused \/ Posted \/ ButtonFires \/ GetLatestBulk \/ BulkPollArrives

User == \/ \E v \in Views : Mount(v)
        \/ \E a \in Icaos : GoToOther(a)
        \/ Trigger
        \/ \E icaos \in SUBSET Icaos \ {{}} : OnTrigger(icaos)

Fails == \/ LatestFails \/ PostFails \/ BulkFails
         \/ \E c \in Chains : PollFails(c)

Next == \/ Hook \/ Button \/ User \/ Fails
        \/ \E a \in Icaos : OtherSync(a)
        \/ \E j \in Rows : Advance(j)

\* Timers fire, requests are answered or fail, and every job ends (which
\* ExtractionJobs shows of a process that stays up).
Fairness ==
  /\ WF_vars(GetLatest) /\ WF_vars(LatestArrives)
  /\ WF_vars(PostSync) /\ WF_vars(PostArrives)
  /\ \A c \in Chains :
       WF_vars(TimerFires(c)) /\ WF_vars(GetJob(c)) /\ WF_vars(PollArrives(c))
  /\ WF_vars(Button) /\ WF_vars(PostRefused)
  /\ \A j \in Rows : WF_vars(Advance(j))

Spec == Init /\ [][Next]_vars /\ Fairness

-----------------------------------------------------------------------------
(* Properties.                                                             *)

Statuses == {"absent"} \cup Life!Active \cup Life!Terminal

RowTypes == status \in [Rows -> Statuses] /\ icao \in [Rows -> Views]

ChainRecords == [at : {"free", "timer", "sent", "read"}, job : 0..MaxJobs,
                 seen : Statuses, ref : BOOLEAN]

HookTypes ==
  /\ view \in Views /\ error \in BOOLEAN /\ raced \in BOOLEAN
  /\ shown \in [job : 0..MaxJobs, seen : Statuses]
  /\ chains \in [Chains -> ChainRecords]
  /\ latest \in [at : {"none", "sent", "read"}, job : 0..MaxJobs, seen : Statuses]
  /\ post \in [at : {"none", "sent", "read"}, job : 0..MaxJobs, seen : Statuses \cup Icaos]

ButtonTypes ==
  /\ button \in [at : {"idle", "posting", "posted", "timer", "polling", "answered"},
                 running : BOOLEAN, tracked : SUBSET Icaos, counted : SUBSET Rows,
                 error : BOOLEAN]
  /\ old \subseteq Rows

TypeOK == /\ RowTypes /\ HookTypes /\ ButtonTypes
          /\ moves \in 0..MaxMoves /\ faults \in 0..MaxFaults

\* One job is polled by one chain of timers, unless the page changed its
\* aerodrome or a sync was triggered while a request was under way: such a
\* request cannot be called back and arms a timer of its own.
OneChain == ~raced => Cardinality(Chains \ FreeChain) <= 1

\* The end of the job on display is displayed in the end, unless an error is
\* displayed, or the job is one of the aerodrome the page was on before (if
\* the present one has no job, it stays, and nothing asks for it).
EndIsShown ==
  <>[](\/ shown.seen \notin Life!Active \/ error \/ icao[shown.job] # view)

\* A job that was seen in status `s` may be seen in status `t` afterwards.
NoLater(s, t) == s = t \/ <<s, t>> \in Life!Forward \cup {<<"queued", "completed">>}

\* The display of a job never goes back to an earlier status: no answer arrives
\* after one that was read later, unless a request was under way when the hook
\* was given another task (an answer to it may overwrite a newer one).
ShownGoesForward ==
  [][raced \/ shown'.job # shown.job \/ NoLater(shown.seen, shown'.seen)]_shown

\* What the button counts as ended are jobs that had not ended when it was pressed:
\* its request is answered before the first poll.
BulkCountsNewJobs == button.counted \cap old = {}

\* The button does not stay in its running state.
BulkEnds == button.running ~> ~button.running
=============================================================================
