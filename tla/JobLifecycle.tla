---------------------------- MODULE JobLifecycle ----------------------------
(***************************************************************************)
(* What the rows of ingest.extraction_jobs promise to those who read them: *)
(* a row is inserted queued, for one aerodrome and for good; from there it *)
(* runs and ends, and never waits again.  An end may be revised: the       *)
(* staleness guard may fail a row whose task is alive, and that task then  *)
(* goes on and ends it once more.  ExtractionJobs implements this, and     *)
(* JobPolling reads rows that behave so.                                   *)
(***************************************************************************)
CONSTANTS Jobs, Aerodromes

VARIABLES
  status,  \* "absent" before the row is inserted
  icao

Active   == {"queued", "running"}
Terminal == {"completed", "failed"}

\* The ways of a row, beside staying as it is.
Forward == {<<"queued", "running">>, <<"queued", "failed">>,
            <<"running", "completed">>, <<"running", "failed">>}
Revised == {<<"failed", "running">>, <<"failed", "completed">>,
            <<"completed", "failed">>}

Init == status = [j \in Jobs |-> "absent"]

Stays(j)    == status'[j] = status[j] /\ icao'[j] = icao[j]
Inserted(j) == /\ status[j] = "absent" /\ status'[j] = "queued"
               /\ icao'[j] \in Aerodromes
Moves(j)    == /\ <<status[j], status'[j]>> \in Forward \cup Revised
               /\ icao'[j] = icao[j]

\* One commit may change several rows.
Commit == \A j \in Jobs : Stays(j) \/ Inserted(j) \/ Moves(j)

Spec == Init /\ [][Commit]_<<status, icao>>
=============================================================================
