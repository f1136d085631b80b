---------------------------- MODULE TableReplace ----------------------------
(***************************************************************************)
(* How extraction runs replace the runways, or the frequencies, of one     *)
(* aerodrome: DELETE of its rows, then INSERT of what the run found, in    *)
(* one transaction at READ COMMITTED.  ExtractionJobs shows how two runs   *)
(* come to work on one aerodrome at a time, each in a thread of its own.   *)
(*                                                                         *)
(* A DELETE looks for the rows committed when it starts, and waits for a   *)
(* transaction that has deleted one of them; if that one commits, the row  *)
(* is skipped, and the rows it inserted are not looked for again.  The     *)
(* INSERTs are sent with the COMMIT.  Runways have a unique key, the pair  *)
(* of designators, and frequencies have none.                              *)
(***************************************************************************)
EXTENDS FiniteSets

CONSTANTS
  Runs,        \* extraction runs of the aerodrome
  Keys,        \* pairs of designators, or frequencies
  UniqueKeys   \* whether the table has the unique constraint

ASSUME TableAssumption == UniqueKeys \in BOOLEAN

VARIABLES
  table,    \* the committed rows, each with the run that inserted it
  pc,       \* where each run stands
  found,    \* the keys it is to insert
  saw,      \* the rows its DELETE looks for
  gone,     \* the rows it has deleted and not yet committed
  met       \* pairs of runs that replaced the table at a time (history)

vars == <<table, pc, found, saw, gone, met>>

Open     == {"deleting", "deleted"}
Ended    == {"kept", "committed", "failed"}
RowsOf(r) == {[run |-> r, key |-> k] : k \in found[r]}

TypeOK ==
  /\ table \subseteq [run : Runs, key : Keys]
  /\ pc \in [Runs -> {"idle"} \cup Open \cup Ended]
  /\ found \in [Runs -> SUBSET Keys]
  /\ saw \in [Runs -> SUBSET [run : Runs, key : Keys]]
  /\ gone \in [Runs -> SUBSET [run : Runs, key : Keys]]
  /\ met \subseteq Runs \X Runs
  \* a run that has ended holds no row
  /\ \A r \in Runs : pc[r] # "deleted" => gone[r] = {}

Init ==
  /\ table = {}
  /\ pc = [r \in Runs |-> "idle"]
  /\ found = [r \in Runs |-> {}]
  /\ saw = [r \in Runs |-> {}] /\ gone = saw
  /\ met = {}

-----------------------------------------------------------------------------
\* Without a consensus the old rows stay.
Keep(r) ==
  /\ pc[r] = "idle"
  /\ pc' = [pc EXCEPT ![r] = "kept"]
  /\ UNCHANGED <<table, found, saw, gone, met>>

\* Mutant: only the rows with one of the new keys are deleted.
SoughtSameKeys(keys) == {row \in table : row.key \in keys}

Sought(keys) == table

\* Mutant: the early return for an empty result is missing.
DeleteStartsAlways(r, keys) ==
  /\ pc[r] = "idle"
  /\ pc' = [pc EXCEPT ![r] = "deleting"]
  /\ found' = [found EXCEPT ![r] = keys]
  /\ saw' = [saw EXCEPT ![r] = Sought(keys)]
  /\ met' = met \cup ({r} \X {s \in Runs : pc[s] \in Open})
                \cup ({s \in Runs : pc[s] \in Open} \X {r})
  /\ UNCHANGED <<table, gone>>

\* The DELETE starts.
DeleteStarts(r, keys) ==
  /\ pc[r] = "idle" /\ keys # {}
  /\ pc' = [pc EXCEPT ![r] = "deleting"]
  /\ found' = [found EXCEPT ![r] = keys]
  /\ saw' = [saw EXCEPT ![r] = Sought(keys)]
  /\ met' = met \cup ({r} \X {s \in Runs : pc[s] \in Open})
                \cup ({s \in Runs : pc[s] \in Open} \X {r})
  /\ UNCHANGED <<table, gone>>

Blocked(r) == \E s \in Runs \ {r} : saw[r] \cap gone[s] # {}

DeleteEnds(r) ==
  /\ pc[r] = "deleting" /\ ~Blocked(r)
  /\ pc' = [pc EXCEPT ![r] = "deleted"]
  /\ gone' = [gone EXCEPT ![r] = saw[r] \cap table]
  /\ UNCHANGED <<table, found, saw, met>>

Left(r) == table \ gone[r]
Clash(r) == UniqueKeys /\ \E row \in Left(r) : row.key \in found[r]

\* Mutant: a row that clashes is left out (ON CONFLICT DO NOTHING).
CommitSkipping(r) ==
  /\ pc[r] = "deleted"
  /\ table' = Left(r) \cup {row \in RowsOf(r) :
                              \A old \in Left(r) : old.key # row.key}
  /\ pc' = [pc EXCEPT ![r] = "committed"]
  /\ gone' = [gone EXCEPT ![r] = {}]
  /\ UNCHANGED <<found, saw, met>>

Commit(r) ==
  /\ pc[r] = "deleted" /\ ~Clash(r)
  /\ table' = Left(r) \cup RowsOf(r)
  /\ pc' = [pc EXCEPT ![r] = "committed"]
  /\ gone' = [gone EXCEPT ![r] = {}]
  /\ UNCHANGED <<found, saw, met>>

\* Mutant: the session is neither rolled back nor closed.
FailHolding(r) ==
  /\ pc[r] \in Open
  /\ pc' = [pc EXCEPT ![r] = "failed"]
  /\ UNCHANGED <<table, found, saw, gone, met>>

\* The INSERT clashes, or anything else raises: the runner rolls back and
\* closes the session.
Fail(r) ==
  /\ pc[r] \in Open
  /\ pc' = [pc EXCEPT ![r] = "failed"]
  /\ gone' = [gone EXCEPT ![r] = {}]
  /\ UNCHANGED <<table, found, saw, met>>

Replace(r) == DeleteEnds(r) \/ Commit(r) \/ (Clash(r) /\ Fail(r))

Next == \E r \in Runs :
          \/ Keep(r) \/ \E keys \in SUBSET Keys : DeleteStarts(r, keys)
          \/ Replace(r) \/ Fail(r)

Spec == Init /\ [][Next]_vars

\* The threads of the pool and the database go on.
FairSpec == Spec /\ \A r \in Runs : WF_vars(Replace(r))

-----------------------------------------------------------------------------
(* Properties.                                                             *)

\* A run that finds nothing, fails or is interrupted leaves the rows there
\* are: an aerodrome never loses its runways or frequencies.
NeverEmptied == [][table # {} => table' # {}]_vars

\* A reader sees the whole result of a run or nothing of it.
WholeResults ==
  \A r \in Runs : LET shown == {row.key : row \in {x \in table : x.run = r}}
                  IN shown \in {{}, found[r]}

\* Rows of two runs stand in the table together only if the runs replaced it
\* at the same time: a run that starts later leaves nothing old behind.
MixedOnlyIfMet ==
  \A x, y \in table : x.run # y.run => <<x.run, y.run>> \in met

\* Runs do not wait for each other's deleted rows for ever.
ReplaceEnds == \A r \in Runs : pc[r] = "deleting" ~> pc[r] \in Ended
=============================================================================
