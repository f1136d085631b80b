------------------------- MODULE TableReplace_proofs -------------------------
(***************************************************************************)
(* Proofs about TableReplace, for any set of runs and keys, with and       *)
(* without the unique constraint.                                          *)
(***************************************************************************)
EXTENDS TableReplace, TLAPS

USE DEF Open, Ended

\* Every variable keeps its type, and a run that has ended holds no row.
THEOREM TypeCorrect == Spec => []TypeOK
<1>1. Init => TypeOK
  BY DEF Init, TypeOK
<1>2. TypeOK /\ [Next]_vars => TypeOK'
  <2> SUFFICES ASSUME TypeOK, [Next]_vars PROVE TypeOK'
    OBVIOUS
  <2>1. CASE UNCHANGED vars
    BY <2>1 DEF TypeOK, vars
  <2> SUFFICES ASSUME NEW r \in Runs,
                      \/ Keep(r) \/ \E keys \in SUBSET Keys : DeleteStarts(r, keys)
                      \/ Replace(r) \/ Fail(r)
               PROVE  TypeOK'
    BY <2>1 DEF Next
  <2>2. CASE Keep(r)
    BY <2>2 DEF Keep, TypeOK
  <2>3. CASE \E keys \in SUBSET Keys : DeleteStarts(r, keys)
    BY <2>3 DEF DeleteStarts, Sought, TypeOK
  <2>4. CASE DeleteEnds(r)
    BY <2>4 DEF DeleteEnds, TypeOK
  <2>5. CASE Commit(r)
    <3>1. RowsOf(r) \subseteq [run : Runs, key : Keys]
      BY DEF RowsOf, TypeOK
    <3> QED BY <2>5, <3>1 DEF Commit, Left, TypeOK
  <2>6. CASE Fail(r)
    BY <2>6 DEF Fail, TypeOK
  <2> QED BY <2>2, <2>3, <2>4, <2>5, <2>6 DEF Replace
<1> QED BY <1>1, <1>2, PTL DEF Spec

\* A step of the system is a stutter or one of the actions of one run.
LEMMA StepCases ==
  ASSUME [Next]_vars
  PROVE  \/ UNCHANGED vars
         \/ \E r \in Runs :
              \/ Keep(r) \/ \E keys \in SUBSET Keys : DeleteStarts(r, keys)
              \/ DeleteEnds(r) \/ Commit(r) \/ Fail(r)
BY DEF Next, Replace

-----------------------------------------------------------------------------
(* Whole results.                                                          *)

\* A set of rows holds the results of committed runs, each as a whole.
Whole(rows) ==
  \A row \in rows : /\ pc[row.run] = "committed"
                    /\ row.key \in found[row.run]
                    /\ RowsOf(row.run) \subseteq rows

\* The same is true of what a DELETE looks for and of what it deletes.
WholeInv ==
  /\ Whole(table)
  /\ \A r \in Runs : Whole(saw[r]) /\ Whole(gone[r])
  /\ \A r \in Runs : pc[r] \in Open => found[r] # {}

LEMMA WholeInduction ==
  ASSUME TypeOK, WholeInv, [Next]_vars PROVE WholeInv'
<1>1. CASE UNCHANGED vars
  BY <1>1 DEF WholeInv, Whole, RowsOf, vars
<1> SUFFICES ASSUME NEW r \in Runs,
                    \/ Keep(r) \/ \E keys \in SUBSET Keys : DeleteStarts(r, keys)
                    \/ DeleteEnds(r) \/ Commit(r) \/ Fail(r)
             PROVE  WholeInv'
  BY <1>1, StepCases
\* What is whole stays so, as no committed run changes.
<1> DEFINE StillWhole(S) == \A row \in S : /\ pc'[row.run] = "committed"
                                           /\ row.key \in found'[row.run]
                                           /\ RowsOf(row.run)' \subseteq S
<1>2. ASSUME NEW S \in SUBSET [run : Runs, key : Keys], Whole(S),
             \A s \in Runs : pc[s] = "committed" =>
                pc'[s] = "committed" /\ found'[s] = found[s]
      PROVE  StillWhole(S)
  BY <1>2 DEF Whole, RowsOf
<1>3. /\ table \in SUBSET [run : Runs, key : Keys]
      /\ \A s \in Runs : saw[s] \in SUBSET [run : Runs, key : Keys]
      /\ \A s \in Runs : gone[s] \in SUBSET [run : Runs, key : Keys]
  BY DEF TypeOK
<1>4. \A s \in Runs : pc[s] = "committed" =>
         pc'[s] = "committed" /\ found'[s] = found[s]
  BY DEF Keep, DeleteStarts, DeleteEnds, Commit, Fail, TypeOK
<1>5. \A s \in Runs : pc'[s] \in Open => found'[s] # {}
  BY DEF WholeInv, Keep, DeleteStarts, DeleteEnds, Commit, Fail, TypeOK
<1>6. /\ Whole(table)
      /\ \A s \in Runs : Whole(saw[s]) /\ Whole(gone[s])
      /\ Whole(table \ gone[r]) /\ Whole(saw[r] \cap table) /\ Whole({})
  <2>1. Whole(table) /\ \A s \in Runs : Whole(saw[s]) /\ Whole(gone[s])
    BY DEF WholeInv
  <2>2. \A row \in table : row \in RowsOf(row.run)
    BY <2>1, <1>3 DEF Whole, RowsOf
  <2>3. \A row \in table : \A x \in RowsOf(row.run) : x.run = row.run
    BY DEF RowsOf
  <2>4. Whole(table \ gone[r])
    BY <2>1, <2>2, <2>3 DEF Whole
  <2> QED BY <2>1, <2>4 DEF Whole
<1>7. /\ StillWhole(table)
       /\ \A s \in Runs : StillWhole(saw[s]) /\ StillWhole(gone[s])
       /\ StillWhole(table \ gone[r]) /\ StillWhole(saw[r] \cap table)
       /\ StillWhole({})
  <2>1. /\ table \ gone[r] \in SUBSET [run : Runs, key : Keys]
        /\ saw[r] \cap table \in SUBSET [run : Runs, key : Keys]
        /\ {} \in SUBSET [run : Runs, key : Keys]
    BY <1>3
  <2> HIDE DEF StillWhole
  <2> QED BY <2>1, <1>2, <1>3, <1>4, <1>6
\* The conjuncts of the invariant in the next state, action by action.
<1>8. CASE Keep(r)
  <2>1. UNCHANGED <<table, saw, gone>>
    BY <1>8 DEF Keep
  <2>2. Whole(table)' /\ \A s \in Runs : Whole(saw[s])' /\ Whole(gone[s])'
    BY <2>1, <1>7 DEF Whole
  <2> QED BY <2>2, <1>5 DEF WholeInv
<1>9. CASE \E keys \in SUBSET Keys : DeleteStarts(r, keys)
  <2>1. /\ UNCHANGED <<table, gone>>
        /\ \A s \in Runs : saw'[s] = IF s = r THEN table ELSE saw[s]
    BY <1>9 DEF DeleteStarts, Sought, TypeOK
  <2>2. Whole(table)' /\ \A s \in Runs : Whole(saw[s])' /\ Whole(gone[s])'
    BY <2>1, <1>7 DEF Whole
  <2> QED BY <2>2, <1>5 DEF WholeInv
<1>10. CASE DeleteEnds(r)
  <2>1. /\ UNCHANGED <<table, saw>>
        /\ \A s \in Runs : gone'[s] = IF s = r THEN saw[r] \cap table
                                                ELSE gone[s]
    BY <1>10 DEF DeleteEnds, TypeOK
  <2>2. Whole(table)' /\ \A s \in Runs : Whole(saw[s])' /\ Whole(gone[s])'
    BY <2>1, <1>7 DEF Whole
  <2> QED BY <2>2, <1>5 DEF WholeInv
<1>11. CASE Commit(r)
  <2>1. /\ table' = (table \ gone[r]) \cup RowsOf(r)
        /\ UNCHANGED <<saw, found>>
        /\ \A s \in Runs : gone'[s] = IF s = r THEN {} ELSE gone[s]
        /\ pc'[r] = "committed"
    BY <1>11 DEF Commit, Left, TypeOK
  <2>2. \A s \in Runs : Whole(saw[s])' /\ Whole(gone[s])'
    BY <2>1, <1>7 DEF Whole
  <2>3. RowsOf(r) \subseteq table' /\ \A row \in RowsOf(r) : row.run = r
    BY <2>1 DEF RowsOf
  <2>4. ASSUME NEW row \in table'
        PROVE  /\ pc'[row.run] = "committed" /\ row.key \in found'[row.run]
               /\ RowsOf(row.run)' \subseteq table'
    <3>1. CASE row \in RowsOf(r)
      BY <3>1, <2>1, <2>3 DEF RowsOf
    <3>2. CASE row \in table \ gone[r]
      BY <3>2, <2>1, <1>7
    <3> QED BY <3>1, <3>2, <2>1, <2>4
  <2>5. Whole(table)'
    BY <2>4 DEF Whole
  <2> QED BY <2>2, <2>5, <1>5 DEF WholeInv
<1>12. CASE Fail(r)
  <2>1. /\ UNCHANGED <<table, saw>>
        /\ \A s \in Runs : gone'[s] = IF s = r THEN {} ELSE gone[s]
    BY <1>12 DEF Fail, TypeOK
  <2>2. Whole(table)' /\ \A s \in Runs : Whole(saw[s])' /\ Whole(gone[s])'
    BY <2>1, <1>7 DEF Whole
  <2> QED BY <2>2, <1>5 DEF WholeInv
<1> QED BY <1>8, <1>9, <1>10, <1>11, <1>12

LEMMA WholeInvariant == Spec => [](TypeOK /\ WholeInv)
<1>1. Init => WholeInv
  BY DEF Init, WholeInv, Whole
<1>2. TypeOK /\ WholeInv /\ [Next]_vars => WholeInv'
  BY WholeInduction
<1> QED BY <1>1, <1>2, TypeCorrect, PTL DEF Spec

\* A reader sees the whole result of a run or nothing of it: no DELETE and
\* no COMMIT, however they interleave, shows a part.
THEOREM WholeResultsCorrect == Spec => []WholeResults
<1>1. WholeInv => WholeResults
  <2> SUFFICES ASSUME WholeInv, NEW r \in Runs, NEW x \in table, x.run = r
               PROVE  {row.key : row \in {y \in table : y.run = r}} = found[r]
    BY DEF WholeResults
  <2>1. RowsOf(r) \subseteq table
    BY DEF WholeInv, Whole
  <2>2. \A y \in table : y.run = r => y.key \in found[r]
    BY DEF WholeInv, Whole
  <2>3. \A k \in found[r] : \E y \in {z \in table : z.run = r} : y.key = k
    <3> TAKE k \in found[r]
    <3>1. [run |-> r, key |-> k] \in {z \in table : z.run = r}
      BY <2>1 DEF RowsOf
    <3> QED BY <3>1
  <2> QED BY <2>2, <2>3
<1> QED BY <1>1, WholeInvariant, PTL

\* An aerodrome never loses its runways or frequencies.
THEOREM NeverEmptiedCorrect == Spec => NeverEmptied
<1>1. ASSUME TypeOK, WholeInv, [Next]_vars
      PROVE  [table # {} => table' # {}]_vars
  <2> SUFFICES ASSUME table # {}, NEW r \in Runs, Commit(r) PROVE table' # {}
    BY <1>1, StepCases DEF Keep, DeleteStarts, DeleteEnds, Fail, vars
  <2>1. found[r] # {}
    BY <1>1 DEF WholeInv, Commit
  <2> QED BY <2>1 DEF Commit, RowsOf
<1> QED BY <1>1, WholeInvariant, PTL DEF Spec, NeverEmptied

-----------------------------------------------------------------------------
(* Mixed results.                                                          *)

\* Runs that are at it together have met; and a row that escapes the DELETE
\* of a run was inserted by one that it met.
MetInv ==
  /\ \A r, s \in Runs : r # s /\ pc[r] \in Open /\ pc[s] \in Open
                          => <<r, s>> \in met
  /\ \A r, s \in Runs : <<r, s>> \in met => <<s, r>> \in met
  /\ \A r \in Runs : \A x \in table :
        /\ pc[r] = "deleting" => x \in saw[r] \/ <<x.run, r>> \in met
        /\ pc[r] = "deleted" => x \in gone[r] \/ <<x.run, r>> \in met
  /\ MixedOnlyIfMet

LEMMA MetInduction ==
  ASSUME TypeOK, MetInv, [Next]_vars PROVE MetInv'
<1>1. CASE UNCHANGED vars
  BY <1>1 DEF MetInv, MixedOnlyIfMet, vars
<1> SUFFICES ASSUME NEW r \in Runs,
                    \/ Keep(r) \/ \E keys \in SUBSET Keys : DeleteStarts(r, keys)
                    \/ DeleteEnds(r) \/ Commit(r) \/ Fail(r)
             PROVE  MetInv'
  BY <1>1, StepCases
<1>2. CASE Keep(r)
  BY <1>2 DEF Keep, MetInv, MixedOnlyIfMet, TypeOK
<1>3. CASE \E keys \in SUBSET Keys : DeleteStarts(r, keys)
  <2>1. /\ UNCHANGED <<table, gone>> /\ pc[r] = "idle"
        /\ pc' = [pc EXCEPT ![r] = "deleting"]
        /\ saw' = [saw EXCEPT ![r] = table]
        /\ met' = met \cup ({r} \X {s \in Runs : pc[s] \in Open})
                     \cup ({s \in Runs : pc[s] \in Open} \X {r})
    BY <1>3 DEF DeleteStarts, Sought
  <2> QED BY <2>1 DEF MetInv, MixedOnlyIfMet, TypeOK
<1>4. CASE DeleteEnds(r)
  BY <1>4 DEF DeleteEnds, MetInv, MixedOnlyIfMet, TypeOK
<1>5. CASE Commit(r)
  <2>1. /\ pc[r] = "deleted" /\ pc' = [pc EXCEPT ![r] = "committed"]
        /\ table' = (table \ gone[r]) \cup RowsOf(r)
        /\ gone' = [gone EXCEPT ![r] = {}]
        /\ UNCHANGED <<saw, met>>
    BY <1>5 DEF Commit, Left
  <2>2. \A y \in RowsOf(r) : y.run = r
    BY DEF RowsOf
  <2>3. \A x \in table \ gone[r] : <<x.run, r>> \in met /\ <<r, x.run>> \in met
    BY <2>1 DEF MetInv, TypeOK
  <2>4. \A s \in Runs : \A x \in table' :
           /\ pc'[s] = "deleting" => x \in saw'[s] \/ <<x.run, s>> \in met'
           /\ pc'[s] = "deleted" => x \in gone'[s] \/ <<x.run, s>> \in met'
    BY <2>1, <2>2 DEF MetInv, TypeOK
  <2>5. MixedOnlyIfMet'
    BY <2>1, <2>2, <2>3 DEF MetInv, MixedOnlyIfMet
  <2> QED BY <2>1, <2>4, <2>5 DEF MetInv, TypeOK
<1>6. CASE Fail(r)
  BY <1>6 DEF Fail, MetInv, MixedOnlyIfMet, TypeOK
<1> QED BY <1>2, <1>3, <1>4, <1>5, <1>6

\* Rows of two runs stand together only if the runs met.
THEOREM MixedOnlyIfMetCorrect == Spec => []MixedOnlyIfMet
<1>1. Init => MetInv
  BY DEF Init, MetInv, MixedOnlyIfMet
<1>2. TypeOK /\ MetInv /\ [Next]_vars => MetInv'
  BY MetInduction
<1>3. MetInv => MixedOnlyIfMet
  BY DEF MetInv
<1> QED BY <1>1, <1>2, <1>3, TypeCorrect, PTL DEF Spec
=============================================================================
