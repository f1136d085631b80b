-------------------------- MODULE JobPolling_proofs --------------------------
(***************************************************************************)
(* For any aerodromes, jobs, chains and moves of the user: a job is polled *)
(* by one chain of timers (OneChain) and its display never goes back       *)
(* (ShownGoesForward), unless a request could not be called back; the      *)
(* BulkSyncButton counts jobs that are newer than its request              *)
(* (BulkCountsNewJobs); and the rows implement JobLifecycle.  The rows,    *)
(* the button and the hook have an invariant each; a step keeps that of    *)
(* the party that takes it, and the others' because it leaves their state, *)
(* or what they know of it, alone.                                         *)
(***************************************************************************)
EXTENDS JobPolling, FiniteSetTheorems, TLAPS

-----------------------------------------------------------------------------
(* The inductive invariant, one part for each party.                       *)

\* Rows are made in the order of their numbers, and an aerodrome's active row
\* is its newest.
RowsInv ==
  /\ RowTypes
  /\ \A j, k \in Rows : status[j] = "absent" /\ status[k] # "absent" => k < j
  /\ \A j, k \in Rows :
       status[j] \in Life!Active /\ status[k] # "absent" /\ icao[k] = icao[j] => k <= j

\* Every aerodrome the button has asked for has a row newer than those that had
\* ended when it was pressed.
ButtonInv ==
  /\ ButtonTypes
  /\ old \subseteq Ended
  /\ button.at = "posting" => button.counted = {}
  /\ button.at \in {"posted", "timer", "polling", "answered"} =>
       \A a \in button.tracked : \E j \in RowsOf(a) :
          j \notin old /\ \A k \in old : icao[k] = a => k < j
  /\ BulkCountsNewJobs

Busy(c) == chains[c].at # "free"

\* What the hook asks about exists.
AskedInv ==
  /\ \A c \in Chains : Busy(c) => chains[c].job \in Rows
  /\ post.at = "sent" => post.seen \in Icaos
  /\ post.at = "read" => post.job \in Rows /\ post.seen \in Statuses

\* Unless a request was under way when the hook was given another task: one
\* timer, one poll or one request at a time, and timerRef holds the timer.
AloneInv ==
  /\ \A c \in Chains : Busy(c) => chains[c].ref /\ latest.at = "none" /\ post.at = "none"
  /\ \A c, d \in Chains : Busy(c) /\ Busy(d) => c = d
  /\ latest.at = "none" \/ post.at = "none"

HookInv == HookTypes /\ AskedInv /\ (~raced => AloneInv)

PollInv == RowsInv /\ ButtonInv /\ HookInv /\ moves \in 0..MaxMoves /\ faults \in 0..MaxFaults

-----------------------------------------------------------------------------
(* Least and largest elements.                                             *)

\* A set of naturals has its least element.
LEMMA MinOfNaturals ==
  ASSUME NEW S \in SUBSET Nat, S # {}
  PROVE  Min(S) \in S /\ \A x \in S : Min(S) <= x
<1>1. PICK m \in S : \A x \in S : <<x, m>> \notin OpToRel(<, Nat)
  BY WFMin, NatLessThanWellFounded
<1>2. \A x \in S : m <= x
  <2> SUFFICES ASSUME NEW x \in S PROVE m <= x
    OBVIOUS
  <2>1. <<x, m>> \in Nat \X Nat /\ ~(x < m)
    BY <1>1 DEF OpToRel
  <2>. QED BY <2>1
<1>. QED BY <1>2 DEF Min

\* The bounds are natural numbers.
LEMMA Bounds ==
  MaxJobs \in Nat /\ MaxChains \in Nat /\ MaxMoves \in Nat /\ MaxFaults \in Nat
BY PollingAssumption

\* A set of rows has its largest element.
LEMMA MaxOfRows ==
  ASSUME NEW S \in SUBSET Rows, S # {}
  PROVE  Max(S) \in S /\ \A x \in S : x <= Max(S)
<1> DEFINE T == {MaxJobs - x : x \in S}
<1>1. T \in SUBSET Nat /\ T # {} /\ MaxJobs \in Nat /\ S \in SUBSET Nat
  <2>1. MaxJobs \in Nat
    BY Bounds
  <2>2. \A x \in S : x \in Nat /\ MaxJobs - x \in Nat
    BY <2>1 DEF Rows
  <2>. QED BY <2>1, <2>2
<1>2. Min(T) \in T /\ \A y \in T : Min(T) <= y
  <2> HIDE DEF T
  <2>. QED BY <1>1, MinOfNaturals
<1>3. PICK m \in S : \A y \in T : MaxJobs - m <= y
  BY <1>2
<1>4. \A x \in S : x <= m
  <2> SUFFICES ASSUME NEW x \in S PROVE x <= m
    OBVIOUS
  <2>1. MaxJobs - m <= MaxJobs - x
    BY <1>3
  <2>2. MaxJobs \in Nat /\ m \in Nat /\ x \in Nat
    BY <1>1
  <2>. QED BY ONLY <2>1, <2>2
<1>5. \E x \in S : \A y \in S : x >= y
  <2>1. \A x \in S : m >= x
    <3> SUFFICES ASSUME NEW x \in S PROVE m >= x
      OBVIOUS
    <3>1. x <= m /\ x \in Nat /\ m \in Nat
      BY <1>1, <1>4
    <3>. QED BY ONLY <3>1
  <2>. QED BY <2>1
<1>6. Max(S) \in S /\ \A y \in S : Max(S) >= y
  <2> HIDE DEF T
  <2>. QED BY <1>5 DEF Max
<1>7. \A x \in S : x <= Max(S)
  <2> SUFFICES ASSUME NEW x \in S PROVE x <= Max(S)
    OBVIOUS
  <2>1. Max(S) \in Nat /\ x \in Nat /\ Max(S) >= x
    BY <1>1, <1>6
  <2>. QED BY ONLY <2>1
<1>. QED BY <1>6, <1>7

-----------------------------------------------------------------------------
(* The rows and the button.                                                *)

\* The next row to be made.
LEMMA UnusedLeast ==
  ASSUME Unused # {}
  PROVE  /\ Min(Unused) \in Rows /\ status[Min(Unused)] = "absent"
         /\ \A j \in Unused : Min(Unused) <= j
<1>1. Unused \in SUBSET Nat
  BY Bounds DEF Unused, Rows
<1>2. Min(Unused) \in Unused /\ \A j \in Unused : Min(Unused) <= j
  BY <1>1, MinOfNaturals
<1>. QED BY <1>2 DEF Unused

\* Rows that are made for aerodromes without an active one, one for each.
LEMMA InsertKeeps ==
  ASSUME RowsInv, NEW new \in SUBSET Unused, \A j \in new, k \in Unused \ new : j < k,
         NEW owner \in [new -> Icaos], \A j \in new : ActiveOf(owner[j]) = {},
         \A j, k \in new : owner[j] = owner[k] => j = k,
         icao' = [j \in Rows |-> IF j \in new THEN owner[j] ELSE icao[j]],
         status' = [j \in Rows |-> IF j \in new THEN "queued" ELSE status[j]]
  PROVE  /\ RowsInv' /\ Ended' = Ended
         /\ \A j \in Rows \ Unused : j \notin Unused' /\ icao'[j] = icao[j]
<1> USE DEF RowsInv
<1>0. Unused = {j \in Rows : status[j] = "absent"} /\ new \subseteq Rows
  BY DEF Unused
<1>1. RowTypes'
  BY <1>0 DEF RowTypes, Views, Statuses, Life!Active
<1>2. ASSUME NEW j \in Rows, NEW k \in Rows, status'[j] = "absent", status'[k] # "absent"
      PROVE  k < j
  <2>1. j \notin new /\ j \in Unused
    BY <1>0, <1>2
  <2>. QED BY <1>0, <1>2, <2>1
<1>3. ASSUME NEW j \in Rows, NEW k \in Rows, status'[j] \in Life!Active,
             status'[k] # "absent", icao'[k] = icao'[j]
      PROVE  k <= j
  <2>0. Rows \subseteq Nat
    BY Bounds DEF Rows
  <2>1. CASE j \in new /\ k \in new
    BY <1>3, <2>0, <2>1
  <2>2. CASE j \in new /\ k \notin new
    BY <1>0, <1>3, <2>0, <2>2
  <2>3. CASE j \notin new /\ k \in new
    BY <1>0, <1>3, <2>3 DEF ActiveOf, RowsOf, Life!Active
  <2>4. CASE j \notin new /\ k \notin new
    BY <1>3, <2>4
  <2>. QED BY <2>1, <2>2, <2>3, <2>4
<1>4. Ended' = Ended
  BY <1>0 DEF Ended, Life!Terminal
<1>5. \A j \in Rows \ Unused : j \notin Unused' /\ icao'[j] = icao[j]
  BY <1>0 DEF Unused
<1>. QED BY <1>1, <1>2, <1>3, <1>4, <1>5

\* A request makes a row for an aerodrome without an active one.
LEMMA CreateKeeps ==
  ASSUME RowsInv, Unused # {}, NEW a \in Icaos, ActiveOf(a) = {},
         Creates(a, Min(Unused))
  PROVE  /\ RowsInv' /\ Ended' = Ended
         /\ \A j \in Rows \ Unused : j \notin Unused' /\ icao'[j] = icao[j]
<1> DEFINE m == Min(Unused)
           owner == [j \in {m} |-> a]
<1>0. /\ m \in Unused /\ Unused \subseteq Rows /\ Rows \subseteq Nat
      /\ \A j \in Unused : m <= j
  BY UnusedLeast, Bounds DEF Unused, Rows
<1>1. status' = [status EXCEPT ![m] = "queued"] /\ icao' = [icao EXCEPT ![m] = a]
  BY DEF Creates
<1> HIDE DEF m
<1>2. /\ {m} \in SUBSET Unused /\ owner \in [{m} -> Icaos]
      /\ \A j \in {m}, k \in Unused \ {m} : j < k
  BY <1>0
<1>3. /\ icao' = [j \in Rows |-> IF j \in {m} THEN owner[j] ELSE icao[j]]
      /\ status' = [j \in Rows |-> IF j \in {m} THEN "queued" ELSE status[j]]
  BY <1>0, <1>1 DEF RowsInv, RowTypes
<1>4. /\ \A j \in {m} : ActiveOf(owner[j]) = {}
      /\ \A j, k \in {m} : owner[j] = owner[k] => j = k
  OBVIOUS
<1> HIDE DEF owner
<1>. QED BY <1>2, <1>3, <1>4, InsertKeeps

\* A job goes on or ends.
LEMMA AdvanceKeeps ==
  ASSUME RowsInv, NEW j \in Rows, Advance(j)
  PROVE  /\ RowsInv' /\ Ended \subseteq Ended'
         /\ \A k \in Rows \ Unused : k \notin Unused' /\ icao'[k] = icao[k]
BY DEF Advance, Changes, RowsInv, RowTypes, Statuses, Ended, Unused,
       Life!Forward, Life!Active, Life!Terminal

\* What others do to the rows does not touch what the button knows.
LEMMA ButtonKeeps ==
  ASSUME RowsInv, ButtonInv, UNCHANGED bulkVars, Ended \subseteq Ended',
         \A k \in Rows \ Unused : k \notin Unused' /\ icao'[k] = icao[k]
  PROVE  ButtonInv'
<1>1. \A a : RowsOf(a) \subseteq RowsOf(a)'
  BY DEF RowsOf, Unused
<1>2. \A k \in old : icao'[k] = icao[k]
  BY DEF ButtonInv, Ended, Unused, Life!Terminal
<1>. QED BY <1>1, <1>2 DEF ButtonInv, ButtonTypes, BulkCountsNewJobs, bulkVars

\* The rows of a bulk request.
LEMMA BulkPostKeeps ==
  ASSUME RowsInv, ButtonInv, BulkPost
  PROVE  RowsInv' /\ ButtonInv'
<1> DEFINE idle == {a \in button.tracked : ActiveOf(a) = {}}
<1>0. PICK new \in kSubset(Cardinality(idle), Unused) :
        /\ \A j \in new, k \in Unused \ new : j < k
        /\ \E owner \in [new -> idle] :
             /\ \A a \in idle : \E j \in new : owner[j] = a
             /\ icao' = [j \in Rows |-> IF j \in new THEN owner[j] ELSE icao[j]]
        /\ status' = [j \in Rows |-> IF j \in new THEN "queued" ELSE status[j]]
  BY DEF BulkPost
<1>1. PICK owner \in [new -> idle] :
        /\ \A a \in idle : \E j \in new : owner[j] = a
        /\ icao' = [j \in Rows |-> IF j \in new THEN owner[j] ELSE icao[j]]
  BY <1>0
<1>2. new \in SUBSET Unused /\ Cardinality(new) = Cardinality(idle)
  BY <1>0 DEF kSubset
<1>3. /\ button' = [button EXCEPT !.at = "posted"] /\ button.at = "posting"
      /\ old' = old \cap Ended
  BY DEF BulkPost, ButtonTo
<1>4. \A a \in idle : a \in Icaos /\ a \in button.tracked /\ ActiveOf(a) = {}
  BY DEF ButtonInv, ButtonTypes
<1>5. \A a \in button.tracked : a \notin idle => ActiveOf(a) # {}
  OBVIOUS
<1> HIDE DEF idle
<1>6. \A j, k \in new : owner[j] = owner[k] => j = k
  <2>1. Unused \in SUBSET (1..MaxJobs) /\ IsFiniteSet(1..MaxJobs)
    BY Bounds, FS_Interval DEF Unused, Rows
  <2>2. IsFiniteSet(new)
    BY <1>2, <2>1, FS_Subset
  <2>3. owner \in Surjection(new, idle)
    BY <1>1 DEF Surjection
  <2>4. owner \in Injection(new, idle)
    BY <1>2, <2>2, <2>3, FS_Surjection
  <2>. QED BY <2>4 DEF Injection, IsInjective
<1>7. /\ RowsInv' /\ Ended' = Ended
      /\ \A j \in Rows \ Unused : j \notin Unused' /\ icao'[j] = icao[j]
  <2>1. owner \in [new -> Icaos] /\ \A j \in new : ActiveOf(owner[j]) = {}
    BY <1>1, <1>4
  <2>. QED BY <1>0, <1>1, <1>2, <1>6, <2>1, InsertKeeps
<1>8. /\ \A a : RowsOf(a) \subseteq RowsOf(a)'
      /\ \A k \in old : icao'[k] = icao[k] /\ k \in Rows /\ status[k] \in Life!Terminal
  BY <1>7 DEF RowsOf, Unused, ButtonInv, Ended, Life!Terminal
<1>9. ASSUME NEW a \in button.tracked
      PROVE  \E j \in RowsOf(a)' : j \notin old /\ \A k \in old : icao'[k] = a => k < j
  <2>0. Rows \subseteq Nat
    BY Bounds DEF Rows
  <2>1. CASE a \in idle
    <3>1. PICK j \in new : owner[j] = a
      BY <1>1, <2>1
    <3>2. j \in Rows /\ status[j] = "absent" /\ j \in RowsOf(a)'
      BY <1>0, <1>1, <1>2, <3>1 DEF Unused, RowsOf
    <3>3. \A k \in old : k < j /\ k # j
      BY <1>8, <3>2 DEF RowsInv, Life!Terminal
    <3>. QED BY <3>2, <3>3
  <2>2. CASE a \notin idle
    <3>1. PICK j \in RowsOf(a) : status[j] \in Life!Active
      BY <1>5, <2>2 DEF ActiveOf
    <3>2. j \in Rows /\ icao[j] = a /\ j \in RowsOf(a)'
      BY <1>8, <3>1 DEF RowsOf
    <3>3. \A k \in old : k # j
      BY <1>8, <3>1 DEF Life!Active, Life!Terminal
    <3>4. ASSUME NEW k \in old, icao'[k] = a PROVE k < j
      <4>1. k \in Rows /\ icao[k] = icao[j] /\ status[k] # "absent" /\ k # j
        BY <1>8, <3>2, <3>3, <3>4 DEF Life!Terminal
      <4>2. k <= j /\ k \in Nat /\ j \in Nat
        BY <2>0, <3>1, <3>2, <4>1 DEF RowsInv
      <4>. QED BY <4>1, <4>2
    <3>. QED BY <3>2, <3>3, <3>4
  <2>. QED BY <2>1, <2>2
<1>10. /\ button' \in [at : {"idle", "posting", "posted", "timer", "polling", "answered"},
                 running : BOOLEAN, tracked : SUBSET Icaos, counted : SUBSET Rows,
                 error : BOOLEAN]
       /\ button'.at = "posted" /\ button'.tracked = button.tracked
       /\ button'.counted = {}
  BY <1>3 DEF ButtonInv, ButtonTypes
<1>11. old' = old /\ old \subseteq Rows
  BY <1>3 DEF ButtonInv, ButtonTypes
<1>. QED
  BY <1>7, <1>9, <1>10, <1>11 DEF ButtonInv, ButtonTypes, BulkCountsNewJobs

\* The newest row of an aerodrome, or none.
LEMMA NewestIs ==
  ASSUME RowTypes, NEW a
  PROVE  /\ Newest(RowsOf(a)) \in 0..MaxJobs
         /\ Seen(Newest(RowsOf(a))) \in Statuses
         /\ RowsOf(a) # {} => /\ Newest(RowsOf(a)) \in RowsOf(a)
                              /\ \A j \in RowsOf(a) : j <= Newest(RowsOf(a))
<1>0. RowsOf(a) \in SUBSET Rows /\ 0 \in 0..MaxJobs /\ Rows \subseteq 0..MaxJobs
  BY Bounds DEF RowsOf, Rows
<1>2. CASE RowsOf(a) = {}
  BY <1>0, <1>2 DEF Newest, Seen, Statuses
<1>3. CASE RowsOf(a) # {}
  <2>1. Newest(RowsOf(a)) = Max(RowsOf(a))
    BY <1>3 DEF Newest
  <2>2. Max(RowsOf(a)) \in RowsOf(a) /\ \A j \in RowsOf(a) : j <= Max(RowsOf(a))
    BY <1>0, <1>3, MaxOfRows
  <2>3. Max(RowsOf(a)) \in Rows
    BY <1>0, <2>2
  <2>. QED BY <1>0, <2>1, <2>2, <2>3 DEF Seen, RowTypes, Statuses
<1>. QED BY <1>2, <1>3

\* The newest row of an aerodrome is no old one.
LEMMA LatestBulkKeeps ==
  ASSUME RowsInv, ButtonInv, GetLatestBulk
  PROVE  ButtonInv'
<1> DEFINE new == {Newest(RowsOf(a)) : a \in button.tracked} \cap Ended
<1>1. ASSUME NEW a \in button.tracked PROVE Newest(RowsOf(a)) \notin old
  <2>1. PICK j \in RowsOf(a) : j \notin old /\ \A k \in old : icao[k] = a => k < j
    BY DEF GetLatestBulk, ButtonInv
  <2>2. Newest(RowsOf(a)) \in RowsOf(a) /\ j <= Newest(RowsOf(a))
    BY <2>1, NewestIs DEF RowsInv
  <2>3. j \in Nat /\ Newest(RowsOf(a)) \in Nat /\ icao[Newest(RowsOf(a))] = a
    BY <2>1, <2>2, Bounds DEF RowsOf, Rows
  <2> DEFINE n == Newest(RowsOf(a))
  <2> HIDE DEF n
  <2>4. j <= n /\ j \in Nat /\ n \in Nat /\ icao[n] = a
    BY <2>2, <2>3 DEF n
  <2>5. n \notin old
    BY <2>1, <2>4
  <2>. QED BY <2>5 DEF n
<1>2. new \cap old = {} /\ new \subseteq Rows
  BY <1>1 DEF Ended
<1>3. button' = [button EXCEPT !.at = "answered", !.counted = new]
  BY DEF GetLatestBulk
<1>4. button.at = "polling" /\ UNCHANGED <<rowVars, old>>
  BY DEF GetLatestBulk
<1> HIDE DEF new
<1>5. /\ button' \in [at : {"idle", "posting", "posted", "timer", "polling", "answered"},
                 running : BOOLEAN, tracked : SUBSET Icaos, counted : SUBSET Rows,
                 error : BOOLEAN]
      /\ button'.at = "answered" /\ button'.tracked = button.tracked
      /\ button'.counted = new
  BY <1>2, <1>3 DEF ButtonInv, ButtonTypes
<1>. QED
  BY <1>2, <1>4, <1>5
  DEF ButtonInv, ButtonTypes, BulkCountsNewJobs, RowsOf, Ended, rowVars

\* The other steps of the button.
LEMMA ButtonSteps ==
  ASSUME RowsInv, ButtonInv, UNCHANGED rowVars,
         \/ Posted \/ ButtonFires \/ BulkPollArrives \/ BulkFails \/ BulkRefused
         \/ \E icaos \in SUBSET Icaos \ {{}} : OnTrigger(icaos)
         \/ \E v \in Views : Mount(v)
  PROVE  ButtonInv'
<1> DEFINE Records == [at : {"idle", "posting", "posted", "timer", "polling", "answered"},
                       running : BOOLEAN, tracked : SUBSET Icaos, counted : SUBSET Rows,
                       error : BOOLEAN]
<1>0. /\ \A a : RowsOf(a)' = RowsOf(a)
      /\ Ended' = Ended /\ Ended \subseteq Rows /\ icao' = icao
  BY DEF rowVars, RowsOf, Ended
<1>1. CASE Posted \/ ButtonFires \/ BulkPollArrives
  <2>1. /\ old' = old /\ button.at \in {"posted", "timer", "answered"}
        /\ \/ button' = [button EXCEPT !.at = "timer"]
           \/ button' = [button EXCEPT !.at = "polling"]
           \/ button' = [button EXCEPT !.running = FALSE, !.at = "idle"]
    BY <1>1 DEF Posted, ButtonFires, BulkPollArrives, ButtonTo
  <2>2. /\ button' \in Records /\ button'.at # "posting"
        /\ button'.tracked = button.tracked /\ button'.counted = button.counted
    BY <2>1 DEF ButtonInv, ButtonTypes
  <2>. QED BY <1>0, <2>1, <2>2 DEF ButtonInv, ButtonTypes, BulkCountsNewJobs
<1>2. CASE \/ BulkFails \/ BulkRefused
           \/ \E icaos \in SUBSET Icaos \ {{}} : OnTrigger(icaos)
           \/ \E v \in Views : Mount(v)
  <2>1. \/ button' = [Unpressed EXCEPT !.error = TRUE] /\ old' = old
        \/ button' = Unpressed /\ old' = {}
        \/ \E icaos \in SUBSET Icaos :
             /\ button' = [Unpressed EXCEPT !.running = TRUE, !.tracked = icaos,
                                            !.at = "posting"]
             /\ old' = Ended
    BY <1>2 DEF BulkFails, BulkRefused, ButtonEnds, OnTrigger, Mount
  <2>2. CASE button' = [Unpressed EXCEPT !.error = TRUE] \/ button' = Unpressed
    <3>1. PICK raised \in BOOLEAN :
            button' = [at |-> "idle", running |-> FALSE, tracked |-> {},
                       counted |-> {}, error |-> raised]
      <4>1. CASE button' = Unpressed
        BY <4>1 DEF Unpressed
      <4>2. CASE button' = [Unpressed EXCEPT !.error = TRUE]
        BY <4>2 DEF Unpressed
      <4>. QED BY <2>2, <4>1, <4>2
    <3>2. button' \in Records /\ button'.at = "idle" /\ button'.counted = {}
      BY <3>1
    <3>. QED BY <1>0, <2>1, <3>2 DEF ButtonInv, ButtonTypes, BulkCountsNewJobs
  <2>3. CASE \E icaos \in SUBSET Icaos :
               button' = [Unpressed EXCEPT !.running = TRUE, !.tracked = icaos,
                                           !.at = "posting"]
    <3>1. PICK icaos \in SUBSET Icaos :
            button' = [at |-> "posting", running |-> TRUE, tracked |-> icaos,
                       counted |-> {}, error |-> FALSE]
      BY <2>3 DEF Unpressed
    <3>2. button' \in Records /\ button'.at = "posting" /\ button'.counted = {}
      BY <3>1
    <3>. QED BY <1>0, <2>1, <3>2 DEF ButtonInv, ButtonTypes, BulkCountsNewJobs
  <2>. QED BY <2>1, <2>2, <2>3
<1>. QED BY <1>1, <1>2

-----------------------------------------------------------------------------
(* The hook.                                                               *)

\* A chain that is free.
LEMMA NoChainType ==
  /\ NoChain \in ChainRecords /\ NoChain.at = "free"
  /\ 0 \in 0..MaxJobs /\ "absent" \in Statuses /\ \A j \in Rows : j \in 0..MaxJobs
BY Bounds DEF NoChain, ChainRecords, Statuses, Rows

\* What clearTimeout leaves: no timer that timerRef holds, all else as it was.
LEMMA StopEffect ==
  ASSUME NEW chs \in [Chains -> ChainRecords]
  PROVE  /\ StopPolling(chs) \in [Chains -> ChainRecords]
         /\ \A c \in Chains :
              /\ chs[c].ref /\ chs[c].at = "timer" => StopPolling(chs)[c].at = "free"
              /\ StopPolling(chs)[c].at # "free" =>
                   /\ StopPolling(chs)[c].at = chs[c].at
                   /\ StopPolling(chs)[c].job = chs[c].job
                   /\ StopPolling(chs)[c].seen = chs[c].seen
BY NoChainType DEF StopPolling, ChainRecords

\* What setTimeout leaves: timerRef holds the new timer.
LEMMA ArmEffect ==
  ASSUME NEW chs \in [Chains -> ChainRecords], NEW c \in Chains, NEW j \in Rows
  PROVE  /\ Arm(chs, c, j) \in [Chains -> ChainRecords]
         /\ Arm(chs, c, j)[c].at = "timer" /\ Arm(chs, c, j)[c].ref
         /\ Arm(chs, c, j)[c].job = j
         /\ \A d \in Chains \ {c} : /\ Arm(chs, c, j)[d].at = chs[d].at
                                    /\ Arm(chs, c, j)[d].job = chs[d].job
                                    /\ Arm(chs, c, j)[d].seen = chs[d].seen
BY NoChainType DEF Arm, ChainRecords

\* A poll that leaves its chain: without a race it was the only one.
LEMMA ChainEnds ==
  ASSUME HookInv, NEW c \in Chains, Busy(c),
         chains' = StopPolling([chains EXCEPT ![c] = NoChain]),
         UNCHANGED <<view, latest, post, raced>>,
         shown' \in [job : 0..MaxJobs, seen : Statuses], error' \in BOOLEAN
  PROVE  HookInv'
<1> DEFINE chs == [chains EXCEPT ![c] = NoChain]
<1>1. /\ chs \in [Chains -> ChainRecords] /\ chs[c].at = "free"
      /\ \A d \in Chains \ {c} : chs[d] = chains[d]
  BY NoChainType DEF HookInv, HookTypes
<1> HIDE DEF chs
<1>2. /\ chains' \in [Chains -> ChainRecords]
      /\ \A d \in Chains : Busy(d)' =>
           /\ d # c /\ chains'[d].job = chains[d].job /\ Busy(d)
  BY <1>1, StopEffect DEF Busy, chs
<1>3. ~raced => \A d \in Chains : ~Busy(d)'
  BY <1>2 DEF HookInv, AloneInv
<1>. QED BY <1>2, <1>3 DEF HookInv, HookTypes, AskedInv, AloneInv

\* Polling is stopped for another task: what is still under way is counted as
\* a race.
LEMMA StopsForAnother ==
  ASSUME HookInv, chains' = StopPolling(chains), raced' = (raced \/ UnderWay)
  PROVE  /\ chains' \in [Chains -> ChainRecords] /\ raced' \in BOOLEAN
         /\ \A c \in Chains : Busy(c)' => chains'[c].job \in Rows
         /\ ~raced' => /\ \A c \in Chains : ~Busy(c)'
                       /\ latest.at = "none" /\ post.at = "none"
<1>1. chains \in [Chains -> ChainRecords] /\ raced \in BOOLEAN
  BY DEF HookInv, HookTypes
<1>2. /\ chains' \in [Chains -> ChainRecords]
      /\ \A c \in Chains : Busy(c)' =>
           /\ chains'[c].job = chains[c].job /\ Busy(c) /\ chains'[c].at = chains[c].at
           /\ ~(chains[c].ref /\ chains[c].at = "timer")
  BY <1>1, StopEffect DEF Busy
<1>3. raced' \in BOOLEAN
  BY <1>1 DEF UnderWay
<1>4. ASSUME ~raced', NEW c \in Chains, Busy(c)' PROVE FALSE
  <2>1. ~raced /\ ~UnderWay
    BY <1>4
  <2>2. chains[c].ref /\ Busy(c) /\ chains[c].at # "timer"
    BY <1>2, <1>4, <2>1 DEF HookInv, AloneInv
  <2>3. chains[c].at \in {"sent", "read"}
    BY <1>1, <2>2 DEF ChainRecords, Busy
  <2>. QED BY <2>1, <2>3 DEF UnderWay
<1>5. ~raced' => latest.at = "none" /\ post.at = "none"
  BY DEF UnderWay
<1>6. \A c \in Chains : Busy(c)' => chains'[c].job \in Rows
  BY <1>2 DEF HookInv, AskedInv
<1>. QED BY <1>2, <1>3, <1>4, <1>5, <1>6

\* An answer that makes the hook wait: without a race nothing else is under way.
LEMMA AnswerArms ==
  ASSUME HookInv, NEW r \in Rows, FreeChain # {},
         chains' = Arm(chains, Min(FreeChain), r), raced' = raced,
         \/ latest.at # "none" /\ latest' = NoAnswer /\ post' = post
         \/ post.at # "none" /\ post' = NoAnswer /\ latest' = latest
  PROVE  /\ chains' \in [Chains -> ChainRecords]
         /\ AskedInv' /\ (~raced => AloneInv)'
<1> DEFINE m == Min(FreeChain)
<1>1. m \in Chains /\ chains \in [Chains -> ChainRecords]
  <2>1. FreeChain \in SUBSET Nat /\ FreeChain \in SUBSET Chains
    BY Bounds DEF FreeChain, Chains
  <2>2. m \in FreeChain
    BY <2>1, MinOfNaturals
  <2>. QED BY <2>1, <2>2 DEF HookInv, HookTypes
<1> HIDE DEF m
<1>2. /\ chains' \in [Chains -> ChainRecords]
      /\ chains'[m].ref /\ chains'[m].job = r
      /\ \A c \in Chains \ {m} : chains'[c].at = chains[c].at /\ chains'[c].job = chains[c].job
  <2>1. chains' = Arm(chains, m, r)
    BY DEF m
  <2>. QED BY <1>1, <2>1, ArmEffect
<1>3. /\ \A c \in Chains : Busy(c)' => chains'[c].job \in Rows
      /\ \A c \in Chains : Busy(c)' => c = m \/ Busy(c)
  BY <1>2 DEF HookInv, AskedInv, Busy
<1>4. AskedInv'
  BY <1>3 DEF HookInv, AskedInv, NoAnswer
<1>5. ASSUME ~raced PROVE AloneInv'
  <2>1. /\ \A c \in Chains : ~Busy(c)
        /\ latest'.at = "none" /\ post'.at = "none"
    BY <1>5 DEF HookInv, AloneInv, NoAnswer
  <2>. QED BY <1>2, <1>3, <2>1 DEF AloneInv
<1>. QED BY <1>2, <1>4, <1>5

\* A request of the hook moves on, and nothing else.
LEMMA RequestMoves ==
  ASSUME HookInv, UNCHANGED <<view, shown, chains, raced>>, error' \in BOOLEAN,
         latest' \in [at : {"none", "sent", "read"}, job : 0..MaxJobs, seen : Statuses],
         post' \in [at : {"none", "sent", "read"}, job : 0..MaxJobs,
                    seen : Statuses \cup Icaos],
         latest.at = "none" => latest'.at = "none",
         post.at = "none" => post'.at = "none",
         post'.at = "sent" => post'.seen \in Icaos,
         post'.at = "read" => post'.job \in Rows /\ post'.seen \in Statuses
  PROVE  HookInv'
BY DEF HookInv, HookTypes, AskedInv, AloneInv, Busy

\* The requests of the mount effect and of a trigger, up to their answers.
LEMMA RequestSteps ==
  ASSUME RowsInv, HookInv,
         GetLatest \/ LatestFails \/ PostFails \/ PostRefused \/ PostSync
  PROVE  HookInv'
<1> USE DEF NoAnswer
<1>0. /\ HookTypes /\ NoAnswer.at = "none"
      /\ NoAnswer \in [at : {"none", "sent", "read"}, job : 0..MaxJobs, seen : Statuses]
      /\ NoAnswer \in [at : {"none", "sent", "read"}, job : 0..MaxJobs,
                       seen : Statuses \cup Icaos]
      /\ post.at = "sent" => post.seen \in Icaos
      /\ post.at = "read" => post.job \in Rows /\ post.seen \in Statuses
  BY NoChainType DEF HookInv, AskedInv
<1>1. CASE GetLatest
  <2>1. /\ Newest(RowsOf(view)) \in 0..MaxJobs
        /\ Seen(Newest(RowsOf(view))) \in Statuses
    BY NewestIs DEF RowsInv
  <2>2. /\ latest' \in [at : {"none", "sent", "read"}, job : 0..MaxJobs, seen : Statuses]
        /\ latest.at # "none"
        /\ UNCHANGED <<view, shown, error, chains, post, raced>>
    BY <1>1, <2>1 DEF GetLatest, HookOnly
  <2>. QED BY <1>0, <2>2, RequestMoves DEF HookTypes
<1>2. CASE LatestFails
  <2>1. latest' = NoAnswer /\ error' = TRUE /\ UNCHANGED <<view, shown, chains, post, raced>>
    BY <1>2 DEF LatestFails, HookOnly
  <2> HIDE DEF NoAnswer
  <2>. QED BY <1>0, <2>1, RequestMoves DEF HookTypes
<1>3. CASE PostFails \/ PostRefused
  <2>1. post' = NoAnswer /\ error' = TRUE /\ UNCHANGED <<view, shown, chains, latest, raced>>
    BY <1>3 DEF PostFails, PostRefused, PostEnds, HookOnly
  <2> HIDE DEF NoAnswer
  <2>. QED BY <1>0, <2>1, RequestMoves DEF HookTypes
<1>4. CASE PostSync
  <2> DEFINE a == post.seen
  <2>1. PICK j \in Rows, s \in Statuses : post' = [at |-> "read", job |-> j, seen |-> s]
    <3>1. CASE ActiveOf(a) # {}
      <4>1. ActiveOf(a) \in SUBSET Rows
        BY DEF ActiveOf, RowsOf
      <4>2. Max(ActiveOf(a)) \in Rows
        BY <3>1, <4>1, MaxOfRows
      <4>3. status[Max(ActiveOf(a))] \in Statuses
        BY <4>2 DEF RowsInv, RowTypes
      <4>. QED BY <1>4, <3>1, <4>2, <4>3 DEF PostSync
    <3>2. CASE ActiveOf(a) = {}
      <4>1. Min(Unused) \in Rows /\ "queued" \in Statuses
        BY <1>4, <3>2, UnusedLeast DEF PostSync, Statuses, Life!Active
      <4>. QED BY <1>4, <3>2, <4>1 DEF PostSync
    <3>. QED BY <3>1, <3>2
  <2>2. post.at = "sent" /\ UNCHANGED <<view, shown, error, chains, latest, raced>>
    BY <1>4 DEF PostSync
  <2>3. /\ post' \in [at : {"none", "sent", "read"}, job : 0..MaxJobs,
                      seen : Statuses \cup Icaos]
        /\ post'.at = "read" /\ post'.job \in Rows /\ post'.seen \in Statuses
    BY <2>1, NoChainType
  <2>. QED BY <1>0, <2>2, <2>3, RequestMoves DEF HookTypes
<1>. QED BY <1>1, <1>2, <1>3, <1>4

\* Their answers: one that shows an active job arms a timer.
LEMMA AnswerSteps ==
  ASSUME HookInv, LatestArrives \/ PostArrives
  PROVE  HookInv'
<1>0. /\ HookTypes /\ AskedInv /\ NoAnswer.at = "none"
      /\ NoAnswer \in [at : {"none", "sent", "read"}, job : 0..MaxJobs, seen : Statuses]
      /\ NoAnswer \in [at : {"none", "sent", "read"}, job : 0..MaxJobs,
                       seen : Statuses \cup Icaos]
  BY NoChainType DEF HookInv, NoAnswer
<1>1. CASE LatestArrives
  <2>1. /\ latest.at = "read" /\ latest' = NoAnswer
        /\ UNCHANGED <<view, error, post, raced>>
        /\ latest.job \in 0..MaxJobs /\ latest.seen \in Statuses
    BY <1>0, <1>1 DEF LatestArrives, HookOnly, HookTypes
  <2>2. \/ shown' = shown
        \/ shown' = [job |-> latest.job, seen |-> latest.seen]
    BY <1>1 DEF LatestArrives, Follow
  <2>3. shown' \in [job : 0..MaxJobs, seen : Statuses]
    BY <1>0, <2>1, <2>2 DEF HookTypes
  <2>4. CASE chains' = chains
    BY <1>0, <2>1, <2>3, <2>4 DEF HookInv, HookTypes, AskedInv, AloneInv, Busy
  <2>5. CASE chains' # chains
    <3>1. latest.job # 0 /\ FreeChain # {} /\ chains' = Arm(chains, Min(FreeChain), latest.job)
      BY <1>1, <2>5 DEF LatestArrives, Follow
    <3>2. latest.job \in Rows
      BY <2>1, <3>1, Bounds DEF Rows
    <3>3. chains' \in [Chains -> ChainRecords] /\ AskedInv' /\ (~raced => AloneInv)'
      BY <2>1, <3>1, <3>2, AnswerArms
    <3>. QED BY <1>0, <2>1, <2>3, <3>3 DEF HookInv, HookTypes
  <2>. QED BY <2>4, <2>5
<1>2. CASE PostArrives
  <2>1. /\ post.at = "read" /\ post' = NoAnswer
        /\ UNCHANGED <<view, error, latest, raced>>
        /\ post.job \in Rows /\ post.seen \in Statuses
        /\ shown' = [job |-> post.job, seen |-> post.seen]
        /\ FreeChain # {} /\ chains' = Arm(chains, Min(FreeChain), post.job)
    BY <1>0, <1>2 DEF PostArrives, HookOnly, Follow, AskedInv
  <2>2. chains' \in [Chains -> ChainRecords] /\ AskedInv' /\ (~raced => AloneInv)'
    BY <2>1, AnswerArms
  <2>3. shown' \in [job : 0..MaxJobs, seen : Statuses]
    BY <2>1, NoChainType
  <2>. QED BY <1>0, <2>1, <2>2, <2>3 DEF HookInv, HookTypes
<1>. QED BY <1>1, <1>2

\* The steps of a poll.
LEMMA PollSteps ==
  ASSUME RowsInv, HookInv, NEW c \in Chains,
         TimerFires(c) \/ GetJob(c) \/ PollArrives(c) \/ PollFails(c)
  PROVE  HookInv'
<1>0. /\ HookTypes /\ AskedInv /\ chains[c] \in ChainRecords
      /\ Busy(c) /\ chains[c].job \in Rows
      /\ UNCHANGED <<view, latest, post, raced>>
  BY DEF HookInv, HookTypes, AskedInv, Busy, TimerFires, ChainTo, GetJob, PollArrives,
         PollFails, HookOnly
<1>1. CASE TimerFires(c) \/ GetJob(c)
  <2>1. /\ UNCHANGED <<shown, error>>
        /\ \/ chains' = [chains EXCEPT ![c].at = "sent"]
           \/ chains' = [chains EXCEPT ![c].at = "read", ![c].seen = status[chains[c].job]]
    BY <1>1 DEF TimerFires, ChainTo, GetJob, HookOnly
  <2>2. status[chains[c].job] \in Statuses
    BY <1>0 DEF RowsInv, RowTypes
  <2>3. /\ chains' \in [Chains -> ChainRecords]
        /\ \A d \in Chains :
             /\ chains'[d].job = chains[d].job /\ chains'[d].ref = chains[d].ref
             /\ Busy(d)' <=> Busy(d)
    <3>1. CASE chains' = [chains EXCEPT ![c].at = "sent"]
      BY <1>0, <3>1 DEF HookTypes, ChainRecords, Busy
    <3>2. CASE chains' = [chains EXCEPT ![c].at = "read", ![c].seen = status[chains[c].job]]
      BY <1>0, <2>2, <3>2 DEF HookTypes, ChainRecords, Busy
    <3>. QED BY <2>1, <3>1, <3>2
  <2>. QED BY <1>0, <2>1, <2>3 DEF HookInv, HookTypes, AskedInv, AloneInv
<1>2. CASE PollArrives(c)
  <2>1. /\ shown' \in [job : 0..MaxJobs, seen : Statuses] /\ error' = error
    BY <1>0, <1>2, NoChainType DEF PollArrives, ChainRecords
  <2>2. CASE chains' = StopPolling([chains EXCEPT ![c] = NoChain])
    BY <1>0, <2>1, <2>2, ChainEnds DEF HookTypes
  <2>3. CASE chains' # StopPolling([chains EXCEPT ![c] = NoChain])
    <3>1. chains' = Arm(chains, c, chains[c].job)
      BY <1>2, <2>3 DEF PollArrives
    <3>2. chains \in [Chains -> ChainRecords]
      BY <1>0 DEF HookTypes
    <3> DEFINE r == chains[c].job
    <3>3. r \in Rows
      BY <1>0
    <3> HIDE DEF r
    <3>4. /\ chains' \in [Chains -> ChainRecords] /\ chains'[c].ref /\ chains'[c].job = r
          /\ \A d \in Chains \ {c} : /\ chains'[d].at = chains[d].at
                                     /\ chains'[d].job = chains[d].job
      BY <3>1, <3>2, <3>3, ArmEffect DEF r
    <3>5. \A d \in Chains : Busy(d)' => Busy(d) /\ chains'[d].job \in Rows
      BY <1>0, <3>3, <3>4 DEF Busy, AskedInv
    <3>6. ~raced => \A d \in Chains : Busy(d)' => d = c
      BY <1>0, <3>5 DEF HookInv, AloneInv
    <3>. QED BY <1>0, <2>1, <3>4, <3>5, <3>6 DEF HookInv, HookTypes, AskedInv, AloneInv
  <2>. QED BY <2>2, <2>3
<1>3. CASE PollFails(c)
  <2>1. /\ chains' = StopPolling([chains EXCEPT ![c] = NoChain])
        /\ error' = TRUE /\ shown' = shown
    BY <1>3 DEF PollFails
  <2>. QED BY <1>0, <2>1, ChainEnds DEF HookTypes
<1>. QED BY <1>1, <1>2, <1>3

\* The user: triggers, goes to another aerodrome, or to or from the dashboard.
LEMMA UserSteps ==
  ASSUME HookInv, Trigger \/ (\E a \in Icaos : GoToOther(a)) \/ (\E v \in Views : Mount(v))
  PROVE  HookInv'
<1>0. /\ HookTypes /\ Sent.at = "sent" /\ NoAnswer.at = "none"
      /\ NoAnswer \in [at : {"none", "sent", "read"}, job : 0..MaxJobs, seen : Statuses]
      /\ Sent \in [at : {"none", "sent", "read"}, job : 0..MaxJobs, seen : Statuses]
      /\ NoAnswer \in [at : {"none", "sent", "read"}, job : 0..MaxJobs,
                       seen : Statuses \cup Icaos]
  BY NoChainType DEF HookInv, NoAnswer, Sent
<1>1. CASE Trigger
  <2>1. /\ chains' = StopPolling(chains) /\ raced' = (raced \/ UnderWay)
        /\ view \in Icaos /\ error' = FALSE
        /\ UNCHANGED <<view, shown, latest>>
    BY <1>1 DEF Trigger
  <2>2. post' = [at |-> "sent", job |-> 0, seen |-> view]
    BY <1>1 DEF Trigger, Sent, NoAnswer
  <2>3. post' \in [at : {"none", "sent", "read"}, job : 0..MaxJobs,
                   seen : Statuses \cup Icaos]
        /\ post'.at = "sent" /\ post'.seen \in Icaos
    BY <2>1, <2>2, NoChainType
  <2>. QED BY <1>0, <2>1, <2>3, StopsForAnother DEF HookInv, HookTypes, AskedInv, AloneInv
<1>2. ASSUME NEW a \in Icaos, GoToOther(a) PROVE HookInv'
  <2>1. /\ chains' = StopPolling(chains) /\ raced' = (raced \/ UnderWay)
        /\ view' \in Views /\ latest' = Sent
        /\ UNCHANGED <<shown, error, post>>
    BY <1>2 DEF GoToOther, Views
  <2> HIDE DEF Sent
  <2>. QED BY <1>0, <2>1, StopsForAnother DEF HookInv, HookTypes, AskedInv, AloneInv
<1>3. ASSUME NEW v \in Views, Mount(v) PROVE HookInv'
  <2>1. /\ view' \in Views /\ shown' = [job |-> 0, seen |-> "absent"] /\ error' = FALSE
        /\ chains' = [c \in Chains |-> NoChain]
        /\ latest' \in {NoAnswer, Sent} /\ post' = NoAnswer /\ raced' = FALSE
    BY <1>3 DEF Mount, Nothing
  <2>2. chains' \in [Chains -> ChainRecords] /\ \A c \in Chains : ~Busy(c)'
    BY <2>1, NoChainType DEF Busy
  <2>3. shown' \in [job : 0..MaxJobs, seen : Statuses]
    BY <2>1, NoChainType
  <2>. QED BY <1>0, <2>1, <2>2, <2>3 DEF HookInv, HookTypes, AskedInv, AloneInv
<1>. QED BY <1>1, <1>2, <1>3

-----------------------------------------------------------------------------
(* Every step.                                                             *)

\* At first nothing has been asked.
LEMMA PollStart == Init => PollInv
<1> SUFFICES ASSUME Init PROVE PollInv
  OBVIOUS
<1> USE DEF Init
<1>1. RowsInv
  BY DEF RowsInv, RowTypes, Life!Init, Views, Statuses, Life!Active
<1>2. ButtonInv
  <2>1. button = [at |-> "idle", running |-> FALSE, tracked |-> {}, counted |-> {},
                  error |-> FALSE] /\ old = {}
    BY DEF Unpressed
  <2>. QED BY <2>1 DEF ButtonInv, ButtonTypes, BulkCountsNewJobs
<1>3. HookInv
  <2>1. latest \in {NoAnswer, Sent} /\ post = NoAnswer /\ shown = Nothing
    OBVIOUS
  <2>2. chains \in [Chains -> ChainRecords] /\ \A c \in Chains : ~Busy(c)
    BY NoChainType DEF Busy
  <2>3. HookTypes
    <3>1. shown = [job |-> 0, seen |-> "absent"]
      BY <2>1 DEF Nothing
    <3>2. latest \in [at : {"none", "sent", "read"}, job : 0..MaxJobs, seen : Statuses]
      BY <2>1, NoChainType DEF NoAnswer, Sent
    <3>3. post \in [at : {"none", "sent", "read"}, job : 0..MaxJobs,
                    seen : Statuses \cup Icaos]
      BY <2>1, NoChainType DEF NoAnswer
    <3>4. shown \in [job : 0..MaxJobs, seen : Statuses]
      BY <3>1, NoChainType
    <3>5. view \in Views /\ error \in BOOLEAN /\ raced \in BOOLEAN
      OBVIOUS
    <3>. QED BY ONLY <2>2, <3>2, <3>3, <3>4, <3>5 DEF HookTypes
  <2>. QED BY <2>1, <2>2, <2>3 DEF HookInv, AskedInv, AloneInv, NoAnswer
<1>. QED BY <1>1, <1>2, <1>3, Bounds DEF PollInv

\* Moves and faults stay within their bounds.
LEMMA BoundsKept ==
  ASSUME moves \in 0..MaxMoves, faults \in 0..MaxFaults, [Next]_vars
  PROVE  moves' \in 0..MaxMoves /\ faults' \in 0..MaxFaults
<1>1. /\ moves' = moves \/ Move
      /\ faults' = faults \/ Fault
  BY DEF Next, Hook, Button, User, Fails, vars, rowVars, hookVars, bulkVars, HookOnly,
         ButtonOnly, GetLatest, LatestArrives, PostSync, PostRefused, PostArrives, PostEnds,
         TimerFires, GetJob, PollArrives, BulkPost, BulkRefused, Posted, ButtonFires,
         GetLatestBulk, BulkPollArrives, ButtonEnds, Mount, GoToOther, Trigger, OnTrigger,
         LatestFails, PostFails, BulkFails, PollFails, OtherSync, Advance
<1>. QED BY <1>1, Bounds DEF Move, Fault

\* Every step keeps the invariant.
LEMMA PollStep == PollInv /\ [Next]_vars => PollInv'
<1> SUFFICES ASSUME PollInv, [Next]_vars PROVE PollInv'
  OBVIOUS
<1> USE DEF PollInv, rowVars, hookVars, bulkVars, HookOnly, ButtonOnly
<1>0. moves' \in 0..MaxMoves /\ faults' \in 0..MaxFaults
  BY BoundsKept
<1>1. UNCHANGED rowVars => RowsInv'
  BY DEF RowsInv, RowTypes
<1>2. UNCHANGED <<rowVars, bulkVars>> => ButtonInv'
  BY DEF ButtonInv, ButtonTypes, BulkCountsNewJobs, RowsOf, Ended
<1>3. UNCHANGED <<view, hookVars>> => HookInv'
  BY DEF HookInv, HookTypes, AskedInv, AloneInv, Busy
<1>4. CASE GetLatest \/ LatestFails \/ PostFails \/ PostRefused
  <2>1. UNCHANGED <<rowVars, bulkVars>>
    BY <1>4 DEF GetLatest, LatestFails, PostFails, PostRefused, PostEnds
  <2>. QED BY <1>0, <1>1, <1>2, <1>4, <2>1, RequestSteps
<1>5. CASE LatestArrives \/ PostArrives
  <2>1. UNCHANGED <<rowVars, bulkVars>>
    BY <1>5 DEF LatestArrives, PostArrives
  <2>. QED BY <1>0, <1>1, <1>2, <1>5, <2>1, AnswerSteps
<1>6. ASSUME NEW c \in Chains,
             TimerFires(c) \/ GetJob(c) \/ PollArrives(c) \/ PollFails(c)
      PROVE  PollInv'
  <2>1. UNCHANGED <<rowVars, bulkVars>>
    BY <1>6 DEF TimerFires, GetJob, PollArrives, PollFails
  <2>. QED BY <1>0, <1>1, <1>2, <1>6, <2>1, PollSteps
<1>7. CASE PostSync
  <2>1. UNCHANGED bulkVars /\ post.at = "sent" /\ post.seen \in Icaos
    BY <1>7 DEF PostSync, HookInv, AskedInv
  <2>2. \/ UNCHANGED rowVars
        \/ /\ Unused # {} /\ ActiveOf(post.seen) = {}
           /\ Creates(post.seen, Min(Unused))
    BY <1>7 DEF PostSync
  <2>3. RowsInv' /\ ButtonInv'
    <3>1. CASE UNCHANGED rowVars
      BY <1>1, <1>2, <2>1, <3>1
    <3>2. CASE Unused # {} /\ ActiveOf(post.seen) = {} /\ Creates(post.seen, Min(Unused))
      BY <2>1, <3>2, CreateKeeps, ButtonKeeps
    <3>. QED BY <2>2, <3>1, <3>2
  <2>. QED BY <1>0, <1>7, <2>3, RequestSteps
<1>8. ASSUME NEW a \in Icaos, OtherSync(a) PROVE PollInv'
  <2>1. /\ UNCHANGED <<bulkVars, view, hookVars>> /\ Unused # {} /\ ActiveOf(a) = {}
        /\ Creates(a, Min(Unused))
    BY <1>8 DEF OtherSync
  <2>2. RowsInv' /\ ButtonInv'
    BY <2>1, CreateKeeps, ButtonKeeps
  <2>. QED BY <1>0, <1>3, <2>1, <2>2
<1>9. ASSUME NEW j \in Rows, Advance(j) PROVE PollInv'
  <2>1. RowsInv' /\ ButtonInv'
    BY <1>9, AdvanceKeeps, ButtonKeeps DEF Advance
  <2>. QED BY <1>0, <1>3, <1>9, <2>1 DEF Advance
<1>10. CASE BulkPost
  BY <1>0, <1>3, <1>10, BulkPostKeeps DEF BulkPost
<1>11. CASE GetLatestBulk
  BY <1>0, <1>1, <1>3, <1>11, LatestBulkKeeps DEF GetLatestBulk
<1>12. CASE Posted \/ ButtonFires \/ BulkPollArrives \/ BulkFails \/ BulkRefused
            \/ \E icaos \in SUBSET Icaos \ {{}} : OnTrigger(icaos)
  <2>1. UNCHANGED <<rowVars, view, hookVars>>
    BY <1>12 DEF Posted, ButtonFires, BulkPollArrives, BulkFails, BulkRefused, ButtonEnds,
                 OnTrigger
  <2>. QED BY <1>0, <1>1, <1>3, <1>12, <2>1, ButtonSteps
<1>13. ASSUME NEW v \in Views, Mount(v) PROVE PollInv'
  <2>1. UNCHANGED rowVars
    BY <1>13 DEF Mount
  <2>. QED BY <1>0, <1>1, <1>13, <2>1, ButtonSteps, UserSteps
<1>14. CASE Trigger \/ \E a \in Icaos : GoToOther(a)
  <2>1. UNCHANGED <<rowVars, bulkVars>>
    BY <1>14 DEF Trigger, GoToOther
  <2>. QED BY <1>0, <1>1, <1>2, <1>14, <2>1, UserSteps
<1>15. CASE UNCHANGED vars
  BY <1>0, <1>1, <1>2, <1>3, <1>15 DEF vars
<1>. QED
  BY <1>4, <1>5, <1>6, <1>7, <1>8, <1>9, <1>10, <1>11, <1>12, <1>13, <1>14, <1>15
  DEF Next, Hook, Button, User, Fails

-----------------------------------------------------------------------------
(* The rows go the ways of JobLifecycle, and only forward. *)

Way(j) == \/ Life!Stays(j) \/ Life!Inserted(j)
          \/ <<status[j], status'[j]>> \in Life!Forward /\ icao'[j] = icao[j]

\* A row that is made is queued for an aerodrome.
LEMMA CreateIsAWay ==
  ASSUME RowsInv, Unused # {}, NEW a \in Icaos, Creates(a, Min(Unused))
  PROVE  \A j \in Rows : Way(j)
<1> DEFINE m == Min(Unused)
<1>1. m \in Rows /\ status[m] = "absent"
  BY UnusedLeast
<1>2. status' = [status EXCEPT ![m] = "queued"] /\ icao' = [icao EXCEPT ![m] = a]
  BY DEF Creates
<1> HIDE DEF m
<1>. QED BY <1>1, <1>2 DEF RowsInv, RowTypes, Way, Life!Stays, Life!Inserted

\* So are those of a bulk request, each of them for one of its aerodromes.
LEMMA BulkIsAWay ==
  ASSUME RowsInv, ButtonInv, BulkPost
  PROVE  \A j \in Rows : Way(j)
<1> DEFINE idle == {a \in button.tracked : ActiveOf(a) = {}}
<1>1. PICK new \in kSubset(Cardinality(idle), Unused) :
        /\ \E owner \in [new -> idle] :
             icao' = [j \in Rows |-> IF j \in new THEN owner[j] ELSE icao[j]]
        /\ status' = [j \in Rows |-> IF j \in new THEN "queued" ELSE status[j]]
  BY DEF BulkPost
<1>2. PICK owner \in [new -> idle] :
        icao' = [j \in Rows |-> IF j \in new THEN owner[j] ELSE icao[j]]
  BY <1>1
<1>3. new \subseteq Unused /\ idle \subseteq Icaos
  BY <1>1 DEF kSubset, ButtonInv, ButtonTypes
<1> HIDE DEF idle
<1>4. SUFFICES ASSUME NEW j \in Rows PROVE Way(j)
  OBVIOUS
<1>5. CASE j \in new
  BY <1>1, <1>2, <1>3, <1>5 DEF Unused, Way, Life!Inserted
<1>6. CASE j \notin new
  BY <1>1, <1>2, <1>6 DEF Way, Life!Stays
<1>. QED BY <1>5, <1>6

\* Nobody else changes a row but its job, which runs or ends.
LEMMA WayStep ==
  ASSUME RowsInv, ButtonInv, HookInv, [Next]_vars
  PROVE  \A j \in Rows : Way(j)
<1>1. CASE UNCHANGED rowVars
  BY <1>1 DEF rowVars, Way, Life!Stays
<1>2. ASSUME NEW a \in Icaos, OtherSync(a) PROVE \A j \in Rows : Way(j)
  BY <1>2, CreateIsAWay DEF OtherSync
<1>3. CASE PostSync
  <2>1. post.seen \in Icaos
    BY <1>3 DEF PostSync, HookInv, AskedInv
  <2>2. UNCHANGED rowVars \/ (Unused # {} /\ Creates(post.seen, Min(Unused)))
    BY <1>3 DEF PostSync, rowVars
  <2>. QED BY <1>1, <2>1, <2>2, CreateIsAWay
<1>4. CASE BulkPost
  BY <1>4, BulkIsAWay
<1>5. ASSUME NEW k \in Rows, Advance(k) PROVE \A j \in Rows : Way(j)
  <2>1. PICK s : <<status[k], s>> \in Life!Forward /\ status' = [status EXCEPT ![k] = s]
    BY <1>5 DEF Advance, Changes
  <2>. QED BY <1>5, <2>1 DEF Advance, RowsInv, RowTypes, Way, Life!Stays
<1>6. \/ UNCHANGED rowVars \/ PostSync \/ BulkPost
      \/ (\E a \in Icaos : OtherSync(a)) \/ (\E j \in Rows : Advance(j))
  BY DEF Next, Hook, Button, User, Fails, vars, rowVars, HookOnly, ButtonOnly, GetLatest,
         LatestArrives, PostRefused, PostArrives, PostEnds, TimerFires, GetJob, PollArrives,
         BulkRefused, Posted, ButtonFires, GetLatestBulk, BulkPollArrives, ButtonEnds,
         Mount, GoToOther, Trigger, OnTrigger, LatestFails, PostFails, BulkFails, PollFails
<1>. QED BY <1>1, <1>2, <1>3, <1>4, <1>5, <1>6

-----------------------------------------------------------------------------
(* The display goes forward. *)

\* A row exists and is not behind what an answer says of it.
Known(x) == /\ x.job \in Rows /\ status[x.job] # "absent"
            /\ NoLater(x.seen, status[x.job])

\* An answer about the job on display is not behind the display.
InOrder(x) == x.job = shown.job => NoLater(shown.seen, x.seen)

\* What the display and the answers under way say was true when it was read;
\* without a race the answer under way was read after the one on display.
SeenInv ==
  /\ shown = Nothing \/ Known(shown)
  /\ \A c \in Chains : /\ Busy(c) => status[chains[c].job] # "absent"
                       /\ chains[c].at = "read" => Known(chains[c])
  /\ latest.at = "read" => latest.job = 0 \/ Known(latest)
  /\ post.at = "read" => Known(post)

OrderInv ==
  /\ \A c \in Chains : chains[c].at = "read" => InOrder(chains[c])
  /\ latest.at = "read" => latest.job = 0 \/ InOrder(latest)
  /\ post.at = "read" => InOrder(post)

DisplayInv == PollInv /\ SeenInv /\ (~raced => OrderInv)

\* A row that exists stays, and what was seen of it stays behind it.
LEMMA RowsGoOn ==
  ASSUME \A j \in Rows : Way(j)
  PROVE  \A j \in Rows : status[j] # "absent" =>
           /\ status'[j] # "absent"
           /\ \A s : NoLater(s, status[j]) => NoLater(s, status'[j])
BY DEF Way, Life!Stays, Life!Inserted, Life!Forward, NoLater

\* A chain stays where it is, with what it has read, or becomes free.
ChainKept(c) ==
  Busy(c)' => /\ chains'[c].at = chains[c].at /\ chains'[c].job = chains[c].job
              /\ chains'[c].seen = chains[c].seen

\* What is displayed or under way stays, goes, or is read of a row; and the
\* rows go on.
LEMMA SeenKept ==
  ASSUME SeenInv, HookInv, \A j \in Rows : Way(j),
         shown' \in {shown, Nothing} \/ Known(shown)',
         \A c \in Chains : \/ ChainKept(c)
                           \/ /\ status'[chains'[c].job] # "absent"
                              /\ chains'[c].at = "read" => Known(chains[c])',
         latest' = latest \/ (latest'.at = "read" => latest'.job = 0 \/ Known(latest)'),
         post' = post \/ (post'.at = "read" => Known(post)')
  PROVE  SeenInv'
<1>1. \A j \in Rows : status[j] # "absent" =>
         /\ status'[j] # "absent"
         /\ \A s : NoLater(s, status[j]) => NoLater(s, status'[j])
  BY RowsGoOn
<1>2. shown' = Nothing \/ Known(shown)'
  BY <1>1 DEF SeenInv, Known
<1>3. ASSUME NEW c \in Chains, Busy(c)'
      PROVE  /\ status'[chains'[c].job] # "absent"
             /\ chains'[c].at = "read" => Known(chains[c])'
  <2>1. CASE ChainKept(c)
    <3>1. chains'[c].job = chains[c].job /\ chains'[c].at = chains[c].at /\ Busy(c)
          /\ chains'[c].seen = chains[c].seen
      BY <1>3, <2>1 DEF Busy, ChainKept
    <3>2. chains[c].job \in Rows /\ status[chains[c].job] # "absent"
      BY <3>1 DEF SeenInv, HookInv, AskedInv
    <3>. QED BY <1>1, <3>1, <3>2 DEF SeenInv, Known
  <2>. QED BY <2>1
<1>4. latest'.at = "read" => latest'.job = 0 \/ Known(latest)'
  BY <1>1 DEF SeenInv, Known
<1>5. post'.at = "read" => Known(post)'
  BY <1>1 DEF SeenInv, Known
<1>6. \A c \in Chains : chains'[c].at = "read" => Busy(c)'
  BY DEF Busy
<1>. QED BY <1>2, <1>3, <1>4, <1>5, <1>6 DEF SeenInv

\* The display stays, and what is under way stays or goes.
LEMMA OrderKept ==
  ASSUME OrderInv, shown' = shown, \A c \in Chains : ChainKept(c),
         latest' = latest \/ latest'.at # "read", post' = post \/ post'.at # "read"
  PROVE  OrderInv'
BY DEF OrderInv, InOrder, ChainKept, Busy

\* What is read now is not behind the display.
LEMMA ReadInOrder ==
  ASSUME SeenInv, NEW x, x.job \in Rows, x.seen = status[x.job]
  PROVE  InOrder(x)
BY Bounds DEF SeenInv, Known, InOrder, Nothing, Rows

\* The requests of the hook and the reads of its polls.
LEMMA ReadsKeep ==
  ASSUME RowsInv, HookInv, SeenInv, ~raced => OrderInv, \A j \in Rows : Way(j),
         \/ GetLatest \/ LatestFails \/ PostFails \/ PostRefused \/ PostSync
         \/ \E c \in Chains : TimerFires(c) \/ GetJob(c)
  PROVE  SeenInv' /\ (~raced => OrderInv)'
<1>0. shown' = shown /\ raced' = raced
  BY DEF GetLatest, LatestFails, PostFails, PostRefused, PostEnds, PostSync, TimerFires,
         GetJob, HookOnly
<1>1. CASE GetLatest
  <2> DEFINE j == Newest(RowsOf(view))
  <2>1. latest' = [at |-> "read", job |-> j, seen |-> Seen(j)]
        /\ UNCHANGED <<chains, post, rowVars>>
    BY <1>1 DEF GetLatest, HookOnly
  <2>2. j = 0 \/ j \in RowsOf(view)
    BY NewestIs DEF RowsInv, Newest
  <2>3. latest'.job = 0 \/ (Known(latest)' /\ InOrder(latest)')
    <3> SUFFICES ASSUME j # 0 PROVE Known(latest)' /\ InOrder(latest)'
      BY <2>1
    <3>1. j \in Rows /\ status[j] # "absent"
      BY <2>2 DEF RowsOf
    <3>2. latest'.job = j /\ latest'.seen = status[j]
      BY <2>1 DEF Seen
    <3> HIDE DEF j
    <3>3. Known(latest)'
      BY <2>1, <3>1, <3>2 DEF Known, NoLater, rowVars
    <3>4. InOrder(latest')
      BY <3>1, <3>2, ReadInOrder
    <3>. QED BY <1>0, <3>3, <3>4 DEF InOrder
  <2>4. SeenInv'
    BY <1>0, <2>1, <2>3, SeenKept DEF ChainKept
  <2>. QED BY <1>0, <2>1, <2>3, <2>4 DEF OrderInv, InOrder
<1>2. CASE LatestFails \/ PostFails \/ PostRefused
  <2>1. /\ chains' = chains
        /\ latest' = latest \/ latest'.at # "read"
        /\ post' = post \/ post'.at # "read"
    BY <1>2 DEF LatestFails, PostFails, PostRefused, PostEnds, NoAnswer
  <2>. QED BY <1>0, <2>1, SeenKept, OrderKept DEF ChainKept
<1>3. CASE PostSync
  <2>1. UNCHANGED <<chains, latest>> /\ post.at = "sent"
    BY <1>3 DEF PostSync
  <2>2. Known(post)' /\ InOrder(post)'
    <3>1. CASE ActiveOf(post.seen) # {}
      <4> DEFINE j == Max(ActiveOf(post.seen))
      <4>1. j \in ActiveOf(post.seen)
        BY <3>1, MaxOfRows DEF ActiveOf, RowsOf
      <4>2. j \in Rows /\ status[j] # "absent"
        BY <4>1 DEF ActiveOf, RowsOf
      <4>3. post' = [at |-> "read", job |-> j, seen |-> status[j]] /\ status' = status
        BY <1>3, <3>1 DEF PostSync
      <4> HIDE DEF j
      <4>4. post'.job = j /\ post'.seen = status[j]
        BY <4>3
      <4>5. InOrder(post')
        BY <4>2, <4>4, ReadInOrder
      <4>. QED BY <1>0, <4>2, <4>3, <4>4, <4>5 DEF Known, NoLater, InOrder
    <3>2. CASE ActiveOf(post.seen) = {}
      <4> DEFINE j == Min(Unused)
      <4>1. Unused # {} /\ Creates(post.seen, j)
            /\ post' = [at |-> "read", job |-> j, seen |-> "queued"]
        BY <1>3, <3>2 DEF PostSync
      <4>2. j \in Rows /\ status[j] = "absent"
        BY <4>1, UnusedLeast
      <4>3. status' = [status EXCEPT ![j] = "queued"]
        BY <4>1 DEF Creates
      <4> HIDE DEF j
      <4>4. status'[j] = "queued" /\ post'.job = j /\ post'.seen = "queued"
        BY <4>1, <4>2, <4>3 DEF RowsInv, RowTypes
      <4>5. Known(post)'
        BY <4>2, <4>4 DEF Known, NoLater
      <4>6. shown.job # j
        BY <4>2, Bounds DEF SeenInv, Known, Nothing, Rows
      <4>. QED BY <1>0, <4>4, <4>5, <4>6 DEF InOrder
    <3>. QED BY <3>1, <3>2
  <2>3. SeenInv'
    BY <1>0, <2>1, <2>2, SeenKept DEF ChainKept
  <2>. QED BY <1>0, <2>1, <2>2, <2>3 DEF OrderInv, InOrder
<1>4. ASSUME NEW c \in Chains, TimerFires(c) PROVE SeenInv' /\ (~raced => OrderInv)'
  <2>1. /\ chains' = [chains EXCEPT ![c].at = "sent"] /\ UNCHANGED <<latest, post, rowVars>>
        /\ Busy(c) /\ chains \in [Chains -> ChainRecords]
    BY <1>4 DEF TimerFires, ChainTo, HookOnly, Busy, HookInv, HookTypes
  <2>2. /\ chains'[c].at = "sent" /\ chains'[c].job = chains[c].job
        /\ \A d \in Chains \ {c} : chains'[d] = chains[d]
    BY <2>1 DEF ChainRecords
  <2>3. status'[chains'[c].job] # "absent"
    BY <2>1, <2>2 DEF SeenInv, rowVars
  <2>4. SeenInv'
    BY <1>0, <2>1, <2>2, <2>3, SeenKept DEF ChainKept
  <2>. QED BY <1>0, <2>1, <2>2, <2>4 DEF OrderInv, InOrder
<1>5. ASSUME NEW c \in Chains, GetJob(c) PROVE SeenInv' /\ (~raced => OrderInv)'
  <2>1. /\ chains' = [chains EXCEPT ![c].at = "read", ![c].seen = status[chains[c].job]]
        /\ UNCHANGED <<latest, post, rowVars>>
        /\ Busy(c) /\ chains \in [Chains -> ChainRecords] /\ chains[c].job \in Rows
    BY <1>5 DEF GetJob, HookOnly, Busy, HookInv, HookTypes, AskedInv
  <2>2. /\ chains'[c].at = "read" /\ chains'[c].job = chains[c].job
        /\ chains'[c].seen = status[chains[c].job]
        /\ \A d \in Chains \ {c} : chains'[d] = chains[d]
    BY <2>1 DEF ChainRecords
  <2>3. status[chains[c].job] # "absent" /\ status' = status
    BY <2>1 DEF SeenInv, rowVars
  <2>4. Known(chains[c])'
    BY <2>1, <2>2, <2>3 DEF Known, NoLater
  <2>5. InOrder(chains'[c])
    BY <2>1, <2>2, ReadInOrder
  <2>6. SeenInv'
    BY <1>0, <2>1, <2>2, <2>3, <2>4, SeenKept DEF ChainKept
  <2>. QED BY <1>0, <2>1, <2>2, <2>5, <2>6 DEF OrderInv, InOrder
<1>. QED BY <1>1, <1>2, <1>3, <1>4, <1>5

\* An answer reaches the display: what it says was true when it was read, and
\* without a race nothing else is under way.
LEMMA ArrivalsKeep ==
  ASSUME HookInv, SeenInv, ~raced => OrderInv, \A j \in Rows : Way(j),
         \/ LatestArrives \/ PostArrives
         \/ \E c \in Chains : PollArrives(c) \/ PollFails(c)
  PROVE  /\ SeenInv' /\ (~raced => OrderInv)'
         /\ ~raced /\ shown'.job = shown.job => NoLater(shown.seen, shown'.seen)
<1>0. /\ raced' = raced /\ UNCHANGED rowVars /\ NoAnswer.at = "none"
      /\ chains \in [Chains -> ChainRecords]
      /\ \A c \in Chains : Busy(c) => chains[c].job \in Rows
      /\ \A j : NoLater(j, j)
  BY DEF LatestArrives, PostArrives, PollArrives, PollFails, HookOnly, rowVars, HookInv,
         HookTypes, AskedInv, NoAnswer, NoLater
<1>1. ASSUME NEW x, \/ Follow(x, TRUE) \/ Follow(x, x.seen \in Life!Active),
             Known(x), ~raced => InOrder(x) /\ \A c \in Chains : ~Busy(c),
             \/ latest' = NoAnswer /\ post' = post
             \/ post' = NoAnswer /\ latest' = latest,
             ~raced => latest'.at = "none" /\ post'.at = "none"
      PROVE  /\ SeenInv' /\ (~raced => OrderInv)'
             /\ ~raced /\ shown'.job = shown.job => NoLater(shown.seen, shown'.seen)
  <2>1. /\ shown' = [job |-> x.job, seen |-> x.seen]
        /\ \/ chains' = chains
           \/ FreeChain # {} /\ chains' = Arm(chains, Min(FreeChain), x.job)
    BY <1>1 DEF Follow
  <2>2. Known(shown)' /\ x.job \in Rows /\ status'[x.job] # "absent"
    BY <1>0, <1>1, <2>1 DEF Known, rowVars
  <2>3. \A c \in Chains : \/ ChainKept(c)
                          \/ chains'[c].at = "timer" /\ chains'[c].job = x.job
    <3>1. CASE chains' = chains
      BY <3>1 DEF ChainKept
    <3>2. CASE FreeChain # {} /\ chains' = Arm(chains, Min(FreeChain), x.job)
      <4> DEFINE m == Min(FreeChain)
      <4>1. FreeChain \in SUBSET Nat /\ FreeChain \in SUBSET Chains
        BY Bounds DEF FreeChain, Chains
      <4>2. m \in Chains
        BY <3>2, <4>1, MinOfNaturals
      <4>3. chains' = Arm(chains, m, x.job)
        BY <3>2
      <4> HIDE DEF m
      <4>4. /\ chains'[m].at = "timer" /\ chains'[m].job = x.job
            /\ \A d \in Chains \ {m} : /\ chains'[d].at = chains[d].at
                                       /\ chains'[d].job = chains[d].job
                                       /\ chains'[d].seen = chains[d].seen
        BY <1>0, <2>2, <4>2, <4>3, ArmEffect
      <4>. QED BY <4>4 DEF ChainKept
    <3>. QED BY <2>1, <3>1, <3>2
  <2>4. SeenInv'
    <3>1. latest' = latest \/ latest'.at # "read"
      BY <1>0, <1>1
    <3>2. post' = post \/ post'.at # "read"
      BY <1>0, <1>1
    <3>3. \A c \in Chains : \/ ChainKept(c)
                            \/ /\ status'[chains'[c].job] # "absent"
                               /\ chains'[c].at = "read" => Known(chains[c])'
      BY <2>2, <2>3
    <3>. QED BY <2>2, <3>1, <3>2, <3>3, SeenKept
  <2>5. ASSUME ~raced PROVE OrderInv'
    <3>1. \A c \in Chains : chains'[c].at # "read"
      BY <1>1, <2>3, <2>5 DEF ChainKept, Busy
    <3>. QED BY <1>1, <2>5, <3>1 DEF OrderInv
  <2>6. ~raced /\ shown'.job = shown.job => NoLater(shown.seen, shown'.seen)
    BY <1>1, <2>1 DEF InOrder
  <2>. QED BY <1>0, <2>4, <2>5, <2>6
<1>2. CASE LatestArrives
  <2>1. /\ latest.at = "read" /\ latest' = NoAnswer /\ post' = post
        /\ \/ latest.job = 0 /\ UNCHANGED <<shown, chains>>
           \/ latest.job # 0 /\ Follow(latest, latest.seen \in Life!Active)
    BY <1>2 DEF LatestArrives
  <2>2. ~raced => post.at = "none" /\ \A c \in Chains : ~Busy(c)
    BY <2>1 DEF HookInv, AloneInv
  <2>3. CASE latest.job = 0 /\ UNCHANGED <<shown, chains>>
    BY <1>0, <2>1, <2>3, SeenKept, OrderKept DEF ChainKept
  <2>4. CASE latest.job # 0 /\ Follow(latest, latest.seen \in Life!Active)
    BY <1>0, <1>1, <2>1, <2>2, <2>4 DEF SeenInv, OrderInv
  <2>. QED BY <2>1, <2>3, <2>4
<1>3. CASE PostArrives
  <2>1. /\ post.at = "read" /\ post' = NoAnswer /\ latest' = latest /\ Follow(post, TRUE)
    BY <1>3 DEF PostArrives
  <2>2. ~raced => latest.at = "none" /\ \A c \in Chains : ~Busy(c)
    BY <2>1 DEF HookInv, AloneInv
  <2>. QED BY <1>0, <1>1, <2>1, <2>2 DEF SeenInv, OrderInv
<1>4. ASSUME NEW c \in Chains, PollArrives(c) \/ PollFails(c)
      PROVE  /\ SeenInv' /\ (~raced => OrderInv)'
             /\ ~raced /\ shown'.job = shown.job => NoLater(shown.seen, shown'.seen)
  <2> DEFINE chs == [chains EXCEPT ![c] = NoChain]
  <2>1. /\ Busy(c) /\ latest' = latest /\ post' = post
        /\ \/ shown' = shown
           \/ /\ chains[c].at = "read"
              /\ shown' = [job |-> chains[c].job, seen |-> chains[c].seen]
        /\ \/ chains' = StopPolling(chs)
           \/ chains' = Arm(chains, c, chains[c].job)
    BY <1>4 DEF PollArrives, PollFails, Busy
  <2>2. shown' \in {shown, Nothing} \/ Known(shown)'
    BY <1>0, <2>1 DEF SeenInv, Known, rowVars
  <2>3. chains[c].job \in Rows /\ status'[chains[c].job] # "absent"
    BY <1>0, <2>1 DEF SeenInv, rowVars
  <2>4. /\ \A d \in Chains \ {c} : ChainKept(d)
        /\ ChainKept(c) \/ (chains'[c].at = "timer" /\ chains'[c].job = chains[c].job)
    <3>1. CASE chains' = StopPolling(chs)
      <4>1. /\ chs \in [Chains -> ChainRecords] /\ chs[c].at = "free"
            /\ \A d \in Chains \ {c} : chs[d] = chains[d]
        BY <1>0, NoChainType
      <4> HIDE DEF chs
      <4>2. \A d \in Chains : chains'[d].at # "free" =>
              /\ chains'[d].at = chs[d].at /\ chains'[d].job = chs[d].job
              /\ chains'[d].seen = chs[d].seen
        BY <3>1, <4>1, StopEffect
      <4>. QED BY <4>1, <4>2 DEF ChainKept, Busy
    <3>2. CASE chains' = Arm(chains, c, chains[c].job)
      <4> DEFINE r == chains[c].job
      <4>1. r \in Rows /\ chains' = Arm(chains, c, r)
        BY <2>3, <3>2
      <4> HIDE DEF r
      <4>2. /\ chains'[c].at = "timer" /\ chains'[c].job = r
            /\ \A d \in Chains \ {c} : /\ chains'[d].at = chains[d].at
                                       /\ chains'[d].job = chains[d].job
                                       /\ chains'[d].seen = chains[d].seen
        BY <1>0, <4>1, ArmEffect
      <4>. QED BY <4>2 DEF ChainKept, r
    <3>. QED BY <2>1, <3>1, <3>2
  <2> HIDE DEF chs
  <2>5. SeenInv'
    <3>1. \A d \in Chains : \/ ChainKept(d)
                            \/ /\ status'[chains'[d].job] # "absent"
                               /\ chains'[d].at = "read" => Known(chains[d])'
      BY <2>3, <2>4
    <3>. QED BY <2>1, <2>2, <3>1, SeenKept
  <2>6. ASSUME ~raced
        PROVE  /\ latest.at = "none" /\ post.at = "none"
               /\ \A d \in Chains \ {c} : ~Busy(d)
    BY <2>1, <2>6 DEF HookInv, AloneInv
  <2>7. ~raced /\ shown'.job = shown.job => NoLater(shown.seen, shown'.seen)
    BY <1>0, <2>1 DEF OrderInv, InOrder
  <2>8. CASE shown' = shown
    <3>1. \A d \in Chains : ChainKept(d) \/ chains'[d].at # "read"
      BY <2>4
    <3>2. ~raced => OrderInv'
      BY <2>1, <2>8, <3>1 DEF OrderInv, InOrder, ChainKept, Busy
    <3>. QED BY <1>0, <2>5, <2>7, <3>2
  <2>9. CASE PollArrives(c)
    <3>1. chains'[c].at # "read"
      <4>1. CASE chains' = StopPolling(chs)
        <5>1. chs \in [Chains -> ChainRecords] /\ chs[c].at = "free"
          BY <1>0, NoChainType DEF chs
        <5>2. chains'[c].at # "free" => chains'[c].at = chs[c].at
          BY <4>1, <5>1, StopEffect
        <5>. QED BY <5>1, <5>2
      <4>2. CASE chains' = Arm(chains, c, chains[c].job)
        BY <1>0, <2>3, <4>2, ArmEffect
      <4>. QED BY <2>1, <4>1, <4>2
    <3>2. ~raced => OrderInv'
      BY <2>1, <2>4, <2>6, <3>1 DEF OrderInv, ChainKept, Busy
    <3>. QED BY <1>0, <2>5, <2>7, <3>2
  <2>. QED BY <1>4, <2>8, <2>9 DEF PollFails
<1>. QED BY <1>2, <1>3, <1>4

\* The user: without a race nothing that was read is under way.
LEMMA UserKeepsDisplay ==
  ASSUME HookInv, SeenInv, ~raced => OrderInv, \A j \in Rows : Way(j),
         Trigger \/ (\E a \in Icaos : GoToOther(a)) \/ (\E v \in Views : Mount(v))
  PROVE  /\ SeenInv' /\ (~raced => OrderInv)'
         /\ shown' = shown \/ shown' = Nothing
<1>0. chains \in [Chains -> ChainRecords] /\ NoAnswer.at = "none" /\ Sent.at = "sent"
  BY DEF HookInv, HookTypes, NoAnswer, Sent
<1>1. CASE Trigger \/ \E a \in Icaos : GoToOther(a)
  <2>1. /\ chains' = StopPolling(chains) /\ raced' = (raced \/ UnderWay) /\ shown' = shown
        /\ latest' = latest \/ latest'.at # "read"
        /\ post' = post \/ post'.at # "read"
    BY <1>0, <1>1 DEF Trigger, GoToOther, Sent, NoAnswer
  <2>2. \A c \in Chains : ChainKept(c)
    BY <1>0, <2>1, StopEffect DEF ChainKept, Busy
  <2>3. SeenInv'
    BY <2>1, <2>2, SeenKept
  <2>4. ~raced' => OrderInv'
    BY <2>1, <2>2, OrderKept
  <2>. QED BY <2>1, <2>3, <2>4
<1>2. CASE \E v \in Views : Mount(v)
  <2>1. /\ shown' = Nothing /\ chains' = [c \in Chains |-> NoChain]
        /\ latest'.at # "read" /\ post'.at # "read"
    BY <1>0, <1>2 DEF Mount
  <2>2. \A c \in Chains : chains'[c].at = "free"
    BY <2>1, NoChainType
  <2>3. SeenInv'
    BY <2>1, <2>2 DEF SeenInv, Busy
  <2>4. OrderInv'
    BY <2>1, <2>2 DEF OrderInv
  <2>. QED BY <2>1, <2>3, <2>4
<1>. QED BY <1>1, <1>2

\* Every step keeps the invariant, and takes the display forward.
LEMMA DisplayStep ==
  DisplayInv /\ [Next]_vars =>
     DisplayInv' /\ (raced \/ shown'.job # shown.job \/ NoLater(shown.seen, shown'.seen)
                     \/ shown' = shown)
<1> SUFFICES ASSUME DisplayInv, [Next]_vars
             PROVE  /\ SeenInv' /\ (~raced => OrderInv)'
                    /\ \/ raced \/ shown'.job # shown.job \/ shown' = shown
                       \/ NoLater(shown.seen, shown'.seen)
  BY PollStep DEF DisplayInv
<1>0. /\ RowsInv /\ ButtonInv /\ HookInv /\ SeenInv /\ (~raced => OrderInv)
      /\ \A j \in Rows : Way(j)
  BY WayStep DEF DisplayInv, PollInv
<1>1. CASE UNCHANGED hookVars
  <2>1. UNCHANGED <<shown, chains, latest, post, raced>>
    BY <1>1 DEF hookVars
  <2>. QED BY <1>0, <2>1, SeenKept, OrderKept DEF ChainKept
<1>2. CASE \/ GetLatest \/ LatestFails \/ PostFails \/ PostRefused \/ PostSync
           \/ \E c \in Chains : TimerFires(c) \/ GetJob(c)
  <2>1. shown' = shown
    BY <1>2 DEF GetLatest, LatestFails, PostFails, PostRefused, PostEnds, PostSync,
                TimerFires, GetJob, HookOnly
  <2>. QED BY <1>0, <1>2, <2>1, ReadsKeep
<1>3. CASE \/ LatestArrives \/ PostArrives
           \/ \E c \in Chains : PollArrives(c) \/ PollFails(c)
  BY <1>0, <1>3, ArrivalsKeep
<1>4. CASE Trigger \/ (\E a \in Icaos : GoToOther(a)) \/ (\E v \in Views : Mount(v))
  <2>1. SeenInv' /\ (~raced => OrderInv)' /\ (shown' = shown \/ shown' = Nothing)
    BY <1>0, <1>4, UserKeepsDisplay
  <2>2. ASSUME shown' = Nothing, shown # Nothing PROVE shown'.job # shown.job
    <3>1. shown.job \in Rows
      BY <1>0, <2>2 DEF SeenInv, Known
    <3>. QED BY <2>2, <3>1, Bounds DEF Nothing, Rows
  <2>. QED BY <2>1, <2>2
<1>5. \/ UNCHANGED hookVars
      \/ GetLatest \/ LatestFails \/ PostFails \/ PostRefused \/ PostSync
      \/ LatestArrives \/ PostArrives
      \/ Trigger \/ (\E a \in Icaos : GoToOther(a)) \/ (\E v \in Views : Mount(v))
      \/ \E c \in Chains : TimerFires(c) \/ GetJob(c) \/ PollArrives(c) \/ PollFails(c)
  BY DEF Next, Hook, Button, User, Fails, vars, OtherSync, Advance, BulkPost, BulkRefused,
         Posted, ButtonFires, GetLatestBulk, BulkPollArrives, ButtonEnds, ButtonOnly,
         OnTrigger, BulkFails
<1>. QED BY <1>1, <1>2, <1>3, <1>4, <1>5

-----------------------------------------------------------------------------
(* The theorems.                                                           *)

\* Rows, hook and button keep their types.
THEOREM PollingTypeCorrect == Spec => []TypeOK
<1>1. PollInv => TypeOK
  BY DEF PollInv, RowsInv, ButtonInv, HookInv, TypeOK
<1>. QED BY <1>1, PollStart, PollStep, PTL DEF Spec

\* One job is polled by one chain of timers, unless a request was under way
\* when the page changed its aerodrome or a sync was triggered.
THEOREM OneChainCorrect == Spec => []OneChain
<1>1. ASSUME PollInv PROVE OneChain
  <2> SUFFICES ASSUME ~raced PROVE Cardinality(Chains \ FreeChain) <= 1
    BY DEF OneChain
  <2>1. \A c, d \in Chains \ FreeChain : c = d
    BY <1>1 DEF PollInv, HookInv, AloneInv, Busy, FreeChain
  <2>2. CASE Chains \ FreeChain = {}
    BY <2>2, FS_EmptySet
  <2>3. CASE Chains \ FreeChain # {}
    <3>1. PICK c \in Chains \ FreeChain : Chains \ FreeChain = {c}
      BY <2>1, <2>3
    <3>2. Cardinality(Chains \ FreeChain) = 1
      <4>1. Cardinality({c}) = 1
        BY FS_Singleton
      <4>. QED BY <3>1, <4>1
    <3>. QED BY <3>2
  <2>. QED BY <2>2, <2>3
<1>. QED BY <1>1, PollStart, PollStep, PTL DEF Spec

\* What the button counts as ended had not ended when it was pressed.
THEOREM BulkCountsNewJobsCorrect == Spec => []BulkCountsNewJobs
<1>1. PollInv => BulkCountsNewJobs
  BY DEF PollInv, ButtonInv
<1>. QED BY <1>1, PollStart, PollStep, PTL DEF Spec

\* The display of a job never goes back to an earlier status, unless a request
\* was under way when the hook was given another task.
THEOREM ShownGoesForwardCorrect == Spec => ShownGoesForward
<1>1. Init => DisplayInv
  <2> SUFFICES ASSUME Init PROVE SeenInv /\ OrderInv
    BY PollStart DEF DisplayInv
  <2>1. /\ shown = Nothing /\ \A c \in Chains : chains[c].at = "free"
        /\ latest.at # "read" /\ post.at # "read"
    BY NoChainType DEF Init, NoAnswer, Sent
  <2>. QED BY <2>1 DEF SeenInv, OrderInv, Busy
<1>2. DisplayInv /\ [Next]_vars =>
        [raced \/ shown'.job # shown.job \/ NoLater(shown.seen, shown'.seen)]_shown
  BY DisplayStep
<1>3. DisplayInv /\ [Next]_vars => DisplayInv'
  BY DisplayStep
<1>. QED BY <1>1, <1>2, <1>3, PTL DEF Spec, ShownGoesForward

\* The rows that the hook and the button read are among those of JobLifecycle,
\* which ExtractionJobs implements: whatever requests this tab and others make,
\* a commit inserts rows as queued or takes one forward.
THEOREM RowsKeepLifecycle == Spec => Life!Spec
<1>1. PollInv /\ [Next]_vars => [Life!Commit]_<<status, icao>>
  BY WayStep DEF PollInv, Way, Life!Commit, Life!Moves
<1>2. Init => Life!Init
  BY DEF Init
<1>. QED BY <1>1, <1>2, PollStart, PollStep, PTL DEF Spec, Life!Spec
=============================================================================
