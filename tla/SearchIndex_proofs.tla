------------------------- MODULE SearchIndex_proofs -------------------------
(***************************************************************************)
(* Proofs about SearchIndex: type correctness, and that the index that     *)
(* bulk_load and subscribe_loop maintain is a lagging index.  The argument *)
(* is that there is one writer at a time, bulk_load or the subscriber, and *)
(* that what it read is at least what the index held when it read it.  And *)
(* that a document is stale only if a change of its row was lost: what     *)
(* changed is still ahead of the pages, about to be announced, announced,  *)
(* or being fetched.                                                       *)
(***************************************************************************)
EXTENDS SearchIndex, FiniteSetTheorems, TLAPS

LagInv ==
  /\ TypeOK
  /\ \A a \in Icaos : row[a] = 0 \/ row[a] = last[a]
  /\ \A a \in Icaos : index[a] <= last[a]
  /\ load # "done" => sub = "off"
  /\ load = "paging" => \A a \in Icaos :
        items[a] = 0 \/ (index[a] <= items[a] /\ items[a] <= last[a])
  /\ sub = "fetching" =>
        /\ doc.icao \in Icaos
        /\ \/ doc.version = 0
           \/ index[doc.icao] <= doc.version /\ doc.version <= last[doc.icao]

LEMMA LagInit == Init => LagInv
<1> SUFFICES ASSUME Init PROVE LagInv
  OBVIOUS
<1>. QED
  BY SearchAssumption DEF Init, LagInv, TypeOK, NoDoc, NoItems

\* The actions of data-ingestion: versions only go up.
LEMMA IngestStep ==
  ASSUME LagInv, NEW a \in Icaos, JobStep(a) \/ JobEndsUnpublished(a) \/ Script(a)
  PROVE  LagInv'
<1> USE DEF LagInv, TypeOK
<1>1. CASE JobWrites(a) \/ ScriptCreates(a)
  <2>1. /\ last' = [last EXCEPT ![a] = @ + 1] /\ last[a] \in Nat
        /\ row' = [row EXCEPT ![a] = last[a] + 1]
        /\ UNCHANGED <<search, index>>
        /\ job' \in [Icaos -> {"idle", "written", "completed"}]
        /\ lost' \subseteq Icaos /\ faults' \in Nat
    <3>1. CASE JobWrites(a)
      BY <3>1 DEF JobWrites, NewVersion
    <3>2. CASE ScriptCreates(a)
      BY <3>2 DEF ScriptCreates, NewVersion, Fault
    <3>. QED BY <1>1, <3>1, <3>2
  <2>2. \A b \in Icaos : last[b] <= last'[b] /\ last[b] \in Nat /\ last'[b] \in Nat
    BY <2>1
  <2>3. \A b \in Icaos : row'[b] = 0 \/ row'[b] = last'[b]
    BY <2>1
  <2>4. \A b \in Icaos : index'[b] <= last'[b]
    BY <2>1, <2>2
  <2>5. TypeOK'
    <3>1. row' \in [Icaos -> Nat] /\ last' \in [Icaos -> Nat]
      BY <2>1
    <3>. QED BY <2>1, <3>1 DEF search
  <2>6. load' = "paging" => \A b \in Icaos :
           items'[b] = 0 \/ (index'[b] <= items'[b] /\ items'[b] <= last'[b])
    BY <2>1, <2>2 DEF search
  <2>7. sub' = "fetching" =>
          /\ doc'.icao \in Icaos
          /\ \/ doc'.version = 0
             \/ /\ index'[doc'.icao] <= doc'.version
                /\ doc'.version <= last'[doc'.icao]
    BY <2>1, <2>2 DEF search
  <2>. QED BY <2>1, <2>3, <2>4, <2>5, <2>6, <2>7 DEF search
<1>2. CASE JobCompletes(a)
  BY <1>2 DEF JobCompletes, search
<1>3. CASE Publish(a)
  <2>1. /\ UNCHANGED <<row, last, load, offset, items, sub, doc, index, faults>>
        /\ queue' \in Seq(Icaos) /\ lost' \subseteq Icaos
        /\ job' \in [Icaos -> {"idle", "written", "completed"}]
    <3>1. CASE Listening
      <4>1. Append(queue, a) \in Seq(Icaos)
        OBVIOUS
      <4>2. /\ job' = [job EXCEPT ![a] = "idle"] /\ queue' = Append(queue, a)
            /\ UNCHANGED <<row, last, load, offset, items, sub, doc, index,
                           faults, lost>>
        BY <1>3, <3>1 DEF Publish
      <4>. QED BY <4>1, <4>2
    <3>2. CASE ~Listening
      BY <1>3, <3>2 DEF Publish
    <3>. QED BY <3>1, <3>2
  <2>. QED BY <2>1
<1>4. CASE JobEndsUnpublished(a)
  BY <1>4 DEF JobEndsUnpublished, Fault, search
<1>5. CASE ScriptDeletes(a)
  <2>1. /\ UNCHANGED <<last, job, search, index>>
        /\ row' \in [Icaos -> Nat] /\ lost' \subseteq Icaos /\ faults' \in Nat
        /\ \A b \in Icaos : row'[b] = 0 \/ row'[b] = row[b]
    BY <1>5 DEF ScriptDeletes, Fault
  <2>. QED BY <2>1 DEF search
<1>. QED BY <1>1, <1>2, <1>3, <1>4, <1>5 DEF JobStep, Script

\* What a page reads is no older than what the index holds.
LEMMA ReadPageIsLater ==
  ASSUME LagInv, load = "paging"
  PROVE  /\ ReadPage \in [Icaos -> Nat]
         /\ \A a \in Icaos : ReadPage[a] = 0
              \/ (index[a] <= ReadPage[a] /\ ReadPage[a] <= last[a])
<1>1. \A a \in Icaos : row[a] \in Nat /\ items[a] \in Nat /\ last[a] \in Nat
  BY DEF LagInv, TypeOK
<1>2. \A a \in Icaos : ReadPage[a] = row[a] \/ ReadPage[a] = items[a]
  BY DEF ReadPage
<1>. QED BY <1>1, <1>2 DEF LagInv, ReadPage

LEMMA LoadStep ==
  ASSUME LagInv, SearchStart \/ FullPage \/ LastPage \/ LoadFails \/ SearchCrash
  PROVE  LagInv'
<1> USE DEF LagInv, TypeOK
<1>1. CASE SearchStart
  BY <1>1 DEF SearchStart, NoItems, ingest
<1>2. CASE FullPage
  <2>1. /\ items' = ReadPage /\ offset' \in Nat /\ load = "paging"
        /\ UNCHANGED <<ingest, load, sub, queue, doc, index, lost, faults>>
    BY <1>2, SearchAssumption DEF FullPage
  <2>. QED BY <2>1, ReadPageIsLater DEF ingest
<1>3. CASE LastPage
  <2>1. /\ items' = ReadPage /\ index' = Upserted(ReadPage) /\ load' = "done"
        /\ load = "paging"
        /\ UNCHANGED <<ingest, offset, sub, queue, doc, lost, faults>>
    BY <1>3 DEF LastPage
  <2>2. /\ index' \in [Icaos -> Nat]
        /\ \A a \in Icaos : index'[a] <= last[a]
    BY <2>1, ReadPageIsLater DEF Upserted
  <2>3. sub = "off"
    BY <2>1
  <2>. QED BY <2>1, <2>2, <2>3, ReadPageIsLater DEF ingest
<1>4. CASE LoadFails
  BY <1>4 DEF LoadFails, Fault, ingest
<1>5. CASE SearchCrash
  <2>1. lost' \subseteq Icaos
    BY <1>5 DEF SearchCrash, InFlight, Queued
  <2>. QED BY <1>5, <2>1 DEF SearchCrash, Fault, ingest, NoDoc
<1>. QED BY <1>1, <1>2, <1>3, <1>4, <1>5

LEMMA SubscriberStep ==
  ASSUME LagInv, Subscribe \/ Fetch \/ Apply \/ ApplyFails \/ Disconnect
  PROVE  LagInv'
<1> USE DEF LagInv, TypeOK
<1>1. CASE Subscribe
  BY <1>1 DEF Subscribe, ingest
<1>2. CASE Fetch
  <2> DEFINE b == Head(queue)
  <2>1. b \in Icaos /\ Tail(queue) \in Seq(Icaos)
    BY <1>2 DEF Fetch
  <2>2. /\ doc' = [icao |-> b, version |-> row[b]]
        /\ queue' = Tail(queue) /\ sub = "listening" /\ sub' = "fetching"
        /\ lost' \subseteq Icaos
        /\ UNCHANGED <<ingest, load, offset, items, index, faults>>
    BY <1>2 DEF Fetch
  <2> HIDE DEF b
  <2>3. doc'.icao = b /\ doc'.version = row[b] /\ row[b] \in Nat
    BY <2>1, <2>2
  <2>4. row[b] = 0 \/ (index[b] <= row[b] /\ row[b] <= last[b])
    BY <2>1
  <2>5. doc' \in [icao : Icaos \cup {-1}, version : Nat]
    BY <2>1, <2>2
  <2>. QED BY <2>1, <2>2, <2>3, <2>4, <2>5 DEF ingest
<1>3. CASE Apply
  <2>1. /\ index' = [index EXCEPT ![doc.icao] = doc.version]
        /\ doc' = NoDoc /\ sub' = "listening" /\ sub = "fetching"
        /\ UNCHANGED <<ingest, load, offset, items, queue, lost, faults>>
    BY <1>3 DEF Apply
  <2>2. doc.icao \in Icaos /\ doc.version \in Nat
    BY <2>1
  <2>3. /\ index' \in [Icaos -> Nat]
        /\ \A a \in Icaos : index'[a] <= last[a]
    BY <2>1, <2>2
  <2>4. load = "done"
    BY <2>1
  <2>. QED BY <2>1, <2>3, <2>4 DEF ingest, NoDoc
<1>4. CASE ApplyFails
  BY <1>4 DEF ApplyFails, Fault, ingest, NoDoc
<1>5. CASE Disconnect
  <2>1. lost' \subseteq Icaos
    BY <1>5 DEF Disconnect, Queued
  <2>. QED BY <1>5, <2>1 DEF Disconnect, Fault, ingest
<1>. QED BY <1>1, <1>2, <1>3, <1>4, <1>5

LEMMA LagStep == LagInv /\ [Next]_vars => LagInv'
<1> SUFFICES ASSUME LagInv, [Next]_vars PROVE LagInv'
  OBVIOUS
<1>1. CASE UNCHANGED vars
  BY <1>1 DEF vars, ingest, search, LagInv, TypeOK
<1>. QED
  BY <1>1, IngestStep, LoadStep, SubscriberStep
  DEF Next, SearchStep, SearchFault

\* Every reachable state is well typed, for any catalogue and page size.
THEOREM SearchTypeCorrect == Spec => []TypeOK
<1>1. LagInv => TypeOK
  BY DEF LagInv
<1>. QED BY <1>1, LagInit, LagStep, PTL DEF Spec

LEMMA StepLags ==
  ASSUME LagInv, LagInv', [Next]_vars
  PROVE  [Lagging!Next]_(Lagging!vars)
<1> USE DEF Lagging!vars
<1>1. CASE \E a \in Icaos : JobWrites(a) \/ ScriptCreates(a)
  BY <1>1 DEF JobWrites, ScriptCreates, NewVersion, Lagging!Next, Lagging!Change
<1>2. CASE LastPage
  <2>1. load = "paging" /\ index' = Upserted(ReadPage) /\ last' = last
    BY <1>2 DEF LastPage, ingest
  <2>2. \A a \in Icaos : index[a] \in Nat /\ last[a] \in Nat /\ index[a] <= last[a]
    BY DEF LagInv, TypeOK
  <2>3. /\ index' \in [Icaos -> Nat]
        /\ \A a \in Icaos : index[a] <= index'[a] /\ index'[a] <= last[a]
    BY <2>1, <2>2, ReadPageIsLater DEF Upserted
  <2>. QED BY <2>1, <2>3 DEF Lagging!Next, Lagging!Refresh
<1>3. CASE Apply
  <2>1. /\ index' = [index EXCEPT ![doc.icao] = doc.version]
        /\ sub = "fetching" /\ last' = last
    BY <1>3 DEF Apply, ingest
  <2>2. \A a \in Icaos : index[a] \in Nat /\ last[a] \in Nat /\ index[a] <= last[a]
    BY DEF LagInv, TypeOK
  <2>3. /\ index' \in [Icaos -> Nat]
        /\ \A a \in Icaos : index'[a] = 0
              \/ (index[a] <= index'[a] /\ index'[a] <= last[a])
    <3>1. /\ doc.icao \in Icaos /\ doc.version \in Nat
          /\ \/ doc.version = 0
             \/ index[doc.icao] <= doc.version /\ doc.version <= last[doc.icao]
      BY <2>1 DEF LagInv, TypeOK
    <3>2. index \in [Icaos -> Nat]
      BY DEF LagInv, TypeOK
    <3>3. \A a \in Icaos :
             index'[a] = IF a = doc.icao THEN doc.version ELSE index[a]
      BY <2>1, <3>2
    <3>. QED BY <2>1, <2>2, <3>1, <3>2, <3>3
  <2>. QED BY <2>1, <2>3 DEF Lagging!Next, Lagging!Refresh
<1>4. CASE \/ \E a \in Icaos : JobCompletes(a) \/ Publish(a)
                                 \/ JobEndsUnpublished(a) \/ ScriptDeletes(a)
           \/ SearchStart \/ FullPage \/ Subscribe \/ Fetch
           \/ SearchFault \/ UNCHANGED vars
  BY <1>4 DEF JobCompletes, Publish, JobEndsUnpublished, ScriptDeletes,
     SearchStart, FullPage, Subscribe, Fetch, SearchFault, LoadFails,
     ApplyFails, Disconnect, SearchCrash, vars, ingest
<1>. QED
  BY <1>1, <1>2, <1>3, <1>4 DEF Next, JobStep, Script, SearchStep

\* The index lags behind the rows and never goes back, whatever crashes, is
\* lost or fails: every step is a step of the lagging index or a stutter.
THEOREM LagsBehindCorrect == Spec => LagsBehind
<1>1. Init => Lagging!Init
  BY DEF Init, Lagging!Init
<1>. QED
  BY <1>1, LagInit, LagStep, StepLags, PTL
  DEF Spec, LagsBehind, Lagging!Spec
-----------------------------------------------------------------------------
(* A document is stale only if a change of its row was lost.               *)

LEMMA RankType ==
  ASSUME TypeOK, NEW a
  PROVE  /\ IsFiniteSet({b \in Present : b < a})
         /\ Rank(a) \in Nat
<1>1. IsFiniteSet({b \in Present : b < a})
  BY SearchAssumption, FS_Subset DEF Present
<1>. QED BY <1>1, FS_CardinalityType DEF Rank

\* Of two present aerodromes the one with the smaller code ranks lower.
LEMMA RankMonotone ==
  ASSUME TypeOK, NEW a \in Present, NEW b \in Present, b < a
  PROVE  Rank(b) < Rank(a)
<1> DEFINE B == {c \in Present : c < b}
           A == {c \in Present : c < a}
<1>1. a \in Nat /\ b \in Nat /\ \A c \in Present : c \in Nat
  BY SearchAssumption DEF Present
<1>2. IsFiniteSet(A) /\ IsFiniteSet(B) /\ Cardinality(A) \in Nat /\ Cardinality(B) \in Nat
  BY RankType DEF Rank
<1>3. B \in SUBSET A /\ B # A
  <2>1. \A c \in B : c \in A
    BY <1>1
  <2>2. b \in A /\ b \notin B
    BY <1>1
  <2>. QED BY <2>1, <2>2
<1>4. Cardinality(B) <= Cardinality(A) /\ Cardinality(B) # Cardinality(A)
  <2> HIDE DEF A, B
  <2>. QED BY <1>2, <1>3, FS_Subset
<1>5. Rank(b) = Cardinality(B) /\ Rank(a) = Cardinality(A)
  BY DEF Rank
<1>. QED BY <1>2, <1>4, <1>5

\* A page that is not full is the last one: no row lies behind it.
LEMMA ShortPageIsLast ==
  ASSUME TypeOK, Cardinality(Page) < PageSize, NEW a \in Present
  PROVE  Rank(a) < offset + PageSize
<1> SUFFICES ASSUME ~(Rank(a) < offset + PageSize) PROVE FALSE
  OBVIOUS
<1> DEFINE S == {b \in Present : b < a}
           n == Rank(a)
           W == offset .. offset + PageSize - 1
           f == [b \in S |-> Rank(b)]
           g == [b \in Page |-> Rank(b)]
<1>0. /\ n \in Nat /\ offset \in Nat /\ PageSize \in Nat \ {0}
      /\ offset + PageSize <= n
      /\ IsFiniteSet(S) /\ Cardinality(S) = n
      /\ \A b \in Present : b \in Nat /\ Rank(b) \in Nat
  <2>1. n \in Nat /\ IsFiniteSet(S) /\ Cardinality(S) = n
    BY RankType DEF Rank
  <2>2. offset \in Nat /\ PageSize \in Nat \ {0}
    BY SearchAssumption DEF TypeOK
  <2>3. \A b \in Present : b \in Nat /\ Rank(b) \in Nat
    BY RankType, SearchAssumption DEF Present
  <2>4. offset + PageSize <= n
    <3> HIDE DEF n
    <3>1. ~(n < offset + PageSize)
      BY DEF n
    <3>. QED BY <2>1, <2>2, <3>1
  <2>. QED BY <2>1, <2>2, <2>3, <2>4
<1>1. f \in Surjection(S, 0 .. n - 1)
  <2>1. \A b \in S : Rank(b) \in 0 .. n - 1
    BY <1>0, RankMonotone
  <2>2. \A b, c \in S : Rank(b) = Rank(c) => b = c
    <3> SUFFICES ASSUME NEW b \in S, NEW c \in S, b # c PROVE Rank(b) # Rank(c)
      OBVIOUS
    <3>1. b < c \/ c < b
      BY <1>0
    <3>2. Rank(b) < Rank(c) \/ Rank(c) < Rank(b)
      BY <3>1, RankMonotone
    <3>. QED BY <1>0, <3>2
  <2>3. f \in Injection(S, 0 .. n - 1)
    <3> HIDE DEF n, S
    <3>. QED BY <2>1, <2>2 DEF Injection, IsInjective
  <2>4. IsFiniteSet(0 .. n - 1) /\ Cardinality(0 .. n - 1) = n
    <3>1. /\ IsFiniteSet(0 .. n - 1)
          /\ Cardinality(0 .. n - 1) = IF 0 > n - 1 THEN 0 ELSE n - 1 - 0 + 1
      <4> HIDE DEF n
      <4>1. 0 \in Int /\ n - 1 \in Int
        BY <1>0
      <4>. QED BY ONLY <4>1, FS_Interval
    <3>. QED BY <1>0, <3>1
  <2> HIDE DEF f, S, n
  <2>. QED BY <1>0, <2>3, <2>4, FS_Injection
<1>2. g \in Surjection(Page, W)
  <2>1. \A w \in W : \E b \in S : Rank(b) = w
    <3> SUFFICES ASSUME NEW w \in W PROVE \E b \in S : Rank(b) = w
      OBVIOUS
    <3>1. w \in 0 .. n - 1
      BY <1>0
    <3>2. \E b \in S : f[b] = w
      <4> HIDE DEF n, S, f
      <4>. QED BY <1>1, <3>1 DEF Surjection
    <3>. QED BY <3>2
  <2>2. \A w \in W : \E b \in Page : Rank(b) = w
    BY <2>1 DEF Page
  <2>3. \A b \in Page : Rank(b) \in W
    BY DEF Page
  <2> HIDE DEF W
  <2>. QED BY <2>2, <2>3 DEF Surjection
<1>3. IsFiniteSet(Page) /\ Cardinality(Page) \in Nat
  <2>1. IsFiniteSet(Page)
    BY SearchAssumption, FS_Subset DEF Page, Present
  <2>. QED BY <2>1, FS_CardinalityType
<1>4. Cardinality(W) = PageSize
  BY <1>0, FS_Interval
<1>5. Cardinality(W) <= Cardinality(Page)
  <2> HIDE DEF W, g
  <2>. QED BY <1>2, <1>3, FS_Surjection
<1>. QED BY <1>0, <1>3, <1>4, <1>5

\* What holds of an aerodrome of which search missed nothing.  While the pages
\* are read: its row was read as it is, or is still ahead of the offset, or its
\* job is going to announce it.  From then on: its document is its row, or the
\* row was just fetched, or it is announced, or it is going to be.
FollowInv ==
  /\ LagInv
  /\ sub \in {"off", "retry"} => queue = <<>>
  /\ sub # "fetching" => doc = NoDoc
  /\ load = "paging" => \A a \in Icaos \ lost :
        /\ row[a] # 0
        /\ Rank(a) < offset => job[a] # "idle" \/ items[a] = row[a]
  /\ load = "done" => \A a \in Icaos \ lost :
        job[a] = "idle" /\ a \notin Queued =>
          IF sub = "fetching" /\ doc.icao = a THEN doc.version = row[a]
                                              ELSE index[a] = row[a]

\* A row that is added does not bring one that was behind the offset before it.
LEMMA RankGrows ==
  ASSUME TypeOK, NEW a \in Icaos, Present \subseteq Present',
         Present' \subseteq Icaos
  PROVE  Rank(a) \in Nat /\ Rank(a)' \in Nat /\ Rank(a) <= Rank(a)'
<1> DEFINE A == {b \in Present : b < a}
           B == {b \in Present' : b < a}
<1>1. IsFiniteSet(B) /\ A \in SUBSET B
  BY SearchAssumption, FS_Subset
<1>2. /\ Cardinality(A) \in Nat /\ Cardinality(B) \in Nat
      /\ Cardinality(A) <= Cardinality(B)
  <2> HIDE DEF A, B
  <2>. QED BY <1>1, FS_Subset, FS_CardinalityType
<1>3. Rank(a) = Cardinality(A) /\ Rank(a)' = Cardinality(B)
  BY DEF Rank
<1>. QED BY <1>2, <1>3
\* The rank of a row, as long as no row comes or goes.
LEMMA RankSame ==
  ASSUME Present' = Present, NEW a
  PROVE  Rank(a)' = Rank(a)
BY DEF Rank

\* The actions of data-ingestion: what changes a row is announced to a
\* listening service, or it is lost.
LEMMA IngestFollows ==
  ASSUME FollowInv, NEW a \in Icaos,
         JobStep(a) \/ JobEndsUnpublished(a) \/ Script(a)
  PROVE  FollowInv'
<1> USE DEF FollowInv
<1>0. LagInv' /\ TypeOK
  BY IngestStep DEF LagInv
<1>1. CASE JobWrites(a)
  <2>1. /\ row' = [row EXCEPT ![a] = last[a] + 1] /\ last[a] \in Nat
        /\ row[a] # 0 /\ job' = [job EXCEPT ![a] = "written"]
        /\ UNCHANGED <<search, index, lost>>
    BY <1>0, <1>1 DEF JobWrites, NewVersion, TypeOK
  <2>2. /\ \A b \in Icaos \ {a} : row'[b] = row[b] /\ job'[b] = job[b]
        /\ job'[a] = "written" /\ row'[a] # 0
    BY <1>0, <2>1 DEF TypeOK
  <2>3. Present' = Present
    BY <2>1, <2>2 DEF Present
  <2>4. \A b : Rank(b)' = Rank(b)
    BY <2>3, RankSame
  <2>. QED BY <1>0, <2>1, <2>2, <2>4 DEF search, Queued
<1>2. CASE JobCompletes(a)
  <2>1. /\ \A b \in Icaos \ {a} : job'[b] = job[b]
        /\ job'[a] = "completed"
        /\ UNCHANGED <<row, search, index, lost>>
    BY <1>0, <1>2 DEF JobCompletes, TypeOK
  <2>2. \A b : Rank(b)' = Rank(b)
    BY <2>1, RankSame DEF Present
  <2>. QED BY <1>0, <2>1, <2>2 DEF search, Queued
<1>3. CASE Publish(a)
  <2>1. /\ \A b \in Icaos \ {a} : job'[b] = job[b]
        /\ UNCHANGED <<row, load, offset, items, sub, doc, index>>
    BY <1>0, <1>3 DEF Publish, TypeOK
  <2>2. \A b : Rank(b)' = Rank(b)
    BY <2>1, RankSame DEF Present
  <2>3. CASE Listening
    <3>1. queue' = Append(queue, a) /\ lost' = lost
      BY <1>3, <2>3 DEF Publish
    <3>2. Queued' = Queued \cup {a}
      <4>1. /\ DOMAIN queue' = DOMAIN queue \cup {Len(queue) + 1}
            /\ \A i \in DOMAIN queue : queue'[i] = queue[i]
            /\ queue'[Len(queue) + 1] = a
        <5>1. queue \in Seq(Icaos) /\ Len(queue) \in Nat
          BY <1>0 DEF TypeOK
        <5>2. /\ Len(queue') = Len(queue) + 1 /\ queue' \in Seq(Icaos)
              /\ \A i \in 1 .. Len(queue) : queue'[i] = queue[i]
              /\ queue'[Len(queue) + 1] = a
          BY <3>1, <5>1
        <5>3. DOMAIN queue = 1 .. Len(queue) /\ DOMAIN queue' = 1 .. Len(queue')
          BY <5>1, <5>2
        <5>. QED BY <5>1, <5>2, <5>3
      <4>. QED BY <4>1 DEF Queued
    <3>3. load = "done" /\ sub \notin {"off", "retry"}
      BY <2>3 DEF Listening, LagInv
    <3>. QED BY <1>0, <2>1, <3>1, <3>2, <3>3
  <2>4. CASE ~Listening
    <3>1. queue' = queue /\ lost' = lost \cup {a}
      BY <1>3, <2>4 DEF Publish
    <3>. QED BY <1>0, <2>1, <2>2, <3>1 DEF Queued
  <2>. QED BY <2>3, <2>4
<1>4. CASE JobEndsUnpublished(a)
  <2>1. /\ \A b \in Icaos \ {a} : job'[b] = job[b]
        /\ lost' = lost \cup {a}
        /\ UNCHANGED <<row, search, index>>
    BY <1>0, <1>4 DEF JobEndsUnpublished, TypeOK
  <2>2. \A b : Rank(b)' = Rank(b)
    BY <2>1, RankSame DEF Present
  <2>. QED BY <1>0, <2>1, <2>2 DEF search, Queued
<1>5. CASE ScriptDeletes(a)
  <2>1. /\ \A b \in Icaos \ {a} : row'[b] = row[b]
        /\ lost' = IF load = "paging" THEN Icaos ELSE lost \cup {a}
        /\ UNCHANGED <<job, search, index>>
    BY <1>0, <1>5 DEF ScriptDeletes, TypeOK
  <2>. QED BY <1>0, <2>1 DEF search, Queued
<1>6. CASE ScriptCreates(a)
  <2>1. /\ row' = [row EXCEPT ![a] = last[a] + 1] /\ last[a] \in Nat
        /\ row[a] = 0 /\ lost' = lost \cup {a}
        /\ UNCHANGED <<job, search, index>>
    BY <1>0, <1>6 DEF ScriptCreates, NewVersion, TypeOK
  <2>2. \A b \in Icaos \ {a} : row'[b] = row[b]
    BY <1>0, <2>1 DEF TypeOK
  <2>3. Present \subseteq Present' /\ Present' \subseteq Icaos
    BY <2>1, <2>2 DEF Present
  <2>4. \A b \in Icaos : Rank(b) \in Nat /\ Rank(b)' \in Nat /\ Rank(b) <= Rank(b)'
    BY <1>0, <2>3, RankGrows
  <2>5. offset \in Nat /\ offset' = offset
    BY <1>0, <2>1 DEF TypeOK, search
  <2>6. \A b \in Icaos : Rank(b)' < offset' => Rank(b) < offset
    BY <2>4, <2>5
  <2>. QED BY <1>0, <2>1, <2>2, <2>6 DEF search, Queued
<1>. QED
  BY <1>1, <1>2, <1>3, <1>4, <1>5, <1>6 DEF JobStep, Script

\* The bulk load.
LEMMA LoadFollows ==
  ASSUME FollowInv, SearchStart \/ FullPage \/ LastPage \/ LoadFails \/ SearchCrash
  PROVE  FollowInv'
<1> USE DEF FollowInv
<1>0. LagInv' /\ TypeOK /\ \A a : row' = row => Rank(a)' = Rank(a)
  BY LoadStep, RankSame DEF LagInv, Present
<1>1. CASE SearchStart
  <2>1. /\ load' = "paging" /\ offset' = 0 /\ lost' = {a \in Icaos : row[a] = 0}
        /\ UNCHANGED <<ingest, sub, queue, doc, index>>
    BY <1>1 DEF SearchStart
  <2>2. ASSUME NEW a \in Icaos PROVE ~(Rank(a) < 0)
    <3>1. Rank(a) \in Nat
      BY <1>0, RankType
    <3>. QED BY <3>1
  <2>. QED BY <1>0, <2>1, <2>2 DEF ingest
<1>2. CASE FullPage
  <2>1. /\ load = "paging" /\ load' = load /\ items' = ReadPage
        /\ offset' = offset + PageSize
        /\ UNCHANGED <<ingest, sub, queue, doc, index, lost>>
    BY <1>2 DEF FullPage
  <2>2. ASSUME NEW a \in Icaos \ lost, Rank(a) < offset + PageSize
        PROVE  job[a] # "idle" \/ items'[a] = row[a]
    <3>1. row[a] # 0 /\ (Rank(a) < offset => job[a] # "idle" \/ items[a] = row[a])
      BY <2>1
    <3>2. Rank(a) \in Nat /\ offset \in Nat /\ PageSize \in Nat
      BY <1>0, RankType, SearchAssumption DEF TypeOK
    <3>3. Rank(a) < offset \/ Rank(a) \in offset .. offset + PageSize - 1
      BY <2>2, <3>2
    <3>. QED BY <2>1, <3>1, <3>3 DEF ReadPage, Page, Present
  <2>. QED BY <1>0, <2>1, <2>2 DEF ingest
<1>3. CASE LastPage
  <2>1. /\ load = "paging" /\ load' = "done" /\ index' = Upserted(ReadPage)
        /\ Cardinality(Page) < PageSize
        /\ UNCHANGED <<ingest, offset, sub, queue, doc, lost>>
    BY <1>3 DEF LastPage
  <2>2. ASSUME NEW a \in Icaos \ lost, job[a] = "idle"
        PROVE  index'[a] = row[a]
    <3>1. row[a] # 0 /\ (Rank(a) < offset => items[a] = row[a])
      BY <2>1, <2>2
    <3>2. Rank(a) < offset + PageSize
      BY <1>0, <2>1, <3>1, ShortPageIsLast DEF Present
    <3>3. Rank(a) \in Nat /\ offset \in Nat /\ PageSize \in Nat
      BY <1>0, RankType, SearchAssumption DEF TypeOK
    <3>4. Rank(a) < offset \/ Rank(a) \in offset .. offset + PageSize - 1
      BY <3>2, <3>3
    <3>5. ReadPage[a] = row[a]
      BY <3>1, <3>4 DEF ReadPage, Page, Present
    <3>. QED BY <2>1, <3>1, <3>5 DEF Upserted
  <2>3. sub = "off"
    BY <2>1 DEF LagInv
  <2>. QED BY <1>0, <2>1, <2>2, <2>3 DEF ingest
<1>4. CASE LoadFails
  BY <1>0, <1>4 DEF LoadFails
<1>5. CASE SearchCrash
  BY <1>0, <1>5 DEF SearchCrash
<1>. QED BY <1>1, <1>2, <1>3, <1>4, <1>5

\* The subscriber.
LEMMA SubscriberFollows ==
  ASSUME FollowInv, Subscribe \/ Fetch \/ Apply \/ ApplyFails \/ Disconnect
  PROVE  FollowInv'
<1> USE DEF FollowInv
<1>0. LagInv' /\ TypeOK
  BY SubscriberStep DEF LagInv
<1>1. CASE Subscribe
  <2>1. /\ load = "done" /\ sub \in {"off", "retry"} /\ sub' = "listening"
        /\ queue' = <<>> /\ queue = <<>>
        /\ UNCHANGED <<ingest, load, offset, items, doc, index, lost>>
    BY <1>1 DEF Subscribe
  <2>. QED BY <1>0, <2>1 DEF ingest, Queued
<1>2. CASE Fetch
  <2> DEFINE b == Head(queue)
  <2>1. /\ queue' = Tail(queue) /\ queue # <<>> /\ queue \in Seq(Icaos)
        /\ sub = "listening" /\ sub' = "fetching" /\ b \in Icaos
        /\ doc' = [icao |-> b, version |-> row[b]] /\ lost' = lost \ {b}
        /\ UNCHANGED <<ingest, load, offset, items, index>>
    BY <1>0, <1>2 DEF Fetch, TypeOK
  <2>2. Queued = Queued' \cup {b}
    <3>1. /\ queue[1] = b
          /\ \A i \in DOMAIN queue : i = 1 \/ /\ i - 1 \in DOMAIN Tail(queue)
                                              /\ queue[i] = Tail(queue)[i - 1]
      BY <2>1
    <3>2. \A i \in DOMAIN queue : queue[i] \in {queue'[k] : k \in DOMAIN queue'} \cup {b}
      BY <2>1, <3>1
    <3>3. \A k \in DOMAIN queue' : k + 1 \in DOMAIN queue /\ queue'[k] = queue[k + 1]
      BY <2>1
    <3>4. b \in {queue[i] : i \in DOMAIN queue}
      BY <2>1
    <3>. QED BY <3>2, <3>3, <3>4 DEF Queued
  <2>3. load = "done"
    BY <2>1 DEF LagInv
  <2>4. doc'.icao = b /\ doc'.version = row[b]
    BY <2>1
  <2> HIDE DEF b
  <2>. QED BY <1>0, <2>1, <2>2, <2>3, <2>4 DEF ingest
<1>3. CASE Apply
  <2>1. /\ index' = [index EXCEPT ![doc.icao] = doc.version]
        /\ doc' = NoDoc /\ sub' = "listening" /\ sub = "fetching"
        /\ UNCHANGED <<ingest, load, offset, items, queue, lost>>
    BY <1>3 DEF Apply
  <2>2. load = "done" /\ doc.icao \in Icaos
    BY <2>1 DEF LagInv
  <2>3. \A a \in Icaos : index'[a] = IF a = doc.icao THEN doc.version ELSE index[a]
    BY <1>0, <2>1 DEF TypeOK
  <2>. QED BY <1>0, <2>1, <2>2, <2>3 DEF ingest, Queued
<1>4. CASE ApplyFails
  <2>1. /\ lost' = lost \cup {doc.icao}
        /\ doc' = NoDoc /\ sub' = "listening" /\ sub = "fetching"
        /\ UNCHANGED <<ingest, load, offset, items, queue, index>>
    BY <1>4 DEF ApplyFails
  <2>2. load = "done"
    BY <2>1 DEF LagInv
  <2>. QED BY <1>0, <2>1, <2>2 DEF ingest, Queued
<1>5. CASE Disconnect
  <2>1. /\ sub = "listening" /\ sub' = "retry" /\ queue' = <<>>
        /\ lost' = lost \cup Queued
        /\ UNCHANGED <<ingest, load, offset, items, doc, index>>
    BY <1>5 DEF Disconnect
  <2>2. load = "done"
    BY <2>1 DEF LagInv
  <2>. QED BY <1>0, <2>1, <2>2 DEF ingest
<1>. QED BY <1>1, <1>2, <1>3, <1>4, <1>5

\* Every step keeps it.
LEMMA FollowStep == FollowInv /\ [Next]_vars => FollowInv'
<1> SUFFICES ASSUME FollowInv, [Next]_vars PROVE FollowInv'
  OBVIOUS
<1>1. CASE UNCHANGED vars
  <2>1. \A a : Rank(a)' = Rank(a)
    BY <1>1, RankSame DEF vars, ingest, Present
  <2>2. LagInv'
    BY LagStep DEF FollowInv
  <2>. QED BY <1>1, <2>1, <2>2 DEF vars, ingest, search, FollowInv, Queued
<1>. QED
  BY <1>1, IngestFollows, LoadFollows, SubscriberFollows
  DEF Next, SearchStep, SearchFault

\* A document that is stale while nothing is under way for its aerodrome is
\* one that search missed a change of: nothing else goes wrong in the bulk
\* load with its pages, the subscription and the re-indexing.
THEOREM StaleOnlyIfLostCorrect == Spec => []StaleOnlyIfLost
<1>1. Init => FollowInv
  BY LagInit DEF Init, FollowInv
<1>2. FollowInv => StaleOnlyIfLost
  <2> SUFFICES ASSUME FollowInv, NEW a \in Icaos, Settled(a), a \notin lost
               PROVE  index[a] = row[a]
    BY DEF StaleOnlyIfLost
  <2>1. sub = "fetching" => doc.icao # a
    BY SearchAssumption DEF Settled, InFlight
  <2>. QED BY <2>1 DEF FollowInv, Settled, InFlight
<1>. QED BY <1>1, <1>2, FollowStep, PTL DEF Spec
=============================================================================
