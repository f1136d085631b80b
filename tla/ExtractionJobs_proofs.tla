------------------------ MODULE ExtractionJobs_proofs ------------------------
(* What ExtractionJobs guarantees for every value of its constants. *)
EXTENDS ExtractionJobs, TLAPS

\* The states a row and a task can be in, as one list of definitions.
LEMMA FreshIdsAreSeq ==
  ASSUME NEW n \in Nat, NEW ids \in FreshIds(n)
  PROVE  /\ ids \in Seq(Jobs)
         /\ DOMAIN ids = 1..n
         /\ Len(ids) = n
         /\ \A i \in 1..n : ids[i] \in Unused
         /\ \A i, k \in 1..n : ids[i] = ids[k] => i = k
BY DEF FreshIds, Unused

-----------------------------------------------------------------------------
(* Type correctness. *)

LEMMA InsertType ==
  ASSUME TypeOK, NEW h \in Handlers, NEW tasked \in BOOLEAN,
         NEW ids \in FreshIds(Len(req[h].make)), Insert(h, ids, tasked)
  PROVE  /\ status' \in [Jobs -> {"absent"} \cup Active \cup Terminal]
         /\ icao' \in [Jobs -> Aerodromes \cup {NoIcao}]
         /\ created' \in [Jobs -> Nat]
         /\ started' = started
         /\ error' \in [Jobs -> {"none", "stuck", "orphan", "failure"}]
         /\ task' \in [Jobs -> {"none", "gone"} \cup LiveTask]
         /\ batch' \in [Jobs -> Seq(Jobs)]
         /\ req' = [req EXCEPT ![h] = Idle]
         /\ clock' = clock /\ up' = up
<1> DEFINE n == Len(req[h].make)
           new == {ids[i] : i \in DOMAIN ids}
           index(j) == CHOOSE i \in DOMAIN ids : ids[i] = j
<1>1. req[h].make \in Seq(Aerodromes) /\ n \in Nat /\ req[h].now \in Nat
  BY DEF TypeOK
<1>2. ids \in Seq(Jobs) /\ DOMAIN ids = 1..n
  BY <1>1, FreshIdsAreSeq
<1>3. \A j \in new : req[h].make[index(j)] \in Aerodromes
  BY <1>1, <1>2
<1>4. icao' \in [Jobs -> Aerodromes \cup {NoIcao}]
  <2>1. icao' = [j \in Jobs |-> IF j \in new THEN req[h].make[index(j)]
                                             ELSE icao[j]]
    BY DEF Insert
  <2>2. icao \in [Jobs -> Aerodromes \cup {NoIcao}]
    BY DEF TypeOK
  <2>. QED BY <1>3, <2>1, <2>2
<1>5. task' \in [Jobs -> {"none", "gone"} \cup LiveTask]
  BY DEF Insert, TypeOK, LiveTask, InRunner
<1>6. batch' \in [Jobs -> Seq(Jobs)]
  BY <1>2 DEF Insert, TypeOK
<1>7. QED
  BY <1>1, <1>4, <1>5, <1>6 DEF Insert, TypeOK, Active, Terminal

LEMMA IdleType ==
  Idle \in [pc : {"idle", "serving"}, kind : Kinds, todo : Seq(Aerodromes),
            now : Nat, stale : SUBSET Jobs, make : Seq(Aerodromes)]
BY DEF Idle, Kinds

LEMMA FaultType == TypeOK /\ faults' = faults + 1 => faults' \in Nat
<1>1. TypeOK => faults \in Nat
  BY DEF TypeOK
<1>. QED BY <1>1

LEMMA TypeInit == Init => TypeOK
BY IdleType DEF Init, TypeOK, Active, Terminal, LiveTask, Null

LEMMA TypeHandler ==
  ASSUME TypeOK, NEW h \in Handlers,
         ReceiveSome(h) \/ HandlerStep(h) \/ InsertWithoutTask(h)
  PROVE  TypeOK'
<1>1. ASSUME NEW kind \in Kinds, NEW icaos \in Seq(Aerodromes),
             Receive(h, kind, icaos)
      PROVE  TypeOK'
  BY <1>1 DEF TypeOK, Receive, rows, Serving
<1>2. CASE ReceiveSome(h)
  <2>1. CASE \E kind \in {"extract", "sync"}, a \in Aerodromes :
                Receive(h, kind, <<a>>)
    <3>1. PICK kind \in {"extract", "sync"}, a \in Aerodromes :
                  Receive(h, kind, <<a>>)
      BY <2>1
    <3>2. kind \in Kinds /\ <<a>> \in Seq(Aerodromes)
      BY DEF Kinds
    <3>. QED BY <3>1, <3>2, <1>1
  <2>2. CASE \E icaos \in BulkRequests : Receive(h, "bulk", icaos)
    BY <2>2, <1>1, ConstantsAssumption DEF Kinds
  <2>. QED BY <1>2, <2>1, <2>2 DEF ReceiveSome
<1>3. CASE Lookup(h)
  <2> DEFINE a == Head(req[h].todo)
             next == [req[h] EXCEPT !.todo = Tail(@)]
             create == [next EXCEPT !.make = Append(@, a)]
             R == [pc : {"idle", "serving"}, kind : Kinds,
                   todo : Seq(Aerodromes), now : Nat, stale : SUBSET Jobs,
                   make : Seq(Aerodromes)]
  <2>0. req \in [Handlers -> R] /\ req[h] \in R /\ req[h].todo # <<>>
    BY <1>3 DEF TypeOK, Lookup
  <2>1. a \in Aerodromes /\ Tail(req[h].todo) \in Seq(Aerodromes)
    BY <2>0
  <2>2. next \in R /\ create \in R
    <3>1. next \in R /\ next.make = req[h].make
      BY <2>0, <2>1
    <3>2. Append(req[h].make, a) \in Seq(Aerodromes)
      BY <2>0, <2>1
    <3>3. create = [next EXCEPT !.make = Append(req[h].make, a)]
      BY <3>1
    <3>. QED BY <3>1, <3>2, <3>3
  <2>3. \A j \in Jobs : [create EXCEPT !.stale = @ \cup {j}] \in R
    BY <2>2
  <2>4. req' \in [Handlers -> R]
    <3>1. CASE req' = [req EXCEPT ![h] = create]
      BY <3>1, <2>0, <2>2
    <3>2. CASE \E j \in LatestActive(a) :
                 req' = [req EXCEPT ![h] =
                           IF IsStale(j, req[h].kind, req[h].now)
                           THEN [create EXCEPT !.stale = @ \cup {j}]
                           ELSE next]
      <4>1. PICK j \in LatestActive(a) :
                   req' = [req EXCEPT ![h] =
                             IF IsStale(j, req[h].kind, req[h].now)
                             THEN [create EXCEPT !.stale = @ \cup {j}]
                             ELSE next]
        BY <3>2
      <4>2. j \in Jobs
        BY DEF LatestActive, ActiveJobs
      <4> HIDE DEF next, create, R
      <4>. QED BY <4>1, <4>2, <2>0, <2>2, <2>3
    <3>. QED BY <1>3, <3>1, <3>2 DEF Lookup
  <2>. QED BY <1>3, <2>4 DEF Lookup, TypeOK, rows
<1>4. CASE Promote(h)
  <2>1. /\ status' \in [Jobs -> {"absent"} \cup Active \cup Terminal]
        /\ error' \in [Jobs -> {"none", "stuck", "orphan", "failure"}]
    BY <1>4 DEF Promote, TypeOK, Terminal
  <2>2. req' = [req EXCEPT ![h] = [req[h] EXCEPT !.stale = {}, !.now = clock]]
    BY <1>4 DEF Promote, TypeOK
  <2>3. [req[h] EXCEPT !.stale = {}, !.now = clock]
          \in [pc : {"idle", "serving"}, kind : Kinds, todo : Seq(Aerodromes),
               now : Nat, stale : SUBSET Jobs, make : Seq(Aerodromes)]
    BY DEF TypeOK
  <2>4. req' \in [Handlers -> [pc : {"idle", "serving"}, kind : Kinds,
                               todo : Seq(Aerodromes), now : Nat,
                               stale : SUBSET Jobs, make : Seq(Aerodromes)]]
    BY <2>2, <2>3 DEF TypeOK
  <2>. QED BY <1>4, <2>1, <2>4 DEF Promote, TypeOK
<1>5. CASE InsertJobs(h)
  BY <1>5, InsertType, IdleType DEF InsertJobs, TypeOK
<1>6. CASE InsertFails(h)
  BY <1>6, IdleType DEF InsertFails, TypeOK, rows, Fault
<1>7. CASE InsertWithoutTask(h)
  <2>1. PICK ids \in FreshIds(Len(req[h].make)) : Insert(h, ids, FALSE)
    BY <1>7 DEF InsertWithoutTask
  <2>2. faults' \in Nat
    BY <1>7 DEF InsertWithoutTask, Fault, TypeOK
  <2>. QED BY <2>1, <2>2, InsertType, IdleType DEF TypeOK
<1>. QED
  BY <1>2, <1>3, <1>4, <1>5, <1>6, <1>7 DEF HandlerStep

LEMMA TypeTask ==
  ASSUME TypeOK, NEW j \in Jobs, TaskStep(j) \/ TaskFault(j)
  PROVE  TypeOK'
<1> USE DEF TypeOK, Goes, rows, Active, Terminal, LiveTask, InPipeline, InRunner
<1>1. CASE SyncStart(j)
  BY <1>1 DEF SyncStart
<1>2. CASE ScrapeOk(j) \/ ScrapeFails(j) \/ ImportOk(j) \/ ImportFails(j)
           \/ Handoff(j) \/ ExtractFails(j)
  BY <1>2 DEF ScrapeOk, ScrapeFails, ImportOk, ImportFails, Handoff,
              ExtractFails, NoRowChange
<1>3. CASE RunStart(j)
  BY <1>3 DEF RunStart
<1>4. CASE Complete(j) \/ FailJob(j)
  BY <1>4 DEF Complete, FailJob
<1>5. CASE TaskFault(j)
  <2>1. /\ UNCHANGED <<rows, batch, req, clock, up>>
        /\ faults' = faults + 1
        /\ \/ task' = [task EXCEPT ![j] = "failing"]
           \/ task' = [task EXCEPT ![j] = "gone"]
    BY <1>5 DEF TaskFault, SyncStartFails, HandoffLost, RunStartLost,
                FailJobLost, TaskDies, Fault
  <2>2. faults' \in Nat
    BY <2>1, FaultType
  <2>3. task' \in [Jobs -> {"none", "gone"} \cup LiveTask]
    BY <2>1
  <2>. QED BY <2>1, <2>2, <2>3
<1>. QED
  BY <1>1, <1>2, <1>3, <1>4, <1>5 DEF TaskStep

LEMMA TypeStep == TypeOK /\ [Next]_vars => TypeOK'
<1> SUFFICES ASSUME TypeOK, [Next]_vars PROVE TypeOK'
  OBVIOUS
<1>1. CASE Crash
  <2>1. UNCHANGED <<rows, batch, clock>> /\ faults' \in Nat /\ up' \in BOOLEAN
    BY <1>1, FaultType DEF Crash, Fault
  <2>2. task' \in [Jobs -> {"none", "gone"} \cup LiveTask]
    BY <1>1 DEF Crash, TypeOK
  <2>3. req' \in [Handlers -> [pc : {"idle", "serving"}, kind : Kinds,
                               todo : Seq(Aerodromes), now : Nat,
                               stale : SUBSET Jobs, make : Seq(Aerodromes)]]
    BY <1>1, IdleType DEF Crash
  <2>. QED BY <2>1, <2>2, <2>3 DEF TypeOK, rows
<1>2. CASE Restart
  BY <1>2 DEF Restart, TypeOK, Active, Terminal
<1>3. CASE RestartSweepFails
  BY <1>3 DEF RestartSweepFails, Fault, TypeOK, rows
<1>4. CASE Tick
  BY <1>4 DEF Tick, TypeOK, rows
<1>5. CASE UNCHANGED vars
  BY <1>5 DEF vars, TypeOK
<1>. QED
  BY <1>1, <1>2, <1>3, <1>4, <1>5, TypeHandler, TypeTask DEF Next

\* Every variable keeps the type its column or its task has in the code.
THEOREM TypeCorrect == Spec => []TypeOK
BY TypeInit, TypeStep, PTL DEF Spec

-----------------------------------------------------------------------------
(* What a handler's step does to its request, and a commit to a row. *)

LEMMA ReceiveEffect ==
  ASSUME TypeOK, NEW h \in Handlers, ReceiveSome(h)
  PROVE  \E kind \in Kinds, icaos \in Seq(Aerodromes) :
           /\ req' = [req EXCEPT ![h] = Serving(kind, icaos)]
           /\ kind # "bulk" => Len(icaos) = 1
           /\ kind = "bulk" => icaos \in BulkRequests
<1>1. CASE \E kind \in {"extract", "sync"}, a \in Aerodromes :
              Receive(h, kind, <<a>>)
  <2>1. PICK kind \in {"extract", "sync"}, a \in Aerodromes :
                Receive(h, kind, <<a>>)
    BY <1>1
  <2>2. <<a>> \in Seq(Aerodromes) /\ Len(<<a>>) = 1
    OBVIOUS
  <2>. QED BY <2>1, <2>2 DEF Receive, Kinds
<1>2. CASE \E icaos \in BulkRequests : Receive(h, "bulk", icaos)
  BY <1>2, ConstantsAssumption DEF Receive, Kinds
<1>. QED BY <1>1, <1>2 DEF ReceiveSome

\* The three outcomes of a look-up: nothing active, a stale row, a fresh one.
LEMMA LookupEffect ==
  ASSUME TypeOK, NEW h \in Handlers, Lookup(h)
  PROVE  LET a == Head(req[h].todo)
             r == req[h]
         IN /\ \A g \in Handlers \ {h} : req'[g] = req[g]
            /\ req'[h].pc = "serving" /\ req'[h].kind = r.kind
            /\ req'[h].now = r.now /\ req'[h].todo = Tail(r.todo)
            /\ r.todo # <<>> /\ a \in Aerodromes
            /\ \/ /\ ActiveJobs(a) = {}
                  /\ req'[h].stale = r.stale
                  /\ req'[h].make = Append(r.make, a)
               \/ \E j \in LatestActive(a) :
                     /\ IsStale(j, r.kind, r.now)
                     /\ req'[h].stale = r.stale \cup {j}
                     /\ req'[h].make = Append(r.make, a)
               \/ /\ req'[h].stale = r.stale
                  /\ req'[h].make = r.make
<1> DEFINE a == Head(req[h].todo)
           next == [req[h] EXCEPT !.todo = Tail(@)]
           create == [next EXCEPT !.make = Append(@, a)]
<1>1. /\ req[h].todo # <<>> /\ a \in Aerodromes /\ req[h].pc = "serving"
      /\ req[h].todo \in Seq(Aerodromes)
  <2>1. req[h].todo # <<>> /\ req[h].pc = "serving"
    BY DEF Lookup
  <2>2. req[h].todo \in Seq(Aerodromes)
    BY DEF TypeOK
  <2>. QED BY <2>1, <2>2
<1>2. /\ next.pc = "serving" /\ next.kind = req[h].kind
      /\ next.now = req[h].now /\ next.todo = Tail(req[h].todo)
      /\ next.stale = req[h].stale /\ next.make = req[h].make
      /\ DOMAIN next = DOMAIN req[h]
  BY <1>1 DEF TypeOK
<1>3. /\ create.pc = "serving" /\ create.kind = req[h].kind
      /\ create.now = req[h].now /\ create.todo = Tail(req[h].todo)
      /\ create.stale = req[h].stale /\ create.make = Append(req[h].make, a)
      /\ "stale" \in DOMAIN create
  BY <1>1 DEF TypeOK
<1>4. CASE ActiveJobs(a) = {} /\ req' = [req EXCEPT ![h] = create]
  <2> HIDE DEF create
  <2>. QED BY <1>1, <1>3, <1>4 DEF TypeOK
<1>5. CASE \E j \in LatestActive(a) :
             req' = [req EXCEPT ![h] = IF IsStale(j, req[h].kind, req[h].now)
                                       THEN [create EXCEPT !.stale = @ \cup {j}]
                                       ELSE next]
  <2>1. PICK j \in LatestActive(a) :
             req' = [req EXCEPT ![h] = IF IsStale(j, req[h].kind, req[h].now)
                                       THEN [create EXCEPT !.stale = @ \cup {j}]
                                       ELSE next]
    BY <1>5
  <2>2. CASE IsStale(j, req[h].kind, req[h].now)
    <3>1. req' = [req EXCEPT ![h] = [create EXCEPT !.stale = @ \cup {j}]]
      BY <2>1, <2>2
    <3>2. req'[h] = [create EXCEPT !.stale = create.stale \cup {j}]
      BY <3>1 DEF TypeOK
    <3>3. \A g \in Handlers \ {h} : req'[g] = req[g]
      BY <3>1 DEF TypeOK
    <3>4. /\ req'[h].pc = "serving" /\ req'[h].kind = req[h].kind
          /\ req'[h].now = req[h].now /\ req'[h].todo = Tail(req[h].todo)
          /\ req'[h].stale = req[h].stale \cup {j}
          /\ req'[h].make = Append(req[h].make, a)
      <4> HIDE DEF create
      <4>. QED BY <1>3, <3>2
    <3>. QED BY <1>1, <2>2, <3>3, <3>4
  <2>3. CASE ~IsStale(j, req[h].kind, req[h].now)
    <3>1. req' = [req EXCEPT ![h] = next]
      BY <2>1, <2>3
    <3> HIDE DEF next
    <3>. QED BY <1>1, <1>2, <3>1 DEF TypeOK
  <2>. QED BY <2>2, <2>3
<1>. QED BY <1>4, <1>5 DEF Lookup

LEMMA PromoteEffect ==
  ASSUME TypeOK, NEW h \in Handlers, Promote(h)
  PROVE  /\ \A g \in Handlers \ {h} : req'[g] = req[g]
         /\ req'[h].pc = "serving" /\ req'[h].kind = req[h].kind
         /\ req'[h].now = clock /\ req'[h].todo = <<>>
         /\ req'[h].stale = {} /\ req'[h].make = req[h].make
<1>1. req' = [req EXCEPT ![h] = [req[h] EXCEPT !.stale = {}, !.now = clock]]
  BY DEF Promote, TypeOK
<1>2. req'[h] = [req[h] EXCEPT !.stale = {}, !.now = clock]
  BY <1>1 DEF TypeOK
<1>3. /\ req[h].pc = "serving" /\ req[h].todo = <<>>
      /\ DOMAIN req[h] = {"pc", "kind", "todo", "now", "stale", "make"}
  BY DEF Promote, LookedUp, TypeOK
<1>. QED BY <1>1, <1>2, <1>3 DEF TypeOK

LEMMA InsertEffect ==
  ASSUME TypeOK, NEW h \in Handlers, NEW tasked \in BOOLEAN,
         NEW ids \in FreshIds(Len(req[h].make)), Insert(h, ids, tasked),
         NEW j \in Jobs
  PROVE  \/ /\ \E i \in 1..Len(req[h].make) :
                  ids[i] = j /\ icao'[j] = req[h].make[i]
            /\ status[j] = "absent" /\ status'[j] = "queued"
            /\ created'[j] = req[h].now /\ batch'[j] = ids
            /\ error'[j] = IF j \in req[h].stale THEN "stuck" ELSE error[j]
            /\ tasked => task'[j] \in {"run", "pending"}
            /\ ~tasked => task'[j] = "gone"
            /\ req[h].kind # "extract" => task'[j] # "run"
         \/ /\ \A i \in 1..Len(req[h].make) : ids[i] # j
            /\ task'[j] = task[j] /\ icao'[j] = icao[j]
            /\ created'[j] = created[j] /\ batch'[j] = batch[j]
            /\ \/ /\ j \in req[h].stale
                  /\ status'[j] = "failed" /\ error'[j] = "stuck"
               \/ /\ j \notin req[h].stale
                  /\ status'[j] = status[j] /\ error'[j] = error[j]
<1> DEFINE new == {ids[i] : i \in DOMAIN ids}
           index(x) == CHOOSE i \in DOMAIN ids : ids[i] = x
<1>0. Len(req[h].make) \in Nat
  BY DEF TypeOK
<1>1. /\ DOMAIN ids = 1..Len(req[h].make)
      /\ \A i \in 1..Len(req[h].make) : ids[i] \in Unused
  BY <1>0, FreshIdsAreSeq
<1>2. CASE j \in new
  <2>1. status[j] = "absent" /\ index(j) \in DOMAIN ids /\ ids[index(j)] = j
    BY <1>2, <1>1 DEF Unused
  <2>2. /\ icao'[j] = req[h].make[index(j)]
        /\ status'[j] = "queued" /\ created'[j] = req[h].now
        /\ batch'[j] = ids
    BY <1>2 DEF Insert
  <2>3. error'[j] = IF j \in req[h].stale THEN "stuck" ELSE error[j]
    BY DEF Insert
  <2>4. /\ tasked => task'[j] \in {"run", "pending"}
        /\ ~tasked => task'[j] = "gone"
        /\ req[h].kind # "extract" => task'[j] # "run"
    BY <1>2 DEF Insert
  <2> HIDE DEF index
  <2>. QED BY <1>1, <2>1, <2>2, <2>3, <2>4
<1>3. CASE j \notin new
  <2>1. \A i \in 1..Len(req[h].make) : ids[i] # j
    BY <1>1, <1>3
  <2>2. /\ task'[j] = task[j] /\ icao'[j] = icao[j]
        /\ created'[j] = created[j] /\ batch'[j] = batch[j]
    BY <1>3 DEF Insert
  <2>3. status'[j] = IF j \in req[h].stale THEN "failed" ELSE status[j]
    BY <1>3 DEF Insert
  <2>4. error'[j] = IF j \in req[h].stale THEN "stuck" ELSE error[j]
    BY DEF Insert
  <2>. QED BY <2>1, <2>2, <2>3, <2>4
<1>. QED BY <1>2, <1>3

-----------------------------------------------------------------------------
(* A live task whose row is terminal was overtaken by the staleness guard. *)

\* A dead process runs nothing, and a row that does not exist has no task.
LifeInv ==
  /\ TypeOK
  /\ ~up => /\ \A j \in Jobs : ~Live(j)
            /\ \A h \in Handlers : req[h].pc = "idle"
  /\ \A j \in Jobs : status[j] = "absent" => task[j] = "none"
  /\ LiveTerminalIsStuck

LEMMA LifeHandler ==
  ASSUME LifeInv, NEW h \in Handlers,
         ReceiveSome(h) \/ HandlerStep(h) \/ InsertWithoutTask(h)
  PROVE  /\ LifeInv'
         /\ \A j \in Jobs : status[j] \in Terminal /\ status'[j] \in Active
                              => error[j] = "stuck"
<1> USE DEF LifeInv
<1>1. TypeOK'
  BY TypeHandler
<1>2. up /\ up'
  <2>1. up
    BY DEF ReceiveSome, Receive, HandlerStep, Lookup, Promote, InsertJobs,
           InsertFails, InsertWithoutTask, ReadyToInsert, LookedUp
  <2>2. up' = up
    BY DEF ReceiveSome, Receive, HandlerStep, Lookup, Promote, InsertJobs,
           InsertFails, InsertWithoutTask, Insert
  <2>. QED BY <2>1, <2>2
<1>3. CASE UNCHANGED <<rows, task>>
  BY <1>1, <1>2, <1>3 DEF rows, LiveTerminalIsStuck, Live, Active, Terminal
<1>4. CASE Promote(h)
  BY <1>1, <1>2, <1>4
  DEF Promote, LiveTerminalIsStuck, Live, Active, Terminal, TypeOK
<1>5. ASSUME NEW tasked \in BOOLEAN, NEW ids \in FreshIds(Len(req[h].make)),
             Insert(h, ids, tasked)
      PROVE  /\ LifeInv'
             /\ \A j \in Jobs : status[j] \in Terminal /\ status'[j] \in Active
                                  => error[j] = "stuck"
  <2>1. ASSUME NEW j \in Jobs
        PROVE  /\ status'[j] = "absent" => task'[j] = "none"
               /\ Live(j)' /\ status'[j] \in Terminal => error'[j] = "stuck"
               /\ status[j] \in Terminal /\ status'[j] \in Active
                     => error[j] = "stuck"
    BY <1>5, InsertEffect DEF LiveTerminalIsStuck, Live, Active, Terminal
  <2>. QED BY <1>1, <1>2, <2>1 DEF LiveTerminalIsStuck
<1>6. \/ UNCHANGED <<rows, task>> \/ Promote(h)
      \/ \E ids \in FreshIds(Len(req[h].make)), tasked \in BOOLEAN :
            Insert(h, ids, tasked)
  BY DEF ReceiveSome, Receive, HandlerStep, Lookup, InsertJobs, InsertFails,
         InsertWithoutTask
<1>. QED BY <1>3, <1>4, <1>5, <1>6

LEMMA LifeTask ==
  ASSUME LifeInv, NEW j \in Jobs, TaskStep(j) \/ TaskFault(j)
  PROVE  /\ LifeInv'
         /\ \A k \in Jobs : status[k] \in Terminal /\ status'[k] \in Active
                              => error[k] = "stuck"
<1> USE DEF LifeInv
<1>1. TypeOK'
  BY TypeTask
<1>2. /\ Live(j) /\ up' = up
      /\ \E to \in LiveTask \cup {"gone"} : task' = [task EXCEPT ![j] = to]
      /\ task'[j] \in LiveTask \cup {"gone"}
      /\ req' = req
  <2> USE DEF Goes, TypeOK, Live, LiveTask, InPipeline, InRunner
  <2>1. CASE TaskStep(j)
    BY <2>1 DEF TaskStep, SyncStart, ScrapeOk, ScrapeFails, ImportOk,
       ImportFails, Handoff, RunStart, Complete, ExtractFails, FailJob,
       NoRowChange
  <2>2. CASE TaskFault(j)
    BY <2>2 DEF TaskFault, SyncStartFails, HandoffLost, RunStartLost,
       FailJobLost, TaskDies
  <2>. QED BY <2>1, <2>2
<1>3. up /\ up'
  BY <1>2
<1>4. /\ status'[j] \in Terminal /\ Live(j)' => error'[j] = "stuck"
      /\ status'[j] # "absent"
      /\ status[j] \in Terminal /\ status'[j] \in Active => error[j] = "stuck"
  <2>1. status[j] # "absent" /\ (status[j] \in Terminal => error[j] = "stuck")
    BY <1>2 DEF LiveTerminalIsStuck, Live, LiveTask, InPipeline, InRunner
  <2>2. CASE status' = status /\ error' = error
    BY <2>1, <2>2, <1>2 DEF Active, Terminal
  <2>3. CASE SyncStart(j) \/ RunStart(j)
    BY <2>1, <2>3 DEF SyncStart, RunStart, Active, Terminal, TypeOK
  <2>4. CASE Complete(j) \/ FailJob(j)
    <3>1. task'[j] = "gone" /\ status'[j] \in Terminal
      BY <2>4 DEF Complete, FailJob, Goes, TypeOK, Terminal
    <3>. QED BY <3>1 DEF Live, LiveTask, InPipeline, InRunner, Active, Terminal
  <2>5. \/ status' = status /\ error' = error
        \/ SyncStart(j) \/ RunStart(j) \/ Complete(j) \/ FailJob(j)
    BY DEF TaskStep, TaskFault, ScrapeOk, ScrapeFails, ImportOk, ImportFails,
       Handoff, ExtractFails, SyncStartFails, HandoffLost, RunStartLost,
       FailJobLost, TaskDies, NoRowChange, rows
  <2>. QED BY <2>2, <2>3, <2>4, <2>5
<1>5. ASSUME NEW k \in Jobs, k # j
      PROVE  task'[k] = task[k] /\ status'[k] = status[k] /\ error'[k] = error[k]
  <2>1. task'[k] = task[k]
    BY <1>2, <1>5 DEF TypeOK
  <2>2. status'[k] = status[k] /\ error'[k] = error[k]
    BY <1>5 DEF TaskStep, TaskFault, SyncStart, RunStart, Complete, FailJob,
       ScrapeOk, ScrapeFails, ImportOk, ImportFails,
       Handoff, ExtractFails, SyncStartFails, HandoffLost, RunStartLost,
       FailJobLost, TaskDies, NoRowChange, rows, TypeOK
  <2>. QED BY <2>1, <2>2
<1>6. ASSUME NEW k \in Jobs
      PROVE  /\ status'[k] = "absent" => task'[k] = "none"
             /\ Live(k)' /\ status'[k] \in Terminal => error'[k] = "stuck"
             /\ status[k] \in Terminal /\ status'[k] \in Active
                   => error[k] = "stuck"
  <2>1. CASE k = j
    BY <2>1, <1>4
  <2>2. CASE k # j
    BY <2>2, <1>5 DEF LiveTerminalIsStuck, Live, Active, Terminal
  <2>. QED BY <2>1, <2>2
<1>. QED BY <1>1, <1>3, <1>6 DEF LiveTerminalIsStuck

LEMMA LifeStep ==
  LifeInv /\ [Next]_vars
    => /\ LifeInv'
       /\ \A j \in Jobs : status[j] \in Terminal /\ status'[j] \in Active
                            => error[j] = "stuck"
<1> SUFFICES ASSUME LifeInv, [Next]_vars
             PROVE  /\ LifeInv'
                    /\ \A j \in Jobs :
                          status[j] \in Terminal /\ status'[j] \in Active
                            => error[j] = "stuck"
  OBVIOUS
<1> USE DEF LifeInv
<1>1. TypeOK'
  BY TypeStep
<1>2. CASE Crash
  <2>1. /\ \A j \in Jobs : ~Live(j)' /\ status'[j] = status[j]
                           /\ (task[j] = "none" => task'[j] = "none")
        /\ \A h \in Handlers : req'[h].pc = "idle"
    BY <1>2 DEF Crash, Live, rows, TypeOK, LiveTask, InPipeline, InRunner, Idle
  <2>. QED BY <1>1, <2>1 DEF LiveTerminalIsStuck, Active, Terminal
<1>3. CASE Restart
  <2>1. \A j \in Jobs : ~Live(j)' /\ (status'[j] = "absent" => status[j] = "absent")
                        /\ task'[j] = task[j] /\ status'[j] \notin Active
    BY <1>3 DEF Restart, Live, TypeOK, IsActive, Active, Terminal
  <2>2. up'
    BY <1>3 DEF Restart
  <2>. QED BY <1>1, <2>1, <2>2 DEF LiveTerminalIsStuck
<1>4. CASE RestartSweepFails \/ Tick
  BY <1>1, <1>4 DEF RestartSweepFails, Tick, rows, LiveTerminalIsStuck, Live,
     Active, Terminal
<1>5. CASE UNCHANGED vars
  BY <1>1, <1>5 DEF vars, LiveTerminalIsStuck, Live, Active, Terminal
<1>. QED
  BY <1>2, <1>3, <1>4, <1>5, LifeHandler, LifeTask DEF Next

LEMMA LifeInit == Init => LifeInv
BY TypeInit DEF Init, LifeInv, LiveTerminalIsStuck, Live, LiveTask,
   InPipeline, InRunner

\* Nothing but the staleness guard ends a row whose task is at work.
THEOREM LiveTerminalIsStuckCorrect == Spec => []LiveTerminalIsStuck
<1>1. LifeInv => LiveTerminalIsStuck
  BY DEF LifeInv
<1>2. LifeInv /\ [Next]_vars => LifeInv'
  BY LifeStep
<1>. QED BY <1>1, <1>2, LifeInit, PTL DEF Spec

\* Only rows the staleness guard had failed are ever revived.
THEOREM RevivedOnlyIfStuckCorrect == Spec => RevivedOnlyIfStuck
<1>1. LifeInv /\ [Next]_vars
        => [\A j \in Jobs : status[j] \in Terminal /\ status'[j] \in Active
                              => error[j] = "stuck"]_vars
  BY LifeStep
<1>2. LifeInv /\ [Next]_vars => LifeInv'
  BY LifeStep
<1>. QED BY <1>1, <1>2, LifeInit, PTL DEF Spec, RevivedOnlyIfStuck

-----------------------------------------------------------------------------
(* Without a fault no active row is forgotten. *)

GhostInv == LifeInv /\ NoGhostWithoutFault

LEMMA GhostHandler ==
  ASSUME GhostInv, NEW h \in Handlers, faults' = 0,
         ReceiveSome(h) \/ HandlerStep(h) \/ InsertWithoutTask(h)
  PROVE  \A j \in Jobs : status'[j] \in Active => Live(j)'
<1> USE DEF GhostInv
<1>0. TypeOK /\ faults \in Nat /\ faults + 1 # 0
  BY DEF LifeInv, TypeOK
<1>1. faults = 0 /\ ~InsertWithoutTask(h)
  BY <1>0 DEF ReceiveSome, Receive, HandlerStep, Lookup, Promote, InsertJobs,
     InsertFails, InsertWithoutTask, Fault
<1>2. \A j \in Jobs : status[j] \in Active => Live(j)
  BY <1>1 DEF NoGhostWithoutFault, IsActive
<1>3. CASE UNCHANGED <<rows, task>>
  BY <1>2, <1>3 DEF rows, Live
<1>4. CASE Promote(h)
  BY <1>2, <1>4 DEF Promote, Live, Active
<1>5. ASSUME NEW ids \in FreshIds(Len(req[h].make)), Insert(h, ids, TRUE),
             NEW j \in Jobs, status'[j] \in Active
      PROVE  Live(j)'
  <2>1. \/ task'[j] \in {"run", "pending"}
        \/ task'[j] = task[j] /\ status'[j] \in {"failed", status[j]}
    BY <1>0, <1>5, InsertEffect
  <2>. QED
    BY <1>2, <1>5, <2>1 DEF Live, LiveTask, InRunner, Active
<1>6. \/ UNCHANGED <<rows, task>> \/ Promote(h)
      \/ \E ids \in FreshIds(Len(req[h].make)) : Insert(h, ids, TRUE)
  BY <1>1 DEF ReceiveSome, Receive, HandlerStep, Lookup, InsertJobs, InsertFails
<1>. QED BY <1>3, <1>4, <1>5, <1>6

LEMMA GhostTask ==
  ASSUME GhostInv, NEW j \in Jobs, TaskStep(j) \/ TaskFault(j), faults' = 0
  PROVE  \A k \in Jobs : status'[k] \in Active => Live(k)'
<1> USE DEF GhostInv
<1>0. TypeOK /\ faults \in Nat /\ faults + 1 # 0
  BY DEF LifeInv, TypeOK
<1>1. faults = 0 /\ TaskStep(j)
  BY <1>0 DEF TaskStep, TaskFault, SyncStartFails, HandoffLost, RunStartLost,
     FailJobLost, Fault, SyncStart, ScrapeOk, ScrapeFails, ImportOk,
     ImportFails, Handoff, RunStart, Complete, ExtractFails, FailJob, NoRowChange
<1>2. \A k \in Jobs : status[k] \in Active => Live(k)
  BY <1>1 DEF NoGhostWithoutFault, IsActive
<1>3. \A k \in Jobs \ {j} : task'[k] = task[k] /\ status'[k] = status[k]
  BY <1>0, <1>1 DEF TaskStep, SyncStart, ScrapeOk, ScrapeFails, ImportOk,
     ImportFails, Handoff, RunStart, Complete, ExtractFails, FailJob,
     NoRowChange, Goes, TypeOK, rows
<1>4. status'[j] \in Active => Live(j)'
  <2>1. CASE Complete(j) \/ FailJob(j)
    BY <1>0, <2>1 DEF Complete, FailJob, TypeOK, Active
  <2>2. CASE ~(Complete(j) \/ FailJob(j))
    BY <1>0, <1>1, <2>2 DEF TaskStep, SyncStart, ScrapeOk, ScrapeFails,
       ImportOk, ImportFails, Handoff, RunStart, ExtractFails, Goes, TypeOK,
       Live, LiveTask, InPipeline, InRunner
  <2>. QED BY <2>1, <2>2
<1>. QED BY <1>2, <1>3, <1>4 DEF Live

LEMMA GhostStep == GhostInv /\ [Next]_vars => GhostInv'
<1> SUFFICES ASSUME GhostInv, [Next]_vars, faults' = 0
             PROVE  \A j \in Jobs : status'[j] \in Active => Live(j)'
  BY LifeStep DEF GhostInv, NoGhostWithoutFault, IsActive
<1>0. TypeOK /\ faults \in Nat /\ faults + 1 # 0
  BY DEF GhostInv, LifeInv, TypeOK
<1>1. CASE Restart
  BY <1>0, <1>1 DEF Restart, IsActive, Active, TypeOK
<1>2. CASE Tick \/ UNCHANGED vars
  BY <1>2 DEF Tick, vars, rows, GhostInv, NoGhostWithoutFault, IsActive, Live
<1>3. ~(Crash \/ RestartSweepFails)
  BY <1>0 DEF Crash, RestartSweepFails, Fault
<1>. QED
  BY <1>1, <1>2, <1>3, GhostHandler, GhostTask DEF Next

\* Every path of the handlers, of the bulk queue and of the tasks ends the row
\* it started, unless the process crashes or a write fails.
THEOREM NoGhostWithoutFaultCorrect == Spec => []NoGhostWithoutFault
<1>1. Init => GhostInv
  BY LifeInit DEF Init, GhostInv, NoGhostWithoutFault, IsActive, Active
<1>2. GhostInv => NoGhostWithoutFault
  BY DEF GhostInv
<1>. QED BY <1>1, <1>2, GhostStep, PTL DEF Spec

-----------------------------------------------------------------------------
(* The staleness window of a sync request and the deadline of the scrape. *)

WindowInv ==
  /\ TypeOK
  /\ \A j \in Jobs : task[j] = "scraping" =>
        /\ started[j] # Null
        /\ clock - started[j] <= ScrapeMaxWait + 1
  /\ \A j \in Jobs : status[j] = "absent" \/ task[j] = "pending"
                       => started[j] = Null
  /\ \A h \in Handlers : req[h].now <= clock

LEMMA WindowTask ==
  ASSUME WindowInv, NEW j \in Jobs, TaskStep(j) \/ TaskFault(j)
  PROVE  WindowInv'
<1> USE DEF WindowInv
<1>1. TypeOK'
  BY TypeTask
<1>2. req' = req /\ clock' = clock
  BY DEF TaskStep, TaskFault, SyncStart, ScrapeOk, ScrapeFails, ImportOk,
     ImportFails, Handoff, RunStart, Complete, ExtractFails, FailJob,
     SyncStartFails, HandoffLost, RunStartLost, FailJobLost, TaskDies,
     NoRowChange
<1>3. ASSUME NEW k \in Jobs, task'[k] = "scraping"
      PROVE  started'[k] # Null /\ clock - started'[k] <= ScrapeMaxWait + 1
  <2>1. CASE SyncStart(j)
    <3>1. CASE k = j
      <4>1. started[j] = Null
        BY <2>1 DEF SyncStart, Goes
      <4>. QED
        BY <2>1, <3>1, <4>1, ConstantsAssumption DEF SyncStart, TypeOK, Null
    <3>3. CASE k # j
      BY <2>1, <3>3, <1>3 DEF SyncStart, Goes, TypeOK
    <3>. QED BY <3>1, <3>3
  <2>2. CASE ~SyncStart(j)
    <3>1. task[k] = "scraping" /\ started'[k] = started[k]
      BY <1>3, <2>2 DEF TaskStep, TaskFault, ScrapeOk, ScrapeFails, ImportOk,
         ImportFails, Handoff, RunStart, Complete, ExtractFails, FailJob,
         SyncStartFails, HandoffLost, RunStartLost, FailJobLost, TaskDies,
         NoRowChange, Goes, TypeOK, rows
    <3>. QED BY <3>1
  <2>. QED BY <2>1, <2>2
<1>4. ASSUME NEW k \in Jobs, status'[k] = "absent" \/ task'[k] = "pending"
      PROVE  started'[k] = Null
  <2>1. /\ status[k] = "absent" \/ task[k] = "pending"
        /\ k # j \/ started'[k] = started[k]
    BY <1>4 DEF TaskStep, TaskFault, SyncStart, RunStart, Complete, FailJob,
       ScrapeOk, ScrapeFails, ImportOk, ImportFails, Handoff, ExtractFails,
       SyncStartFails, HandoffLost, RunStartLost, FailJobLost, TaskDies,
       NoRowChange, Goes, TypeOK, rows
  <2>2. k # j => started'[k] = started[k]
    BY DEF TaskStep, TaskFault, SyncStart, RunStart, Complete, FailJob,
       ScrapeOk, ScrapeFails, ImportOk, ImportFails, Handoff, ExtractFails,
       SyncStartFails, HandoffLost, RunStartLost, FailJobLost, TaskDies,
       NoRowChange, TypeOK, rows
  <2>. QED BY <2>1, <2>2
<1>. QED BY <1>1, <1>2, <1>3, <1>4

LEMMA WindowHandler ==
  ASSUME WindowInv, NEW h \in Handlers,
         ReceiveSome(h) \/ HandlerStep(h) \/ InsertWithoutTask(h)
  PROVE  WindowInv'
<1> USE DEF WindowInv
<1>1. TypeOK'
  BY TypeHandler
<1>2. clock' = clock /\ started' = started
  BY DEF ReceiveSome, Receive, HandlerStep, Lookup, Promote, InsertJobs,
     InsertFails, InsertWithoutTask, Insert, rows
<1>3. \A g \in Handlers : req'[g].now <= clock
  <2>0. clock \in Nat /\ \A g \in Handlers : req[g].now <= clock
    BY DEF TypeOK
  <2>1. CASE ReceiveSome(h)
    <3>1. PICK kind \in Kinds, icaos \in Seq(Aerodromes) :
                 req' = [req EXCEPT ![h] = Serving(kind, icaos)]
      BY <2>1, ReceiveEffect
    <3>2. Serving(kind, icaos).now = clock
      BY DEF Serving
    <3>. QED BY <2>0, <3>1, <3>2 DEF TypeOK
  <2>2. CASE Lookup(h)
    <3>1. /\ \A g \in Handlers \ {h} : req'[g] = req[g]
          /\ req'[h].now = req[h].now
      BY <2>2, LookupEffect
    <3>. QED BY <3>1
  <2>3. CASE Promote(h)
    <3>1. /\ \A g \in Handlers \ {h} : req'[g] = req[g]
          /\ req'[h].now = clock
      BY <2>3, PromoteEffect
    <3>. QED BY <2>0, <3>1
  <2>4. CASE req' = [req EXCEPT ![h] = Idle]
    BY <2>4 DEF TypeOK, Idle
  <2>. QED
    BY <2>1, <2>2, <2>3, <2>4
    DEF HandlerStep, InsertJobs, InsertFails, InsertWithoutTask, Insert
<1>4. ASSUME NEW j \in Jobs
      PROVE  /\ task'[j] = "scraping" => task[j] = "scraping"
             /\ status'[j] = "absent" \/ task'[j] = "pending"
                 => status[j] = "absent" \/ task[j] = "pending"
  <2>1. CASE UNCHANGED <<rows, task>>
    BY <2>1 DEF rows
  <2>2. CASE Promote(h)
    BY <2>2 DEF Promote, TypeOK
  <2>3. ASSUME NEW tasked \in BOOLEAN, NEW ids \in FreshIds(Len(req[h].make)),
               Insert(h, ids, tasked)
        PROVE  /\ task'[j] = "scraping" => task[j] = "scraping"
               /\ status'[j] = "absent" \/ task'[j] = "pending"
                   => status[j] = "absent" \/ task[j] = "pending"
    BY <2>3, InsertEffect
  <2>4. \/ UNCHANGED <<rows, task>> \/ Promote(h)
        \/ \E ids \in FreshIds(Len(req[h].make)), tasked \in BOOLEAN :
              Insert(h, ids, tasked)
    BY DEF ReceiveSome, Receive, HandlerStep, Lookup, InsertJobs, InsertFails,
           InsertWithoutTask
  <2>. QED BY <2>1, <2>2, <2>3, <2>4
<1>. QED BY <1>1, <1>2, <1>3, <1>4

LEMMA WindowStep == WindowInv /\ [Next]_vars => WindowInv'
<1> SUFFICES ASSUME WindowInv, [Next]_vars PROVE WindowInv'
  OBVIOUS
<1> USE DEF WindowInv
<1>1. TypeOK'
  BY TypeStep
<1>2. CASE Crash
  <2>1. /\ \A j \in Jobs : task'[j] \in {task[j], "gone"}
        /\ \A h \in Handlers : req'[h].now = 0
    BY <1>2 DEF Crash, Idle, TypeOK
  <2>2. UNCHANGED <<status, started, clock>> /\ clock \in Nat
    BY <1>2 DEF Crash, rows, TypeOK
  <2>. QED BY <1>1, <2>1, <2>2
<1>3. CASE Restart
  BY <1>1, <1>3 DEF Restart, IsActive, Active, TypeOK
<1>4. CASE RestartSweepFails \/ UNCHANGED vars
  BY <1>1, <1>4 DEF RestartSweepFails, vars, rows
<1>5. CASE Tick
  <2>1. \A j \in Jobs : task[j] = "scraping" =>
           clock + 1 - started[j] <= ScrapeMaxWait + 1
    BY <1>5, ConstantsAssumption DEF Tick, TypeOK, Null
  <2>2. \A h \in Handlers : req[h].now <= clock + 1
    BY DEF TypeOK
  <2>3. UNCHANGED <<status, started, task, req>> /\ clock' = clock + 1
    BY <1>5 DEF Tick, rows
  <2>4. ASSUME NEW j \in Jobs, task'[j] = "scraping"
        PROVE  /\ started'[j] # Null
               /\ clock' - started'[j] <= ScrapeMaxWait + 1
    <3>1. task[j] = "scraping" /\ started'[j] = started[j]
      BY <2>3, <2>4
    <3>2. started[j] # Null /\ clock + 1 - started[j] <= ScrapeMaxWait + 1
      BY <2>1, <3>1
    <3>3. clock' = clock + 1
      BY <2>3
    <3>4. started'[j] # Null
      BY <3>1, <3>2
    <3>5. clock \in Int /\ started[j] \in Int /\ ScrapeMaxWait \in Int
      BY ConstantsAssumption DEF TypeOK, Null
    <3>6. clock' - started'[j] <= ScrapeMaxWait + 1
      BY <3>1, <3>2, <3>3, <3>5
    <3>. QED BY <3>4, <3>6
  <2>. QED BY <1>1, <2>2, <2>3, <2>4
<1>. QED
  BY <1>2, <1>3, <1>4, <1>5, WindowHandler, WindowTask DEF Next

LEMMA WindowLookup ==
  ASSUME WindowInv, [Next]_vars, NEW h \in Handlers,
         NEW j \in req'[h].stale \ req[h].stale, req[h].kind # "extract"
  PROVE  task[j] # "scraping"
<1> USE DEF WindowInv
<1>1. PICK g \in Handlers : Lookup(g) /\ g = h
  <2>1. CASE \E g \in Handlers : ReceiveSome(g) \/ Promote(g)
    <3>1. \A f \in Handlers : req'[f].stale = req[f].stale \/ req'[f].stale = {}
      <4>1. PICK g \in Handlers : ReceiveSome(g) \/ Promote(g)
        BY <2>1
      <4>2. CASE ReceiveSome(g)
        <5>1. PICK kind \in Kinds, icaos \in Seq(Aerodromes) :
                     req' = [req EXCEPT ![g] = Serving(kind, icaos)]
          BY <4>2, ReceiveEffect
        <5>2. Serving(kind, icaos).stale = {}
          BY DEF Serving
        <5>. QED BY <5>1, <5>2 DEF TypeOK
      <4>3. CASE Promote(g)
        BY <4>3, PromoteEffect
      <4>. QED BY <4>1, <4>2, <4>3
    <3>. QED BY <3>1
  <2>2. CASE \E g \in Handlers : req' = [req EXCEPT ![g] = Idle]
    <3>1. \A f \in Handlers : req'[f].stale = req[f].stale \/ req'[f].stale = {}
      BY <2>2 DEF TypeOK, Idle
    <3>. QED BY <3>1
  <2>3. CASE Crash
    BY <2>3 DEF Crash, Idle
  <2>4. req' # req
    OBVIOUS
  <2>5. ASSUME NEW k \in Jobs, TaskStep(k) \/ TaskFault(k) PROVE req' = req
    BY <2>5 DEF TaskStep, TaskFault, SyncStart, ScrapeOk, ScrapeFails,
       ImportOk, ImportFails, Handoff, RunStart, Complete, ExtractFails,
       FailJob, SyncStartFails, HandoffLost, RunStartLost, FailJobLost,
       TaskDies, NoRowChange
  <2>6. CASE \E g \in Handlers : Lookup(g)
    <3>1. PICK g \in Handlers : Lookup(g)
      BY <2>6
    <3>2. g = h
      BY <3>1 DEF Lookup, TypeOK
    <3>. QED BY <3>1, <3>2
  <2>. QED
    BY <2>1, <2>2, <2>3, <2>4, <2>5, <2>6
    DEF Next, vars, HandlerStep, InsertJobs, InsertFails, InsertWithoutTask,
        Insert, Restart, RestartSweepFails, Tick
<1>2. j \in Jobs /\ IsStale(j, req[h].kind, req[h].now)
  <2>1. \E k \in LatestActive(Head(req[h].todo)) :
           IsStale(k, req[h].kind, req[h].now)
             /\ req'[h].stale = req[h].stale \cup {k}
    BY <1>1, LookupEffect
  <2>. QED BY <2>1 DEF LatestActive, ActiveJobs
<1>3. SUFFICES ASSUME task[j] = "scraping" PROVE FALSE
  OBVIOUS
<1>4. req[h].now - started[j] > SyncStaleAfter
  BY <1>2, <1>3 DEF IsStale, LastActivity, StaleAfter
<1>5. /\ clock - started[j] <= ScrapeMaxWait + 1 /\ req[h].now <= clock
      /\ clock \in Nat /\ req[h].now \in Nat /\ started[j] \in Nat
  BY <1>2, <1>3 DEF TypeOK, Null
<1>. QED
  BY <1>4, <1>5, WindowAssumption, ConstantsAssumption

\* A sync request never takes a row that is being scraped for abandoned,
\* whatever the windows are, if the deadline is shorter than the window.
THEOREM SyncWindowCoversScrapeCorrect == Spec => SyncWindowCoversScrape
<1>1. Init => WindowInv
  BY TypeInit DEF Init, WindowInv, Idle
<1>2. WindowInv /\ [Next]_vars
        => [\A h \in Handlers : \A j \in req'[h].stale \ req[h].stale :
              req[h].kind # "extract" => task[j] # "scraping"]_vars
  BY WindowLookup
<1>. QED
  BY <1>1, <1>2, WindowStep, PTL DEF Spec, SyncWindowCoversScrape

-----------------------------------------------------------------------------
(* BulkSync works on one row of its list at a time. *)

\* Every row of a list carries the whole list, and the extract endpoint,
\* whose tasks need not wait for their turn, makes lists of one row.
BatchInv ==
  /\ LifeInv
  /\ \A j \in Jobs : \A i \in DOMAIN batch[j] :
        batch[batch[j][i]] = batch[j] /\ status[batch[j][i]] # "absent"
  /\ \A j \in Jobs : \A i, k \in DOMAIN batch[j] :
        batch[j][i] = batch[j][k] => i = k
  /\ \A h \in Handlers : req[h].kind = "extract" =>
        Len(req[h].make) + Len(req[h].todo) <= 1
  /\ BulkSequential

LEMMA BatchTask ==
  ASSUME BatchInv, NEW m \in Jobs, TaskStep(m) \/ TaskFault(m)
  PROVE  BatchInv'
<1> USE DEF BatchInv
<1>0. LifeInv' /\ TypeOK
  BY LifeTask DEF LifeInv
<1>1. batch' = batch /\ req' = req /\ \A j \in Jobs : batch[j] \in Seq(Jobs)
  BY <1>0 DEF TaskStep, TaskFault, SyncStart, RunStart, Complete, FailJob,
     ScrapeOk, ScrapeFails, ImportOk, ImportFails, Handoff, ExtractFails,
     SyncStartFails, HandoffLost, RunStartLost, FailJobLost, TaskDies,
     NoRowChange, TypeOK
<1>2. \A j \in Jobs : status[j] # "absent" => status'[j] # "absent"
  BY <1>0 DEF TaskStep, TaskFault, SyncStart, RunStart, Complete, FailJob,
     ScrapeOk, ScrapeFails, ImportOk, ImportFails, Handoff, ExtractFails,
     SyncStartFails, HandoffLost, RunStartLost, FailJobLost, TaskDies,
     NoRowChange, rows, TypeOK
<1>3. /\ \A j \in Jobs \ {m} : task'[j] = task[j]
      /\ task[m] \in LiveTask
      /\ task'[m] # "pending"
      /\ task'[m] \in Busy => task[m] \in Busy \/ TurnOf(m)
  BY <1>0 DEF TaskStep, TaskFault, SyncStart, RunStart, Complete, FailJob,
     ScrapeOk, ScrapeFails, ImportOk, ImportFails, Handoff, ExtractFails,
     SyncStartFails, HandoffLost, RunStartLost, FailJobLost, TaskDies, Goes,
     TypeOK, LiveTask, InPipeline, InRunner, Busy
<1>4. BulkSequential'
  <2> SUFFICES ASSUME NEW j \in Jobs, NEW i \in DOMAIN batch[j],
                      NEW k \in DOMAIN batch[j], i < k,
                      task'[batch[j][k]] \in Busy
               PROVE  task'[batch[j][i]] = "gone"
    BY <1>1 DEF BulkSequential
  <2>1. /\ batch[j][i] \in Jobs /\ batch[j][k] \in Jobs
        /\ i \in Nat \ {0} /\ k \in Nat \ {0}
    BY <1>1
  <2>2. task[batch[j][i]] = "gone"
    <3>1. CASE task[batch[j][k]] \in Busy
      BY <3>1 DEF BulkSequential
    <3>2. CASE batch[j][k] = m /\ TurnOf(m)
      <4>1. batch[m] = batch[j]
        BY <3>2
      <4>2. PICK p \in DOMAIN batch[j] :
               /\ batch[j][p] = m
               /\ \A q \in 1..(p - 1) : task[batch[j][q]] = "gone"
        BY <3>2, <4>1 DEF TurnOf
      <4>3. p = k
        BY <3>2, <4>2
      <4>4. i \in 1..(p - 1)
        BY <2>1, <4>3
      <4>. QED BY <4>2, <4>4
    <3>. QED BY <1>3, <2>1, <3>1, <3>2
  <2>3. batch[j][i] # m
    BY <1>3, <2>2 DEF LiveTask, InPipeline, InRunner
  <2>. QED BY <1>3, <2>1, <2>2, <2>3
<1>5. \A j \in Jobs : \A i \in DOMAIN batch[j] : batch[j][i] \in Jobs
  BY <1>1
<1>. QED BY <1>0, <1>1, <1>2, <1>4, <1>5

LEMMA BatchInsert ==
  ASSUME BatchInv, NEW h \in Handlers, NEW tasked \in BOOLEAN, ReadyToInsert(h),
         NEW ids \in FreshIds(Len(req[h].make)), Insert(h, ids, tasked), LifeInv'
  PROVE  BatchInv'
<1> USE DEF BatchInv
<1> DEFINE n == Len(req[h].make)
           New(j) == \E i \in 1..n : ids[i] = j
<1>0. TypeOK /\ n \in Nat
  BY DEF LifeInv, TypeOK
<1>1. /\ ids \in Seq(Jobs) /\ DOMAIN ids = 1..n /\ Len(ids) = n
      /\ \A i \in 1..n : ids[i] \in Unused
      /\ \A i, k \in 1..n : ids[i] = ids[k] => i = k
  BY <1>0, FreshIdsAreSeq
<1>2. ASSUME NEW j \in Jobs, New(j)
      PROVE  /\ batch'[j] = ids /\ status'[j] # "absent" /\ status[j] = "absent"
             /\ n > 1 => task'[j] \notin Busy
  <2>1. n > 1 => req[h].kind # "extract"
    <3>1. Len(req[h].todo) \in Nat
      BY <1>0 DEF TypeOK
    <3>2. req[h].kind = "extract" => n + Len(req[h].todo) <= 1
      OBVIOUS
    <3> HIDE DEF n
    <3>. QED BY <1>0, <3>1, <3>2
  <2>2. /\ batch'[j] = ids /\ status'[j] = "queued" /\ status[j] = "absent"
        /\ task'[j] \in {"run", "pending", "gone"}
        /\ req[h].kind # "extract" => task'[j] # "run"
    BY <1>0, <1>2, InsertEffect
  <2>. QED BY <2>1, <2>2 DEF Busy, LiveTask, InPipeline, InRunner
<1>3. ASSUME NEW j \in Jobs, ~New(j)
      PROVE  /\ batch'[j] = batch[j] /\ task'[j] = task[j]
             /\ status[j] # "absent" => status'[j] # "absent"
  BY <1>0, <1>3, InsertEffect
<1>4. ASSUME NEW j \in Jobs, ~New(j), NEW i \in DOMAIN batch[j]
      PROVE  batch[j][i] \in Jobs /\ ~New(batch[j][i])
  <2>1. batch[j] \in Seq(Jobs)
    BY <1>0 DEF TypeOK
  <2>2. batch[j][i] \in Jobs /\ status[batch[j][i]] # "absent"
    BY <2>1
  <2>. QED BY <1>2, <2>2
<1>5. ASSUME NEW i \in 1..n PROVE ids[i] \in Jobs /\ New(ids[i])
  BY <1>1 DEF Unused
<1> HIDE DEF New
<1>6. \A j \in Jobs : \A i \in DOMAIN batch'[j] :
        batch'[batch'[j][i]] = batch'[j] /\ status'[batch'[j][i]] # "absent"
  <2> SUFFICES ASSUME NEW j \in Jobs, NEW i \in DOMAIN batch'[j]
               PROVE  /\ batch'[batch'[j][i]] = batch'[j]
                      /\ status'[batch'[j][i]] # "absent"
    OBVIOUS
  <2>1. CASE New(j)
    BY <1>1, <1>2, <1>5, <2>1
  <2>2. CASE ~New(j)
    BY <1>3, <1>4, <2>2
  <2>. QED BY <2>1, <2>2
<1>7. \A j \in Jobs : \A i, k \in DOMAIN batch'[j] :
        batch'[j][i] = batch'[j][k] => i = k
  <2> SUFFICES ASSUME NEW j \in Jobs
               PROVE  \A i, k \in DOMAIN batch'[j] :
                         batch'[j][i] = batch'[j][k] => i = k
    OBVIOUS
  <2>1. CASE New(j)
    BY <1>1, <1>2, <2>1
  <2>2. CASE ~New(j)
    BY <1>3, <2>2
  <2>. QED BY <2>1, <2>2
<1>8. BulkSequential'
  <2> SUFFICES ASSUME NEW j \in Jobs, NEW i \in DOMAIN batch'[j],
                      NEW k \in DOMAIN batch'[j], i < k,
                      task'[batch'[j][k]] \in Busy
               PROVE  task'[batch'[j][i]] = "gone"
    BY DEF BulkSequential
  <2>1. CASE New(j)
    <3>1. i \in 1..n /\ k \in 1..n /\ n > 1
      BY <1>0, <1>1, <1>2, <2>1
    <3>2. task'[ids[k]] \notin Busy
      BY <1>2, <1>5, <3>1
    <3>. QED BY <1>2, <2>1, <3>2
  <2>2. CASE ~New(j)
    BY <1>3, <1>4, <2>2 DEF BulkSequential
  <2>. QED BY <2>1, <2>2
<1>9. \A g \in Handlers : req'[g].kind = "extract" =>
        Len(req'[g].make) + Len(req'[g].todo) <= 1
  BY <1>0 DEF Insert, Idle, TypeOK
<1>. QED BY <1>6, <1>7, <1>8, <1>9

LEMMA BatchHandler ==
  ASSUME BatchInv, NEW h \in Handlers,
         ReceiveSome(h) \/ HandlerStep(h) \/ InsertWithoutTask(h)
  PROVE  BatchInv'
<1>0. LifeInv' /\ TypeOK
  BY LifeHandler DEF BatchInv, LifeInv
<1>1. ASSUME UNCHANGED <<task, batch>>,
             \A j \in Jobs : status[j] # "absent" => status'[j] # "absent",
             \A g \in Handlers : req'[g].kind = "extract" =>
                Len(req'[g].make) + Len(req'[g].todo) <= 1
      PROVE  BatchInv'
  <2>1. \A j \in Jobs : \A i \in DOMAIN batch[j] : batch[j][i] \in Jobs
    BY <1>0 DEF TypeOK
  <2>2. BulkSequential'
    BY <1>1 DEF BatchInv, BulkSequential
  <2>3. \A j \in Jobs : \A i \in DOMAIN batch'[j] :
          batch'[batch'[j][i]] = batch'[j] /\ status'[batch'[j][i]] # "absent"
    BY <1>1, <2>1 DEF BatchInv
  <2>4. \A j \in Jobs : \A i, k \in DOMAIN batch'[j] :
          batch'[j][i] = batch'[j][k] => i = k
    BY <1>1 DEF BatchInv
  <2>. QED BY <1>0, <1>1, <2>2, <2>3, <2>4 DEF BatchInv
<1>2. \A g \in Handlers : req[g].kind = "extract" =>
        Len(req[g].make) + Len(req[g].todo) <= 1
  BY DEF BatchInv
<1>3. CASE ReceiveSome(h)
  <2>1. PICK kind \in Kinds, icaos \in Seq(Aerodromes) :
          /\ req' = [req EXCEPT ![h] = Serving(kind, icaos)]
          /\ kind # "bulk" => Len(icaos) = 1
    BY <1>0, <1>3, ReceiveEffect
  <2>2. /\ Serving(kind, icaos).kind = kind
        /\ Len(Serving(kind, icaos).make) = 0
        /\ Serving(kind, icaos).todo = icaos
    BY DEF Serving
  <2>3. \A g \in Handlers : req'[g].kind = "extract" =>
          Len(req'[g].make) + Len(req'[g].todo) <= 1
    <3> SUFFICES ASSUME NEW g \in Handlers, req'[g].kind = "extract"
                 PROVE  Len(req'[g].make) + Len(req'[g].todo) <= 1
      OBVIOUS
    <3>1. CASE g = h
      <4>1. req'[g] = Serving(kind, icaos)
        BY <1>0, <2>1, <3>1 DEF TypeOK
      <4>2. Len(icaos) = 1
        BY <2>1, <2>2, <3>1, <4>1
      <4>3. Len(req'[g].make) = 0 /\ Len(req'[g].todo) = 1
        BY <2>2, <4>1, <4>2
      <4>. QED BY <4>3
    <3>2. CASE g # h
      <4>1. req'[g] = req[g]
        BY <1>0, <2>1, <3>2 DEF TypeOK
      <4>. QED BY <1>2, <4>1
    <3>. QED BY <3>1, <3>2
  <2>4. UNCHANGED <<status, task, batch>>
    BY <1>3 DEF ReceiveSome, Receive, rows
  <2>. QED BY <1>1, <2>3, <2>4
<1>4. CASE Lookup(h)
  <2> DEFINE r == req[h]
  <2>1. /\ \A g \in Handlers \ {h} : req'[g] = req[g]
        /\ req'[h].kind = r.kind /\ req'[h].todo = Tail(r.todo)
        /\ r.todo # <<>> /\ Head(r.todo) \in Aerodromes
        /\ req'[h].make \in {r.make, Append(r.make, Head(r.todo))}
    BY <1>0, <1>4, LookupEffect
  <2>2. r.todo \in Seq(Aerodromes) /\ r.make \in Seq(Aerodromes)
    BY <1>0 DEF TypeOK
  <2> HIDE DEF r
  <2>3. /\ Len(req'[h].todo) = Len(r.todo) - 1
        /\ Len(req'[h].make) <= Len(r.make) + 1
        /\ Len(req'[h].make) \in Nat /\ Len(r.make) \in Nat
        /\ Len(r.todo) \in Nat
    BY <2>1, <2>2
  <2>4. ASSUME Len(r.make) + Len(r.todo) <= 1
        PROVE  Len(req'[h].make) + Len(req'[h].todo) <= 1
    <3>1. PICK m \in Nat, t \in Nat, after \in Nat :
             m = Len(r.make) /\ t = Len(r.todo) /\ after = Len(req'[h].make)
      BY <2>3
    <3>2. after <= m + 1 /\ m + t <= 1 /\ Len(req'[h].todo) = t - 1
      BY <2>3, <2>4, <3>1
    <3>3. after + (t - 1) <= 1
      BY <3>2
    <3>. QED BY <3>1, <3>2, <3>3
  <2>5. \A g \in Handlers : req'[g].kind = "extract" =>
          Len(req'[g].make) + Len(req'[g].todo) <= 1
    <3> SUFFICES ASSUME NEW g \in Handlers, req'[g].kind = "extract"
                 PROVE  Len(req'[g].make) + Len(req'[g].todo) <= 1
      OBVIOUS
    <3>1. CASE g = h
      <4>1. Len(r.make) + Len(r.todo) <= 1
        BY <1>2, <2>1, <3>1 DEF r
      <4>. QED BY <2>4, <3>1, <4>1
    <3>2. CASE g # h
      BY <1>2, <2>1, <3>2
    <3>. QED BY <3>1, <3>2
  <2>6. UNCHANGED <<status, task, batch>>
    BY <1>4 DEF Lookup, rows
  <2>. QED BY <1>1, <2>5, <2>6
<1>5. CASE Promote(h)
  <2>1. /\ \A g \in Handlers \ {h} : req'[g] = req[g]
        /\ req'[h].kind = req[h].kind /\ req'[h].make = req[h].make
        /\ req'[h].todo = req[h].todo
    BY <1>0, <1>5, PromoteEffect DEF Promote, LookedUp
  <2>2. \A j \in Jobs : status[j] # "absent" => status'[j] # "absent"
    BY <1>0, <1>5 DEF Promote, TypeOK
  <2>3. UNCHANGED <<task, batch>>
    BY <1>5 DEF Promote
  <2>. QED BY <1>1, <1>2, <2>1, <2>2, <2>3
<1>6. CASE InsertFails(h)
  <2>1. \A g \in Handlers : req'[g] = req[g] \/ req'[g].kind = "sync"
    BY <1>0, <1>6 DEF InsertFails, Idle, TypeOK
  <2>2. UNCHANGED <<status, task, batch>>
    BY <1>6 DEF InsertFails, rows
  <2>. QED BY <1>1, <1>2, <2>1, <2>2
<1>7. CASE InsertJobs(h) \/ InsertWithoutTask(h)
  BY <1>0, <1>7, BatchInsert DEF InsertJobs, InsertWithoutTask
<1>. QED BY <1>3, <1>4, <1>5, <1>6, <1>7 DEF HandlerStep

LEMMA BatchStep == BatchInv /\ [Next]_vars => BatchInv'
<1> SUFFICES ASSUME BatchInv, [Next]_vars PROVE BatchInv'
  OBVIOUS
<1>0. LifeInv' /\ TypeOK
  BY LifeStep DEF BatchInv, LifeInv
<1>1. CASE Crash \/ Restart \/ RestartSweepFails \/ Tick \/ UNCHANGED vars
  <2>1. /\ batch' = batch
        /\ \A j \in Jobs : task'[j] = task[j] \/ task'[j] = "gone"
        /\ \A j \in Jobs : status[j] # "absent" => status'[j] # "absent"
        /\ \A h \in Handlers : req'[h] = req[h] \/ req'[h] = Idle
    BY <1>0, <1>1 DEF Crash, Restart, RestartSweepFails, Tick, vars, rows, TypeOK
  <2>2. \A j \in Jobs : \A i \in DOMAIN batch[j] : batch[j][i] \in Jobs
    BY <1>0 DEF TypeOK
  <2>3. BulkSequential'
    BY <2>1, <2>2 DEF BatchInv, BulkSequential, Busy, LiveTask, InPipeline, InRunner
  <2>4. Idle.kind = "sync"
    BY DEF Idle
  <2>. QED BY <1>0, <2>1, <2>2, <2>3, <2>4 DEF BatchInv
<1>. QED BY <1>1, BatchHandler, BatchTask DEF Next

\* However many bulk requests there are and whatever fails, a bulk list is
\* worked off one row at a time and in order.
THEOREM BulkSequentialCorrect == Spec => []BulkSequential
<1>1. Init => BatchInv
  BY LifeInit DEF Init, BatchInv, BulkSequential, Idle
<1>2. BatchInv => BulkSequential
  BY DEF BatchInv
<1>. QED BY <1>1, <1>2, BatchStep, PTL DEF Spec

-----------------------------------------------------------------------------
(* The rows go the ways of JobLifecycle. *)

\* A task works on a row that can still be ended: it exists, it is not
\* completed, and once it is extracted it no longer waits.  The rows a request
\* is about to fail exist.
WayInv ==
  /\ LifeInv
  /\ \A j \in Jobs : Live(j) => status[j] # "completed"
  /\ \A j \in Jobs : task[j] = "extracting" => status[j] # "queued"
  /\ \A h \in Handlers : \A j \in req[h].stale : status[j] # "absent"

\* What a row may do in one commit of the code.
Way(j) == Life!Stays(j) \/ Life!Inserted(j) \/ Life!Moves(j)

\* A row that exists is failed: it moves, or it had failed before.
LEMMA FailingIsAWay ==
  ASSUME TypeOK, NEW j \in Jobs, status[j] # "absent", status'[j] = "failed",
         icao'[j] = icao[j]
  PROVE  Way(j)
BY DEF TypeOK, Way, Active, Terminal, Life!Stays, Life!Moves, Life!Forward,
   Life!Revised

LEMMA WayHandler ==
  ASSUME WayInv, NEW h \in Handlers,
         ReceiveSome(h) \/ HandlerStep(h) \/ InsertWithoutTask(h)
  PROVE  WayInv' /\ Life!Commit
<1> USE DEF WayInv
<1>0. LifeInv' /\ TypeOK
  BY LifeHandler DEF LifeInv
<1> SUFFICES /\ \A j \in Jobs :
                   /\ Way(j)
                   /\ status[j] # "absent" => status'[j] # "absent"
                   /\ Live(j)' => status'[j] # "completed"
                   /\ task'[j] = "extracting" => status'[j] # "queued"
             /\ \A g \in Handlers : \A j \in req'[g].stale : status[j] # "absent"
  <2>1. \A g \in Handlers : req'[g].stale \subseteq Jobs
    BY <1>0 DEF LifeInv, TypeOK
  <2>. QED BY <1>0, <2>1 DEF Way, Life!Commit
<1>1. CASE UNCHANGED <<rows, task>>
  <2>1. \A j \in Jobs :
          /\ Way(j)
          /\ status[j] # "absent" => status'[j] # "absent"
          /\ Live(j)' => status'[j] # "completed"
          /\ task'[j] = "extracting" => status'[j] # "queued"
    BY <1>1 DEF rows, Way, Life!Stays, Live
  <2>2. ASSUME NEW g \in Handlers, NEW j \in req'[g].stale
        PROVE  status[j] # "absent"
    <3>1. CASE Lookup(h)
      <4>1. \A k \in Handlers \ {h} : req'[k] = req[k]
        BY <1>0, <3>1, LookupEffect
      <4>2. req'[h].stale \subseteq req[h].stale \cup LatestActive(Head(req[h].todo))
        BY <1>0, <3>1, LookupEffect
      <4>. QED
        BY <2>2, <4>1, <4>2 DEF LatestActive, ActiveJobs, IsActive, Active
    <3>2. CASE ReceiveSome(h) \/ InsertFails(h)
      <4>1. /\ \A k \in Handlers \ {h} : req'[k] = req[k]
            /\ req'[h].stale = {}
        BY <1>0, <3>2, ReceiveEffect DEF InsertFails, Idle, Serving, TypeOK
      <4>. QED BY <2>2, <4>1
    <3>3. CASE Promote(h)
      BY <1>0, <2>2, <3>3, PromoteEffect
    <3>4. CASE InsertJobs(h) \/ InsertWithoutTask(h)
      <4>1. req' = [req EXCEPT ![h] = Idle]
        BY <3>4 DEF InsertJobs, InsertWithoutTask, Insert
      <4>2. /\ \A k \in Handlers \ {h} : req'[k] = req[k]
            /\ req'[h].stale = {}
        BY <1>0, <4>1 DEF Idle, TypeOK
      <4>. QED BY <2>2, <4>2
    <3>. QED BY <3>1, <3>2, <3>3, <3>4 DEF HandlerStep
  <2>. QED BY <2>1, <2>2
<1>2. CASE Promote(h)
  <2>1. ASSUME NEW j \in Jobs
        PROVE  /\ Way(j)
               /\ status[j] # "absent" => status'[j] # "absent"
               /\ Live(j)' => status'[j] # "completed"
               /\ task'[j] = "extracting" => status'[j] # "queued"
    <3>1. /\ status'[j] = IF j \in req[h].stale THEN "failed" ELSE status[j]
          /\ icao'[j] = icao[j] /\ task'[j] = task[j]
      BY <1>2 DEF Promote
    <3>2. Way(j)
      BY <1>0, <3>1, FailingIsAWay DEF Way, Life!Stays
    <3>. QED BY <3>1, <3>2 DEF Live
  <2>. QED BY <1>0, <1>2, <2>1, PromoteEffect
<1>3. ASSUME NEW tasked \in BOOLEAN, NEW ids \in FreshIds(Len(req[h].make)),
             Insert(h, ids, tasked)
      PROVE  /\ \A j \in Jobs :
                   /\ Way(j)
                   /\ status[j] # "absent" => status'[j] # "absent"
                   /\ Live(j)' => status'[j] # "completed"
                   /\ task'[j] = "extracting" => status'[j] # "queued"
             /\ \A g \in Handlers : \A j \in req'[g].stale : status[j] # "absent"
  <2>1. ASSUME NEW j \in Jobs
        PROVE  /\ Way(j)
               /\ status[j] # "absent" => status'[j] # "absent"
               /\ Live(j)' => status'[j] # "completed"
               /\ task'[j] = "extracting" => status'[j] # "queued"
    <3>1. CASE \E i \in 1..Len(req[h].make) :
                 ids[i] = j /\ icao'[j] = req[h].make[i]
      <4>1. status[j] = "absent" /\ status'[j] = "queued"
            /\ task'[j] \in {"run", "pending", "gone"}
        BY <1>0, <1>3, <3>1, InsertEffect
      <4>2. icao'[j] \in Aerodromes
        <5>1. req[h].make \in Seq(Aerodromes)
          BY <1>0 DEF TypeOK
        <5>. QED BY <3>1, <5>1
      <4>. QED BY <4>1, <4>2 DEF Way, Life!Inserted
    <3>2. CASE /\ task'[j] = task[j] /\ icao'[j] = icao[j]
               /\ \/ j \in req[h].stale /\ status'[j] = "failed"
                  \/ j \notin req[h].stale /\ status'[j] = status[j]
      <4>1. Way(j)
        BY <1>0, <3>2, FailingIsAWay DEF Way, Life!Stays
      <4>. QED BY <3>2, <4>1 DEF Live
    <3>. QED BY <1>0, <1>3, <3>1, <3>2, InsertEffect
  <2>2. \A g \in Handlers : \A j \in req'[g].stale : status[j] # "absent"
    BY <1>0, <1>3 DEF Insert, Idle, TypeOK
  <2>. QED BY <2>1, <2>2
<1>4. \/ UNCHANGED <<rows, task>> \/ Promote(h)
      \/ \E ids \in FreshIds(Len(req[h].make)), tasked \in BOOLEAN :
            Insert(h, ids, tasked)
  BY DEF ReceiveSome, Receive, HandlerStep, Lookup, InsertJobs, InsertFails,
         InsertWithoutTask
<1>. QED BY <1>1, <1>2, <1>3, <1>4

LEMMA WayTask ==
  ASSUME WayInv, NEW j \in Jobs, TaskStep(j) \/ TaskFault(j)
  PROVE  WayInv' /\ Life!Commit
<1> USE DEF WayInv
<1>0. LifeInv' /\ TypeOK
  BY LifeTask DEF LifeInv
<1>1. req' = req /\ icao' = icao
  BY DEF TaskStep, TaskFault, SyncStart, RunStart, Complete, FailJob,
     ScrapeOk, ScrapeFails, ImportOk, ImportFails, Handoff, ExtractFails,
     SyncStartFails, HandoffLost, RunStartLost, FailJobLost, TaskDies,
     NoRowChange, rows
<1>2. /\ \A k \in Jobs \ {j} : task'[k] = task[k] /\ status'[k] = status[k]
      /\ Live(j)
  BY <1>0 DEF TaskStep, TaskFault, SyncStart, RunStart, Complete, FailJob,
     ScrapeOk, ScrapeFails, ImportOk, ImportFails, Handoff, ExtractFails,
     SyncStartFails, HandoffLost, RunStartLost, FailJobLost, TaskDies,
     NoRowChange, Goes, rows, TypeOK, Live, LiveTask, InPipeline, InRunner
<1>3. status[j] \in {"queued", "running", "failed"}
  BY <1>0, <1>2 DEF LifeInv, TypeOK, Live, LiveTask, InPipeline, InRunner,
     Active, Terminal
<1>4. /\ Way(j)
      /\ status'[j] # "absent"
      /\ Live(j)' => status'[j] # "completed"
      /\ task'[j] = "extracting" => status'[j] # "queued"
  <2>1. CASE SyncStart(j) \/ RunStart(j)
    <3>1. status'[j] = "running"
      BY <1>0, <2>1 DEF SyncStart, RunStart, TypeOK
    <3>. QED
      BY <1>1, <1>3, <3>1 DEF Way, Life!Stays, Life!Moves, Life!Forward, Life!Revised
  <2>2. CASE Complete(j)
    <3>1. status'[j] = "completed" /\ task[j] = "extracting" /\ task'[j] = "gone"
      BY <1>0, <2>2 DEF Complete, Goes, TypeOK
    <3>. QED
      BY <1>1, <1>3, <3>1 DEF Way, Life!Stays, Life!Moves, Life!Forward,
         Life!Revised, Live, LiveTask, InPipeline, InRunner
  <2>3. CASE FailJob(j)
    <3>1. status'[j] = "failed"
      BY <1>0, <2>3 DEF FailJob, TypeOK
    <3>. QED BY <1>0, <1>1, <1>3, <3>1, FailingIsAWay
  <2>4. CASE ~(SyncStart(j) \/ RunStart(j) \/ Complete(j) \/ FailJob(j))
    <3>1. status' = status /\ task'[j] # "extracting"
      BY <1>0, <2>4 DEF TaskStep, TaskFault, ScrapeOk, ScrapeFails, ImportOk,
         ImportFails, Handoff, ExtractFails, SyncStartFails, HandoffLost,
         RunStartLost, FailJobLost, TaskDies, NoRowChange, Goes, rows, TypeOK
    <3>. QED BY <1>1, <1>3, <3>1 DEF Way, Life!Stays
  <2>. QED BY <2>1, <2>2, <2>3, <2>4
<1>5. ASSUME NEW k \in Jobs
      PROVE  /\ Way(k)
             /\ status[k] # "absent" => status'[k] # "absent"
             /\ Live(k)' => status'[k] # "completed"
             /\ task'[k] = "extracting" => status'[k] # "queued"
  <2>1. CASE k # j
    BY <1>1, <1>2, <2>1 DEF Way, Life!Stays, Live
  <2>. QED BY <1>4, <2>1
<1>6. \A h \in Handlers : req[h].stale \subseteq Jobs
  BY <1>0 DEF TypeOK
<1>. QED BY <1>0, <1>1, <1>5, <1>6 DEF Way, Life!Commit

LEMMA WayStep == WayInv /\ [Next]_vars => WayInv' /\ [Life!Commit]_<<status, icao>>
<1> SUFFICES ASSUME WayInv, [Next]_vars
             PROVE  WayInv' /\ [Life!Commit]_<<status, icao>>
  OBVIOUS
<1> USE DEF WayInv
<1>0. LifeInv' /\ TypeOK
  BY LifeStep DEF LifeInv
<1>1. CASE Crash
  <2>1. /\ \A j \in Jobs : task'[j] \in {task[j], "gone"}
        /\ \A h \in Handlers : req'[h].stale = {}
        /\ status' = status /\ icao' = icao
    BY <1>0, <1>1 DEF Crash, Idle, rows, TypeOK
  <2>. QED BY <1>0, <2>1 DEF Live, LiveTask, InPipeline, InRunner
<1>2. CASE Restart
  <2>1. /\ task' = task /\ req' = req /\ icao' = icao
        /\ \A j \in Jobs : \/ status'[j] = status[j] /\ ~IsActive(j)
                           \/ status'[j] = "failed" /\ IsActive(j)
    BY <1>0, <1>2 DEF Restart, TypeOK
  <2>2. \A j \in Jobs : Way(j)
    BY <1>0, <2>1, FailingIsAWay DEF Way, Life!Stays, IsActive, Active
  <2>3. \A h \in Handlers : req[h].stale \subseteq Jobs
    BY <1>0 DEF TypeOK
  <2>. QED BY <1>0, <2>1, <2>2, <2>3 DEF Way, Life!Commit, Live
<1>3. CASE RestartSweepFails \/ Tick \/ UNCHANGED vars
  BY <1>0, <1>3 DEF RestartSweepFails, Tick, vars, rows, Live
<1>. QED
  BY <1>1, <1>2, <1>3, WayHandler, WayTask DEF Next

\* ExtractionJobs implements JobLifecycle: whatever the endpoints, the tasks,
\* the staleness guard, the crashes and the sweep do, every commit is one that
\* the readers of the rows expect, or changes no row.
THEOREM KeepsLifecycleCorrect == Spec => KeepsLifecycle
<1>1. Init => Life!Init /\ WayInv
  BY LifeInit DEF Init, Life!Init, WayInv, Live, LiveTask, InPipeline, InRunner,
     Idle
<1>. QED
  BY <1>1, WayStep, PTL DEF Spec, KeepsLifecycle, Life!Spec

-----------------------------------------------------------------------------
(* The dedup of the endpoints when requests are served one at a time: with  *)
(* a single handler thread a second active row of an aerodrome exists only  *)
(* beside one that the staleness guard had failed too early.                *)

OneThread == \A h, g \in Handlers : h = g

Marked(j) == error[j] = "stuck"
Owner(j)  == IsActive(j) /\ ~Marked(j)

\* The order of the time stamps of a row.
TimeInv ==
  \A j \in Jobs :
     /\ created[j] <= clock
     /\ started[j] # Null => created[j] <= started[j] /\ started[j] <= clock
     /\ status[j] = "absent" => error[j] = "none" /\ started[j] = Null
     /\ Marked(j) => created[j] < clock

\* An unmarked active row is unique for its aerodrome and newer than every
\* row that was ever marked, so it is what the next look-up finds.
OwnerInv ==
  \A u, k \in Jobs :
     u # k /\ icao[u] = icao[k] /\ Owner(u)
       => ~Owner(k) /\ (Marked(k) => created[k] < created[u])

\* What a request knows stays true until it commits: every aerodrome it
\* makes a row for has no owner but the row it is about to mark.
RequestInv ==
  \A h \in Handlers : req[h].pc = "serving" =>
     LET r == req[h] IN
     /\ r.now <= clock
     /\ \A k \in Jobs : Marked(k) => created[k] < r.now
     /\ \A i \in DOMAIN r.make : \A u \in Jobs :
           icao[u] = r.make[i] /\ Owner(u) => u \in r.stale
     /\ \A k \in r.stale :
           /\ status[k] # "absent" /\ created[k] < r.now
           /\ \E i \in DOMAIN r.make : icao[k] = r.make[i]
     /\ \A i, k \in DOMAIN r.make : r.make[i] = r.make[k] => i = k
     /\ \A i, k \in DOMAIN r.todo : r.todo[i] = r.todo[k] => i = k
     /\ \A i \in DOMAIN r.make, k \in DOMAIN r.todo : r.make[i] # r.todo[k]

SerialInv == LifeInv /\ TimeInv /\ OwnerInv /\ RequestInv

-----------------------------------------------------------------------------
(* Steps that neither create a row nor mark one. *)

\* No row becomes an owner or marked, and no identifying column changes.
Settles ==
  /\ icao' = icao /\ created' = created
  /\ clock \in Nat /\ clock' \in Nat /\ clock <= clock'
  /\ \A j \in Jobs :
        /\ Owner(j)' => Owner(j)
        /\ Marked(j)' => Marked(j)
        /\ status'[j] = "absent" => /\ status[j] = "absent"
                                    /\ error'[j] = error[j]
                                    /\ started'[j] = started[j]
        /\ status[j] # "absent" => status'[j] # "absent"
        /\ started'[j] = started[j] \/ started'[j] = clock

LEMMA SettlesTime ==
  ASSUME TypeOK, TimeInv, Settles  PROVE TimeInv'
<1> SUFFICES ASSUME NEW j \in Jobs
             PROVE  /\ created'[j] <= clock'
                    /\ started'[j] # Null => created'[j] <= started'[j]
                                             /\ started'[j] <= clock'
                    /\ status'[j] = "absent"
                         => error'[j] = "none" /\ started'[j] = Null
                    /\ Marked(j)' => created'[j] < clock'
  BY DEF TimeInv
<1>1. /\ created[j] \in Nat /\ clock \in Nat /\ clock' \in Nat /\ clock <= clock'
      /\ created'[j] = created[j] /\ started[j] \in Nat \cup {Null}
      /\ started'[j] = started[j] \/ started'[j] = clock
  BY DEF TypeOK, Settles
<1>2. /\ created[j] <= clock
      /\ started[j] # Null => created[j] <= started[j] /\ started[j] <= clock
  BY DEF TimeInv
<1>3. created'[j] <= clock'
  BY <1>1, <1>2
<1>4. started'[j] # Null => created'[j] <= started'[j] /\ started'[j] <= clock'
  <2>1. CASE started'[j] = clock
    BY <1>1, <1>2, <2>1
  <2>2. CASE started'[j] = started[j]
    BY <1>1, <1>2, <2>2 DEF Null
  <2>. QED BY <1>1, <2>1, <2>2
<1>5. Marked(j)' => created'[j] < clock'
  <2> SUFFICES ASSUME Marked(j)' PROVE created'[j] < clock'
    OBVIOUS
  <2>1. created[j] < clock
    BY DEF Settles, TimeInv
  <2>. QED BY <1>1, <2>1
<1>6. status'[j] = "absent" => error'[j] = "none" /\ started'[j] = Null
  BY DEF Settles, TimeInv
<1>. QED BY <1>3, <1>4, <1>5, <1>6

LEMMA SettlesOwner ==
  ASSUME OwnerInv, Settles  PROVE OwnerInv'
BY DEF OwnerInv, Settles

LEMMA SettlesRequest ==
  ASSUME TypeOK, RequestInv, Settles,
         \A h \in Handlers : req'[h] = req[h] \/ req'[h].pc = "idle"
  PROVE  RequestInv'
<1> SUFFICES ASSUME NEW h \in Handlers, req'[h].pc = "serving"
             PROVE  LET r == req'[h] IN
     /\ r.now <= clock'
     /\ \A k \in Jobs : Marked(k)' => created'[k] < r.now
     /\ \A i \in DOMAIN r.make : \A u \in Jobs :
           icao'[u] = r.make[i] /\ Owner(u)' => u \in r.stale
     /\ \A k \in r.stale :
           /\ status'[k] # "absent" /\ created'[k] < r.now
           /\ \E i \in DOMAIN r.make : icao'[k] = r.make[i]
     /\ \A i, k \in DOMAIN r.make : r.make[i] = r.make[k] => i = k
     /\ \A i, k \in DOMAIN r.todo : r.todo[i] = r.todo[k] => i = k
     /\ \A i \in DOMAIN r.make, k \in DOMAIN r.todo : r.make[i] # r.todo[k]
  BY DEF RequestInv
<1>1. req'[h] = req[h] /\ req[h].pc = "serving"
  BY DEF TypeOK
<1> DEFINE r == req[h]
<1>2. /\ r.now <= clock
      /\ \A k \in Jobs : Marked(k) => created[k] < r.now
      /\ \A i \in DOMAIN r.make : \A u \in Jobs :
            icao[u] = r.make[i] /\ Owner(u) => u \in r.stale
      /\ \A k \in r.stale :
            /\ status[k] # "absent" /\ created[k] < r.now
            /\ \E i \in DOMAIN r.make : icao[k] = r.make[i]
      /\ \A i, k \in DOMAIN r.make : r.make[i] = r.make[k] => i = k
      /\ \A i, k \in DOMAIN r.todo : r.todo[i] = r.todo[k] => i = k
      /\ \A i \in DOMAIN r.make, k \in DOMAIN r.todo : r.make[i] # r.todo[k]
  BY <1>1 DEF RequestInv
<1>3. r.now \in Nat /\ r.stale \subseteq Jobs
  BY DEF TypeOK
<1>4. r.now <= clock'
  BY <1>2, <1>3 DEF Settles
<1>5. \A k \in Jobs : Marked(k)' => created'[k] < r.now
  BY <1>2 DEF Settles
<1>6. \A i \in DOMAIN r.make : \A u \in Jobs :
         icao'[u] = r.make[i] /\ Owner(u)' => u \in r.stale
  BY <1>2 DEF Settles
<1>7. \A k \in r.stale :
         /\ status'[k] # "absent" /\ created'[k] < r.now
         /\ \E i \in DOMAIN r.make : icao'[k] = r.make[i]
  BY <1>2, <1>3 DEF Settles
<1>. QED BY <1>1, <1>2, <1>4, <1>5, <1>6, <1>7

LEMMA TaskSettles ==
  ASSUME LifeInv, NEW j \in Jobs, TaskStep(j) \/ TaskFault(j)
  PROVE  Settles /\ req' = req
<1>0. TypeOK /\ LiveTerminalIsStuck /\ Live(j) /\ status[j] # "absent"
  <2>1. Live(j)
    BY DEF TaskStep, TaskFault, SyncStart, RunStart, Complete, FailJob,
       ScrapeOk, ScrapeFails, ImportOk, ImportFails, Handoff, ExtractFails,
       SyncStartFails, HandoffLost, RunStartLost, FailJobLost, TaskDies, Goes,
       Live, LiveTask, InPipeline, InRunner
  <2>. QED BY <2>1 DEF LifeInv, Live, LiveTask, InPipeline, InRunner
<1>1. UNCHANGED <<icao, created, batch, req, clock>>
  BY DEF TaskStep, TaskFault, SyncStart, RunStart, Complete, FailJob,
     ScrapeOk, ScrapeFails, ImportOk, ImportFails, Handoff, ExtractFails,
     SyncStartFails, HandoffLost, RunStartLost, FailJobLost, TaskDies,
     NoRowChange, rows
<1>2. \A k \in Jobs \ {j} : status'[k] = status[k] /\ error'[k] = error[k]
                            /\ started'[k] = started[k]
  BY <1>0 DEF TaskStep, TaskFault, SyncStart, RunStart, Complete, FailJob,
     ScrapeOk, ScrapeFails, ImportOk, ImportFails, Handoff, ExtractFails,
     SyncStartFails, HandoffLost, RunStartLost, FailJobLost, TaskDies,
     NoRowChange, rows, TypeOK
<1>3. /\ started'[j] = started[j] \/ started'[j] = clock
      /\ \/ status'[j] = status[j] /\ error'[j] = error[j]
         \/ status'[j] = "running" /\ error'[j] = error[j]
         \/ status'[j] = "completed" /\ error'[j] = error[j]
         \/ status'[j] = "failed" /\ error'[j] = "failure"
  <2>1. CASE UNCHANGED <<status, error, started>>
    BY <2>1
  <2>2. CASE SyncStart(j) \/ RunStart(j) \/ Complete(j) \/ FailJob(j)
    BY <1>0, <2>2 DEF SyncStart, RunStart, Complete, FailJob, TypeOK
  <2>. QED BY <2>1, <2>2 DEF TaskStep, TaskFault, ScrapeOk, ScrapeFails,
       ImportOk, ImportFails, Handoff, ExtractFails, SyncStartFails,
       HandoffLost, RunStartLost, FailJobLost, TaskDies, NoRowChange, rows
<1>4. status[j] \in Active \/ error[j] = "stuck"
  <2>1. status[j] \in {"absent"} \cup Active \cup Terminal
    BY <1>0 DEF TypeOK
  <2>. QED BY <1>0, <2>1 DEF LiveTerminalIsStuck
<1>5. /\ Owner(j)' => Owner(j)
      /\ Marked(j)' => Marked(j)
      /\ status'[j] # "absent"
  BY <1>0, <1>3, <1>4 DEF Owner, Marked, IsActive, Active
<1>6. clock \in Nat /\ clock' \in Nat /\ clock <= clock'
  BY <1>0, <1>1 DEF TypeOK
<1>7. ASSUME NEW k \in Jobs
      PROVE  /\ Owner(k)' => Owner(k)
             /\ Marked(k)' => Marked(k)
             /\ status'[k] = "absent" => /\ status[k] = "absent"
                                         /\ error'[k] = error[k]
                                         /\ started'[k] = started[k]
             /\ status[k] # "absent" => status'[k] # "absent"
             /\ started'[k] = started[k] \/ started'[k] = clock
  BY <1>0, <1>2, <1>3, <1>5 DEF Owner, Marked, IsActive
<1>. QED BY <1>1, <1>6, <1>7 DEF Settles

LEMMA SystemSettles ==
  ASSUME LifeInv,
         Crash \/ Restart \/ RestartSweepFails \/ Tick \/ UNCHANGED vars
  PROVE  /\ Settles
         /\ \A h \in Handlers : req'[h] = req[h] \/ req'[h].pc = "idle"
<1>0. TypeOK
  BY DEF LifeInv
<1>1. clock \in Nat /\ clock' \in Nat /\ clock <= clock'
  <2>1. clock' = clock \/ clock' = clock + 1
    BY DEF Crash, Restart, RestartSweepFails, Tick, vars
  <2>. QED BY <1>0, <2>1 DEF TypeOK
<1>2. UNCHANGED <<icao, created, started>>
  BY DEF Crash, Restart, RestartSweepFails, Tick, vars, rows
<1>3. \A h \in Handlers : req'[h] = req[h] \/ req'[h].pc = "idle"
  BY DEF Crash, Restart, RestartSweepFails, Tick, vars, rows, Idle
<1>4. CASE Restart
  <2>1. ASSUME NEW k \in Jobs
        PROVE  /\ Owner(k)' => Owner(k)
               /\ Marked(k)' => Marked(k)
               /\ status'[k] = "absent" => status[k] = "absent" /\ error'[k] = error[k]
               /\ status[k] # "absent" => status'[k] # "absent"
    BY <1>0, <1>4 DEF Restart, Owner, Marked, IsActive, Active, TypeOK
  <2>. QED BY <1>1, <1>2, <1>3, <2>1 DEF Settles
<1>5. CASE UNCHANGED <<status, error>>
  BY <1>1, <1>2, <1>3, <1>5 DEF Settles, Owner, Marked, IsActive
<1>. QED
  BY <1>4, <1>5 DEF Crash, RestartSweepFails, Tick, vars, rows

-----------------------------------------------------------------------------
(* The steps of the one handler thread. *)

\* What RequestInv says of one request.
Knows(r) ==
  /\ r.now <= clock
  /\ \A k \in Jobs : Marked(k) => created[k] < r.now
  /\ \A i \in DOMAIN r.make : \A u \in Jobs :
        icao[u] = r.make[i] /\ Owner(u) => u \in r.stale
  /\ \A k \in r.stale :
        /\ status[k] # "absent" /\ created[k] < r.now
        /\ \E i \in DOMAIN r.make : icao[k] = r.make[i]
  /\ \A i, k \in DOMAIN r.make : r.make[i] = r.make[k] => i = k
  /\ \A i, k \in DOMAIN r.todo : r.todo[i] = r.todo[k] => i = k
  /\ \A i \in DOMAIN r.make, k \in DOMAIN r.todo : r.make[i] # r.todo[k]

LEMMA KnowsAll ==
  RequestInv <=> \A h \in Handlers : req[h].pc = "serving" => Knows(req[h])
BY DEF RequestInv, Knows

\* A step that only changes the request of the one thread.
LEMMA RequestOnly ==
  ASSUME OneThread, SerialInv, NEW h \in Handlers, UNCHANGED <<rows, clock>>,
         req'[h].pc = "serving" => Knows(req'[h])
  PROVE  TimeInv' /\ OwnerInv' /\ RequestInv'
<1>1. TimeInv' /\ OwnerInv'
  BY DEF SerialInv, TimeInv, OwnerInv, rows, Owner, Marked, IsActive
<1>2. \A g \in Handlers : g = h
  BY DEF OneThread
<1>3. req'[h].pc = "serving" => Knows(req[h])'
  BY DEF Knows, rows, Owner, Marked, IsActive
<1>4. RequestInv'
  BY <1>2, <1>3 DEF RequestInv, Knows
<1>. QED BY <1>1, <1>4

LEMMA SerialReceive ==
  ASSUME OneThread, SerialInv, NEW h \in Handlers, ReceiveSome(h)
  PROVE  TimeInv' /\ OwnerInv' /\ RequestInv'
<1>0. TypeOK /\ TimeInv
  BY DEF SerialInv, LifeInv
<1>1. PICK kind \in Kinds, icaos \in Seq(Aerodromes) :
        /\ req' = [req EXCEPT ![h] = Serving(kind, icaos)]
        /\ kind # "bulk" => Len(icaos) = 1
        /\ kind = "bulk" => icaos \in BulkRequests
  BY <1>0, ReceiveEffect
<1>2. \A i, k \in DOMAIN icaos : icaos[i] = icaos[k] => i = k
  <2>1. CASE kind # "bulk"
    <3>1. DOMAIN icaos = 1..1
      BY <1>1, <2>1
    <3>. QED BY <3>1
  <2>2. CASE kind = "bulk"
    BY <1>1, <2>2, ConstantsAssumption
  <2>. QED BY <2>1, <2>2
<1>3. Knows(Serving(kind, icaos))
  <2>1. /\ Serving(kind, icaos).now = clock
        /\ Serving(kind, icaos).make = <<>>
        /\ Serving(kind, icaos).stale = {}
        /\ Serving(kind, icaos).todo = icaos
    BY DEF Serving
  <2>2. clock <= clock /\ \A k \in Jobs : Marked(k) => created[k] < clock
    BY <1>0 DEF TypeOK, TimeInv
  <2>3. DOMAIN <<>> = {}
    OBVIOUS
  <2>. QED BY <1>2, <2>1, <2>2, <2>3 DEF Knows
<1>4. req'[h] = Serving(kind, icaos) /\ UNCHANGED <<rows, clock>>
  BY <1>0, <1>1 DEF TypeOK, ReceiveSome, Receive
<1>. QED BY <1>3, <1>4, RequestOnly

\* The newest active row of an aerodrome is its owner, if it has one.
LEMMA LatestIsOwner ==
  ASSUME TypeOK, OwnerInv, NEW a, NEW j \in LatestActive(a), NEW u \in Jobs,
         icao[u] = a, Owner(u)
  PROVE  u = j
<1>1. /\ j \in Jobs /\ icao[j] = a /\ IsActive(j)
      /\ created[u] <= created[j]
      /\ created[u] \in Nat /\ created[j] \in Nat
  BY DEF LatestActive, ActiveJobs, Owner, TypeOK
<1>2. CASE Marked(j)
  BY <1>1, <1>2 DEF OwnerInv
<1>3. CASE ~Marked(j)
  BY <1>1, <1>3 DEF OwnerInv, Owner
<1>. QED BY <1>2, <1>3

LEMMA SerialLookup ==
  ASSUME OneThread, SerialInv, NEW h \in Handlers, Lookup(h)
  PROVE  TimeInv' /\ OwnerInv' /\ RequestInv'
<1> DEFINE a == Head(req[h].todo)
           r == req[h]
           q == req'[h]
<1>0. /\ TypeOK /\ TimeInv /\ OwnerInv /\ req[h].pc = "serving"
      /\ r.todo \in Seq(Aerodromes) /\ r.make \in Seq(Aerodromes)
      /\ r.stale \subseteq Jobs /\ r.now \in Nat
  BY DEF SerialInv, LifeInv, Lookup, TypeOK
<1>1. Knows(r)
  BY <1>0 DEF SerialInv, RequestInv, Knows
<1>2. /\ q.now = r.now /\ q.todo = Tail(r.todo)
      /\ r.todo # <<>> /\ a \in Aerodromes
      /\ \/ /\ ActiveJobs(a) = {}
            /\ q.stale = r.stale
            /\ q.make = Append(r.make, a)
         \/ \E j \in LatestActive(a) :
               /\ IsStale(j, r.kind, r.now)
               /\ q.stale = r.stale \cup {j}
               /\ q.make = Append(r.make, a)
         \/ /\ q.stale = r.stale
            /\ q.make = r.make
  BY <1>0, LookupEffect
<1>3. /\ \A i, k \in DOMAIN q.todo : q.todo[i] = q.todo[k] => i = k
      /\ \A i \in DOMAIN q.todo : q.todo[i] # a
      /\ \A i \in DOMAIN r.make, k \in DOMAIN q.todo : r.make[i] # q.todo[k]
      /\ \A i \in DOMAIN r.make : r.make[i] # a
  <2>1. /\ \A i \in DOMAIN q.todo : q.todo[i] = r.todo[i + 1]
                                    /\ i + 1 \in DOMAIN r.todo
        /\ DOMAIN q.todo \subseteq Nat \ {0}
        /\ 1 \in DOMAIN r.todo /\ r.todo[1] = a
    BY <1>0, <1>2
  <2>2. /\ \A i, k \in DOMAIN r.todo : r.todo[i] = r.todo[k] => i = k
        /\ \A i \in DOMAIN r.make, k \in DOMAIN r.todo : r.make[i] # r.todo[k]
    BY <1>1 DEF Knows
  <2>3. \A i, k \in DOMAIN q.todo : q.todo[i] = q.todo[k] => i = k
    <3> SUFFICES ASSUME NEW i \in DOMAIN q.todo, NEW k \in DOMAIN q.todo,
                        q.todo[i] = q.todo[k]
                 PROVE  i = k
      OBVIOUS
    <3>1. i + 1 = k + 1
      BY <2>1, <2>2
    <3>. QED BY <2>1, <3>1
  <2>4. \A i \in DOMAIN q.todo : q.todo[i] # a
    <3> SUFFICES ASSUME NEW i \in DOMAIN q.todo, q.todo[i] = a PROVE FALSE
      OBVIOUS
    <3>1. i + 1 = 1
      BY <2>1, <2>2
    <3>. QED BY <2>1, <3>1
  <2>5. /\ \A i \in DOMAIN r.make, k \in DOMAIN q.todo : r.make[i] # q.todo[k]
        /\ \A i \in DOMAIN r.make : r.make[i] # a
    BY <2>1, <2>2
  <2>. QED BY <2>3, <2>4, <2>5
<1>4. ASSUME q.stale = r.stale, q.make = r.make
      PROVE  Knows(q)
  <2> HIDE DEF a, r, q
  <2>. QED BY <1>1, <1>2, <1>3, <1>4 DEF Knows
<1>5. ASSUME q.make = Append(r.make, a),
             r.stale \subseteq q.stale,
             \A u \in Jobs : icao[u] = a /\ Owner(u) => u \in q.stale,
             \A k \in q.stale \ r.stale : /\ status[k] # "absent"
                                          /\ created[k] < r.now /\ icao[k] = a
      PROVE  Knows(q)
  <2> DEFINE n == Len(r.make) + 1
  <2>1. /\ DOMAIN q.make = DOMAIN r.make \cup {n} /\ n \notin DOMAIN r.make
        /\ q.make[n] = a /\ \A i \in DOMAIN r.make : q.make[i] = r.make[i]
    BY <1>0, <1>2, <1>5
  <2> HIDE DEF n
  <2>2. /\ q.now <= clock
        /\ \A k \in Jobs : Marked(k) => created[k] < q.now
    BY <1>1, <1>2 DEF Knows
  <2>3. \A i \in DOMAIN q.make : \A u \in Jobs :
           icao[u] = q.make[i] /\ Owner(u) => u \in q.stale
    BY <1>1, <1>5, <2>1 DEF Knows
  <2>4. \A k \in q.stale :
           /\ status[k] # "absent" /\ created[k] < q.now
           /\ \E i \in DOMAIN q.make : icao[k] = q.make[i]
    BY <1>1, <1>2, <1>5, <2>1 DEF Knows
  <2>5. \A i, k \in DOMAIN q.make : q.make[i] = q.make[k] => i = k
    BY <1>1, <1>3, <2>1 DEF Knows
  <2>6. \A i \in DOMAIN q.make, k \in DOMAIN q.todo : q.make[i] # q.todo[k]
    BY <1>3, <2>1
  <2>. QED BY <1>3, <2>2, <2>3, <2>4, <2>5, <2>6 DEF Knows
<1>6. ASSUME ActiveJobs(a) = {}, q.stale = r.stale, q.make = Append(r.make, a)
      PROVE  Knows(q)
  <2>1. \A u \in Jobs : icao[u] = a /\ Owner(u) => u \in q.stale
    BY <1>6 DEF ActiveJobs, Owner
  <2> HIDE DEF a, r, q
  <2>2. r.stale \subseteq q.stale /\ q.stale \ r.stale = {}
    BY <1>6
  <2>. QED BY <1>5, <1>6, <2>1, <2>2
<1>7. ASSUME NEW j \in LatestActive(a), IsStale(j, r.kind, r.now),
             q.stale = r.stale \cup {j}, q.make = Append(r.make, a)
      PROVE  Knows(q)
  <2>1. \A u \in Jobs : icao[u] = a /\ Owner(u) => u \in q.stale
    BY <1>0, <1>7, LatestIsOwner
  <2>2. j \in Jobs /\ icao[j] = a /\ status[j] # "absent"
    BY <1>7 DEF LatestActive, ActiveJobs, IsActive, Active
  <2>3. created[j] < r.now
    <3>1. r.now - LastActivity(j) > 0
      <4>1. r.now - LastActivity(j) > StaleAfter(r.kind)
        BY <1>7 DEF IsStale
      <4>2. StaleAfter(r.kind) \in Nat
        BY ConstantsAssumption DEF StaleAfter
      <4>3. LastActivity(j) \in Nat
        BY <1>0, <2>2 DEF LastActivity, TypeOK, Null
      <4>. QED BY <1>0, <4>1, <4>2, <4>3
    <3>2. created[j] <= LastActivity(j) /\ LastActivity(j) \in Nat
          /\ created[j] \in Nat
      BY <1>0, <2>2 DEF TimeInv, LastActivity, TypeOK, Null
    <3>. QED BY <1>0, <3>1, <3>2
  <2>. QED BY <1>5, <1>7, <2>1, <2>2, <2>3
<1>8. Knows(q)
  <2> HIDE DEF a, r, q
  <2>. QED BY <1>2, <1>4, <1>6, <1>7
<1>9. UNCHANGED <<rows, clock>>
  BY DEF Lookup
<1>. QED BY <1>8, <1>9, RequestOnly

LEMMA SerialPromote ==
  ASSUME OneThread, SerialInv, NEW h \in Handlers, Promote(h)
  PROVE  TimeInv' /\ OwnerInv' /\ RequestInv'
<1> DEFINE r == req[h]
           q == req'[h]
           S == req[h].stale
<1>0. TypeOK /\ TimeInv /\ OwnerInv /\ r.pc = "serving"
  BY DEF SerialInv, LifeInv, Promote, LookedUp
<1>1. Knows(r)
  BY <1>0 DEF SerialInv, RequestInv, Knows
<1>2. /\ S \subseteq Jobs /\ r.now \in Nat /\ clock \in Nat
      /\ created \in [Jobs -> Nat]
      /\ UNCHANGED <<created, started, icao, clock>>
  BY <1>0 DEF TypeOK, Promote
<1>3. \A k \in Jobs : /\ Marked(k)' <=> Marked(k) \/ k \in S
                      /\ Owner(k)' <=> Owner(k) /\ k \notin S
                      /\ status'[k] = "absent" => status[k] = "absent"
                                                  /\ error'[k] = error[k]
  BY <1>0 DEF Promote, Marked, Owner, IsActive, Active, TypeOK
<1>4. /\ q.pc = "serving" /\ q.now = clock /\ q.todo = <<>>
      /\ q.stale = {} /\ q.make = r.make
  BY <1>0, PromoteEffect
<1>5. \A i \in DOMAIN r.make : \A u \in Jobs : icao[u] = r.make[i] => ~Owner(u)'
  BY <1>1, <1>3 DEF Knows
<1>6. TimeInv'
  <2>1. ASSUME NEW k \in Jobs, Marked(k)' PROVE created[k] < clock
    <3>1. CASE k \in S
      BY <1>1, <1>2, <3>1 DEF Knows
    <3>. QED BY <1>0, <1>3, <2>1, <3>1 DEF TimeInv
  <2>. QED BY <1>0, <1>2, <1>3, <2>1 DEF TimeInv
<1>7. OwnerInv'
  <2> SUFFICES ASSUME NEW u \in Jobs, NEW k \in Jobs, u # k,
                      icao[u] = icao[k], Owner(u)'
               PROVE  ~Owner(k)' /\ (Marked(k)' => created[k] < created[u])
    BY <1>2 DEF OwnerInv
  <2>1. k \notin S
    BY <1>1, <1>5 DEF Knows
  <2>. QED BY <1>0, <1>3, <2>1 DEF OwnerInv
<1>8. RequestInv'
  <2>1. \A g \in Handlers : g = h
    BY DEF OneThread
  <2>2. \A k \in Jobs : Marked(k)' => created[k] < clock
    BY <1>2, <1>6 DEF TimeInv
  <2>3. DOMAIN <<>> = {} /\ clock <= clock
    BY <1>2
  <2>4. \A i, k \in DOMAIN r.make : r.make[i] = r.make[k] => i = k
    BY <1>1 DEF Knows
  <2>5. Knows(req[h])'
    BY <1>2, <1>4, <1>5, <2>2, <2>3, <2>4 DEF Knows
  <2>. QED BY <2>1, <2>5 DEF RequestInv, Knows
<1>. QED BY <1>6, <1>7, <1>8

LEMMA SerialInsert ==
  ASSUME OneThread, SerialInv, NEW h \in Handlers, NEW tasked \in BOOLEAN,
         ReadyToInsert(h),
         NEW ids \in FreshIds(Len(req[h].make)), Insert(h, ids, tasked)
  PROVE  TimeInv' /\ OwnerInv' /\ RequestInv'
<1> DEFINE r == req[h]
           S == req[h].stale
           n == Len(req[h].make)
           New(j) == \E i \in 1..n : ids[i] = j
<1>0. TypeOK /\ TimeInv /\ OwnerInv /\ r.pc = "serving"
  BY DEF SerialInv, LifeInv, ReadyToInsert, LookedUp
<1>1. Knows(r)
  BY <1>0 DEF SerialInv, RequestInv, Knows
<1>2. /\ S \subseteq Jobs /\ r.now \in Nat /\ clock \in Nat
      /\ created \in [Jobs -> Nat] /\ DOMAIN r.make = 1..n
      /\ started' = started /\ clock' = clock
  BY <1>0 DEF TypeOK, Insert
<1>3. ASSUME NEW j \in Jobs, New(j)
      PROVE  /\ \E i \in DOMAIN r.make : ids[i] = j /\ icao'[j] = r.make[i]
             /\ created'[j] = r.now /\ ~Marked(j)' /\ j \notin S
             /\ started'[j] = Null /\ status'[j] # "absent"
  <2>1. /\ \E i \in 1..n : ids[i] = j /\ icao'[j] = r.make[i]
        /\ status[j] = "absent" /\ status'[j] = "queued"
        /\ created'[j] = r.now
        /\ error'[j] = IF j \in S THEN "stuck" ELSE error[j]
    BY <1>0, <1>3, InsertEffect
  <2>2. error[j] = "none" /\ started[j] = Null
    BY <1>0, <2>1 DEF TimeInv
  <2>3. j \notin S
    BY <1>1, <2>1 DEF Knows
  <2>. QED BY <1>2, <2>1, <2>2, <2>3 DEF Marked
<1>4. ASSUME NEW j \in Jobs, ~New(j)
      PROVE  /\ icao'[j] = icao[j] /\ created'[j] = created[j]
             /\ Marked(j)' <=> Marked(j) \/ j \in S
             /\ Owner(j)' <=> Owner(j) /\ j \notin S
             /\ status'[j] = "absent" => status[j] = "absent"
                                         /\ error'[j] = error[j]
  <2>1. /\ icao'[j] = icao[j] /\ created'[j] = created[j]
        /\ \/ j \in S /\ status'[j] = "failed" /\ error'[j] = "stuck"
           \/ j \notin S /\ status'[j] = status[j] /\ error'[j] = error[j]
    BY <1>0, <1>4, InsertEffect
  <2>. QED BY <2>1 DEF Marked, Owner, IsActive, Active
<1> HIDE DEF New
<1>5. ASSUME NEW i \in DOMAIN r.make, NEW u \in Jobs, icao[u] = r.make[i], ~New(u)
      PROVE  ~Owner(u)'
  BY <1>1, <1>4, <1>5 DEF Knows
<1>6. TimeInv'
  <2> SUFFICES ASSUME NEW j \in Jobs
               PROVE  /\ created'[j] <= clock
                      /\ started'[j] # Null => created'[j] <= started'[j]
                                               /\ started'[j] <= clock
                      /\ status'[j] = "absent"
                           => error'[j] = "none" /\ started'[j] = Null
                      /\ Marked(j)' => created'[j] < clock
    BY <1>2 DEF TimeInv
  <2>1. CASE New(j)
    BY <1>1, <1>3, <2>1 DEF Knows
  <2>2. CASE ~New(j)
    <3>1. j \in S => created[j] < clock
      BY <1>1, <1>2 DEF Knows
    <3>. QED BY <1>0, <1>2, <1>4, <2>2, <3>1 DEF TimeInv
  <2>. QED BY <2>1, <2>2
<1>7. OwnerInv'
  <2> SUFFICES ASSUME NEW u \in Jobs, NEW k \in Jobs, u # k,
                      icao'[u] = icao'[k], Owner(u)'
               PROVE  ~Owner(k)' /\ (Marked(k)' => created'[k] < created'[u])
    BY DEF OwnerInv
  <2>1. CASE New(u) /\ New(k)
    <3>1. PICK i \in DOMAIN r.make : ids[i] = u /\ icao'[u] = r.make[i]
      BY <1>3, <2>1
    <3>2. PICK m \in DOMAIN r.make : ids[m] = k /\ icao'[k] = r.make[m]
      BY <1>3, <2>1
    <3>3. i = m
      BY <1>1, <3>1, <3>2 DEF Knows
    <3>. QED BY <3>1, <3>2, <3>3
  <2>2. CASE New(u) /\ ~New(k)
    <3>1. ~Owner(k)'
      BY <1>3, <1>4, <1>5, <2>2
    <3>2. Marked(k)' => created[k] < r.now
      BY <1>1, <1>4, <2>2 DEF Knows
    <3>. QED BY <1>3, <1>4, <2>2, <3>1, <3>2
  <2>3. CASE ~New(u) /\ New(k)
    BY <1>3, <1>4, <1>5, <2>3
  <2>4. CASE ~New(u) /\ ~New(k)
    <3>1. k \notin S
      BY <1>1, <1>4, <1>5, <2>4 DEF Knows
    <3>. QED BY <1>0, <1>4, <2>4, <3>1 DEF OwnerInv
  <2>. QED BY <2>1, <2>2, <2>3, <2>4
<1>8. RequestInv'
  <2>1. \A g \in Handlers : g = h
    BY DEF OneThread
  <2>2. req'[h].pc = "idle"
    BY <1>0 DEF Insert, Idle, TypeOK
  <2>. QED BY <2>1, <2>2 DEF RequestInv
<1>. QED BY <1>6, <1>7, <1>8

-----------------------------------------------------------------------------
LEMMA SerialStep ==
  ASSUME OneThread  PROVE SerialInv /\ [Next]_vars => SerialInv'
<1> SUFFICES ASSUME SerialInv, [Next]_vars PROVE TimeInv' /\ OwnerInv' /\ RequestInv'
  BY LifeStep DEF SerialInv
<1>0. LifeInv /\ TypeOK /\ TimeInv /\ OwnerInv /\ RequestInv
  BY DEF SerialInv, LifeInv
<1>1. ASSUME Settles, \A h \in Handlers : req'[h] = req[h] \/ req'[h].pc = "idle"
      PROVE  TimeInv' /\ OwnerInv' /\ RequestInv'
  BY <1>0, <1>1, SettlesTime, SettlesOwner, SettlesRequest
<1>2. ASSUME NEW j \in Jobs, TaskStep(j) \/ TaskFault(j)
      PROVE  TimeInv' /\ OwnerInv' /\ RequestInv'
  BY <1>0, <1>1, <1>2, TaskSettles
<1>3. CASE Crash \/ Restart \/ RestartSweepFails \/ Tick \/ UNCHANGED vars
  BY <1>0, <1>1, <1>3, SystemSettles
<1>4. ASSUME NEW h \in Handlers, InsertFails(h)
      PROVE  TimeInv' /\ OwnerInv' /\ RequestInv'
  <2>1. UNCHANGED <<rows, clock>> /\ req'[h].pc = "idle"
    BY <1>0, <1>4 DEF InsertFails, Idle, TypeOK
  <2>. QED BY <2>1, RequestOnly
<1>5. ASSUME NEW h \in Handlers, InsertJobs(h) \/ InsertWithoutTask(h)
      PROVE  TimeInv' /\ OwnerInv' /\ RequestInv'
  BY <1>5, SerialInsert DEF InsertJobs, InsertWithoutTask
<1>. QED
  BY <1>2, <1>3, <1>4, <1>5, SerialReceive, SerialLookup, SerialPromote
  DEF Next, HandlerStep

LEMMA SerialInit == Init => SerialInv
<1> SUFFICES ASSUME Init PROVE SerialInv
  OBVIOUS
<1>1. LifeInv
  BY LifeInit
<1>2. TimeInv
  BY DEF Init, TimeInv, Marked, Null
<1>3. OwnerInv
  BY DEF Init, OwnerInv, Owner, Marked, IsActive, Active
<1>4. RequestInv
  BY DEF Init, RequestInv, Idle
<1>. QED BY <1>1, <1>2, <1>3, <1>4 DEF SerialInv

LEMMA SerialImplies == SerialInv => SecondActiveIsStuck
BY DEF SerialInv, OwnerInv, Owner, Marked, SecondActiveIsStuck

\* With requests served one at a time, whatever the windows, the crashes and
\* the lost writes: of two active rows of an aerodrome at least one had been
\* failed by the staleness guard while its task was alive.
THEOREM SecondActiveIsStuckCorrect ==
  ASSUME OneThread  PROVE Spec => []SecondActiveIsStuck
<1>1. SerialInv /\ [Next]_vars => SerialInv'
  BY SerialStep
<1>. QED BY <1>1, SerialInit, SerialImplies, PTL DEF Spec
=============================================================================
