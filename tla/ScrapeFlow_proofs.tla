------------------------- MODULE ScrapeFlow_proofs -------------------------
(***************************************************************************)
(* The scraper, its pipelines and the script, for any tasks, documents and *)
(* editions: an import finds a manifest written since it asked, a manifest *)
(* lists nothing only if DFS has withdrawn its edition, and without an     *)
(* overlap no image is older than its chart.                               *)
(***************************************************************************)
EXTENDS ScrapeFlow, TLAPS

-----------------------------------------------------------------------------
(* The inductive invariant.                                                *)

(* A pipeline from its acceptance until it ends.                           *)
Underway == {"queued", "root", "letters", "unknown", "documents", "download",
             "writing"}

(* What the import script holds of the task it started: the manifest it    *)
(* is about to read was written since it asked.                            *)
FreshInv ==
  \A t \in Tasks :
     /\ wait[t] = "idle" => pc[t] = "none"
     /\ wait[t] = "scraped" => fresh[t]
     /\ wait[t] = "waiting" /\ pc[t] \in {"written", "completed"} => fresh[t]

(* The documents t has still to fetch and those it has fetched are all the *)
(* edition lists; or DFS no longer had the edition's pages when t asked    *)
(* for the links.                                                          *)
Covers(t) ==
  \/ todo[t] \cup DOMAIN docs[t] = ListedIn[edition[t]]
  \/ todo[t] = {} /\ docs[t] = NoDocs /\ edition[t] < oldest

(* A manifest is empty only for a withdrawn edition, because the document  *)
(* list its pipeline works through covers its edition.                     *)
ListInv ==
  /\ \A a \in Actors : pc[a] \notin {"download", "writing"} => docs[a] = NoDocs
  /\ \A t \in Tasks :
       /\ pc[t] \in Underway => edition[t] \in 1..site
       /\ pc[t] = "documents" => hash[t] = edition[t]
       /\ pc[t] \in {"download", "writing"} => Covers(t)
       /\ pc[t] = "writing" => todo[t] = {}
  /\ EmptyOnlyIfWithdrawn

(* What has not overlapped so far: one task at most, and no script.        *)
Alone ==
  /\ pc[Cli] = "none"
  /\ \A t, u \in Tasks : Active(t) /\ Active(u) => t = u

(* Nothing that t's pipeline finds on disk or in the database is newer     *)
(* than its own edition, and the images it saved are of that edition.      *)
Dated(t) ==
  /\ manifest.edition <= edition[t]
  /\ \A d \in Titles :
       /\ charts[d] <= edition[t]
       /\ d \in DOMAIN docs[t] /\ docs[t][d] = "ok" => files[d] >= edition[t]

(* Without an overlap editions only grow along the way from DFS through    *)
(* the manifest and the images to the chart rows.                          *)
AgeInv ==
  /\ Alone
  /\ manifest.edition <= CurrentEdition
  /\ \A t \in Tasks : edition[t] <= CurrentEdition
  /\ \A d \in Titles :
       /\ charts[d] <= CurrentEdition
       /\ d \in DOMAIN manifest.docs /\ manifest.docs[d] = "ok"
            => files[d] >= manifest.edition /\ files[d] >= charts[d]
  /\ \A t \in Tasks : pc[t] \in Underway => Dated(t)

FlowInv ==
  /\ FlowTypeOK /\ DOMAIN docs = Actors
  /\ FreshInv /\ ListInv /\ (~met => AgeInv)

-----------------------------------------------------------------------------
(* Every step keeps the types. *)
LEMMA TypeStep ==
  FlowInv /\ [FlowNext]_allVars => FlowTypeOK' /\ (DOMAIN docs = Actors)'
<1> SUFFICES ASSUME FlowInv, [FlowNext]_allVars
           PROVE  FlowTypeOK' /\ (DOMAIN docs = Actors)'
  OBVIOUS
<1> USE ScraperAssumption
        DEF Actors, Editions, vars, dfsVars, jobVars, dirVars, flowVars, FlowSame, Quiet
<1>1. ASSUME NEW t \in Tasks, PostStart(t) \/ PostLost(t)
      PROVE  FlowTypeOK' /\ (DOMAIN docs = Actors)'
  <2>1. CurrentEdition \in 1..site /\ 1..site \in SUBSET (0..LastEdition)
    BY DEF CurrentEdition, FlowInv, FlowTypeOK, TypeOK
  <2>2. /\ pc' \in [Actors -> Steps] /\ edition' \in [Actors -> 0..LastEdition]
        /\ cache' \in 0..site
    <3>1. /\ pc' = [pc EXCEPT ![t] = "queued"] /\ cache' = CurrentEdition
          /\ edition' = [edition EXCEPT ![t] = CurrentEdition]
      BY <1>1 DEF PostStart, PostLost, StartScrape
    <3>2. CurrentEdition \in 0..LastEdition /\ CurrentEdition \in 0..site
      BY <2>1 DEF FlowInv, FlowTypeOK, TypeOK
    <3>. QED BY <3>1, <3>2 DEF FlowInv, FlowTypeOK, TypeOK, Steps
  <2>3. /\ met' \in BOOLEAN
        /\ wait' \in [Tasks -> {"idle", "waiting", "scraped", "imported", "failed"}]
    <3>1. (\E b \in Actors \ {t} : Active(b)) \in BOOLEAN
      OBVIOUS
    <3>. QED BY <1>1, <3>1 DEF PostStart, PostLost, Becomes, Meets, FlowInv, FlowTypeOK
  <2>. QED BY <1>1, <2>2, <2>3
           DEF PostStart, PostLost, StartScrape, FlowInv, FlowTypeOK, TypeOK
<1>2. ASSUME NEW t \in Tasks, PostFails(t)
      PROVE  FlowTypeOK' /\ (DOMAIN docs = Actors)'
  BY <1>2 DEF PostFails, Becomes,
    FlowInv, FlowTypeOK, TypeOK, Steps, CurrentEdition, NoDocs
<1>3. ASSUME NEW t \in Tasks, PollCompleted(t)
      PROVE  FlowTypeOK' /\ (DOMAIN docs = Actors)'
  BY <1>3 DEF PollCompleted, Becomes, Status,
    FlowInv, FlowTypeOK, TypeOK, Steps, CurrentEdition, NoDocs
<1>4. ASSUME NEW t \in Tasks, PollFails(t) \/ GiveUp(t)
      PROVE  FlowTypeOK' /\ (DOMAIN docs = Actors)'
  BY <1>4 DEF PollFails, GiveUp, Becomes,
    FlowInv, FlowTypeOK, TypeOK, Steps, CurrentEdition, NoDocs
<1>5. ASSUME NEW t \in Tasks, ImportManifest(t)
      PROVE  FlowTypeOK' /\ (DOMAIN docs = Actors)'
  <2>1. /\ charts' \in [Titles -> 0..LastEdition]
        /\ wait' \in [Tasks -> {"idle", "waiting", "scraped", "imported", "failed"}]
        /\ fresh' \in [Tasks -> BOOLEAN] /\ UNCHANGED <<vars, met>>
    <3>1. CASE manifest.by \in {"nobody", "torn"}
      BY <1>5, <3>1 DEF ImportManifest, Becomes, FlowInv, FlowTypeOK
    <3>2. CASE manifest.by \notin {"nobody", "torn"}
      <4>1. manifest.edition \in 0..LastEdition /\ 0 \in 0..LastEdition
        BY DEF FlowInv, FlowTypeOK, TypeOK
      <4>2. charts' \in [Titles -> 0..LastEdition]
        BY <1>5, <3>2, <4>1, Zenon DEF ImportManifest
      <4>. QED BY <1>5, <3>2, <4>2 DEF ImportManifest, Becomes, FlowInv, FlowTypeOK
    <3>. QED BY <3>1, <3>2
  <2>. QED BY <2>1 DEF FlowInv, FlowTypeOK, TypeOK
<1>6. ASSUME NEW t \in Tasks, LoadCachedAirport(t) /\ Quiet
      PROVE  FlowTypeOK' /\ (DOMAIN docs = Actors)'
  <2>1. pc' \in [Actors -> Steps] /\ hash' \in [Actors -> 0..LastEdition]
    <3>1. edition[t] \in 0..LastEdition
      BY DEF FlowInv, FlowTypeOK, TypeOK
    <3>2. /\ \/ pc' = [pc EXCEPT ![t] = "documents"]
             \/ pc' = [pc EXCEPT ![t] = "root"]
          /\ hash' = hash \/ hash' = [hash EXCEPT ![t] = edition[t]]
      BY <1>6 DEF LoadCachedAirport, Goto
    <3>. QED BY <3>1, <3>2 DEF FlowInv, FlowTypeOK, TypeOK, Steps
  <2>. QED BY <1>6, <2>1 DEF LoadCachedAirport, FlowInv, FlowTypeOK, TypeOK
<1>7. ASSUME NEW t \in Tasks, DiscoverLetters(t) /\ Quiet
      PROVE  FlowTypeOK' /\ (DOMAIN docs = Actors)'
  BY <1>7 DEF DiscoverLetters, Goto, OnlyPc,
    FlowInv, FlowTypeOK, TypeOK, Steps, CurrentEdition, NoDocs
<1>8. ASSUME NEW t \in Tasks, RefreshIndex(t) /\ Quiet
      PROVE  FlowTypeOK' /\ (DOMAIN docs = Actors)'
  <2>1. LetterLists(edition[t]) \in BOOLEAN
    BY DEF LetterLists, Serves
  <2>2. edition[t] \in 0..LastEdition
    BY DEF FlowInv, FlowTypeOK, TypeOK
  <2>3. /\ pc' \in [Actors -> Steps] /\ hash' \in [Actors -> 0..LastEdition]
        /\ index' \in [edition : 0..LastEdition, listed : BOOLEAN]
    BY <1>8, <2>1, <2>2 DEF RefreshIndex, Goto, FlowInv, FlowTypeOK, TypeOK, Steps
  <2>. QED BY <1>8, <2>3 DEF RefreshIndex, FlowInv, FlowTypeOK, TypeOK
<1>9. ASSUME NEW a \in Actors, DiscoverDocuments(a) /\ Quiet
      PROVE  FlowTypeOK' /\ (DOMAIN docs = Actors)'
  <2>1. Links(a) \in SUBSET Titles
    BY DEF Links, Serves, FlowInv, FlowTypeOK, TypeOK
  <2>2. DOMAIN docs[a] = {}
    BY <1>9 DEF DiscoverDocuments, Goto, FlowInv, ListInv, NoDocs
  <2>. QED BY <1>9, <2>1, <2>2 DEF DiscoverDocuments, Goto, FlowInv, FlowTypeOK, TypeOK, Steps
<1>10. ASSUME NEW a \in Actors, NEW d \in Titles, NEW outcome \in Outcomes,
            NEW saved \in BOOLEAN, DownloadDocument(a, d, outcome, saved) /\ Quiet
      PROVE  FlowTypeOK' /\ (DOMAIN docs = Actors)'
  BY <1>10 DEF DownloadDocument, Left, Saved, Outcomes,
    FlowInv, FlowTypeOK, TypeOK, Steps, CurrentEdition, NoDocs
<1>11. ASSUME NEW a \in Actors, OpenManifest(a) /\ Quiet
      PROVE  FlowTypeOK' /\ (DOMAIN docs = Actors)'
  BY <1>11 DEF OpenManifest, Goto, NoDocs,
    FlowInv, FlowTypeOK, TypeOK, Steps, CurrentEdition, NoDocs
<1>12. ASSUME NEW a \in Actors, WriteManifest(a) /\ FlowSame /\ Freshen
      PROVE  FlowTypeOK' /\ (DOMAIN docs = Actors)'
  BY <1>12 DEF WriteManifest, Goto, NoDocs, Freshen,
    FlowInv, FlowTypeOK, TypeOK, Steps, CurrentEdition, NoDocs
<1>13. ASSUME NEW t \in Tasks, MarkCompleted(t) /\ Quiet
      PROVE  FlowTypeOK' /\ (DOMAIN docs = Actors)'
  BY <1>13 DEF MarkCompleted, Goto, Forget, NoDocs,
    FlowInv, FlowTypeOK, TypeOK, Steps, CurrentEdition, NoDocs
<1>14. ASSUME NEW t \in Tasks, MarkFailed(t) /\ Quiet
      PROVE  FlowTypeOK' /\ (DOMAIN docs = Actors)'
  BY <1>14 DEF MarkFailed, Failing, Forget, NoDocs,
    FlowInv, FlowTypeOK, TypeOK, Steps, CurrentEdition, NoDocs
<1>15. ASSUME NEW e \in Editions, ScriptSingle(e)
      PROVE  FlowTypeOK' /\ (DOMAIN docs = Actors)'
  BY <1>15 DEF ScriptSingle, ScriptStart,
    FlowInv, FlowTypeOK, TypeOK, Steps, CurrentEdition, NoDocs
<1>16. ASSUME NEW e \in Editions, ScriptBulk(e)
      PROVE  FlowTypeOK' /\ (DOMAIN docs = Actors)'
  <2>1. PICK found \in BOOLEAN :
           /\ index' = [edition |-> e, listed |-> found]
           /\ pc' = [pc EXCEPT ![Cli] = IF found THEN "documents" ELSE "written"]
           /\ hash' = [hash EXCEPT ![Cli] = e]
    BY <1>16 DEF ScriptBulk, ScriptLetterLists, Serves
  <2>. QED BY <1>16, <2>1 DEF ScriptBulk, ScriptStart, FlowInv, FlowTypeOK, TypeOK, Steps
<1>17. ASSUME ScriptEnds PROVE FlowTypeOK' /\ (DOMAIN docs = Actors)'
  BY <1>17 DEF ScriptEnds, Forget, NoDocs,
    FlowInv, FlowTypeOK, TypeOK, Steps, CurrentEdition, NoDocs
<1>18. ASSUME Crash /\ Quiet PROVE FlowTypeOK' /\ (DOMAIN docs = Actors)'
  BY <1>18 DEF Crash, Forget, NoDocs,
    FlowInv, FlowTypeOK, TypeOK, Steps, CurrentEdition, NoDocs
<1>19. ASSUME (Publish \/ Withdraw) /\ Quiet
      PROVE  FlowTypeOK' /\ (DOMAIN docs = Actors)'
  BY <1>19 DEF Publish, Withdraw,
    FlowInv, FlowTypeOK, TypeOK, Steps, CurrentEdition, NoDocs
<1>20. ASSUME (CacheExpires \/ Refresh) /\ Quiet
      PROVE  FlowTypeOK' /\ (DOMAIN docs = Actors)'
  BY <1>20 DEF CacheExpires, Refresh,
    FlowInv, FlowTypeOK, TypeOK, Steps, CurrentEdition, NoDocs
<1>21. ASSUME UNCHANGED allVars PROVE FlowTypeOK' /\ (DOMAIN docs = Actors)'
  BY <1>21 DEF allVars,
    FlowInv, FlowTypeOK, TypeOK, Steps, CurrentEdition, NoDocs
<1>. QED
  BY <1>1, <1>2, <1>3, <1>4, <1>5, <1>6, <1>7, <1>8, <1>9, <1>10, <1>11,
     <1>12, <1>13, <1>14, <1>15, <1>16, <1>17, <1>18, <1>19, <1>20, <1>21
  DEF FlowNext, Pipeline, Serve, Await, Script, ScriptDocuments, ScriptDownload,
      ScriptManifest, World, Finished

(* Every step keeps what the script knows of its task. *)
LEMMA FreshStep ==
  FlowInv /\ [FlowNext]_allVars => FreshInv'
<1> SUFFICES ASSUME FlowInv, [FlowNext]_allVars PROVE FreshInv'
  OBVIOUS
<1> USE ScraperAssumption
        DEF Actors, Editions, vars, dfsVars, jobVars, dirVars, flowVars, FlowSame, Quiet
<1>1. ASSUME NEW t \in Tasks, PostStart(t) \/ PostLost(t) PROVE FreshInv'
  BY <1>1 DEF PostStart, PostLost, Becomes, StartScrape, Meets,
    FlowInv, FlowTypeOK, TypeOK, Steps, FreshInv
<1>2. ASSUME NEW t \in Tasks, PostFails(t) PROVE FreshInv'
  BY <1>2 DEF PostFails, Becomes,
    FlowInv, FlowTypeOK, TypeOK, Steps, FreshInv
<1>3. ASSUME NEW t \in Tasks, PollCompleted(t) PROVE FreshInv'
  BY <1>3 DEF PollCompleted, Becomes, Status,
    FlowInv, FlowTypeOK, TypeOK, Steps, FreshInv
<1>4. ASSUME NEW t \in Tasks, PollFails(t) \/ GiveUp(t) PROVE FreshInv'
  BY <1>4 DEF PollFails, GiveUp, Becomes,
    FlowInv, FlowTypeOK, TypeOK, Steps, FreshInv
<1>5. ASSUME NEW t \in Tasks, ImportManifest(t) PROVE FreshInv'
  BY <1>5 DEF ImportManifest, Becomes,
    FlowInv, FlowTypeOK, TypeOK, Steps, FreshInv
<1>6. ASSUME NEW t \in Tasks, LoadCachedAirport(t) /\ Quiet PROVE FreshInv'
  BY <1>6 DEF LoadCachedAirport, Goto,
    FlowInv, FlowTypeOK, TypeOK, Steps, FreshInv
<1>7. ASSUME NEW t \in Tasks, DiscoverLetters(t) /\ Quiet PROVE FreshInv'
  BY <1>7 DEF DiscoverLetters, Goto, OnlyPc,
    FlowInv, FlowTypeOK, TypeOK, Steps, FreshInv
<1>8. ASSUME NEW t \in Tasks, RefreshIndex(t) /\ Quiet PROVE FreshInv'
  BY <1>8 DEF RefreshIndex, Goto, LetterLists, Serves,
    FlowInv, FlowTypeOK, TypeOK, Steps, FreshInv
<1>9. ASSUME NEW a \in Actors, DiscoverDocuments(a) /\ Quiet PROVE FreshInv'
  BY <1>9 DEF DiscoverDocuments, Goto, Links, Serves,
    FlowInv, FlowTypeOK, TypeOK, Steps, FreshInv
<1>10. ASSUME NEW a \in Actors, NEW d \in Titles, NEW outcome \in Outcomes,
            NEW saved \in BOOLEAN, DownloadDocument(a, d, outcome, saved) /\ Quiet
      PROVE  FreshInv'
  BY <1>10 DEF DownloadDocument, Left, Saved, Outcomes,
    FlowInv, FlowTypeOK, TypeOK, Steps, FreshInv
<1>11. ASSUME NEW a \in Actors, OpenManifest(a) /\ Quiet PROVE FreshInv'
  BY <1>11 DEF OpenManifest, Goto, NoDocs,
    FlowInv, FlowTypeOK, TypeOK, Steps, FreshInv
<1>12. ASSUME NEW a \in Actors, WriteManifest(a) /\ FlowSame /\ Freshen
      PROVE  FreshInv'
  BY <1>12 DEF WriteManifest, Goto, NoDocs, Freshen,
    FlowInv, FlowTypeOK, TypeOK, Steps, FreshInv
<1>13. ASSUME NEW t \in Tasks, MarkCompleted(t) /\ Quiet PROVE FreshInv'
  BY <1>13 DEF MarkCompleted, Goto, Forget, NoDocs,
    FlowInv, FlowTypeOK, TypeOK, Steps, FreshInv
<1>14. ASSUME NEW t \in Tasks, MarkFailed(t) /\ Quiet PROVE FreshInv'
  BY <1>14 DEF MarkFailed, Failing, Forget, NoDocs,
    FlowInv, FlowTypeOK, TypeOK, Steps, FreshInv
<1>15. ASSUME NEW e \in Editions, ScriptSingle(e) PROVE FreshInv'
  BY <1>15 DEF ScriptSingle, ScriptStart,
    FlowInv, FlowTypeOK, TypeOK, Steps, FreshInv
<1>16. ASSUME NEW e \in Editions, ScriptBulk(e) PROVE FreshInv'
  BY <1>16 DEF ScriptBulk, ScriptStart, ScriptLetterLists, Serves,
    FlowInv, FlowTypeOK, TypeOK, Steps, FreshInv
<1>17. ASSUME ScriptEnds PROVE FreshInv'
  BY <1>17 DEF ScriptEnds, Forget, NoDocs,
    FlowInv, FlowTypeOK, TypeOK, Steps, FreshInv
<1>18. ASSUME Crash /\ Quiet PROVE FreshInv'
  BY <1>18 DEF Crash, Forget, NoDocs,
    FlowInv, FlowTypeOK, TypeOK, Steps, FreshInv
<1>19. ASSUME (Publish \/ Withdraw) /\ Quiet PROVE FreshInv'
  BY <1>19 DEF Publish, Withdraw,
    FlowInv, FlowTypeOK, TypeOK, Steps, FreshInv
<1>20. ASSUME (CacheExpires \/ Refresh) /\ Quiet PROVE FreshInv'
  BY <1>20 DEF CacheExpires, Refresh,
    FlowInv, FlowTypeOK, TypeOK, Steps, FreshInv
<1>21. ASSUME UNCHANGED allVars PROVE FreshInv'
  BY <1>21 DEF allVars,
    FlowInv, FlowTypeOK, TypeOK, Steps, FreshInv
<1>. QED
  BY <1>1, <1>2, <1>3, <1>4, <1>5, <1>6, <1>7, <1>8, <1>9, <1>10, <1>11,
     <1>12, <1>13, <1>14, <1>15, <1>16, <1>17, <1>18, <1>19, <1>20, <1>21
  DEF FlowNext, Pipeline, Serve, Await, Script, ScriptDocuments, ScriptDownload,
      ScriptManifest, World, Finished

(* Every step keeps the pipelines' document lists complete. *)
LEMMA ListStep ==
  FlowInv /\ [FlowNext]_allVars => ListInv'
<1> SUFFICES ASSUME FlowInv, [FlowNext]_allVars PROVE ListInv'
  OBVIOUS
<1> USE ScraperAssumption
        DEF Actors, Editions, vars, dfsVars, jobVars, dirVars, flowVars, FlowSame, Quiet
<1>1. ASSUME NEW t \in Tasks, PostStart(t) \/ PostLost(t) PROVE ListInv'
  <2>1. CurrentEdition \in 1..site
    BY DEF CurrentEdition, FlowInv, FlowTypeOK, TypeOK
  <2>2. pc[t] = "none" /\ docs[t] = NoDocs
    BY <1>1 DEF PostStart, PostLost, Becomes, FlowInv, FreshInv, ListInv
  <2>3. /\ pc' = [pc EXCEPT ![t] = "queued"]
        /\ edition' = [edition EXCEPT ![t] = CurrentEdition]
        /\ UNCHANGED <<dfsVars, hash, todo, docs, dirVars>>
    BY <1>1 DEF PostStart, PostLost, StartScrape
  <2>. QED BY <2>1, <2>2, <2>3
           DEF FlowInv, FlowTypeOK, TypeOK, ListInv, Underway, Covers, EmptyOnlyIfWithdrawn
<1>2. ASSUME NEW t \in Tasks, PostFails(t) PROVE ListInv'
  BY <1>2 DEF PostFails, Becomes,
    FlowInv, FlowTypeOK, TypeOK, Steps, ListInv, Underway, Covers, EmptyOnlyIfWithdrawn
<1>3. ASSUME NEW t \in Tasks, PollCompleted(t) PROVE ListInv'
  BY <1>3 DEF PollCompleted, Becomes, Status,
    FlowInv, FlowTypeOK, TypeOK, Steps, ListInv, Underway, Covers, EmptyOnlyIfWithdrawn
<1>4. ASSUME NEW t \in Tasks, PollFails(t) \/ GiveUp(t) PROVE ListInv'
  BY <1>4 DEF PollFails, GiveUp, Becomes,
    FlowInv, FlowTypeOK, TypeOK, Steps, ListInv, Underway, Covers, EmptyOnlyIfWithdrawn
<1>5. ASSUME NEW t \in Tasks, ImportManifest(t) PROVE ListInv'
  BY <1>5 DEF ImportManifest, Becomes,
    FlowInv, FlowTypeOK, TypeOK, Steps, ListInv, Underway, Covers, EmptyOnlyIfWithdrawn
<1>6. ASSUME NEW t \in Tasks, LoadCachedAirport(t) /\ Quiet PROVE ListInv'
  <2>1. pc'[t] = "documents" => hash'[t] = edition[t]
    BY <1>6 DEF LoadCachedAirport, Goto, FlowInv, FlowTypeOK, TypeOK
  <2>2. /\ pc[t] = "queued"
        /\ \/ pc' = [pc EXCEPT ![t] = "documents"]
           \/ pc' = [pc EXCEPT ![t] = "root"]
        /\ \A u \in Tasks \ {t} : hash'[u] = hash[u]
    BY <1>6 DEF LoadCachedAirport, Goto, FlowInv, FlowTypeOK, TypeOK
  <2>. QED BY <1>6, <2>1, <2>2
           DEF LoadCachedAirport, FlowInv, FlowTypeOK, TypeOK, ListInv, Underway,
               Covers, EmptyOnlyIfWithdrawn
<1>7. ASSUME NEW t \in Tasks, DiscoverLetters(t) /\ Quiet PROVE ListInv'
  BY <1>7 DEF DiscoverLetters, Goto, OnlyPc,
    FlowInv, FlowTypeOK, TypeOK, Steps, ListInv, Underway, Covers, EmptyOnlyIfWithdrawn
<1>8. ASSUME NEW t \in Tasks, RefreshIndex(t) /\ Quiet PROVE ListInv'
  BY <1>8 DEF RefreshIndex, Goto, LetterLists, Serves,
    FlowInv, FlowTypeOK, TypeOK, Steps, ListInv, Underway, Covers, EmptyOnlyIfWithdrawn
<1>9. ASSUME NEW a \in Actors, DiscoverDocuments(a) /\ Quiet PROVE ListInv'
  <2>1. docs[a] = NoDocs /\ DOMAIN docs[a] = {}
    BY <1>9 DEF DiscoverDocuments, Goto, FlowInv, ListInv, NoDocs
  <2>2. a \in Tasks => /\ edition[a] \in 1..site /\ hash[a] = edition[a]
    BY <1>9 DEF DiscoverDocuments, Goto, FlowInv, ListInv, Underway
  <2>3. a \in Tasks => \/ Links(a) = ListedIn[edition[a]]
                       \/ Links(a) = {} /\ edition[a] < oldest
    BY <2>2 DEF Links, Serves, FlowInv, FlowTypeOK, TypeOK
  <2>4. /\ pc' = [pc EXCEPT ![a] = "download"] /\ pc[a] = "documents"
        /\ todo' = [todo EXCEPT ![a] = Links(a)]
        /\ hash' = [hash EXCEPT ![a] = 0]
        /\ UNCHANGED <<dfsVars, edition, docs, dirVars>>
    BY <1>9 DEF DiscoverDocuments, Goto
  <2>. QED BY <2>1, <2>2, <2>3, <2>4
           DEF FlowInv, FlowTypeOK, TypeOK, ListInv, Underway, Covers, EmptyOnlyIfWithdrawn
<1>10. ASSUME NEW a \in Actors, NEW d \in Titles, NEW outcome \in Outcomes,
            NEW saved \in BOOLEAN, DownloadDocument(a, d, outcome, saved) /\ Quiet
      PROVE  ListInv'
  BY <1>10 DEF DownloadDocument, Left, Saved, Outcomes,
    FlowInv, FlowTypeOK, TypeOK, Steps, ListInv, Underway, Covers, EmptyOnlyIfWithdrawn
<1>11. ASSUME NEW a \in Actors, OpenManifest(a) /\ Quiet PROVE ListInv'
  BY <1>11 DEF OpenManifest, Goto, NoDocs,
    FlowInv, FlowTypeOK, TypeOK, Steps, ListInv, Underway, Covers, EmptyOnlyIfWithdrawn
<1>12. ASSUME NEW a \in Actors, WriteManifest(a) /\ FlowSame /\ Freshen
      PROVE  ListInv'
  BY <1>12 DEF WriteManifest, Goto, NoDocs, Freshen,
    FlowInv, FlowTypeOK, TypeOK, Steps, ListInv, Underway, Covers, EmptyOnlyIfWithdrawn
<1>13. ASSUME NEW t \in Tasks, MarkCompleted(t) /\ Quiet PROVE ListInv'
  BY <1>13 DEF MarkCompleted, Goto, Forget, NoDocs,
    FlowInv, FlowTypeOK, TypeOK, Steps, ListInv, Underway, Covers, EmptyOnlyIfWithdrawn
<1>14. ASSUME NEW t \in Tasks, MarkFailed(t) /\ Quiet PROVE ListInv'
  BY <1>14 DEF MarkFailed, Failing, Forget, NoDocs,
    FlowInv, FlowTypeOK, TypeOK, Steps, ListInv, Underway, Covers, EmptyOnlyIfWithdrawn
<1>15. ASSUME NEW e \in Editions, ScriptSingle(e) PROVE ListInv'
  BY <1>15 DEF ScriptSingle, ScriptStart,
    FlowInv, FlowTypeOK, TypeOK, Steps, ListInv, Underway, Covers, EmptyOnlyIfWithdrawn
<1>16. ASSUME NEW e \in Editions, ScriptBulk(e) PROVE ListInv'
  BY <1>16 DEF ScriptBulk, ScriptStart, ScriptLetterLists, Serves,
    FlowInv, FlowTypeOK, TypeOK, Steps, ListInv, Underway, Covers, EmptyOnlyIfWithdrawn
<1>17. ASSUME ScriptEnds PROVE ListInv'
  BY <1>17 DEF ScriptEnds, Forget, NoDocs,
    FlowInv, FlowTypeOK, TypeOK, Steps, ListInv, Underway, Covers, EmptyOnlyIfWithdrawn
<1>18. ASSUME Crash /\ Quiet PROVE ListInv'
  BY <1>18 DEF Crash, Forget, NoDocs,
    FlowInv, FlowTypeOK, TypeOK, Steps, ListInv, Underway, Covers, EmptyOnlyIfWithdrawn
<1>19. ASSUME (Publish \/ Withdraw) /\ Quiet PROVE ListInv'
  BY <1>19 DEF Publish, Withdraw,
    FlowInv, FlowTypeOK, TypeOK, Steps, ListInv, Underway, Covers, EmptyOnlyIfWithdrawn
<1>20. ASSUME (CacheExpires \/ Refresh) /\ Quiet PROVE ListInv'
  BY <1>20 DEF CacheExpires, Refresh,
    FlowInv, FlowTypeOK, TypeOK, Steps, ListInv, Underway, Covers, EmptyOnlyIfWithdrawn
<1>21. ASSUME UNCHANGED allVars PROVE ListInv'
  BY <1>21 DEF allVars,
    FlowInv, FlowTypeOK, TypeOK, Steps, ListInv, Underway, Covers, EmptyOnlyIfWithdrawn
<1>. QED
  BY <1>1, <1>2, <1>3, <1>4, <1>5, <1>6, <1>7, <1>8, <1>9, <1>10, <1>11,
     <1>12, <1>13, <1>14, <1>15, <1>16, <1>17, <1>18, <1>19, <1>20, <1>21
  DEF FlowNext, Pipeline, Serve, Await, Script, ScriptDocuments, ScriptDownload,
      ScriptManifest, World, Finished

(* Every step that meets no other keeps the order of the editions. *)
LEMMA AgeStep ==
  FlowInv /\ [FlowNext]_allVars => (~met => AgeInv)'
<1> SUFFICES ASSUME FlowInv, [FlowNext]_allVars PROVE (~met => AgeInv)'
  OBVIOUS
<1> USE ScraperAssumption
        DEF Actors, Editions, vars, dfsVars, jobVars, dirVars, flowVars, FlowSame, Quiet
<1>1. ASSUME NEW t \in Tasks, PostStart(t) \/ PostLost(t) PROVE (~met => AgeInv)'
  <2> SUFFICES ASSUME ~met' PROVE AgeInv'
    OBVIOUS
  <2>1. /\ ~met /\ AgeInv
        /\ \A b \in Actors \ {t} : ~Active(b)
    BY <1>1 DEF PostStart, PostLost, Meets, FlowInv
  <2>2. /\ pc' = [pc EXCEPT ![t] = "queued"]
        /\ edition' = [edition EXCEPT ![t] = CurrentEdition]
        /\ cache' = CurrentEdition
        /\ UNCHANGED <<dfsVars, hash, todo, docs, dirVars, charts>>
    BY <1>1 DEF PostStart, PostLost, StartScrape
  <2>3. CurrentEdition \in 1..site /\ CurrentEdition' = CurrentEdition
    BY <2>2 DEF CurrentEdition, FlowInv, FlowTypeOK, TypeOK
  <2>4. pc[t] = "none" /\ docs[t] = NoDocs
    BY <1>1 DEF PostStart, PostLost, Becomes, FlowInv, FreshInv, ListInv
  <2>5. Alone'
    BY <2>1, <2>2 DEF AgeInv, Alone, Active, FlowInv, FlowTypeOK, TypeOK
  <2>6. \A u \in Tasks : pc'[u] \in Underway => u = t
    BY <2>1, <2>2 DEF Active, Underway, FlowInv, FlowTypeOK, TypeOK
  <2>7. Dated(t)'
    BY <2>1, <2>2, <2>3, <2>4 DEF Dated, AgeInv, NoDocs, FlowInv, FlowTypeOK, TypeOK
  <2>. QED BY <2>1, <2>2, <2>3, <2>5, <2>6, <2>7
           DEF AgeInv, FlowInv, FlowTypeOK, TypeOK
<1>2. ASSUME NEW t \in Tasks, PostFails(t) PROVE (~met => AgeInv)'
  BY <1>2 DEF PostFails, Becomes,
    FlowInv, FlowTypeOK, TypeOK, AgeInv, Alone, Dated, Active, Underway, CurrentEdition
<1>3. ASSUME NEW t \in Tasks, PollCompleted(t) PROVE (~met => AgeInv)'
  BY <1>3 DEF PollCompleted, Becomes, Status,
    FlowInv, FlowTypeOK, TypeOK, AgeInv, Alone, Dated, Active, Underway, CurrentEdition
<1>4. ASSUME NEW t \in Tasks, PollFails(t) \/ GiveUp(t) PROVE (~met => AgeInv)'
  BY <1>4 DEF PollFails, GiveUp, Becomes,
    FlowInv, FlowTypeOK, TypeOK, AgeInv, Alone, Dated, Active, Underway, CurrentEdition
<1>5. ASSUME NEW t \in Tasks, ImportManifest(t) PROVE (~met => AgeInv)'
  <2> SUFFICES ASSUME ~met' PROVE AgeInv'
    OBVIOUS
  <2>1. ~met /\ AgeInv /\ pc[Cli] = "none"
    BY <1>5 DEF FlowInv, AgeInv, Alone, ImportManifest, Freshen
  <2>2. /\ UNCHANGED <<vars, met>>
        /\ \/ charts' = charts
           \/ charts' = [d \in Titles |->
               IF d \in DOMAIN manifest.docs /\ manifest.docs[d] # "error"
               THEN manifest.edition ELSE 0]
    BY <1>5 DEF ImportManifest
  <2>3. CASE charts' = charts
    BY <2>1, <2>2, <2>3 DEF AgeInv, Alone, Dated, Active, CurrentEdition
  <2>4. CASE charts' # charts
    <3>1. \A d \in Titles : charts'[d] = 0 \/ charts'[d] = manifest.edition
      BY <2>2, <2>4
    <3>2. manifest.edition \in Nat /\ CurrentEdition \in Nat /\ CurrentEdition' = CurrentEdition
          /\ edition \in [Actors -> Nat] /\ files \in [Titles -> Nat]
      BY <2>2 DEF CurrentEdition, FlowInv, FlowTypeOK, TypeOK
    <3>3. \A t0 \in Tasks : pc[t0] \in Underway => Dated(t0)'
      BY <2>1, <2>2, <3>1, <3>2 DEF AgeInv, Dated
    <3>4. Alone'
      BY <2>1, <2>2 DEF AgeInv, Alone, Active
    <3>. QED BY <2>1, <2>2, <3>1, <3>2, <3>3, <3>4 DEF AgeInv
  <2>. QED BY <2>3, <2>4
<1>6. ASSUME NEW t \in Tasks, LoadCachedAirport(t) /\ Quiet PROVE (~met => AgeInv)'
  BY <1>6 DEF LoadCachedAirport, Goto,
    FlowInv, FlowTypeOK, TypeOK, AgeInv, Alone, Dated, Active, Underway, CurrentEdition
<1>7. ASSUME NEW t \in Tasks, DiscoverLetters(t) /\ Quiet PROVE (~met => AgeInv)'
  BY <1>7 DEF DiscoverLetters, Goto, OnlyPc,
    FlowInv, FlowTypeOK, TypeOK, AgeInv, Alone, Dated, Active, Underway, CurrentEdition
<1>8. ASSUME NEW t \in Tasks, RefreshIndex(t) /\ Quiet PROVE (~met => AgeInv)'
  BY <1>8 DEF RefreshIndex, Goto, LetterLists, Serves,
    FlowInv, FlowTypeOK, TypeOK, AgeInv, Alone, Dated, Active, Underway, CurrentEdition
<1>9. ASSUME NEW a \in Actors, DiscoverDocuments(a) /\ Quiet PROVE (~met => AgeInv)'
  BY <1>9 DEF DiscoverDocuments, Goto, Links, Serves,
    FlowInv, FlowTypeOK, TypeOK, AgeInv, Alone, Dated, Active, Underway, CurrentEdition
<1>10. ASSUME NEW a \in Actors, NEW d \in Titles, NEW outcome \in Outcomes,
            NEW saved \in BOOLEAN, DownloadDocument(a, d, outcome, saved) /\ Quiet
      PROVE  (~met => AgeInv)'
  <2> SUFFICES ASSUME ~met' PROVE AgeInv'
    OBVIOUS
  <2>1. ~met /\ AgeInv /\ pc[Cli] = "none"
    BY <1>10 DEF FlowInv, AgeInv, Alone, ImportManifest, Freshen
  <2>2. /\ a \in Tasks /\ pc[a] = "download" /\ UNCHANGED <<dfsVars, cache, pc, edition, manifest, charts>>
        /\ outcome = "ok" => saved
        /\ \A x \in Titles : files'[x] = IF x = d /\ saved THEN edition[a] ELSE files[x]
        /\ docs' = [docs EXCEPT ![a] = [x \in DOMAIN docs[a] \cup {d} |->
                                    IF x = d THEN outcome ELSE docs[a][x]]]
    <3>1. a \in Tasks
      BY <1>10, <2>1 DEF DownloadDocument
    <3>2. \A x \in Titles : files'[x] = IF x = d /\ saved THEN edition[a] ELSE files[x]
      BY <1>10 DEF DownloadDocument, Saved, FlowInv, FlowTypeOK, TypeOK
    <3>. QED BY <1>10, <3>1, <3>2 DEF DownloadDocument
  <2>3. edition \in [Actors -> Nat] /\ files \in [Titles -> Nat] /\ charts \in [Titles -> Nat]
        /\ manifest.edition \in Nat /\ DOMAIN docs = Actors
    BY DEF FlowInv, FlowTypeOK, TypeOK
  <2>4. Dated(a) /\ \A u \in Tasks : pc[u] \in Underway => u = a
    BY <2>1, <2>2 DEF AgeInv, Alone, Active, Underway
  <2>5. Dated(a)'
    BY <2>2, <2>3, <2>4 DEF Dated
  <2>6. Alone' /\ CurrentEdition' = CurrentEdition
    BY <2>1, <2>2 DEF AgeInv, Alone, Active, CurrentEdition
  <2>7. ASSUME NEW x \in Titles, x \in DOMAIN manifest.docs, manifest.docs[x] = "ok"
        PROVE  files'[x] >= manifest.edition /\ files'[x] >= charts[x]
    BY <2>1, <2>2, <2>3, <2>4, <2>7 DEF AgeInv, Dated
  <2>. QED BY <2>1, <2>2, <2>4, <2>5, <2>6, <2>7 DEF AgeInv
<1>11. ASSUME NEW a \in Actors, OpenManifest(a) /\ Quiet PROVE (~met => AgeInv)'
  BY <1>11 DEF OpenManifest, Goto, NoDocs,
    FlowInv, FlowTypeOK, TypeOK, AgeInv, Alone, Dated, Active, Underway, CurrentEdition
<1>12. ASSUME NEW a \in Actors, WriteManifest(a) /\ FlowSame /\ Freshen
      PROVE  (~met => AgeInv)'
  <2> SUFFICES ASSUME ~met' PROVE AgeInv'
    OBVIOUS
  <2>1. ~met /\ AgeInv /\ pc[Cli] = "none"
    BY <1>12 DEF FlowInv, AgeInv, Alone, ImportManifest, Freshen
  <2>2. /\ a \in Tasks /\ pc[a] = "writing" /\ pc' = [pc EXCEPT ![a] = "written"]
        /\ manifest'.edition = edition[a] /\ manifest'.docs = docs[a]
        /\ edition' = [edition EXCEPT ![a] = 0]
        /\ docs' = [docs EXCEPT ![a] = NoDocs]
        /\ UNCHANGED <<dfsVars, cache, files, charts>>
    BY <1>12, <2>1 DEF WriteManifest, Goto
  <2>3. edition \in [Actors -> Nat] /\ files \in [Titles -> Nat] /\ charts \in [Titles -> Nat]
        /\ pc \in [Actors -> Steps] /\ CurrentEdition \in Nat /\ CurrentEdition' = CurrentEdition
    BY <2>2 DEF CurrentEdition, FlowInv, FlowTypeOK, TypeOK
  <2>4. Dated(a) /\ \A u \in Tasks : Active(u) => u = a
    BY <2>1, <2>2 DEF AgeInv, Alone, Active, Underway
  <2>5. Alone' /\ \A u \in Tasks : pc'[u] \notin Underway
    BY <2>1, <2>2, <2>3, <2>4 DEF AgeInv, Alone, Active, Underway
  <2>6. \A u \in Tasks : edition'[u] <= CurrentEdition
    BY <2>1, <2>2, <2>3 DEF AgeInv
  <2>7. ASSUME NEW x \in Titles, x \in DOMAIN docs[a], docs[a][x] = "ok"
        PROVE  files[x] >= edition[a] /\ files[x] >= charts[x]
    BY <2>3, <2>4, <2>7 DEF Dated
  <2>. QED BY <2>1, <2>2, <2>3, <2>5, <2>6, <2>7 DEF AgeInv
<1>13. ASSUME NEW t \in Tasks, MarkCompleted(t) /\ Quiet PROVE (~met => AgeInv)'
  <2> SUFFICES ASSUME ~met' PROVE AgeInv'
    OBVIOUS
  <2>1. ~met /\ AgeInv /\ pc[Cli] = "none"
    BY <1>13 DEF FlowInv, AgeInv, Alone, ImportManifest, Freshen
  <2>2. /\ pc'[t] \in {"completed", "failed"} /\ \A u \in Actors \ {t} : pc'[u] = pc[u]
        /\ edition' = [u \in Actors |-> IF u = t THEN 0 ELSE edition[u]]
        /\ \A u \in Actors \ {t} : docs'[u] = docs[u]
        /\ UNCHANGED <<dfsVars, cache, files, manifest, charts>>
    BY <1>13 DEF MarkCompleted, MarkFailed, Goto, Forget, FlowInv, FlowTypeOK, TypeOK
  <2>3. edition \in [Actors -> Nat] /\ CurrentEdition \in Nat /\ CurrentEdition' = CurrentEdition
    BY <2>2 DEF CurrentEdition, FlowInv, FlowTypeOK, TypeOK
  <2>4. Alone'
    BY <2>1, <2>2 DEF AgeInv, Alone, Active
  <2>5. \A u \in Tasks : pc'[u] \in Underway => Dated(u)'
    BY <2>1, <2>2 DEF AgeInv, Dated, Underway
  <2>6. \A u \in Tasks : edition'[u] <= CurrentEdition
    BY <2>1, <2>2, <2>3 DEF AgeInv
  <2>. QED BY <2>1, <2>2, <2>3, <2>4, <2>5, <2>6 DEF AgeInv
<1>14. ASSUME NEW t \in Tasks, MarkFailed(t) /\ Quiet PROVE (~met => AgeInv)'
  <2> SUFFICES ASSUME ~met' PROVE AgeInv'
    OBVIOUS
  <2>1. ~met /\ AgeInv /\ pc[Cli] = "none"
    BY <1>14 DEF FlowInv, AgeInv, Alone, ImportManifest, Freshen
  <2>2. /\ pc'[t] \in {"completed", "failed"} /\ \A u \in Actors \ {t} : pc'[u] = pc[u]
        /\ edition' = [u \in Actors |-> IF u = t THEN 0 ELSE edition[u]]
        /\ \A u \in Actors \ {t} : docs'[u] = docs[u]
        /\ UNCHANGED <<dfsVars, cache, files, manifest, charts>>
    BY <1>14 DEF MarkCompleted, MarkFailed, Goto, Forget, FlowInv, FlowTypeOK, TypeOK
  <2>3. edition \in [Actors -> Nat] /\ CurrentEdition \in Nat /\ CurrentEdition' = CurrentEdition
    BY <2>2 DEF CurrentEdition, FlowInv, FlowTypeOK, TypeOK
  <2>4. Alone'
    BY <2>1, <2>2 DEF AgeInv, Alone, Active
  <2>5. \A u \in Tasks : pc'[u] \in Underway => Dated(u)'
    BY <2>1, <2>2 DEF AgeInv, Dated, Underway
  <2>6. \A u \in Tasks : edition'[u] <= CurrentEdition
    BY <2>1, <2>2, <2>3 DEF AgeInv
  <2>. QED BY <2>1, <2>2, <2>3, <2>4, <2>5, <2>6 DEF AgeInv
<1>15. ASSUME NEW e \in Editions, ScriptSingle(e) PROVE (~met => AgeInv)'
  BY <1>15 DEF ScriptSingle, ScriptStart,
    FlowInv, FlowTypeOK, TypeOK, AgeInv, Alone, Dated, Active, Underway, CurrentEdition
<1>16. ASSUME NEW e \in Editions, ScriptBulk(e) PROVE (~met => AgeInv)'
  BY <1>16 DEF ScriptBulk, ScriptStart, ScriptLetterLists, Serves,
    FlowInv, FlowTypeOK, TypeOK, AgeInv, Alone, Dated, Active, Underway, CurrentEdition
<1>17. ASSUME ScriptEnds PROVE (~met => AgeInv)'
  BY <1>17 DEF ScriptEnds, Forget, NoDocs,
    FlowInv, FlowTypeOK, TypeOK, AgeInv, Alone, Dated, Active, Underway, CurrentEdition
<1>18. ASSUME Crash /\ Quiet PROVE (~met => AgeInv)'
  BY <1>18 DEF Crash, Forget, NoDocs,
    FlowInv, FlowTypeOK, TypeOK, AgeInv, Alone, Dated, Active, Underway, CurrentEdition
<1>19. ASSUME (Publish \/ Withdraw) /\ Quiet PROVE (~met => AgeInv)'
  BY <1>19 DEF Publish, Withdraw,
    FlowInv, FlowTypeOK, TypeOK, AgeInv, Alone, Dated, Active, Underway, CurrentEdition
<1>20. ASSUME (CacheExpires \/ Refresh) /\ Quiet PROVE (~met => AgeInv)'
  BY <1>20 DEF CacheExpires, Refresh,
    FlowInv, FlowTypeOK, TypeOK, AgeInv, Alone, Dated, Active, Underway, CurrentEdition
<1>21. ASSUME UNCHANGED allVars PROVE (~met => AgeInv)'
  BY <1>21 DEF allVars,
    FlowInv, FlowTypeOK, TypeOK, AgeInv, Alone, Dated, Active, Underway, CurrentEdition
<1>. QED
  BY <1>1, <1>2, <1>3, <1>4, <1>5, <1>6, <1>7, <1>8, <1>9, <1>10, <1>11,
     <1>12, <1>13, <1>14, <1>15, <1>16, <1>17, <1>18, <1>19, <1>20, <1>21
  DEF FlowNext, Pipeline, Serve, Await, Script, ScriptDocuments, ScriptDownload,
      ScriptManifest, World, Finished

\* At first there are no jobs, files or charts.
LEMMA FlowStart == FlowInit => FlowInv
<1> SUFFICES ASSUME FlowInit PROVE FlowInv
  OBVIOUS
<1> USE ScraperAssumption DEF FlowInit, Init
<1>1. FlowTypeOK /\ DOMAIN docs = Actors
  <2>1. TypeOK
    <3>1. site \in Editions /\ oldest \in 1..site /\ cache \in 0..site
      BY DEF Editions
    <3>2. \A a \in Actors : docs[a] = NoDocs /\ DOMAIN docs[a] = {}
      BY DEF NoDocs
    <3>3. DOMAIN manifest.docs = {}
      BY DEF NoDocs
    <3>. QED BY <3>1, <3>2, <3>3 DEF TypeOK, Steps
  <2>2. 0 \in 0..LastEdition
    OBVIOUS
  <2>3. wait \in [Tasks -> {"idle", "waiting", "scraped", "imported", "failed"}]
    OBVIOUS
  <2>4. /\ charts \in [Titles -> 0..LastEdition] /\ fresh \in [Tasks -> BOOLEAN]
        /\ met \in BOOLEAN /\ DOMAIN docs = Actors
    BY <2>2
  <2>. QED BY <2>1, <2>3, <2>4 DEF FlowTypeOK
<1>2. FreshInv /\ ListInv
  BY DEF FreshInv, ListInv, Underway, EmptyOnlyIfWithdrawn, Actors
<1>3. AgeInv
  BY DEF AgeInv, Alone, Active, Underway, CurrentEdition, NoDocs, Actors
<1>. QED BY <1>1, <1>2, <1>3 DEF FlowInv

\* Every step keeps the invariant.
LEMMA FlowStep == FlowInv /\ [FlowNext]_allVars => FlowInv'
BY TypeStep, FreshStep, ListStep, AgeStep DEF FlowInv

-----------------------------------------------------------------------------
(* The theorems.                                                           *)

\* Editions, hashes, files, charts and states of jobs keep their types.
THEOREM FlowTypeCorrect == FlowSpec => []FlowTypeOK
<1>1. FlowInv => FlowTypeOK
  BY DEF FlowInv
<1>. QED BY <1>1, FlowStart, FlowStep, PTL DEF FlowSpec

\* A pipeline imports a manifest written after it asked for the scrape.
THEOREM FreshManifestCorrect == FlowSpec => []FreshManifest
<1>1. FlowInv => FreshManifest
  BY DEF FlowInv, FreshInv, FreshManifest
<1>. QED BY <1>1, FlowStart, FlowStep, PTL DEF FlowSpec

\* A manifest of the service lists the documents of its edition, or nothing
\* after DFS has withdrawn it.
THEOREM EmptyOnlyIfWithdrawnCorrect == FlowSpec => []EmptyOnlyIfWithdrawn
<1>1. FlowInv => EmptyOnlyIfWithdrawn
  BY DEF FlowInv, ListInv
<1>. QED BY <1>1, FlowStart, FlowStep, PTL DEF FlowSpec

\* While scrapes do not overlap, an image is at least of the edition its chart
\* was imported with.
THEOREM ImageNotOlderCorrect == FlowSpec => []ImageNotOlder
<1>1. FlowInv => ImageNotOlder
  BY DEF FlowInv, AgeInv, ImageNotOlder
<1>. QED BY <1>1, FlowStart, FlowStep, PTL DEF FlowSpec
=============================================================================
