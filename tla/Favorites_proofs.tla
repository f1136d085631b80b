-------------------------- MODULE Favorites_proofs --------------------------
(***************************************************************************)
(* A page that has loaded its favorites agrees with the server on every    *)
(* aerodrome that history has not excused (SettledPageAgrees), for any     *)
(* number of pages, aerodromes, requests and faults.  The invariant speaks *)
(* of the times in between: a request nothing interfered with is the only  *)
(* one of its aerodrome, so that its two statements on the server act as   *)
(* one, and it moves the server to where the page already is.              *)
(***************************************************************************)
EXTENDS Favorites, TLAPS

\* A request nothing interferes with, at each of its steps.
Undisturbed(c) ==
  LET call == calls[c]
      p == call.page
      i == call.icao
  IN /\ InFlight(i) = {c}
     /\ load[p].at \in {"loaded", "failed"}
     /\ call.add <=> i \in icaos[p]
     /\ call.at = "committed" => call.add /\ i \in server
     /\ call.at = "found" => ~call.add /\ i \in server
     /\ call.at = "done" => (call.add <=> i \in server)
     /\ call.at # "raised"

\* A page and an aerodrome that it must agree on with the server.
Tracks(p, i) ==
  /\ \A c \in InFlight(i) : calls[c].clean /\ calls[c].page = p
  /\ load[p].at = "read" => (i \in load[p].list <=> i \in server)
  /\ load[p].at = "loaded" /\ InFlight(i) = {} =>
       (i \in icaos[p] <=> i \in server)
  /\ load[p].at = "loaded" =>
       \A c \in InFlight(i) : calls[c].at \in {"sent", "refused"} =>
         (calls[c].add <=> i \notin server)

\* The invariant: requests are undisturbed unless history excuses them, and so
\* are the aerodromes of a page.
FavInv ==
  /\ TypeOK
  /\ \A c \in DOMAIN calls : calls[c].clean => Undisturbed(c)
  /\ \A p \in Pages : load[p].at # "none" =>
       \A i \in Icaos \ unsure[p] : Tracks(p, i)

-----------------------------------------------------------------------------
(* The load of a page.                                                     *)

\* No step of a page's load disturbs what is agreed.
LEMMA LoadFollows ==
  ASSUME FavInv, NEW p \in Pages,
         LoadStart(p) \/ ListFavorites(p) \/ Loaded(p) \/ LoadFails(p)
  PROVE  FavInv'
<1> USE DEF FavInv, LoadTo
<1>0. /\ calls' = calls /\ server' = server
      /\ \A i : InFlight(i)' = InFlight(i)
  BY DEF LoadStart, ListFavorites, Loaded, LoadFails, InFlight
<1>1. TypeOK'
  BY FavoritesAssumption DEF TypeOK, LoadStart, ListFavorites, Loaded, LoadFails, Fault
<1>2. load[p].at \in {"none", "sent", "read"}
  BY DEF LoadStart, ListFavorites, Loaded, LoadFails
<1>3. \A q \in Pages \ {p} : load'[q] = load[q] /\ icaos'[q] = icaos[q]
                             /\ unsure'[q] = unsure[q]
  BY DEF TypeOK, LoadStart, ListFavorites, Loaded, LoadFails
<1>4. ASSUME NEW c \in DOMAIN calls, calls[c].clean PROVE Undisturbed(c)'
  <2>1. calls[c].page \in Pages \ {p}
    BY <1>2, <1>4 DEF TypeOK, Undisturbed
  <2>. QED BY <1>0, <1>3, <1>4, <2>1 DEF Undisturbed
<1>5. ASSUME NEW i \in Icaos, i \notin unsure'[p] PROVE Tracks(p, i)'
  <2>1. CASE LoadStart(p)
    <3>1. InFlight(i) = {} /\ load'[p].at = "sent"
      BY <1>5, <2>1 DEF TypeOK, LoadStart, InFlight
    <3>. QED BY <1>0, <3>1 DEF Tracks
  <2>2. CASE ListFavorites(p)
    <3>1. load'[p] = [at |-> "read", list |-> server] /\ Tracks(p, i)
      BY <1>5, <2>2 DEF TypeOK, ListFavorites
    <3>. QED BY <1>0, <3>1 DEF Tracks
  <2>3. CASE Loaded(p)
    <3>1. /\ load'[p].at = "loaded" /\ load[p].at = "read" /\ icaos'[p] = load[p].list
          /\ Tracks(p, i)
      BY <1>5, <2>3 DEF TypeOK, Loaded
    <3>2. InFlight(i) = {}
      <4> SUFFICES ASSUME NEW c \in InFlight(i) PROVE FALSE
        OBVIOUS
      <4>. QED BY <3>1 DEF Tracks, InFlight, Undisturbed
    <3>. QED BY <1>0, <3>1, <3>2 DEF Tracks
  <2>4. CASE LoadFails(p)
    <3>1. load'[p].at = "failed" /\ Tracks(p, i)
      BY <1>5, <2>4 DEF TypeOK, LoadFails
    <3>. QED BY <1>0, <3>1 DEF Tracks
  <2>. QED BY <2>1, <2>2, <2>3, <2>4
<1>6. ASSUME NEW q \in Pages \ {p}, load'[q].at # "none", NEW i \in Icaos \ unsure'[q]
      PROVE  Tracks(q, i)'
  BY <1>0, <1>3, <1>6 DEF Tracks
<1>. QED BY <1>0, <1>1, <1>4, <1>5, <1>6

-----------------------------------------------------------------------------
(* The steps of a request.                                                 *)

\* A request that moves on stays under way.
LEMMA InFlightSame ==
  ASSUME DOMAIN calls' = DOMAIN calls,
         \A d \in DOMAIN calls : calls'[d].icao = calls[d].icao,
         NEW i
  PROVE  InFlight(i)' = InFlight(i)
BY DEF InFlight

\* What a step of a request changes: its place, and nothing else.
LEMMA ReachesMoves ==
  ASSUME TypeOK, NEW c \in DOMAIN calls, NEW from, NEW to \in CallSteps,
         Reaches(c, from, to)
  PROVE  /\ DOMAIN calls' = DOMAIN calls
         /\ \A d \in DOMAIN calls :
              /\ d # c => calls'[d] = calls[d]
              /\ calls'[d] \in [page : Pages, icao : Icaos, add : BOOLEAN,
                                at : CallSteps, clean : BOOLEAN]
         /\ calls'[c] = [calls[c] EXCEPT !.at = to]
         /\ \A i : InFlight(i)' = InFlight(i)
<1>1. /\ DOMAIN calls' = DOMAIN calls
      /\ \A d \in DOMAIN calls : d # c => calls'[d] = calls[d]
      /\ calls'[c] = [calls[c] EXCEPT !.at = to]
  BY DEF Reaches
<1>2. calls[c] \in [page : Pages, icao : Icaos, add : BOOLEAN,
                    at : CallSteps, clean : BOOLEAN]
  BY DEF TypeOK
<1>3. \A d \in DOMAIN calls : calls'[d].icao = calls[d].icao
  BY <1>1, <1>2
<1>. QED BY <1>1, <1>2, <1>3, InFlightSame DEF TypeOK

\* What a step of an undisturbed request must leave behind.
LEMMA CallMoves ==
  ASSUME FavInv, NEW c \in DOMAIN calls, NEW from, NEW to \in CallSteps,
         Reaches(c, from, to), UNCHANGED <<icaos, load, unsure>>,
         faults' \in 0..MaxFaults, server' \subseteq Icaos,
         \A j \in Icaos : j # calls[c].icao => (j \in server' <=> j \in server),
         calls[c].clean =>
           /\ to = "committed" => calls[c].add /\ calls[c].icao \in server'
           /\ to = "found" => ~calls[c].add /\ calls[c].icao \in server'
           /\ to = "done" => (calls[c].add <=> calls[c].icao \in server')
           /\ to # "raised",
         to # "sent",
         to = "refused" => from = "sent" /\ server' = server
  PROVE  FavInv'
<1> USE DEF FavInv
<1> DEFINE i == calls[c].icao
<1>0. calls[c] \in [page : Pages, icao : Icaos, add : BOOLEAN,
                    at : CallSteps, clean : BOOLEAN]
  BY DEF TypeOK
<1>1. /\ DOMAIN calls' = DOMAIN calls
      /\ \A d \in DOMAIN calls :
           /\ d # c => calls'[d] = calls[d]
           /\ calls'[d] \in [page : Pages, icao : Icaos, add : BOOLEAN,
                             at : CallSteps, clean : BOOLEAN]
      /\ calls'[c] = [calls[c] EXCEPT !.at = to]
      /\ \A j : InFlight(j)' = InFlight(j)
  BY ReachesMoves
<1>2. TypeOK'
  BY <1>1 DEF TypeOK
<1>3. /\ calls'[c].page = calls[c].page /\ calls'[c].icao = i
      /\ calls'[c].add = calls[c].add /\ calls'[c].clean = calls[c].clean
      /\ calls'[c].at = to /\ calls[c].at = from /\ i \in Icaos
  BY <1>0, <1>1 DEF Reaches
<1>4. ASSUME NEW d \in DOMAIN calls, calls'[d].clean PROVE Undisturbed(d)'
  <2>1. CASE d = c
    <3>1. Undisturbed(c)
      BY <1>3, <1>4, <2>1
    <3>. QED BY <1>1, <1>3, <1>4, <2>1, <3>1 DEF Undisturbed
  <2>2. CASE d # c
    <3>1. calls'[d] = calls[d] /\ Undisturbed(d) /\ calls[d].icao \in Icaos
      BY <1>1, <1>4, <2>2 DEF TypeOK
    <3>2. calls[d].icao # i
      BY <2>2, <3>1 DEF Undisturbed, InFlight
    <3>. QED BY <1>1, <3>1, <3>2 DEF Undisturbed
  <2>. QED BY <2>1, <2>2
<1>5. ASSUME NEW p \in Pages, load'[p].at # "none", NEW j \in Icaos \ unsure'[p]
      PROVE  Tracks(p, j)'
  <2>1. Tracks(p, j)
    BY <1>5
  <2>2. CASE j = i
    <3>1. c \in InFlight(j) /\ calls[c].clean
      BY <2>1, <2>2 DEF Tracks, InFlight
    <3>2. InFlight(j) = {c} /\ load[p].at \in {"loaded", "failed"}
      BY <2>1, <2>2, <3>1 DEF Undisturbed, Tracks
    <3>. QED BY <1>1, <1>3, <2>1, <3>1, <3>2 DEF Tracks
  <2>3. CASE j # i
    <3>1. c \notin InFlight(j)
      BY <2>3 DEF InFlight
    <3>2. \A d \in InFlight(j) : calls'[d] = calls[d]
      BY <1>1, <3>1 DEF InFlight
    <3>. QED BY <1>1, <2>1, <2>3, <3>2 DEF Tracks
  <2>. QED BY <2>2, <2>3
<1>. QED BY <1>1, <1>2, <1>4, <1>5

\* The statements of the endpoints on the server.
LEMMA EndpointFollows ==
  ASSUME FavInv, NEW c \in DOMAIN calls,
         \/ AddFavorite(c) \/ SelectAdded(c) \/ GetRemoved(c)
         \/ DeleteRemoved(c) \/ CallRefused(c) \/ AnswerLost(c)
  PROVE  FavInv'
<1> USE DEF CallSteps, Failed
<1>0. /\ calls[c] \in [page : Pages, icao : Icaos, add : BOOLEAN,
                       at : CallSteps, clean : BOOLEAN]
      /\ server \subseteq Icaos /\ faults \in 0..MaxFaults
      /\ calls[c].clean => Undisturbed(c)
  BY DEF FavInv, TypeOK
<1>1. CASE AddFavorite(c)
  <2>1. /\ Reaches(c, "sent", "committed") /\ calls[c].add
        /\ server' = server \cup {calls[c].icao}
        /\ UNCHANGED <<icaos, load, faults, unsure>>
    BY <1>1 DEF AddFavorite, Insert
  <2>. QED BY <1>0, <2>1, CallMoves
<1>2. CASE SelectAdded(c)
  <2> DEFINE to == IF calls[c].icao \in server THEN "done" ELSE "raised"
  <2>1. /\ Reaches(c, "committed", to) /\ calls[c].at = "committed"
        /\ UNCHANGED <<server, icaos, load, faults, unsure>>
    BY <1>2 DEF SelectAdded, Reaches
  <2>. QED BY <1>0, <2>1, CallMoves DEF Undisturbed
<1>3. CASE GetRemoved(c)
  <2> DEFINE to == IF calls[c].icao \in server THEN "found" ELSE "done"
  <2>1. /\ Reaches(c, "sent", to) /\ ~calls[c].add
        /\ UNCHANGED <<server, icaos, load, faults, unsure>>
    BY <1>3 DEF GetRemoved
  <2>. QED BY <1>0, <2>1, CallMoves
<1>4. CASE DeleteRemoved(c)
  <2>1. /\ Reaches(c, "found", "done") /\ calls[c].at = "found"
        /\ server' = server \ {calls[c].icao}
        /\ UNCHANGED <<icaos, load, faults, unsure>>
    BY <1>4 DEF DeleteRemoved, Reaches
  <2>. QED BY <1>0, <2>1, CallMoves DEF Undisturbed
<1>5. CASE CallRefused(c)
  <2>1. /\ Reaches(c, "sent", "refused") /\ faults' \in 0..MaxFaults
        /\ UNCHANGED <<server, icaos, load, unsure>>
    BY <1>0, <1>5, FavoritesAssumption DEF CallRefused, Fault
  <2>. QED BY <1>0, <2>1, CallMoves
<1>6. CASE AnswerLost(c)
  <2>1. /\ Reaches(c, "done", "lost") /\ faults' \in 0..MaxFaults
        /\ UNCHANGED <<server, icaos, load, unsure>>
    BY <1>0, <1>6, FavoritesAssumption DEF AnswerLost, Fault
  <2>. QED BY <1>0, <2>1, CallMoves
<1>. QED BY <1>1, <1>2, <1>3, <1>4, <1>5, <1>6

-----------------------------------------------------------------------------
(* The two ends of a request: the toggle, and the answer.                  *)

\* A toggle: the request it sends is clean if it is the only one.
LEMMA ToggleFollows ==
  ASSUME FavInv, NEW p \in Pages, NEW i \in Icaos, Toggle(p, i)
  PROVE  FavInv'
<1> USE DEF FavInv
<1>1. PICK c \in (1..MaxCalls) \ DOMAIN calls :
        calls' = [d \in DOMAIN calls \cup {c} |->
                    IF d = c
                    THEN [page |-> p, icao |-> i, add |-> i \notin icaos[p],
                          at |-> "sent",
                          clean |-> ~Loading(p) /\ InFlight(i) = {}]
                    ELSE [calls[d] EXCEPT !.clean = @ /\ calls[d].icao # i]]
  BY DEF Toggle
<1>2. /\ icaos' = [icaos EXCEPT ![p] = Flip(@, i)]
      /\ unsure' = LeftBehind(p, i)
      /\ UNCHANGED <<server, load, faults>>
  BY DEF Toggle
<1>3. /\ DOMAIN calls' = DOMAIN calls \cup {c}
      /\ calls'[c].page = p /\ calls'[c].icao = i /\ calls'[c].at = "sent"
      /\ calls'[c].add = (i \notin icaos[p])
      /\ calls'[c].clean = (~Loading(p) /\ InFlight(i) = {})
      /\ calls'[c] \in [page : Pages, icao : Icaos, add : BOOLEAN,
                        at : CallSteps, clean : BOOLEAN]
  BY <1>1 DEF CallSteps
<1>4. ASSUME NEW d \in DOMAIN calls
      PROVE  /\ calls'[d] \in [page : Pages, icao : Icaos, add : BOOLEAN,
                               at : CallSteps, clean : BOOLEAN]
             /\ calls'[d].page = calls[d].page /\ calls'[d].icao = calls[d].icao
             /\ calls'[d].add = calls[d].add /\ calls'[d].at = calls[d].at
             /\ calls'[d].clean = (calls[d].clean /\ calls[d].icao # i)
  <2>1. d # c /\ calls[d] \in [page : Pages, icao : Icaos, add : BOOLEAN,
                               at : CallSteps, clean : BOOLEAN]
    BY <1>1 DEF TypeOK
  <2>2. calls'[d] = [calls[d] EXCEPT !.clean = @ /\ calls[d].icao # i]
    BY <1>1, <2>1
  <2>. QED BY <2>1, <2>2
<1>5. /\ InFlight(i)' = InFlight(i) \cup {c}
      /\ \A j \in Icaos \ {i} : InFlight(j)' = InFlight(j)
  BY <1>3, <1>4 DEF InFlight
<1>6. /\ icaos' \in [Pages -> SUBSET Icaos]
      /\ \A q \in Pages \ {p} : icaos'[q] = icaos[q]
      /\ \A j \in Icaos \ {i} : j \in icaos'[p] <=> j \in icaos[p]
      /\ i \in icaos'[p] <=> i \notin icaos[p]
  BY <1>2 DEF TypeOK, Flip
<1>7. /\ unsure' \in [Pages -> SUBSET Icaos]
      /\ \A q \in Pages : unsure[q] \subseteq unsure'[q]
      /\ \A q \in Pages : i \notin unsure'[q] /\ load[q].at # "none" =>
           q = p /\ ~Loading(p) /\ InFlight(i) = {}
  BY <1>2 DEF TypeOK, LeftBehind
<1>8. TypeOK'
  BY <1>1, <1>2, <1>3, <1>4, <1>6, <1>7 DEF TypeOK
<1>9. ASSUME NEW d \in DOMAIN calls', calls'[d].clean PROVE Undisturbed(d)'
  <2>1. CASE d = c
    <3>1. ~Loading(p) /\ InFlight(i) = {} /\ load[p].at \in {"loaded", "failed"}
      BY <1>3, <1>9, <2>1 DEF TypeOK, Loading
    <3>. QED BY <1>2, <1>3, <1>5, <1>6, <2>1, <3>1 DEF Undisturbed
  <2>2. CASE d # c
    <3>1. /\ d \in DOMAIN calls /\ calls[d].clean /\ calls[d].icao \in Icaos \ {i}
          /\ calls[d].page \in Pages
      BY <1>3, <1>4, <1>9, <2>2 DEF TypeOK
    <3>2. calls[d].icao \in icaos'[calls[d].page] <=> calls[d].icao \in icaos[calls[d].page]
      BY <1>6, <3>1
    <3>3. Undisturbed(d)
      BY <3>1
    <3>. QED BY <1>2, <1>4, <1>5, <3>1, <3>2, <3>3 DEF Undisturbed
  <2>. QED BY <2>1, <2>2
<1>10. ASSUME NEW q \in Pages, load'[q].at # "none", NEW j \in Icaos \ unsure'[q]
       PROVE  Tracks(q, j)'
  <2>0. load' = load /\ server' = server /\ Tracks(q, j)
    BY <1>2, <1>7, <1>10
  <2>1. CASE j = i
    <3>1. q = p /\ ~Loading(p) /\ InFlight(i) = {}
      BY <1>7, <1>10, <2>0, <2>1
    <3>2. load[p].at # "read" /\ InFlight(i)' = {c} /\ calls'[c].clean
      BY <1>3, <1>5, <3>1 DEF Loading
    <3>3. load[p].at = "loaded" => (i \in icaos[p] <=> i \in server)
      BY <2>0, <2>1, <3>1 DEF Tracks
    <3>. QED BY <1>3, <2>0, <2>1, <3>1, <3>2, <3>3 DEF Tracks
  <2>2. CASE j # i
    <3>1. InFlight(j)' = InFlight(j) /\ (j \in icaos'[q] <=> j \in icaos[q])
      BY <1>5, <1>6, <1>10, <2>2
    <3>2. \A d \in InFlight(j) : d \in DOMAIN calls /\ calls[d].icao = j
      BY DEF InFlight
    <3>. QED BY <1>4, <2>0, <2>2, <3>1, <3>2 DEF Tracks
  <2>. QED BY <2>1, <2>2
<1>. QED BY <1>8, <1>9, <1>10

\* An answer: the page keeps its change, or takes it back.
LEMMA AnswerFollows ==
  ASSUME FavInv, NEW c \in DOMAIN calls, ToggleDone(c) \/ ToggleFails(c)
  PROVE  FavInv'
<1> USE DEF FavInv
<1>i. PICK i \in Icaos : i = calls[c].icao
  BY DEF TypeOK
<1>p. PICK p \in Pages : p = calls[c].page
  BY DEF TypeOK
<1>0. calls[c].add \in BOOLEAN /\ calls[c].clean \in BOOLEAN
  BY DEF TypeOK
<1>1. /\ DOMAIN calls' = DOMAIN calls \ {c}
      /\ \A d \in DOMAIN calls \ {c} : calls'[d] = calls[d]
      /\ UNCHANGED <<server, load, faults>>
  BY DEF ToggleDone, ToggleFails, Answered
<1>2. /\ InFlight(i)' = InFlight(i) \ {c} /\ c \in InFlight(i)
      /\ \A j : j # i => InFlight(j)' = InFlight(j) /\ c \notin InFlight(j)
  BY <1>i, <1>1 DEF InFlight
<1>3. /\ icaos' \in [Pages -> SUBSET Icaos]
      /\ \A q \in Pages, j \in Icaos :
           q # p \/ j # i => (j \in icaos'[q] <=> j \in icaos[q])
  BY <1>i, <1>p, <1>0 DEF TypeOK, ToggleDone, ToggleFails, RolledBack
<1>4. /\ unsure' \in [Pages -> SUBSET Icaos]
      /\ \A q \in Pages, j \in Icaos :
           q # p \/ j # i => (j \in unsure'[q] <=> j \in unsure[q])
  BY <1>i, <1>p, <1>0 DEF TypeOK, ToggleDone, ToggleFails
<1>5. TypeOK'
  BY <1>1, <1>3, <1>4 DEF TypeOK
<1>6. ASSUME NEW d \in DOMAIN calls', calls'[d].clean PROVE Undisturbed(d)'
  <2>1. /\ d \in DOMAIN calls \ {c} /\ calls'[d] = calls[d] /\ Undisturbed(d)
        /\ calls[d].icao \in Icaos /\ calls[d].page \in Pages
    BY <1>1, <1>6 DEF TypeOK
  <2>2. calls[d].icao # i
    BY <1>2, <2>1 DEF Undisturbed
  <2>. QED BY <1>1, <1>2, <1>3, <2>1, <2>2 DEF Undisturbed
<1>7. ASSUME NEW q \in Pages, load'[q].at # "none", NEW j \in Icaos \ unsure'[q]
      PROVE  Tracks(q, j)'
  <2>1. CASE j # i
    <3>1. /\ InFlight(j)' = InFlight(j) /\ Tracks(q, j)
          /\ (j \in icaos'[q] <=> j \in icaos[q])
      BY <1>1, <1>2, <1>3, <1>4, <1>7, <2>1
    <3>2. \A d \in InFlight(j) : calls'[d] = calls[d]
      BY <1>1, <1>2, <2>1 DEF InFlight
    <3>. QED BY <1>1, <3>1, <3>2 DEF Tracks
  <2>2. CASE j = i /\ j \notin unsure[q]
    <3>1. Tracks(q, j) /\ calls[c].clean /\ q = p
      BY <1>p, <1>1, <1>2, <1>7, <2>2 DEF Tracks
    <3>2. /\ Undisturbed(c) /\ InFlight(j) = {c} /\ InFlight(j)' = {}
          /\ load[q].at \in {"loaded", "failed"}
      BY <1>p, <1>2, <2>2, <3>1 DEF Undisturbed
    <3>3. load[q].at = "loaded" => (j \in icaos'[q] <=> j \in server)
      <4>1. CASE ToggleDone(c)
        BY <1>i, <1>p, <2>2, <3>1, <3>2, <4>1 DEF ToggleDone, Undisturbed
      <4>2. CASE ToggleFails(c)
        <5>1. calls[c].at = "refused"
          BY <1>i, <1>p, <1>0, <1>7, <2>2, <3>1, <4>2 DEF ToggleFails, TypeOK
        <5>2. j \in icaos'[q] <=> ~calls[c].add
          BY <1>i, <1>p, <1>0, <2>2, <3>1, <4>2 DEF ToggleFails, RolledBack, TypeOK
        <5>3. load[q].at = "loaded" => (calls[c].add <=> j \notin server)
          BY <2>2, <3>1, <3>2, <5>1 DEF Tracks
        <5>. QED BY <5>2, <5>3
      <4>. QED BY <4>1, <4>2
    <3>. QED BY <1>1, <3>2, <3>3 DEF Tracks
  <2>3. CASE j = i /\ j \in unsure[q]
    <3>1. /\ ToggleDone(c) /\ calls[c].clean /\ q = p
      BY <1>p, <1>0, <1>7, <2>3 DEF ToggleDone, ToggleFails, TypeOK
    <3>2. /\ Undisturbed(c) /\ InFlight(j)' = {} /\ calls[c].at = "done"
          /\ load[q].at \in {"loaded", "failed"} /\ icaos' = icaos
      BY <1>2, <2>3, <3>1 DEF Undisturbed, ToggleDone
    <3>. QED BY <1>i, <1>p, <1>1, <2>3, <3>1, <3>2 DEF Tracks, Undisturbed
  <2>. QED BY <2>1, <2>2, <2>3
<1>. QED BY <1>5, <1>6, <1>7

-----------------------------------------------------------------------------
(* The theorems.                                                           *)

\* At first no page has loaded, and no request is under way.
LEMMA FavInit == Init => FavInv
<1> SUFFICES ASSUME Init PROVE FavInv
  OBVIOUS
<1>1. DOMAIN calls = {} /\ \A p \in Pages : load[p].at = "none"
  BY DEF Init
<1>2. TypeOK
  BY <1>1, FavoritesAssumption DEF Init, TypeOK
<1>. QED BY <1>1, <1>2 DEF FavInv

\* Every step keeps the invariant.
LEMMA FavStep == FavInv /\ [Next]_vars => FavInv'
<1> SUFFICES ASSUME FavInv, [Next]_vars PROVE FavInv'
  OBVIOUS
<1>1. CASE UNCHANGED vars
  BY <1>1 DEF vars, FavInv, TypeOK, Undisturbed, Tracks, InFlight
<1>. QED
  BY <1>1, LoadFollows, EndpointFollows, ToggleFollows, AnswerFollows DEF Next

\* The table, the sets of the pages and the requests keep their types.
THEOREM FavoritesTypeCorrect == Spec => []TypeOK
BY FavInit, FavStep, PTL DEF Spec, FavInv

\* A page that has loaded shows what the server has, once the requests of an
\* aerodrome are answered, unless requests overlapped, another page came in
\* between or an answer was lost.
THEOREM SettledPageAgreesCorrect == Spec => []SettledPageAgrees
<1>1. FavInv => SettledPageAgrees
  BY DEF FavInv, Tracks, SettledPageAgrees
<1>. QED BY <1>1, FavInit, FavStep, PTL DEF Spec

\* The endpoint that adds a favorite raises only if another request of the
\* aerodrome came between its statements.
THEOREM RaisesOnlyIfOverlappingCorrect == Spec => []RaisesOnlyIfOverlapping
<1>1. FavInv => RaisesOnlyIfOverlapping
  BY DEF FavInv, Undisturbed, RaisesOnlyIfOverlapping
<1>. QED BY <1>1, FavInit, FavStep, PTL DEF Spec
=============================================================================
