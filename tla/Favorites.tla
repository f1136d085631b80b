----------------------------- MODULE Favorites -----------------------------
(***************************************************************************)
(* The favorites of one device: the table behind the gateway's endpoints   *)
(* and the store of each open page (browser tab) of the device.  A page    *)
(* loads the list once, on the first use of the hook; a toggle changes the *)
(* page at once and sends a request, and a request that fails is rolled    *)
(* back.  Requests run in the thread pool of the gateway, in any order and *)
(* side by side; their answers arrive in any order or not at all.          *)
(***************************************************************************)
EXTENDS Integers, FiniteSets

CONSTANTS
  Pages,       \* open pages that share localStorage, and so a device id
  Icaos,       \* aerodromes, by normalized code
  MaxCalls,    \* bound on the toggles whose requests are under way
  MaxFaults    \* bound on requests and answers that get lost

ASSUME FavoritesAssumption == MaxCalls \in Nat /\ MaxFaults \in Nat

VARIABLES
  server,  \* the rows of the device in the table favorites
  icaos,   \* state.icaos of a page
  load,    \* the initial load of a page: where it stands and what it read
  calls,   \* the requests of toggles, by number
  faults,  \* requests and answers lost so far
  unsure   \* history: the aerodromes a page need not agree on with the server

vars == <<server, icaos, load, calls, faults, unsure>>

\* "committed", "found": between the two statements of the endpoint.
\* "refused": not carried out; "lost": carried out, the answer lost; "raised":
\* the endpoint raised after its commit.
Failed    == {"refused", "lost", "raised"}
CallSteps == {"sent", "committed", "found", "done"} \cup Failed

TypeOK ==
  /\ server \subseteq Icaos
  /\ icaos \in [Pages -> SUBSET Icaos]
  /\ load \in [Pages -> [at : {"none", "sent", "read", "loaded", "failed"},
                         list : SUBSET Icaos]]
  /\ DOMAIN calls \subseteq 1..MaxCalls
  /\ \A c \in DOMAIN calls :
       calls[c] \in [page : Pages, icao : Icaos, add : BOOLEAN,
                     at : CallSteps, clean : BOOLEAN]
  /\ faults \in 0..MaxFaults
  /\ unsure \in [Pages -> SUBSET Icaos]

Init ==
  /\ server \in SUBSET Icaos
  /\ icaos = [p \in Pages |-> {}]
  /\ load = [p \in Pages |-> [at |-> "none", list |-> {}]]
  /\ calls = [c \in {} |-> {}]
  /\ faults = 0
  /\ unsure = [p \in Pages |-> {}]

-----------------------------------------------------------------------------
(* The initial load.                                                       *)

LoadTo(p, from, next) == load[p].at = from /\ load' = [load EXCEPT ![p] = next]

\* loadFavorites, once in the life of the page.
LoadStart(p) ==
  /\ LoadTo(p, "none", [at |-> "sent", list |-> {}])
  /\ unsure' = [unsure EXCEPT ![p] = @ \cup {calls[c].icao : c \in DOMAIN calls}]
  /\ UNCHANGED <<server, icaos, calls, faults>>

ListFavorites(p) ==
  /\ LoadTo(p, "sent", [at |-> "read", list |-> server])
  /\ UNCHANGED <<server, icaos, calls, faults, unsure>>

\* The answer replaces the set.
Loaded(p) ==
  /\ LoadTo(p, "read", [at |-> "loaded", list |-> {}])
  /\ icaos' = [icaos EXCEPT ![p] = load[p].list]
  /\ UNCHANGED <<server, calls, faults, unsure>>

Fault == faults < MaxFaults /\ faults' = faults + 1

\* The set stays as it is, and the page does not ask again.
LoadFails(p) ==
  /\ Fault /\ load[p].at \in {"sent", "read"}
  /\ load' = [load EXCEPT ![p] = [at |-> "failed", list |-> {}]]
  /\ UNCHANGED <<server, icaos, calls, unsure>>

-----------------------------------------------------------------------------
(* A toggle, up to its request.                                            *)

InFlight(i) == {c \in DOMAIN calls : calls[c].icao = i}

Flip(set, i) == IF i \in set THEN set \ {i} ELSE set \cup {i}

Loading(p) == load[p].at \in {"none", "sent", "read"}

\* Every other page that has asked for its list is left behind, and so is
\* this one if it has not got its own, or if the aerodrome has a request
\* under way.
LeftBehind(p, i) ==
  [q \in Pages |->
     IF \/ q # p /\ load[q].at # "none"
        \/ q = p /\ Loading(p)
        \/ InFlight(i) # {}
     THEN unsure[q] \cup {i} ELSE unsure[q]]

Toggle(p, i) ==
  \E c \in (1..MaxCalls) \ DOMAIN calls :
    /\ \A d \in 1..(c - 1) : d \in DOMAIN calls
    /\ LET clean == ~Loading(p) /\ InFlight(i) = {}
           call == [page |-> p, icao |-> i, add |-> i \notin icaos[p],
                    at |-> "sent", clean |-> clean]
       IN calls' = [d \in DOMAIN calls \cup {c} |->
                      IF d = c THEN call
                      ELSE [calls[d] EXCEPT !.clean = @ /\ calls[d].icao # i]]
    /\ icaos' = [icaos EXCEPT ![p] = Flip(@, i)]
    /\ unsure' = LeftBehind(p, i)
    /\ UNCHANGED <<server, load, faults>>

-----------------------------------------------------------------------------
(* The endpoints.                                                          *)

Reaches(c, from, to) ==
  /\ c \in DOMAIN calls /\ calls[c].at = from
  /\ calls' = [calls EXCEPT ![c].at = to]

\* Mutant: a plain INSERT, which a row that is there refuses.
InsertStrictly(c) ==
  /\ Reaches(c, "sent", IF calls[c].icao \in server THEN "raised" ELSE "committed")
  /\ server' = server \cup {calls[c].icao}

\* INSERT ... ON CONFLICT DO NOTHING, and COMMIT.
Insert(c) ==
  /\ Reaches(c, "sent", "committed")
  /\ server' = server \cup {calls[c].icao}

AddFavorite(c) ==
  /\ c \in DOMAIN calls /\ calls[c].add
  /\ Insert(c)
  /\ UNCHANGED <<icaos, load, faults, unsure>>

\* scalar_one raises if the row is gone again.
SelectAdded(c) ==
  /\ c \in DOMAIN calls
  /\ Reaches(c, "committed", IF calls[c].icao \in server THEN "done" ELSE "raised")
  /\ UNCHANGED <<server, icaos, load, faults, unsure>>

GetRemoved(c) ==
  /\ c \in DOMAIN calls /\ ~calls[c].add
  /\ Reaches(c, "sent", IF calls[c].icao \in server THEN "found" ELSE "done")
  /\ UNCHANGED <<server, icaos, load, faults, unsure>>

\* A row that another request has deleted in between is no error.
DeleteRemoved(c) ==
  /\ Reaches(c, "found", "done")
  /\ server' = server \ {calls[c].icao}
  /\ UNCHANGED <<icaos, load, faults, unsure>>

CallRefused(c) ==
  /\ Fault /\ Reaches(c, "sent", "refused")
  /\ UNCHANGED <<server, icaos, load, unsure>>

AnswerLost(c) ==
  /\ Fault /\ Reaches(c, "done", "lost")
  /\ UNCHANGED <<server, icaos, load, unsure>>

-----------------------------------------------------------------------------
(* A toggle, from the answer on.                                           *)

\* Mutant: the page forgets every toggle whose request is under way.
RolledBackAll(c) ==
  LET page == calls[c].page
      own == {calls[d].icao : d \in {e \in DOMAIN calls : calls[e].page = page}}
  IN [icaos EXCEPT ![page] = (@ \ own) \cup (own \ @)]

\* The aerodrome goes back to what it was, in the set as it is now.
RolledBack(c) ==
  [icaos EXCEPT ![calls[c].page] =
     IF calls[c].add THEN @ \ {calls[c].icao} ELSE @ \cup {calls[c].icao}]

Answered(c) ==
  calls' = [d \in DOMAIN calls \ {c} |-> calls[d]]

\* A toggle nothing interfered with puts the page and the server in step.
ToggleDone(c) ==
  /\ c \in DOMAIN calls /\ calls[c].at = "done"
  /\ Answered(c)
  /\ unsure' = [unsure EXCEPT ![calls[c].page] =
                  IF calls[c].clean THEN @ \ {calls[c].icao} ELSE @]
  /\ UNCHANGED <<server, icaos, load, faults>>

\* The page cannot tell whether the table has taken the request.
ToggleFails(c) ==
  /\ c \in DOMAIN calls /\ calls[c].at \in Failed
  /\ Answered(c)
  /\ icaos' = RolledBack(c)
  /\ unsure' = [unsure EXCEPT ![calls[c].page] =
                  IF calls[c].at = "refused" THEN @ ELSE @ \cup {calls[c].icao}]
  /\ UNCHANGED <<server, load, faults>>

-----------------------------------------------------------------------------

Next ==
  \/ \E p \in Pages : \/ LoadStart(p) \/ ListFavorites(p) \/ Loaded(p)
                      \/ LoadFails(p)
                      \/ \E i \in Icaos : Toggle(p, i)
  \/ \E c \in DOMAIN calls :
       \/ AddFavorite(c) \/ SelectAdded(c)
       \/ GetRemoved(c) \/ DeleteRemoved(c)
       \/ CallRefused(c) \/ AnswerLost(c) \/ ToggleDone(c) \/ ToggleFails(c)

Spec == Init /\ [][Next]_vars

-----------------------------------------------------------------------------
(* Properties.                                                             *)

\* A page that has loaded shows an aerodrome as a favorite if and only if
\* the server has it as one, once its requests are answered: unless two
\* requests of the aerodrome overlapped (also one with the load), another
\* page changed it, or an answer was lost after the request was carried out.
\* One undisturbed toggle that is answered sets it right again.
SettledPageAgrees ==
  \A p \in Pages : load[p].at = "loaded" =>
    \A i \in Icaos \ unsure[p] :
      InFlight(i) = {} => (i \in icaos[p] <=> i \in server)

\* The endpoint raises only if another request of the same aerodrome came
\* between its statements: adding a favorite twice is no error.
RaisesOnlyIfOverlapping ==
  \A c \in DOMAIN calls : calls[c].at = "raised" => ~calls[c].clean
=============================================================================
