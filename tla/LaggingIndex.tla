---------------------------- MODULE LaggingIndex ----------------------------
(***************************************************************************)
(* What the search index promises about each aerodrome: the document it    *)
(* holds is a version that the aerodrome had, and as long as it holds one  *)
(* it moves only to later versions.  It may lag behind without bound.      *)
(***************************************************************************)
EXTENDS Naturals

CONSTANT Icaos

VARIABLES last,    \* the number of the last version an aerodrome had
          index    \* the version the index holds, 0 for no document

vars == <<last, index>>

Init == last \in [Icaos -> {0, 1}] /\ index = [a \in Icaos |-> 0]

\* The aerodrome changes, or it is created anew.
Change(a) == last' = [last EXCEPT ![a] = @ + 1] /\ UNCHANGED index

\* One or many documents are replaced by later ones or removed.
Refresh ==
  /\ index' \in [Icaos -> Nat]
  /\ \A a \in Icaos :
        index'[a] = 0 \/ (index[a] <= index'[a] /\ index'[a] <= last[a])
  /\ UNCHANGED last

Next == (\E a \in Icaos : Change(a)) \/ Refresh

Spec == Init /\ [][Next]_vars
=============================================================================
