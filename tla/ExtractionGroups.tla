--------------------------- MODULE ExtractionGroups --------------------------
(***************************************************************************)
(* One field group of an extraction job: the runways (RunwayConsensus),    *)
(* the scalars or the frequencies (FieldConsensus), or a group that is     *)
(* only looked at (ProviderCalls).  _run_pipeline runs them one after the  *)
(* other and commits each; they share nothing but the usage rows, so each  *)
(* is looked at alone.                                                     *)
(***************************************************************************)
EXTENDS RunwayConsensus, FieldConsensus, ProviderCalls

GroupsInit ==
  /\ Init /\ FieldInit /\ CallsInit
  /\ \/ group \in {"geo", "frequencies"} /\ unasked = 0
     \/ group = "obstacles" /\ left = 0
     \/ group = "runways" /\ unasked = 0 /\ left = 0

GroupsNext ==
  \/ group = "runways" /\ Next /\ UNCHANGED <<fieldVars, callVars>>
  \/ group \in {"geo", "frequencies"} /\ FieldNext
       /\ UNCHANGED <<vars, callVars>>
  \/ group = "obstacles" /\ CallStep /\ UNCHANGED <<vars, fieldVars>>

GroupsSpec == GroupsInit /\ [][GroupsNext]_<<vars, fieldVars, callVars>>
=============================================================================
