---------------------------- MODULE ProviderCalls ----------------------------
(***************************************************************************)
(* The two vision models asked about one chart after the other, as         *)
(* _call_both_providers does, and the rows that the usage tracker writes   *)
(* to ingest.api_usage on the way; here for a field group whose answers    *)
(* are only looked at ("obstacles", "reporting_points").                   *)
(*                                                                         *)
(* A model is asked with the picture as it is on disk.  If it finds the    *)
(* picture too large, it is asked once more with a smaller one.  Whatever  *)
(* else goes wrong takes the chart out, and the second model is not asked. *)
(* An answer is charged when it arrives, before it is parsed.  The price   *)
(* of an answer is one token, so that tokens count answers.                *)
(***************************************************************************)
EXTENDS Integers, Sequences, FiniteSetsExt

CONSTANTS
  Pictures,   \* size on disk, and of the renderings: [edge, bytes, at]
  Ladder,     \* _DOWNSCALE_LADDER, long edges from the largest down
  MaxBytes,   \* DEFAULT_MAX_BYTES
  MaxAudited, \* candidate charts, MAX_CANDIDATES_PER_GROUP at most
  MaxLost     \* bound on the rows that cannot be written (model only)

ASSUME PictureAssumption ==
  /\ Ladder \in Seq(Nat) /\ Ladder # <<>>
  /\ \A i, k \in DOMAIN Ladder : i < k => Ladder[i] > Ladder[k]
  /\ Pictures \subseteq [edge : Nat, bytes : Nat, at : [DOMAIN Ladder -> Nat]]
  /\ MaxBytes \in Nat /\ MaxAudited \in Nat /\ MaxLost \in Nat

VARIABLES
  call,    \* the call that is out, and what it is about
  usage,   \* the rows of a model in ingest.api_usage, and their tokens
  sent,    \* how often a model was called (history)
  billed,  \* how many answers of a model were charged (history)
  twice,   \* calls that failed after they had their row (history)
  lost,    \* rows of a model that could not be written, and their tokens
  unasked, \* candidate charts that are left
  signal   \* both models saw something on a chart

callVars == <<call, usage, sent, billed, twice, lost, unasked, signal>>

\* The order of _build_providers.
Providers == <<"claude", "openai">>
Models    == {"claude", "openai"}
AnswerRow == [answered |-> 1, failed |-> 0, tokens |-> 1]
FailedRow == [answered |-> 0, failed |-> 1, tokens |-> 0]
NoRows    == [answered |-> 0, failed |-> 0, tokens |-> 0]
Plus(u, row) == [x \in DOMAIN u |-> u[x] + row[x]]

NoPicture == [edge |-> 0, bytes |-> 0]
NoCall    == [step |-> "none", nth |-> 0, again |-> FALSE, disk |-> NoPicture,
              sending |-> NoPicture, seen |-> TRUE]
Calling   == call.step = "calling"
Raising   == call.step = "raising"
Model     == Providers[call.nth]

CallsInit ==
  /\ call = NoCall /\ unasked \in 0..MaxAudited /\ signal = FALSE
  /\ usage = [p \in Models |-> NoRows] /\ lost = [p \in Models |-> NoRows]
  /\ sent = [p \in Models |-> 0] /\ billed = [p \in Models |-> 0]
  /\ twice = [p \in Models |-> 0]

-----------------------------------------------------------------------------
(* image_guard.                                                            *)

Rendering(p, i) == [edge |-> Ladder[i], bytes |-> p.at[i]]
FitsAt(p)       == {i \in DOMAIN Ladder : p.at[i] <= MaxBytes}

\* Mutant: the ladder is left after its first step.
DownscaleOnce(p) == Rendering(p, 1)

\* The largest rendering that fits the budget, or else the smallest one.
\* The rungs are never skipped: a small picture of many bytes is enlarged.
Downscale(p) ==
  Rendering(p, IF FitsAt(p) = {} THEN Len(Ladder) ELSE Min(FitsAt(p)))

\* Within the budget and the first rung: there is nothing to try again with.
WithinBounds(p) == p.bytes <= MaxBytes /\ p.edge <= Ladder[1]

-----------------------------------------------------------------------------
(* UsageTracker.record never raises: a row is written or it is lost.       *)

LostRows == lost["claude"].answered + lost["claude"].failed
            + lost["openai"].answered + lost["openai"].failed

Written(row) ==
  usage' = [usage EXCEPT ![Model] = Plus(@, row)] /\ UNCHANGED lost

Record(row) ==
  \/ Written(row)
  \/ /\ LostRows < MaxLost
     /\ lost' = [lost EXCEPT ![Model] = Plus(@, row)]
     /\ UNCHANGED usage

-----------------------------------------------------------------------------
(* The steps of _run_audit_only, _call_both_providers and extract.         *)

Asking(nth, disk, seen) ==
  [step |-> "calling", nth |-> nth, again |-> FALSE, disk |-> disk,
   sending |-> [edge |-> disk.edge, bytes |-> disk.bytes], seen |-> seen]

\* The first model is asked about the next chart.
NextAudited ==
  /\ call = NoCall /\ unasked > 0
  /\ unasked' = unasked - 1
  /\ \E picture \in Pictures : call' = Asking(1, picture, TRUE)
  /\ sent' = [sent EXCEPT !["claude"] = @ + 1]
  /\ UNCHANGED <<usage, billed, twice, lost, signal>>

\* Too large: a row of its own; then the same model again, unless there is
\* nothing smaller to send.
SizeRejected ==
  /\ Calling /\ ~call.again
  /\ Record(FailedRow)
  /\ IF WithinBounds(call.disk)
     THEN /\ call' = [call EXCEPT !.step = "raising"]
          /\ twice' = [twice EXCEPT ![Model] = @ + 1] /\ UNCHANGED sent
     ELSE /\ call' = [call EXCEPT !.again = TRUE,
                                  !.sending = Downscale(call.disk)]
          /\ sent' = [sent EXCEPT ![Model] = @ + 1] /\ UNCHANGED twice
  /\ UNCHANGED <<billed, unasked, signal>>

\* Any other error, or the smaller picture is refused as well.
CallFails ==
  /\ Calling /\ call' = [call EXCEPT !.step = "raising"]
  /\ UNCHANGED <<usage, sent, billed, twice, lost, unasked, signal>>

\* Mutant: an answer is recorded only when it was parsed.
UnreadableUnrecorded ==
  /\ Calling /\ call' = [call EXCEPT !.step = "raising"]
  /\ billed' = [billed EXCEPT ![Model] = @ + 1]
  /\ UNCHANGED <<usage, sent, twice, lost, unasked, signal>>

\* The answer is charged and recorded; then it turns out not to be JSON.
Unreadable ==
  /\ Calling /\ call' = [call EXCEPT !.step = "raising"]
  /\ Record(AnswerRow)
  /\ billed' = [billed EXCEPT ![Model] = @ + 1]
  /\ twice' = [twice EXCEPT ![Model] = @ + 1]
  /\ UNCHANGED <<sent, unasked, signal>>

\* Mutant: a call that had a row for its size gets none for the failure.
RaiseUnlessAgain ==
  /\ Raising /\ call' = NoCall
  /\ IF call.again THEN UNCHANGED <<usage, lost>> ELSE Record(FailedRow)
  /\ UNCHANGED <<sent, billed, twice, unasked, signal>>

\* The failure is recorded and raised, and the chart is out.
Raise ==
  /\ Raising /\ call' = NoCall
  /\ Record(FailedRow)
  /\ UNCHANGED <<sent, billed, twice, unasked, signal>>

\* _has_signal, of what both models read on the chart.
SawSignal(seen) == signal \/ (call.seen /\ seen)

\* The next model is asked, or both have answered.
Answer(seen) ==
  /\ Calling
  /\ Record(AnswerRow)
  /\ billed' = [billed EXCEPT ![Model] = @ + 1]
  /\ IF call.nth = 1
     THEN /\ call' = Asking(2, call.disk, seen)
          /\ sent' = [sent EXCEPT !["openai"] = @ + 1] /\ UNCHANGED signal
     ELSE /\ call' = NoCall
          /\ signal' = SawSignal(seen) /\ UNCHANGED sent
  /\ UNCHANGED <<twice, unasked>>

\* The extract of either model goes through these steps.
CallStep ==
  \/ NextAudited \/ SizeRejected \/ CallFails \/ Unreadable \/ Raise
  \/ \E seen \in BOOLEAN : Answer(seen)

CallsSpec == CallsInit /\ [][CallStep]_callVars

-----------------------------------------------------------------------------
(* GET /usage/summary.                                                     *)

UsageSummary(p) == [calls  |-> usage[p].answered + usage[p].failed,
                    failed |-> usage[p].failed,
                    tokens |-> usage[p].tokens]

-----------------------------------------------------------------------------
(* Properties.                                                             *)

\* What the usage page shows as spent is what the models charged, but for
\* the rows the tracker lost: an answer that cannot be parsed is counted, a
\* picture that is sent twice is not counted twice.
SpentIsShown ==
  \A p \in Models : UsageSummary(p).tokens + lost[p].tokens = billed[p]

\* The calls shown are the calls made, and once more those that failed after
\* they had their row.
EveryCallHasItsRow ==
  \A p \in Models :
     sent[p] + twice[p] =
       UsageSummary(p).calls + lost[p].answered + lost[p].failed
       + IF (Calling \/ Raising) /\ Model = p THEN 1 ELSE 0

\* A picture that is sent again fits the budget whenever some rendering of
\* it does, and then no larger rendering would have fitted.
RetryFits ==
  call.again =>
    LET fits == FitsAt(call.disk)
    IN /\ fits # {} => call.sending.bytes <= MaxBytes
       /\ \A i \in fits : Ladder[i] <= call.sending.edge
=============================================================================
