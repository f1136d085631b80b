----------------------- MODULE ExtractionGroups_proofs -----------------------
(***************************************************************************)
(* The field groups of an extraction job, for any readings, charts,        *)
(* pictures and tolerances.  The calls of the models: what they cost is    *)
(* shown, each has its row, a retry fits.  The scalars: each comes from    *)
(* the first chart on which the two models agree about it.  The            *)
(* frequencies: lines that are far apart are paired with each other.  The  *)
(* runways: high ends are not guessed, the best surface keeps the          *)
(* designator, the order of a reading does not matter, charts that agree   *)
(* add no strip, and two strips of a designator can be written.            *)
(***************************************************************************)
EXTENDS ExtractionGroups, FiniteSetTheorems, SequenceTheorems, TLAPS

\* A set of naturals has its least element.
LEMMA MinOfNaturals ==
  ASSUME NEW S \in SUBSET Nat, S # {}
  PROVE  Min(S) \in S /\ \A x \in S : Min(S) <= x
<1>1. PICK m \in S : \A x \in S : <<x, m>> \notin OpToRel(<, Nat)
  BY WFMin, NatLessThanWellFounded
<1>2. \A x \in S : m <= x
  <2> SUFFICES ASSUME NEW x \in S PROVE m <= x
    OBVIOUS
  <2>1. <<x, m>> \in Nat \X Nat /\ ~(x < m)
    BY <1>1 DEF OpToRel
  <2>. QED BY <2>1
<1>. QED BY <1>2 DEF Min

-----------------------------------------------------------------------------
(* Members of a list at some of its places.                                *)

\* The places of a list are finitely many naturals.
LEMMA PlacesAreFinite ==
  ASSUME NEW n \in Nat, NEW places \in SUBSET (1..n)
  PROVE  IsFiniteSet(places) /\ places \in SUBSET Nat
<1>1. IsFiniteSet(1..n)
  <2>1. 1 \in Int /\ n \in Int
    OBVIOUS
  <2>. QED BY ONLY <2>1, FS_Interval
<1>2. IsFiniteSet(places)
  BY <1>1, FS_Subset
<1>. QED BY <1>2

Upto(places, i) == {k \in places : k <= i}

\* The n-th of a finite set of places is the one with n places up to it: they
\* are as many as the numbers up to their cardinality, and all differ.
LEMMA PickedInOrder ==
  ASSUME NEW list, NEW places \in SUBSET Nat, IsFiniteSet(places)
  PROVE  /\ Cardinality(places) \in Nat
         /\ \E at \in Bijection(1..Cardinality(places), places) :
              /\ Picked(list, places) =
                   [n \in 1..Cardinality(places) |-> list[at[n]]]
              /\ \A n \in 1..Cardinality(places) :
                   Cardinality(Upto(places, at[n])) = n
<1> DEFINE N == Cardinality(places)
           below(i) == {k \in places : k <= i}
           r == [i \in places |-> Cardinality(below(i))]
<1>1. N \in Nat
  BY FS_CardinalityType
<1>2. ASSUME NEW i \in places
      PROVE  IsFiniteSet(below(i)) /\ Cardinality(below(i)) \in 1..N
  <2>1. below(i) \in SUBSET places /\ i \in below(i)
    OBVIOUS
  <2> HIDE DEF below
  <2>2. IsFiniteSet(below(i)) /\ Cardinality(below(i)) <= N
    BY <2>1, FS_Subset
  <2>3. Cardinality(below(i)) \in Nat /\ Cardinality(below(i)) # 0
    BY <2>1, <2>2, FS_CardinalityType, FS_EmptySet
  <2>. QED BY <1>1, <2>2, <2>3
<1>3. ASSUME NEW i \in places, NEW k \in places, i < k
      PROVE  Cardinality(below(i)) # Cardinality(below(k))
  <2>1. below(i) \in SUBSET below(k) /\ k \in below(k) /\ k \notin below(i)
    <3>1. i \in Nat /\ k \in Nat
      OBVIOUS
    <3>2. ASSUME NEW j \in below(i) PROVE j \in below(k)
      <4>1. j \in Nat /\ j \in places /\ j <= i
        OBVIOUS
      <4>2. j <= k
        BY ONLY <1>3, <3>1, <4>1
      <4>. QED BY <4>1, <4>2
    <3>3. k <= k /\ ~(k <= i)
      BY ONLY <1>3, <3>1
    <3>. QED BY <3>2, <3>3
  <2>2. IsFiniteSet(below(k)) /\ below(i) # below(k)
    BY <1>2, <2>1
  <2> HIDE DEF below
  <2>. QED BY <2>1, <2>2, FS_Subset
<1>4. r \in Injection(places, 1..N)
  <2>1. r \in [places -> 1..N]
    BY <1>2
  <2>2. ASSUME NEW i \in places, NEW k \in places, i # k PROVE r[i] # r[k]
    <3>1. i < k \/ k < i
      BY <2>2
    <3>. QED BY <1>3, <3>1
  <2> HIDE DEF r
  <2>. QED BY <2>1, <2>2 DEF Injection, IsInjective
<1>5. IsFiniteSet(1..N) /\ Cardinality(1..N) = N
  <2> HIDE DEF N
  <2>1. 1 \in Int /\ N \in Int
    BY <1>1
  <2>2. /\ IsFiniteSet(1..N)
        /\ Cardinality(1..N) = IF 1 > N THEN 0 ELSE N - 1 + 1
    BY ONLY <2>1, FS_Interval
  <2>. QED BY <1>1, <2>2
<1>6. r \in Surjection(places, 1..N)
  <2> HIDE DEF r, N
  <2>. QED BY <1>4, <1>5, FS_Injection DEF N
<1>7. ASSUME NEW n \in 1..N PROVE \E i \in places : Cardinality(below(i)) = n
  <2>1. \E i \in places : r[i] = n
    <3> HIDE DEF r, N
    <3>. QED BY <1>6, <1>7 DEF Surjection
  <2>. QED BY <2>1
<1> DEFINE at == [n \in 1..N |-> CHOOSE i \in places : Cardinality(below(i)) = n]
<1>8. \A n \in 1..N : at[n] \in places /\ Cardinality(below(at[n])) = n
  BY <1>7
<1>9. Picked(list, places) = [n \in 1..N |-> list[at[n]]]
  BY DEF Picked
<1>10. at \in Bijection(1..N, places)
  <2>0. at \in [1..N -> places]
    BY <1>8
  <2> HIDE DEF at, N
  <2>1. \A n, m \in 1..N : at[n] = at[m] => n = m
    BY <1>8
  <2>2. ASSUME NEW i \in places PROVE \E n \in 1..N : at[n] = i
    <3> DEFINE n == Cardinality(below(i))
    <3>1. n \in 1..N /\ at[n] \in places /\ Cardinality(below(at[n])) = n
      BY <1>2, <1>8
    <3>2. i \in Nat /\ at[n] \in Nat
      BY <3>1
    <3>3. ~(i < at[n]) /\ ~(at[n] < i)
      BY <1>3, <3>1
    <3>4. at[n] = i
      <4> HIDE DEF n
      <4>. QED BY <3>2, <3>3
    <3>. QED BY <3>1, <3>4
  <2>. QED BY <2>0, <2>1, <2>2 DEF Bijection, Injection, Surjection, IsInjective
<1>11. \E f \in Bijection(1..N, places) :
           /\ Picked(list, places) = [n \in 1..N |-> list[f[n]]]
           /\ \A n \in 1..N : Cardinality(Upto(places, f[n])) = n
  <2>1. \A n \in 1..N : Cardinality(Upto(places, at[n])) = n
    BY <1>8 DEF Upto
  <2> HIDE DEF at, N, below
  <2>. QED BY <1>9, <1>10, <2>1
<1>. QED BY <1>1, <1>11

\* What is picked from a list is a member of it.
LEMMA PickedFrom ==
  ASSUME NEW list, NEW places \in SUBSET Nat, IsFiniteSet(places)
  PROVE  /\ Cardinality(places) \in Nat
         /\ DOMAIN Picked(list, places) = 1..Cardinality(places)
         /\ \A n \in 1..Cardinality(places) :
              \E i \in places : Picked(list, places)[n] = list[i]
<1> DEFINE N == Cardinality(places)
<1>1. N \in Nat
  BY PickedInOrder
<1>2. PICK at \in Bijection(1..N, places) :
         Picked(list, places) = [n \in 1..N |-> list[at[n]]]
  BY PickedInOrder
<1>3. \A n \in 1..N : at[n] \in places
  BY DEF Bijection, Injection
<1> HIDE DEF N
<1>4. /\ DOMAIN Picked(list, places) = 1..N
      /\ \A n \in 1..N : Picked(list, places)[n] = list[at[n]]
  BY <1>2
<1>5. N \in Nat /\ DOMAIN Picked(list, places) = 1..N
      /\ \A n \in 1..N : \E i \in places : Picked(list, places)[n] = list[i]
  BY <1>1, <1>3, <1>4
<1>. QED BY <1>5 DEF N

-----------------------------------------------------------------------------
(* The calls of the two models.                                            *)

UsageRows == [answered : Nat, failed : Nat, tokens : Nat]

Sizes       == [edge : Nat, bytes : Nat]
CallRecords == [step : {"none", "calling", "raising"}, nth : 0..2, again : BOOLEAN,
                disk : Pictures \cup {NoPicture}, sending : Sizes, seen : BOOLEAN]

CallsTypeOK ==
  /\ call \in CallRecords
  /\ call.step = "none" => call = NoCall
  /\ call.step # "none" => call.nth \in {1, 2} /\ call.disk \in Pictures
  /\ usage \in [Models -> UsageRows] /\ lost \in [Models -> UsageRows]
  /\ sent \in [Models -> Nat] /\ twice \in [Models -> Nat]
  /\ billed \in [Models -> Nat] /\ unasked \in Nat

\* What was spent, the rows there ought to be, and the call that is out.
Spent(p)    == usage[p].tokens + lost[p].tokens
RowCount(p) == usage[p].answered + usage[p].failed
               + lost[p].answered + lost[p].failed
Out(p)      == IF call.step # "none" /\ Model = p THEN 1 ELSE 0

\* What was charged is in the rows, what was asked is in the rows or out, and
\* what is sent again was downscaled.
CallsInv ==
  /\ CallsTypeOK
  /\ \A p \in Models : Spent(p) = billed[p]
  /\ \A p \in Models : sent[p] + twice[p] = RowCount(p) + Out(p)
  /\ call.again => call.sending = Downscale(call.disk)

\* The sums over the rows of a model are natural numbers.
LEMMA SumTypes ==
  ASSUME CallsTypeOK, NEW p \in Models
  PROVE  Spent(p) \in Nat /\ RowCount(p) \in Nat
<1>1. usage[p] \in UsageRows /\ lost[p] \in UsageRows
  BY DEF CallsTypeOK
<1>. QED BY <1>1 DEF UsageRows, Spent, RowCount

\* What Record does to the sums of the rows written and lost.
LEMMA RecordAdds ==
  ASSUME CallsTypeOK, call.step # "none",
         NEW row \in {AnswerRow, FailedRow}, Record(row)
  PROVE  /\ Model \in Models
         /\ usage' \in [Models -> UsageRows] /\ lost' \in [Models -> UsageRows]
         /\ \A p \in Models :
              /\ Spent(p)' = Spent(p) + IF p = Model THEN row.tokens ELSE 0
              /\ RowCount(p)' = RowCount(p) + IF p = Model THEN 1 ELSE 0
<1>1. Model \in Models
  BY DEF CallsTypeOK, Model, Models, Providers
<1>2. ASSUME NEW u \in UsageRows
      PROVE  /\ Plus(u, row) \in UsageRows
             /\ Plus(u, row).tokens = u.tokens + row.tokens
             /\ Plus(u, row).answered + Plus(u, row).failed
                  = u.answered + u.failed + 1
  BY DEF Plus, UsageRows, AnswerRow, FailedRow
<1>3. \A p \in Models : usage[p] \in UsageRows /\ lost[p] \in UsageRows
  BY DEF CallsTypeOK
<1>4. row.tokens \in Nat
  BY DEF AnswerRow, FailedRow
<1>5. CASE Written(row)
  <2>1. /\ usage' = [usage EXCEPT ![Model] = Plus(usage[Model], row)] /\ lost' = lost
        /\ usage'[Model] = Plus(usage[Model], row)
        /\ \A p \in Models : p # Model => usage'[p] = usage[p]
    BY <1>1, <1>5 DEF Written, CallsTypeOK
  <2>2. usage' \in [Models -> UsageRows]
    BY <1>1, <1>2, <1>3, <2>1 DEF CallsTypeOK
  <2>3. /\ usage'[Model].tokens = usage[Model].tokens + row.tokens
        /\ usage'[Model].answered + usage'[Model].failed
             = usage[Model].answered + usage[Model].failed + 1
    BY <1>1, <1>2, <1>3, <2>1
  <2>4. \A p \in Models :
          /\ usage[p].tokens \in Nat /\ lost[p].tokens \in Nat
          /\ usage[p].answered \in Nat /\ lost[p].answered \in Nat
          /\ usage[p].failed \in Nat /\ lost[p].failed \in Nat
          /\ usage'[p].answered \in Nat /\ usage'[p].failed \in Nat
    BY <1>3, <2>2 DEF UsageRows
  <2>5. ASSUME NEW p \in Models
        PROVE  /\ Spent(p)' = Spent(p) + IF p = Model THEN row.tokens ELSE 0
               /\ RowCount(p)' = RowCount(p) + IF p = Model THEN 1 ELSE 0
    <3>1. CASE p = Model
      BY <1>4, <2>1, <2>3, <2>4, <3>1 DEF Spent, RowCount
    <3>2. CASE p # Model
      BY <2>1, <2>4, <3>2 DEF Spent, RowCount
    <3>. QED BY <3>1, <3>2
  <2>. QED BY <1>1, <2>1, <2>2, <2>5 DEF CallsTypeOK
<1>6. CASE lost' = [lost EXCEPT ![Model] = Plus(@, row)] /\ UNCHANGED usage
  <2>1. /\ lost' = [lost EXCEPT ![Model] = Plus(lost[Model], row)] /\ usage' = usage
        /\ lost'[Model] = Plus(lost[Model], row)
        /\ \A p \in Models : p # Model => lost'[p] = lost[p]
    BY <1>1, <1>6 DEF CallsTypeOK
  <2>2. lost' \in [Models -> UsageRows]
    BY <1>1, <1>2, <1>3, <2>1 DEF CallsTypeOK
  <2>3. /\ lost'[Model].tokens = lost[Model].tokens + row.tokens
        /\ lost'[Model].answered + lost'[Model].failed
             = lost[Model].answered + lost[Model].failed + 1
    BY <1>1, <1>2, <1>3, <2>1
  <2>4. \A p \in Models :
          /\ usage[p].tokens \in Nat /\ lost[p].tokens \in Nat
          /\ usage[p].answered \in Nat /\ lost[p].answered \in Nat
          /\ usage[p].failed \in Nat /\ lost[p].failed \in Nat
          /\ lost'[p].answered \in Nat /\ lost'[p].failed \in Nat
    BY <1>3, <2>2 DEF UsageRows
  <2>5. ASSUME NEW p \in Models
        PROVE  /\ Spent(p)' = Spent(p) + IF p = Model THEN row.tokens ELSE 0
               /\ RowCount(p)' = RowCount(p) + IF p = Model THEN 1 ELSE 0
    <3>1. CASE p = Model
      BY <1>4, <2>1, <2>3, <2>4, <3>1 DEF Spent, RowCount
    <3>2. CASE p # Model
      BY <2>1, <2>4, <3>2 DEF Spent, RowCount
    <3>. QED BY <3>1, <3>2
  <2>. QED BY <1>1, <2>1, <2>2, <2>5 DEF CallsTypeOK
<1>. QED BY <1>5, <1>6 DEF Record

\* The record of a call that goes out.
LEMMA AskingIs ==
  ASSUME NEW nth \in {1, 2}, NEW disk \in Pictures, NEW seen \in BOOLEAN,
         call' = Asking(nth, disk, seen)
  PROVE  /\ call' \in CallRecords /\ call'.step = "calling" /\ call'.again = FALSE
         /\ call'.nth = nth /\ call'.disk = disk
         /\ Model' = IF nth = 1 THEN "claude" ELSE "openai"
<1>1. disk.edge \in Nat /\ disk.bytes \in Nat
  BY PictureAssumption
<1>2. /\ call' \in CallRecords /\ call'.step = "calling" /\ call'.again = FALSE
      /\ call'.nth = nth /\ call'.disk = disk
  BY <1>1 DEF Asking, CallRecords, Sizes
<1>. QED BY <1>2 DEF Model, Providers

\* A rendering of a picture is a size.
LEMMA DownscaleType ==
  ASSUME NEW p \in Pictures
  PROVE  Downscale(p) \in Sizes
<1>1. /\ DOMAIN Ladder = 1..Len(Ladder) /\ Len(Ladder) \in DOMAIN Ladder
      /\ \A i \in DOMAIN Ladder : Ladder[i] \in Nat /\ p.at[i] \in Nat
  BY PictureAssumption
<1>2. FitsAt(p) \in SUBSET Nat /\ FitsAt(p) \subseteq DOMAIN Ladder
  BY <1>1 DEF FitsAt
<1>3. FitsAt(p) # {} => Min(FitsAt(p)) \in DOMAIN Ladder
  BY <1>2, MinOfNaturals
<1>. QED BY <1>1, <1>3 DEF Downscale, Rendering, Sizes

\* A step of a call: what was charged, and the rows, stay in balance.
LEMMA CallsStep ==
  ASSUME CallsInv, CallStep
  PROVE  CallsInv'
<1> USE DEF CallsInv
<1>0. /\ AnswerRow.tokens = 1 /\ FailedRow.tokens = 0
      /\ "claude" \in Models /\ "openai" \in Models
      /\ \A p \in Models : /\ sent[p] \in Nat /\ twice[p] \in Nat /\ billed[p] \in Nat
                           /\ Spent(p) \in Nat /\ RowCount(p) \in Nat
  BY SumTypes DEF AnswerRow, FailedRow, Models, CallsTypeOK
<1>1. CASE NextAudited
  <2>1. PICK picture \in Pictures : call' = Asking(1, picture, TRUE)
    BY <1>1 DEF NextAudited
  <2>2. /\ call.step = "none" /\ unasked > 0 /\ unasked' = unasked - 1
        /\ sent' = [sent EXCEPT !["claude"] = @ + 1]
        /\ UNCHANGED <<usage, billed, twice, lost, signal>>
    BY <1>1 DEF NextAudited, NoCall
  <2>3. /\ call'.step = "calling" /\ call'.nth = 1 /\ call'.disk = picture
        /\ call' \in CallRecords /\ ~call'.again /\ Model' = "claude"
    BY <2>1, AskingIs
  <2>4. CallsTypeOK'
    BY <1>0, <2>2, <2>3 DEF CallsTypeOK
  <2>5. \A p \in Models : Out(p) = 0 /\ Out(p)' = IF p = "claude" THEN 1 ELSE 0
    BY <2>2, <2>3 DEF Out
  <2>6. \A p \in Models : /\ Spent(p)' = Spent(p) /\ RowCount(p)' = RowCount(p)
                          /\ sent'[p] = sent[p] + IF p = "claude" THEN 1 ELSE 0
    BY <1>0, <2>2 DEF Spent, RowCount, CallsTypeOK
  <2>. QED BY <1>0, <2>2, <2>3, <2>4, <2>5, <2>6
<1>2. ASSUME call.step # "none" PROVE Model \in Models
  BY <1>2 DEF CallsTypeOK, Model, Models, Providers
<1>3. CASE SizeRejected
  <2>1. /\ call.step = "calling" /\ Record(FailedRow) /\ Model \in Models
        /\ UNCHANGED <<billed, unasked, signal>>
    BY <1>2, <1>3 DEF SizeRejected, Calling
  <2>2. /\ usage' \in [Models -> UsageRows] /\ lost' \in [Models -> UsageRows]
        /\ \A p \in Models :
             /\ Spent(p)' = Spent(p)
             /\ RowCount(p)' = RowCount(p) + IF p = Model THEN 1 ELSE 0
    BY <1>0, <2>1, RecordAdds
  <2>3. CASE WithinBounds(call.disk)
    <3>1. /\ call' = [call EXCEPT !.step = "raising"] /\ sent' = sent
          /\ twice' = [twice EXCEPT ![Model] = @ + 1]
      BY <1>3, <2>3 DEF SizeRejected
    <3>2. /\ call' \in CallRecords /\ call'.step = "raising" /\ call'.nth = call.nth
          /\ call'.disk = call.disk /\ call'.again = call.again /\ Model' = Model
          /\ call'.sending = call.sending
      BY <3>1 DEF CallsTypeOK, CallRecords, Model
    <3>3. CallsTypeOK'
      BY <1>0, <2>1, <2>2, <3>1, <3>2 DEF CallsTypeOK
    <3>4. \A p \in Models : /\ twice'[p] = twice[p] + IF p = Model THEN 1 ELSE 0
                            /\ Out(p)' = Out(p) /\ Out(p) \in Nat
      BY <2>1, <3>1, <3>2 DEF CallsTypeOK, Out
    <3>. QED BY <1>0, <2>1, <2>2, <3>1, <3>2, <3>3, <3>4
  <2>4. CASE ~WithinBounds(call.disk)
    <3>1. /\ call' = [call EXCEPT !.again = TRUE, !.sending = Downscale(call.disk)]
          /\ sent' = [sent EXCEPT ![Model] = @ + 1] /\ twice' = twice
      BY <1>3, <2>4 DEF SizeRejected
    <3>2. Downscale(call.disk) \in Sizes
      BY <2>1, DownscaleType DEF CallsTypeOK
    <3>3. /\ call' \in CallRecords /\ call'.step = "calling" /\ call'.nth = call.nth
          /\ call'.disk = call.disk /\ Model' = Model
          /\ call'.sending = Downscale(call'.disk)
      BY <2>1, <3>1, <3>2 DEF CallsTypeOK, CallRecords, Model
    <3>4. CallsTypeOK'
      BY <1>0, <2>1, <2>2, <3>1, <3>3 DEF CallsTypeOK
    <3>5. \A p \in Models : /\ sent'[p] = sent[p] + IF p = Model THEN 1 ELSE 0
                            /\ Out(p)' = Out(p) /\ Out(p) \in Nat
      BY <2>1, <3>1, <3>3 DEF CallsTypeOK, Out
    <3>6. Downscale(call.disk)' = Downscale(call'.disk)
      BY DEF Downscale, FitsAt, Rendering
    <3>. QED BY <1>0, <2>1, <2>2, <3>1, <3>3, <3>4, <3>5, <3>6
  <2>. QED BY <2>3, <2>4
<1>4. ASSUME call.step = "calling", call' = [call EXCEPT !.step = "raising"]
      PROVE  /\ call' \in CallRecords /\ call'.step = "raising" /\ call'.nth = call.nth
             /\ call'.disk = call.disk /\ call'.again = call.again
             /\ call'.sending = call.sending
             /\ \A p \in Models : Out(p)' = Out(p) /\ Out(p) \in Nat
  BY <1>4 DEF CallsTypeOK, CallRecords, Model, Out
<1>5. CASE CallFails
  <2>1. /\ call.step = "calling" /\ call' = [call EXCEPT !.step = "raising"]
        /\ UNCHANGED <<usage, sent, billed, twice, lost, unasked, signal>>
    BY <1>5 DEF CallFails, Calling
  <2>2. CallsTypeOK'
    BY <1>4, <2>1 DEF CallsTypeOK
  <2>3. \A p \in Models : Spent(p)' = Spent(p) /\ RowCount(p)' = RowCount(p)
    BY <2>1 DEF Spent, RowCount
  <2>. QED BY <1>4, <2>1, <2>2, <2>3
<1>6. CASE Unreadable
  <2>1. /\ call.step = "calling" /\ call' = [call EXCEPT !.step = "raising"]
        /\ Record(AnswerRow) /\ Model \in Models
        /\ billed' = [billed EXCEPT ![Model] = @ + 1]
        /\ twice' = [twice EXCEPT ![Model] = @ + 1]
        /\ UNCHANGED <<sent, unasked, signal>>
    BY <1>2, <1>6 DEF Unreadable, Calling
  <2>2. /\ usage' \in [Models -> UsageRows] /\ lost' \in [Models -> UsageRows]
        /\ \A p \in Models :
             /\ Spent(p)' = Spent(p) + IF p = Model THEN 1 ELSE 0
             /\ RowCount(p)' = RowCount(p) + IF p = Model THEN 1 ELSE 0
    BY <1>0, <2>1, RecordAdds
  <2>3. CallsTypeOK'
    <3>1. billed' \in [Models -> Nat] /\ twice' \in [Models -> Nat]
      BY <1>0, <2>1 DEF CallsTypeOK
    <3>. QED BY <1>4, <2>1, <2>2, <3>1 DEF CallsTypeOK
  <2>4. \A p \in Models :
          /\ twice'[p] = twice[p] + IF p = Model THEN 1 ELSE 0
          /\ billed'[p] = billed[p] + IF p = Model THEN 1 ELSE 0
    BY <2>1 DEF CallsTypeOK
  <2>. QED BY <1>0, <1>4, <2>1, <2>2, <2>3, <2>4
<1>7. CASE Raise
  <2>1. /\ call.step = "raising" /\ call' = NoCall /\ Record(FailedRow) /\ Model \in Models
        /\ UNCHANGED <<sent, billed, twice, unasked, signal>>
    BY <1>2, <1>7 DEF Raise, Raising
  <2>2. /\ usage' \in [Models -> UsageRows] /\ lost' \in [Models -> UsageRows]
        /\ \A p \in Models :
             /\ Spent(p)' = Spent(p)
             /\ RowCount(p)' = RowCount(p) + IF p = Model THEN 1 ELSE 0
    BY <1>0, <2>1, RecordAdds
  <2>3. call' \in CallRecords /\ call'.step = "none" /\ ~call'.again
    BY <2>1 DEF NoCall, CallRecords, Sizes, NoPicture
  <2>4. CallsTypeOK'
    BY <1>0, <2>1, <2>2, <2>3 DEF CallsTypeOK
  <2>5. \A p \in Models : Out(p)' = 0 /\ Out(p) = IF p = Model THEN 1 ELSE 0
    BY <2>1, <2>3 DEF Out
  <2>. QED BY <1>0, <2>1, <2>2, <2>3, <2>4, <2>5
<1>8. ASSUME NEW seen \in BOOLEAN, Answer(seen) PROVE CallsInv'
  <2>1. /\ call.step = "calling" /\ Record(AnswerRow) /\ Model \in Models
        /\ billed' = [billed EXCEPT ![Model] = @ + 1]
        /\ UNCHANGED <<twice, unasked>>
    BY <1>2, <1>8 DEF Answer, Calling
  <2>2. /\ usage' \in [Models -> UsageRows] /\ lost' \in [Models -> UsageRows]
        /\ \A p \in Models :
             /\ Spent(p)' = Spent(p) + IF p = Model THEN 1 ELSE 0
             /\ RowCount(p)' = RowCount(p) + IF p = Model THEN 1 ELSE 0
    BY <1>0, <2>1, RecordAdds
  <2>3. \A p \in Models : /\ billed'[p] = billed[p] + IF p = Model THEN 1 ELSE 0
                          /\ Out(p) = IF p = Model THEN 1 ELSE 0
    BY <2>1 DEF CallsTypeOK, Out
  <2>4. CASE call.nth = 1
    <3>1. /\ call' = Asking(2, call.disk, seen)
          /\ sent' = [sent EXCEPT !["openai"] = @ + 1]
      BY <1>8, <2>4 DEF Answer
    <3>2. /\ call' \in CallRecords /\ call'.step = "calling" /\ call'.nth = 2
          /\ call'.disk = call.disk /\ ~call'.again /\ Model' = "openai"
      <4>1. call.disk \in Pictures
        BY <2>1 DEF CallsTypeOK
      <4>2. /\ call' \in CallRecords /\ call'.step = "calling" /\ call'.again = FALSE
            /\ call'.nth = 2 /\ call'.disk = call.disk
            /\ Model' = IF 2 = 1 THEN "claude" ELSE "openai"
        <5>1. 2 \in {1, 2} /\ seen \in BOOLEAN
          BY <1>8
        <5>. QED BY <3>1, <4>1, <5>1, AskingIs, Zenon
      <4>. QED BY <4>2
    <3>3. CallsTypeOK'
      BY <1>0, <2>1, <2>2, <3>1, <3>2 DEF CallsTypeOK
    <3>4. \A p \in Models : /\ sent'[p] = sent[p] + IF p = "openai" THEN 1 ELSE 0
                            /\ Out(p)' = IF p = "openai" THEN 1 ELSE 0
      BY <1>0, <3>1, <3>2 DEF CallsTypeOK, Out
    <3>. QED BY <1>0, <2>1, <2>2, <2>3, <3>2, <3>3, <3>4
  <2>5. CASE call.nth # 1
    <3>1. call' = NoCall /\ sent' = sent
      BY <1>8, <2>5 DEF Answer
    <3>2. call' \in CallRecords /\ call'.step = "none" /\ ~call'.again
      BY <3>1 DEF NoCall, CallRecords, Sizes, NoPicture
    <3>3. CallsTypeOK'
      <4>1. billed' \in [Models -> Nat]
        BY <1>0, <2>1 DEF CallsTypeOK
      <4>. QED BY <2>1, <2>2, <3>1, <3>2, <4>1 DEF CallsTypeOK
    <3>4. \A p \in Models : Out(p)' = 0
      BY <3>2 DEF Out
    <3>. QED BY <1>0, <2>1, <2>2, <2>3, <3>1, <3>2, <3>3, <3>4
  <2>. QED BY <2>4, <2>5
<1>. QED BY <1>1, <1>3, <1>5, <1>6, <1>7, <1>8 DEF CallStep

-----------------------------------------------------------------------------
(* The scalars.                                                            *)

Votes == {Cast(a, b) : a \in GeoReadings, b \in GeoReadings}

\* The votes that are merged: the last one is not, while it is at hand.
Merged == IF vote.cast THEN Len(voted) - 1 ELSE Len(voted)

FirstNear(f, i) ==
  NearOn(voted[i], f) /\ \A k \in 1..(i - 1) : ~NearOn(voted[k], f)

\* Each scalar is that of the first vote on which the models were near each
\* other; the vote at hand counts once it is merged.
GeoInv ==
  group = "geo" =>
    /\ vote.cast \in BOOLEAN /\ voted \in Seq(Votes)
    /\ vote.cast => voted # <<>> /\ vote = voted[Len(voted)]
    /\ \A i \in 1..Merged : \A f \in DOMAIN voted[i].a :
         NearOn(voted[i], f) => f \in DOMAIN geo
    /\ \A f \in DOMAIN geo :
         \E i \in 1..Merged : FirstNear(f, i) /\ geo[f] = voted[i].a[f]

\* Distance is the absolute difference.
LEMMA DistanceIs ==
  ASSUME NEW x \in Int, NEW y \in Int
  PROVE  Distance(x, y) = IF x >= y THEN x - y ELSE y - x
<1> DEFINE m == IF x >= y THEN x - y ELSE y - x
<1>1. m \in {x - y, y - x} /\ \A z \in {x - y, y - x} : m >= z
  OBVIOUS
<1>2. \A n \in {x - y, y - x} : (\A z \in {x - y, y - x} : n >= z) => n = m
  OBVIOUS
<1>. QED BY <1>1, <1>2 DEF Distance, Max

\* What is merged of a chart is what both models read there nearly alike.
LEMMA AgreedIsNear ==
  ASSUME NEW a \in GeoReadings, NEW b \in GeoReadings, NEW f
  PROVE  f \in DOMAIN AgreedGeo(a, b) <=> NearOn(Cast(a, b), f)
<1>0. Cast(a, b).a = a /\ Cast(a, b).b = b
  BY DEF Cast
<1>1. CASE f \notin DOMAIN a \cap DOMAIN b
  BY <1>0, <1>1 DEF AgreedGeo, NearOn
<1>2. CASE f \in DOMAIN a \cap DOMAIN b /\ f \in DOMAIN Tolerance
  <2>1. a[f] \in Int /\ b[f] \in Int /\ Tolerance[f] \in Nat
    BY <1>2, FieldAssumption
  <2>2. Distance(a[f], b[f]) = IF a[f] >= b[f] THEN a[f] - b[f] ELSE b[f] - a[f]
    BY <2>1, DistanceIs
  <2>3. Distance(a[f], b[f]) <= Tolerance[f]
          <=> a[f] - b[f] \in -Tolerance[f]..Tolerance[f]
    BY <2>1, <2>2
  <2>4. a[f] = b[f] => a[f] - b[f] \in -Tolerance[f]..Tolerance[f]
    BY <2>1
  <2>. QED BY <1>0, <1>2, <2>3, <2>4 DEF AgreedGeo, Agrees, NearOn
<1>3. CASE f \in DOMAIN a \cap DOMAIN b /\ f \notin DOMAIN Tolerance
  BY <1>0, <1>3 DEF AgreedGeo, Agrees, NearOn
<1>. QED BY <1>1, <1>2, <1>3

\* A step of the field groups: a field is set by the first chart that agrees on it.
LEMMA GeoStep ==
  ASSUME GeoInv, FieldNext
  PROVE  GeoInv'
<1> SUFFICES ASSUME group = "geo", group' = "geo" PROVE GeoInv'
  BY DEF GeoInv, FieldNext, ChartAnswered, ChartFails, ListAnswered, MergeVote, WriteGroup
<1> USE DEF GeoInv
<1>1. CASE ChartAnswered
  <2>1. PICK a \in GeoReadings, b \in GeoReadings : vote' = Cast(a, b)
    BY <1>1 DEF ChartAnswered, FieldReadings
  <2>2. /\ voted' = Append(voted, vote') /\ ~vote.cast /\ geo' = geo
        /\ vote' \in Votes /\ vote'.cast = TRUE
    <3>1. vote' \in Votes
      BY <2>1 DEF Votes
    <3>2. vote'.cast = TRUE
      BY <2>1 DEF Cast
    <3>. QED BY <1>1, <3>1, <3>2 DEF ChartAnswered, NextChart
  <2>3. /\ voted' \in Seq(Votes) /\ Len(voted') = Len(voted) + 1
        /\ voted'[Len(voted')] = vote' /\ Len(voted) \in Nat /\ voted' # <<>>
        /\ \A i \in 1..Len(voted) : voted'[i] = voted[i]
    BY <2>2
  <2>4. Merged = Len(voted) /\ Merged' = Len(voted)
    BY <2>2, <2>3 DEF Merged
  <2>5. ASSUME NEW f, NEW i \in 1..Len(voted) PROVE FirstNear(f, i)' <=> FirstNear(f, i)
    BY <2>3 DEF FirstNear, NearOn
  <2>6. ASSUME NEW f, NEW i \in 1..Len(voted)
        PROVE  NearOn(voted[i], f)' <=> NearOn(voted[i], f)
    BY <2>3 DEF NearOn
  <2>7. ASSUME NEW i \in 1..Len(voted), NEW f \in DOMAIN voted'[i].a, NearOn(voted[i], f)'
        PROVE  f \in DOMAIN geo'
    BY <2>2, <2>3, <2>4, <2>6, <2>7
  <2>8. ASSUME NEW f \in DOMAIN geo'
        PROVE  \E i \in 1..Len(voted) : FirstNear(f, i)' /\ geo'[f] = voted'[i].a[f]
    <3>1. PICK i \in 1..Len(voted) : FirstNear(f, i) /\ geo[f] = voted[i].a[f]
      BY <2>2, <2>4
    <3>. QED BY <2>2, <2>3, <2>5, <3>1
  <2>9. /\ vote'.cast \in BOOLEAN /\ voted' \in Seq(Votes)
        /\ voted' # <<>> /\ vote' = voted'[Len(voted')]
    BY <2>2, <2>3
  <2>. QED BY <2>4, <2>7, <2>8, <2>9
<1>2. CASE MergeVote
  <2> DEFINE n == Len(voted)
             new == AgreedGeo(vote.a, vote.b)
  <2>1. /\ vote.cast /\ vote' = NoVote /\ UNCHANGED voted
        /\ geo' = FillGaps(geo, new) /\ vote'.cast = FALSE
    BY <1>2 DEF MergeVote, NoVote
  <2>2. /\ n \in Nat /\ n > 0 /\ voted[n] \in Votes /\ vote = voted[n]
        /\ Merged = n - 1 /\ Merged' = n
    BY <2>1 DEF Merged
  <2>3. PICK a \in GeoReadings, b \in GeoReadings : vote = Cast(a, b)
    BY <2>2 DEF Votes
  <2>4. vote.a = a /\ vote.b = b
    BY <2>3 DEF Cast
  <2>5. \A f : f \in DOMAIN new <=> NearOn(voted[n], f)
    BY <2>2, <2>3, <2>4, AgreedIsNear
  <2>6. \A f \in DOMAIN new : new[f] = voted[n].a[f]
    BY <2>2, <2>4 DEF AgreedGeo
  <2>7. /\ DOMAIN geo' = DOMAIN geo \cup DOMAIN new
        /\ \A f \in DOMAIN geo : geo'[f] = geo[f]
        /\ \A f \in DOMAIN new : f \notin DOMAIN geo => geo'[f] = new[f]
    BY <2>1 DEF FillGaps
  <2> HIDE DEF new
  <2>8. \A i, f : /\ NearOn(voted[i], f)' <=> NearOn(voted[i], f)
                  /\ FirstNear(f, i)' <=> FirstNear(f, i)
    BY <2>1 DEF FirstNear, NearOn
  <2>9. ASSUME NEW i \in 1..n, NEW f \in DOMAIN voted[i].a, NearOn(voted[i], f)
        PROVE  f \in DOMAIN geo'
    BY <2>2, <2>5, <2>7, <2>9
  <2>10. ASSUME NEW f \in DOMAIN geo'
         PROVE  \E i \in 1..n : FirstNear(f, i) /\ geo'[f] = voted[i].a[f]
    <3>1. CASE f \in DOMAIN geo
      BY <2>2, <2>7, <3>1
    <3>2. CASE f \notin DOMAIN geo
      <4>1. f \in DOMAIN new /\ geo'[f] = voted[n].a[f] /\ NearOn(voted[n], f)
        BY <2>5, <2>6, <2>7, <2>10, <3>2
      <4>2. \A k \in 1..(n - 1) : ~NearOn(voted[k], f)
        BY <2>2, <3>2 DEF NearOn
      <4>. QED BY <2>2, <4>1, <4>2 DEF FirstNear
    <3>. QED BY <3>1, <3>2
  <2>. QED BY <2>1, <2>2, <2>8, <2>9, <2>10
<1>3. CASE ChartFails \/ ListAnswered \/ WriteGroup
  <2>1. UNCHANGED <<vote, voted, geo>>
    BY <1>3 DEF ChartFails, ListAnswered, WriteGroup
  <2>. QED BY <2>1 DEF Merged, FirstNear, NearOn
<1>. QED BY <1>1, <1>2, <1>3 DEF FieldNext

\* The invariant of the scalars says what the property says.
LEMMA GeoIsFirst ==
  GeoInv => ScalarsFromFirstAgreement
<1> SUFFICES ASSUME GeoInv, group = "geo", NEW f \in DOMAIN geo
             PROVE  LET near == {i \in DOMAIN voted : NearOn(voted[i], f)}
                    IN near # {} /\ geo[f] = voted[Min(near)].a[f]
  BY DEF ScalarsFromFirstAgreement
<1> DEFINE near == {i \in DOMAIN voted : NearOn(voted[i], f)}
<1>1. PICK i \in 1..Merged : FirstNear(f, i) /\ geo[f] = voted[i].a[f]
  BY DEF GeoInv
<1>2. /\ DOMAIN voted = 1..Len(voted) /\ Len(voted) \in Nat
      /\ i \in DOMAIN voted
  BY <1>1 DEF GeoInv, Merged
<1>3. i \in near /\ near \in SUBSET Nat /\ \A k \in near : i <= k
  BY <1>1, <1>2 DEF FirstNear
<1>4. Min(near) = i
  <2> HIDE DEF near
  <2>1. Min(near) \in near /\ \A k \in near : Min(near) <= k
    BY <1>3, MinOfNaturals
  <2>2. i \in Nat /\ Min(near) \in Nat /\ i <= Min(near) /\ Min(near) <= i
    BY <1>3, <2>1
  <2>. QED BY <2>2
<1>. QED BY <1>1, <1>3, <1>4

-----------------------------------------------------------------------------
(* The frequencies.                                                        *)

\* The lines of a list that count, and a line of one list near one of another.
Known(list) == {i \in DOMAIN list : MapFreqType(list[i].label) # NoType
                                      /\ list[i].khz # Unparsed}
Near(x, y)  == /\ MapFreqType(x.label) = MapFreqType(y.label)
               /\ Distance(x.khz, y.khz) <= FreqTolerance

\* The normalized lines are those that count, each once.
LEMMA NormalizedFrom ==
  ASSUME NEW list \in Seq(Lines)
  PROVE  \E n \in Nat : \E at \in Bijection(1..n, Known(list)) :
            /\ DOMAIN Normalized(list) = 1..n
            /\ \A m \in 1..n :
                 /\ Normalized(list)[m].type = MapFreqType(list[at[m]].label)
                 /\ Normalized(list)[m].khz = list[at[m]].khz
<1> DEFINE line(l) == [type |-> MapFreqType(l.label), khz |-> l.khz,
                       digits |-> l.digits]
           lines  == [i \in DOMAIN list |-> line(list[i])]
           places == {i \in DOMAIN list : MapFreqType(list[i].label) # NoType
                                            /\ list[i].khz # Unparsed}
           N == Cardinality(places)
<1>1. Normalized(list) = Picked(lines, places)
  <2>1. places = {i \in DOMAIN list : lines[i].type # NoType
                                        /\ lines[i].khz # Unparsed}
    OBVIOUS
  <2>. QED BY <2>1 DEF Normalized
<1>2. places \in SUBSET Nat /\ IsFiniteSet(places)
  <2>1. Len(list) \in Nat /\ places \in SUBSET (1..Len(list))
    OBVIOUS
  <2> HIDE DEF places
  <2>. QED BY <2>1, PlacesAreFinite
<1>3. N \in Nat
  BY <1>2, PickedInOrder
<1>4. PICK at \in Bijection(1..N, places) :
         Picked(lines, places) = [n \in 1..N |-> lines[at[n]]]
  <2> HIDE DEF places, lines
  <2>. QED BY <1>2, PickedInOrder
<1>5. \A m \in 1..N : at[m] \in places /\ at[m] \in DOMAIN list
  BY DEF Bijection, Injection
<1>6. /\ DOMAIN Normalized(list) = 1..N
      /\ \A m \in 1..N :
           /\ Normalized(list)[m].type = MapFreqType(list[at[m]].label)
           /\ Normalized(list)[m].khz = list[at[m]].khz
  <2>1. \A i \in DOMAIN list : /\ lines[i].type = MapFreqType(list[i].label)
                                /\ lines[i].khz = list[i].khz
    OBVIOUS
  <2> HIDE DEF N, places, lines
  <2>. QED BY <1>1, <1>4, <1>5, <2>1
<1> HIDE DEF N
<1>. QED BY <1>3, <1>4, <1>6 DEF Known

\* The recursion of Partners has its value.
LEMMA PartnersIs ==
  ASSUME NEW a, NEW n \in Nat, DOMAIN a = 1..n,
         NEW b, NEW m \in Nat, DOMAIN b = 1..m
  PROVE  /\ Partners(a, b) \in [1..n -> 0..m]
         /\ \A i \in 1..n : Partners(a, b)[i] = Partner(Partners(a, b), a, b, i)
<1> DEFINE good(l, p) == \A i \in 1..l : p[i] = Partner(p, a, b, i)
           bad == {l \in 0..n : ~ \E p \in [1..l -> 0..m] : good(l, p)}
<1>1. ASSUME NEW p, NEW i \in Nat
      PROVE  Partner(p, a, b, i) \in 0..m
  <2> DEFINE free == {k \in DOMAIN b : /\ SameLine(a[i], b[k])
                                       /\ \A h \in 1..(i - 1) : p[h] # k}
  <2>1. free \in SUBSET Nat /\ free \in SUBSET (1..m)
    OBVIOUS
  <2>2. free # {} => Min(free) \in free
    <3> HIDE DEF free
    <3>. QED BY <2>1, MinOfNaturals
  <2>3. free # {} => Min(free) \in 1..m
    <3> HIDE DEF free
    <3>. QED BY <2>1, <2>2
  <2>. QED BY <2>3 DEF Partner
<1>2. bad = {}
  <2> SUFFICES ASSUME bad # {} PROVE FALSE
    OBVIOUS
  <2>1. bad \in SUBSET Nat
    OBVIOUS
  <2>2. PICK l \in bad : \A k \in bad : l <= k
    <3> HIDE DEF bad
    <3>. QED BY <2>1, MinOfNaturals
  <2>3. l \in 0..n /\ ~ \E p \in [1..l -> 0..m] : good(l, p)
    OBVIOUS
  <2>4. l # 0
    <3>1. [i \in 1..0 |-> 0] \in [1..0 -> 0..m] /\ good(0, [i \in 1..0 |-> 0])
      OBVIOUS
    <3>. QED BY <2>3, <3>1
  <2>5. l - 1 \in 0..n /\ l - 1 \notin bad
    <3>1. l \in Nat /\ l <= n
      BY <2>3
    <3>2. l - 1 \in 0..n /\ ~(l <= l - 1)
      BY ONLY <3>1, <2>4, n \in Nat
    <3> HIDE DEF bad
    <3>. QED BY <2>2, <3>2
  <2>6. PICK p \in [1..(l - 1) -> 0..m] : good(l - 1, p)
    BY <2>5
  <2> DEFINE q == [i \in 1..l |-> IF i = l THEN Partner(p, a, b, l) ELSE p[i]]
  <2>7. l \in Nat /\ 1..(l - 1) \subseteq 1..l /\ l \in 1..l
    BY <2>3, <2>4
  <2>8. \A i \in 1..l : i = l \/ i \in 1..(l - 1)
    BY <2>3
  <2>9. q \in [1..l -> 0..m]
    BY <1>1, <2>7, <2>8
  <2>10. ASSUME NEW i \in 1..l PROVE Partner(q, a, b, i) = Partner(p, a, b, i)
    <3>1. \A h \in 1..(i - 1) : h \in 1..l /\ h # l
      BY <2>7
    <3>2. \A h \in 1..(i - 1) : q[h] = p[h]
      BY <3>1
    <3> HIDE DEF q
    <3>3. {k \in DOMAIN b : /\ SameLine(a[i], b[k])
                            /\ \A h \in 1..(i - 1) : q[h] # k}
            = {k \in DOMAIN b : /\ SameLine(a[i], b[k])
                               /\ \A h \in 1..(i - 1) : p[h] # k}
      BY ONLY <3>2
    <3>. QED BY <3>3 DEF Partner
  <2>11. good(l, q)
    <3> SUFFICES ASSUME NEW i \in 1..l PROVE q[i] = Partner(p, a, b, i)
      BY <2>10
    <3>1. CASE i = l
      BY <3>1
    <3>2. CASE i \in 1..(l - 1)
      <4>1. i # l
        BY <2>7, <3>2
      <4>. QED BY <2>6, <3>2, <4>1
    <3>. QED BY <2>8, <3>1, <3>2
  <2>. QED BY <2>3, <2>9, <2>11
<1>3. PICK p \in [1..n -> 0..m] : good(n, p)
  <2>1. n \in 0..n
    OBVIOUS
  <2>. QED BY <1>2, <2>1
<1>4. p = [i \in 1..n |-> Partner(p, a, b, i)]
  BY <1>3
<1>5. \E f : f = [i \in DOMAIN a |-> Partner(f, a, b, i)]
  BY <1>4
<1>6. Partners(a, b) = [i \in DOMAIN a |-> Partner(Partners(a, b), a, b, i)]
  BY <1>5 DEF Partners
<1>7. \A i \in 1..n : Partners(a, b)[i] = Partner(Partners(a, b), a, b, i)
  BY <1>6
<1>8. \A i \in 1..n : Partners(a, b)[i] \in 0..m
  BY <1>1, <1>7
<1>. QED BY <1>6, <1>7, <1>8

\* What partners of lines are: near them, and none is the partner of two; a
\* line is left without one only if those near it are partners of others.
Pairing(p, a, n, b, m) ==
  /\ p \in [1..n -> 0..m]
  /\ \A i \in 1..n : p[i] # 0 => SameLine(a[i], b[p[i]])
  /\ \A h, i \in 1..n : p[h] = p[i] /\ p[i] # 0 => h = i
  /\ \A i \in 1..n, k \in 1..m :
       SameLine(a[i], b[k]) /\ p[i] = 0 => \E h \in 1..n : h # i /\ p[h] = k

\* Partners pairs the lines.
LEMMA PartnersDiffer ==
  ASSUME NEW a, NEW n \in Nat, DOMAIN a = 1..n,
         NEW b, NEW m \in Nat, DOMAIN b = 1..m
  PROVE  Pairing(Partners(a, b), a, n, b, m)
<1> DEFINE p == Partners(a, b)
           free(i) == {k \in DOMAIN b : /\ SameLine(a[i], b[k])
                                        /\ \A h \in 1..(i - 1) : p[h] # k}
<1>1. /\ p \in [1..n -> 0..m]
      /\ \A i \in 1..n : p[i] = IF free(i) = {} THEN 0 ELSE Min(free(i))
  <2>1. /\ p \in [1..n -> 0..m]
        /\ \A i \in 1..n : p[i] = Partner(p, a, b, i)
    BY PartnersIs
  <2>2. \A i \in 1..n : Partner(p, a, b, i) = IF free(i) = {} THEN 0 ELSE Min(free(i))
    BY DEF Partner
  <2> HIDE DEF p, free
  <2>. QED BY <2>1, <2>2
<1> HIDE DEF p
<1>2. ASSUME NEW i \in 1..n, p[i] # 0 PROVE p[i] \in free(i)
  <2>1. free(i) # {} /\ p[i] = Min(free(i))
    BY <1>1, <1>2
  <2>2. free(i) \in SUBSET Nat
    OBVIOUS
  <2> HIDE DEF free
  <2>. QED BY <2>1, <2>2, MinOfNaturals
<1>3. ASSUME NEW h \in 1..n, NEW i \in 1..n, p[h] = p[i], p[i] # 0, h < i
      PROVE  FALSE
  <2>1. h \in 1..(i - 1)
    BY <1>3
  <2>. QED BY <1>2, <1>3, <2>1
<1>4. ASSUME NEW i \in 1..n, NEW k \in 1..m, SameLine(a[i], b[k]), p[i] = 0
      PROVE  \E h \in 1..n : h # i /\ p[h] = k
  <2>1. free(i) = {}
    <3> SUFFICES ASSUME free(i) # {} PROVE FALSE
      OBVIOUS
    <3>1. p[i] = Min(free(i))
      BY <1>1
    <3>2. free(i) \in SUBSET (1..m)
      OBVIOUS
    <3> HIDE DEF free
    <3>3. free(i) \in SUBSET Nat /\ 0 \notin free(i)
      BY <3>2
    <3>. QED BY <1>4, <3>1, <3>3, MinOfNaturals
  <2>2. PICK h \in 1..(i - 1) : p[h] = k
    BY <1>4, <2>1
  <2>. QED BY <2>2
<1>5. \A i \in 1..n : p[i] # 0 => SameLine(a[i], b[p[i]])
  BY <1>2
<1>6. \A h, i \in 1..n : p[h] = p[i] /\ p[i] # 0 => h = i
  <2> SUFFICES ASSUME NEW h \in 1..n, NEW i \in 1..n, p[h] = p[i], p[i] # 0, h # i
               PROVE  FALSE
    OBVIOUS
  <2>1. h < i \/ i < h
    OBVIOUS
  <2>. QED BY <1>3, <2>1
<1>7. Pairing(p, a, n, b, m)
  BY <1>1, <1>4, <1>5, <1>6 DEF Pairing
<1>. QED BY <1>7 DEF p

\* What the models agree on is read by both: each of its lines is a line of
\* either list, never the same one twice, and if the first model's lines lie
\* apart every one that the second reads as well is among them.
LEMMA AgreedFreqsFrom ==
  ASSUME NEW listA \in Seq(Lines), NEW listB \in Seq(Lines)
  PROVE  \E n \in Nat :
           \E f \in Injection(1..n, Known(listA)), g \in Injection(1..n, Known(listB)) :
             /\ DOMAIN AgreedFreqs(listA, listB) = 1..n
             /\ \A m \in 1..n :
                  /\ Near(listA[f[m]], listB[g[m]])
                  /\ AgreedFreqs(listA, listB)[m].type
                       = MapFreqType(listA[f[m]].label)
             /\ FarApart(listA) =>
                  \A i \in Known(listA), k \in Known(listB) :
                    Near(listA[i], listB[k]) => \E m \in 1..n : f[m] = i
<1> DEFINE a == Normalized(listA)
           b == Normalized(listB)
           p == Partners(a, b)
           matched == {i \in DOMAIN a : p[i] # 0}
           best == [i \in matched |-> MorePrecise(a[i], b[p[i]])]
           N == Cardinality(matched)
<1>1. AgreedFreqs(listA, listB) = Picked(best, matched)
  BY DEF AgreedFreqs
<1>2. PICK na \in Nat : \E at \in Bijection(1..na, Known(listA)) :
         /\ DOMAIN a = 1..na
         /\ \A i \in 1..na : /\ a[i].type = MapFreqType(listA[at[i]].label)
                              /\ a[i].khz = listA[at[i]].khz
  BY NormalizedFrom
<1>3. PICK fa \in Bijection(1..na, Known(listA)) :
         /\ DOMAIN a = 1..na
         /\ \A i \in 1..na : /\ a[i].type = MapFreqType(listA[fa[i]].label)
                              /\ a[i].khz = listA[fa[i]].khz
  BY <1>2
<1>4. PICK nb \in Nat : \E at \in Bijection(1..nb, Known(listB)) :
         /\ DOMAIN b = 1..nb
         /\ \A i \in 1..nb : /\ b[i].type = MapFreqType(listB[at[i]].label)
                              /\ b[i].khz = listB[at[i]].khz
  BY NormalizedFrom
<1>5. PICK fb \in Bijection(1..nb, Known(listB)) :
         /\ DOMAIN b = 1..nb
         /\ \A i \in 1..nb : /\ b[i].type = MapFreqType(listB[fb[i]].label)
                              /\ b[i].khz = listB[fb[i]].khz
  BY <1>4
<1> HIDE DEF a, b
<1>6. /\ p \in [1..na -> 0..nb]
      /\ \A i \in 1..na : p[i] # 0 => SameLine(a[i], b[p[i]])
      /\ \A h, i \in 1..na : p[h] = p[i] /\ p[i] # 0 => h = i
      /\ \A i \in 1..na, k \in 1..nb :
           SameLine(a[i], b[k]) /\ p[i] = 0 => \E h \in 1..na : h # i /\ p[h] = k
  <2>1. na \in Nat /\ nb \in Nat /\ DOMAIN a = 1..na /\ DOMAIN b = 1..nb
    BY <1>3, <1>5
  <2>2. Pairing(p, a, na, b, nb)
    BY <2>1, PartnersDiffer
  <2> HIDE DEF p
  <2>. QED BY <2>2 DEF Pairing
<1> HIDE DEF p
<1>7. matched \in SUBSET Nat /\ IsFiniteSet(matched) /\ matched \in SUBSET (1..na)
  <2>1. matched \in SUBSET (1..na)
    BY <1>3
  <2> HIDE DEF matched
  <2>. QED BY <2>1, PlacesAreFinite
<1>8. \A i \in matched : /\ i \in 1..na /\ p[i] \in 1..nb
                         /\ SameLine(a[i], b[p[i]]) /\ p[i] # 0
  BY <1>3, <1>6
<1>9. \A i \in matched : best[i].type = a[i].type
  BY <1>8 DEF MorePrecise, SameLine
<1>10. \A i \in 1..na : p[i] # 0 => i \in matched
  BY <1>3
<1> HIDE DEF matched, best
<1>11. N \in Nat
  BY <1>7, PickedInOrder
<1>12. PICK at \in Bijection(1..N, matched) :
          Picked(best, matched) = [m \in 1..N |-> best[at[m]]]
  BY <1>7, PickedInOrder
<1> HIDE DEF N
<1>13. /\ \A m \in 1..N : at[m] \in matched
       /\ \A l, m \in 1..N : at[l] = at[m] => l = m
       /\ \A i \in matched : \E m \in 1..N : at[m] = i
  BY DEF Bijection, Injection, Surjection, IsInjective
<1>14. /\ \A i \in 1..na : fa[i] \in Known(listA)
       /\ \A h, i \in 1..na : fa[h] = fa[i] => h = i
       /\ \A j \in Known(listA) : \E i \in 1..na : fa[i] = j
  BY DEF Bijection, Injection, Surjection, IsInjective
<1>15. /\ \A i \in 1..nb : fb[i] \in Known(listB)
       /\ \A h, i \in 1..nb : fb[h] = fb[i] => h = i
       /\ \A j \in Known(listB) : \E i \in 1..nb : fb[i] = j
  BY DEF Bijection, Injection, Surjection, IsInjective
<1> DEFINE f == [m \in 1..N |-> fa[at[m]]]
           g == [m \in 1..N |-> fb[p[at[m]]]]
<1>16. f \in Injection(1..N, Known(listA))
  <2>1. f \in [1..N -> Known(listA)]
    BY <1>8, <1>13, <1>14
  <2>2. ASSUME NEW l \in 1..N, NEW m \in 1..N, f[l] = f[m] PROVE l = m
    <3>1. at[l] \in 1..na /\ at[m] \in 1..na /\ fa[at[l]] = fa[at[m]]
      BY <1>8, <1>13, <2>2
    <3>2. at[l] = at[m]
      BY <1>14, <3>1
    <3>. QED BY <1>13, <3>2
  <2> HIDE DEF f
  <2>. QED BY <2>1, <2>2 DEF Injection, IsInjective
<1>17. g \in Injection(1..N, Known(listB))
  <2>1. g \in [1..N -> Known(listB)]
    BY <1>8, <1>13, <1>15
  <2>2. ASSUME NEW l \in 1..N, NEW m \in 1..N, g[l] = g[m] PROVE l = m
    <3>1. /\ p[at[l]] \in 1..nb /\ p[at[m]] \in 1..nb /\ p[at[m]] # 0
          /\ at[l] \in 1..na /\ at[m] \in 1..na
          /\ fb[p[at[l]]] = fb[p[at[m]]]
      BY <1>8, <1>13, <2>2
    <3>2. p[at[l]] = p[at[m]]
      BY <1>15, <3>1
    <3>3. at[l] = at[m]
      BY <1>6, <3>1, <3>2
    <3>. QED BY <1>13, <3>3
  <2> HIDE DEF g
  <2>. QED BY <2>1, <2>2 DEF Injection, IsInjective
<1>18. \A i \in 1..na, k \in 1..nb :
          SameLine(a[i], b[k]) <=> Near(listA[fa[i]], listB[fb[k]])
  BY <1>3, <1>5 DEF SameLine, Near
<1>19. DOMAIN AgreedFreqs(listA, listB) = 1..N
  BY <1>1, <1>12
<1>20. ASSUME NEW m \in 1..N
       PROVE  /\ Near(listA[f[m]], listB[g[m]])
              /\ AgreedFreqs(listA, listB)[m].type = MapFreqType(listA[f[m]].label)
  <2>1. AgreedFreqs(listA, listB)[m].type = a[at[m]].type
    BY <1>1, <1>9, <1>12, <1>13
  <2>. QED BY <1>3, <1>8, <1>13, <1>18, <2>1
<1>21. ASSUME FarApart(listA), NEW i \in Known(listA), NEW k \in Known(listB),
              Near(listA[i], listB[k])
       PROVE  \E m \in 1..N : f[m] = i
  <2>1. PICK x \in 1..na : fa[x] = i
    BY <1>14
  <2>2. PICK y \in 1..nb : fb[y] = k
    BY <1>15
  <2>3. SameLine(a[x], b[y])
    BY <1>18, <1>21, <2>1, <2>2
  <2>4. p[x] # 0
    <3> SUFFICES ASSUME p[x] = 0 PROVE FALSE
      OBVIOUS
    <3>1. PICK h \in 1..na : h # x /\ p[h] = y
      BY <1>6, <2>3
    <3>2. SameLine(a[h], b[y]) /\ fa[h] \in Known(listA) /\ fa[h] # i
      <4>1. p[h] # 0
        BY <3>1
      <4>. QED BY <1>6, <1>14, <2>1, <3>1, <4>1
    <3>3. Near(listA[fa[h]], listB[k])
      BY <1>18, <2>2, <3>2
    <3> DEFINE u == listA[fa[h]].khz
               v == listA[i].khz
               w == listB[k].khz
    <3>4. u \in Int /\ v \in Int /\ w \in Int
      <4>1. fa[h] \in DOMAIN listA /\ i \in DOMAIN listA /\ k \in DOMAIN listB
        BY <3>2 DEF Known
      <4>2. listA[fa[h]] \in Lines /\ listA[i] \in Lines /\ listB[k] \in Lines
        BY <4>1
      <4>. QED BY <4>2 DEF Lines
    <3>5. Distance(u, w) <= FreqTolerance /\ Distance(v, w) <= FreqTolerance
      BY <1>21, <3>3 DEF Near
    <3>6. Distance(u, v) > 2 * FreqTolerance
      BY <1>21, <3>2, <3>3 DEF FarApart, Near, Known
    <3> HIDE DEF u, v, w
    <3>7. /\ Distance(u, w) = IF u >= w THEN u - w ELSE w - u
          /\ Distance(v, w) = IF v >= w THEN v - w ELSE w - v
          /\ Distance(u, v) = IF u >= v THEN u - v ELSE v - u
      BY <3>4, DistanceIs
    <3>8. FreqTolerance = 5
      BY DEF FreqTolerance
    <3>. QED BY ONLY <3>4, <3>5, <3>6, <3>7, <3>8
  <2>5. PICK m \in 1..N : at[m] = x
    BY <1>10, <1>13, <2>4
  <2>. QED BY <2>1, <2>5
<1> HIDE DEF f, g
<1>. QED BY <1>11, <1>16, <1>17, <1>19, <1>20, <1>21

\* As many of one set as of another are counted by a one-to-one map.
LEMMA NoMoreThan ==
  ASSUME NEW S, NEW T, IsFiniteSet(T), NEW f \in [S -> T],
         \A x, y \in S : f[x] = f[y] => x = y
  PROVE  /\ Cardinality(S) <= Cardinality(T)
         /\ (\A z \in T : \E x \in S : f[x] = z) => Cardinality(S) = Cardinality(T)
<1>1. f \in Injection(S, T)
  BY DEF Injection, IsInjective
<1>2. (\A z \in T : \E x \in S : f[x] = z) => f \in Surjection(S, T)
  BY DEF Surjection
<1>. QED BY <1>1, <1>2, FS_Injection

\* The lines of a service among finitely many.
LEMMA LinesOfAre ==
  ASSUME NEW list \in Seq(Lines), NEW t \in FrequencyType
  PROVE  /\ IsFiniteSet(LinesOf(list, t))
         /\ LinesOf(list, t) \subseteq Known(list)
         /\ \A i \in Known(list) :
              MapFreqType(list[i].label) = t => i \in LinesOf(list, t)
<1>1. Len(list) \in Nat /\ LinesOf(list, t) \in SUBSET (1..Len(list))
  BY DEF LinesOf
<1>2. IsFiniteSet(LinesOf(list, t))
  BY ONLY <1>1, PlacesAreFinite
<1>3. t # NoType
  BY DEF FrequencyType, NoType
<1>. QED BY <1>2, <1>3 DEF LinesOf, Known

\* What the models read was among what they may read.
VoteInv ==
  group = "frequencies" /\ vote.cast => vote.a \in FreqReadings /\ vote.b \in FreqReadings

\* A vote is cast only with what the models read, and taken back when merged.
LEMMA VoteStep ==
  ASSUME VoteInv, FieldNext
  PROVE  VoteInv'
<1>1. CASE ChartAnswered
  <2>1. group' = group
    BY <1>1 DEF ChartAnswered
  <2>2. CASE group = "frequencies"
    <3>1. PICK a \in FreqReadings, b \in FreqReadings : vote' = Cast(a, b)
      BY <1>1, <2>2 DEF ChartAnswered, FieldReadings
    <3>. QED BY <3>1 DEF Cast, VoteInv
  <2>. QED BY <2>1, <2>2 DEF VoteInv
<1>2. CASE MergeVote
  BY <1>2 DEF MergeVote, NoVote, VoteInv
<1>3. CASE ChartFails \/ ListAnswered \/ WriteGroup
  BY <1>3 DEF ChartFails, ListAnswered, WriteGroup, VoteInv
<1>. QED BY <1>1, <1>2, <1>3 DEF FieldNext

\* The lines the models agree on are lines of either, and no line counts twice.
LEMMA LinesAre == VoteInv => LinesPairUp
<1> SUFFICES ASSUME VoteInv, group = "frequencies", vote.cast,
                    NEW t \in FrequencyType
             PROVE  LET agreed == AgreedFreqs(vote.a, vote.b)
                        found == {n \in DOMAIN agreed : agreed[n].type = t}
                    IN /\ Cardinality(found) <= Cardinality(LinesOf(vote.a, t))
                       /\ Cardinality(found) <= Cardinality(LinesOf(vote.b, t))
                       /\ FarApart(vote.a) =>
                            Cardinality(found) = Cardinality(Common(vote.a, vote.b, t))
  BY DEF LinesPairUp
<1> DEFINE a == vote.a
           b == vote.b
           agreed == AgreedFreqs(a, b)
           found == {n \in DOMAIN agreed : agreed[n].type = t}
<1>1. a \in Seq(Lines) /\ b \in Seq(Lines)
  BY FieldAssumption DEF VoteInv
<1> HIDE DEF a, b
<1>2. PICK n \in Nat :
        \E x \in Injection(1..n, Known(a)), y \in Injection(1..n, Known(b)) :
          /\ DOMAIN agreed = 1..n
          /\ \A m \in 1..n : /\ Near(a[x[m]], b[y[m]])
                              /\ agreed[m].type = MapFreqType(a[x[m]].label)
          /\ FarApart(a) =>
               \A i \in Known(a), k \in Known(b) :
                 Near(a[i], b[k]) => \E m \in 1..n : x[m] = i
  BY <1>1, AgreedFreqsFrom
<1>3. PICK x \in Injection(1..n, Known(a)), y \in Injection(1..n, Known(b)) :
          /\ DOMAIN agreed = 1..n
          /\ \A m \in 1..n : /\ Near(a[x[m]], b[y[m]])
                              /\ agreed[m].type = MapFreqType(a[x[m]].label)
          /\ FarApart(a) =>
               \A i \in Known(a), k \in Known(b) :
                 Near(a[i], b[k]) => \E m \in 1..n : x[m] = i
  BY <1>2
<1> HIDE DEF agreed
<1>4. /\ \A m \in 1..n : x[m] \in Known(a) /\ y[m] \in Known(b)
      /\ \A l, m \in 1..n : x[l] = x[m] => l = m
      /\ \A l, m \in 1..n : y[l] = y[m] => l = m
  BY DEF Injection, IsInjective
<1>5. \A m \in found :
        /\ m \in 1..n /\ Near(a[x[m]], b[y[m]])
        /\ x[m] \in LinesOf(a, t) /\ y[m] \in LinesOf(b, t)
  BY <1>1, <1>3, <1>4, LinesOfAre DEF Near
<1>6. \A m \in 1..n : MapFreqType(a[x[m]].label) = t => m \in found
  BY <1>3
<1> HIDE DEF found
<1>7. Cardinality(found) <= Cardinality(LinesOf(a, t))
  <2> DEFINE f == [m \in found |-> x[m]]
  <2>1. f \in [found -> LinesOf(a, t)] /\ \A l, m \in found : f[l] = f[m] => l = m
    BY <1>4, <1>5
  <2> HIDE DEF f
  <2>. QED BY <1>1, <2>1, LinesOfAre, NoMoreThan
<1>8. Cardinality(found) <= Cardinality(LinesOf(b, t))
  <2> DEFINE f == [m \in found |-> y[m]]
  <2>1. f \in [found -> LinesOf(b, t)] /\ \A l, m \in found : f[l] = f[m] => l = m
    BY <1>4, <1>5
  <2> HIDE DEF f
  <2>. QED BY <1>1, <2>1, LinesOfAre, NoMoreThan
<1>9. ASSUME FarApart(a)
      PROVE  Cardinality(found) = Cardinality(Common(a, b, t))
  <2> DEFINE f == [m \in found |-> x[m]]
  <2>1. \A i, k : i \in LinesOf(a, t) /\ k \in LinesOf(b, t) =>
           (Near(a[i], b[k]) <=> Distance(a[i].khz, b[k].khz) <= FreqTolerance)
    BY DEF Near, LinesOf
  <2>2. \A m \in found : x[m] \in Common(a, b, t)
    BY <1>5, <2>1 DEF Common
  <2>3. f \in [found -> Common(a, b, t)] /\ \A l, m \in found : f[l] = f[m] => l = m
    BY <1>4, <1>5, <2>2
  <2>4. ASSUME NEW i \in Common(a, b, t) PROVE \E m \in found : f[m] = i
    <3>1. PICK k \in LinesOf(b, t) : Distance(a[i].khz, b[k].khz) <= FreqTolerance
      BY DEF Common
    <3>2. /\ i \in LinesOf(a, t) /\ Near(a[i], b[k])
          /\ i \in Known(a) /\ k \in Known(b)
      BY <1>1, <2>1, <3>1, LinesOfAre DEF Common
    <3>3. PICK m \in 1..n : x[m] = i
      BY <1>3, <1>9, <3>2
    <3>4. m \in found
      BY <1>6, <3>2, <3>3 DEF LinesOf
    <3>. QED BY <3>3, <3>4
  <2>5. IsFiniteSet(Common(a, b, t))
    <3>1. IsFiniteSet(LinesOf(a, t)) /\ Common(a, b, t) \in SUBSET LinesOf(a, t)
      BY <1>1, LinesOfAre DEF Common
    <3>. QED BY <3>1, FS_Subset
  <2> HIDE DEF f
  <2>. QED BY <2>3, <2>4, <2>5, NoMoreThan
<1>. QED BY <1>7, <1>8, <1>9 DEF a, b, agreed, found

-----------------------------------------------------------------------------
(* The theorems.                                                           *)

GroupsInv == CallsInv /\ GeoInv /\ VoteInv

\* A job starts with any group, and nothing read.
LEMMA GroupsStart == GroupsInit => GroupsInv
<1> SUFFICES ASSUME GroupsInit PROVE GroupsInv
  OBVIOUS
<1>1. CallsInit /\ FieldInit
  BY DEF GroupsInit
<1>2. CallsTypeOK
  <2>1. call = NoCall /\ NoCall \in CallRecords /\ NoCall.step = "none"
    BY <1>1 DEF CallsInit, NoCall, CallRecords, Sizes, NoPicture
  <2>2. NoRows \in UsageRows /\ unasked \in Nat
    BY <1>1, PictureAssumption DEF CallsInit, NoRows, UsageRows
  <2>. QED BY <1>1, <2>1, <2>2 DEF CallsInit, CallsTypeOK
<1>3. CallsInv
  <2>1. \A p \in Models : Spent(p) = 0 /\ RowCount(p) = 0 /\ Out(p) = 0
    BY <1>1 DEF CallsInit, NoRows, NoCall, Spent, RowCount, Out
  <2>2. ~call.again
    BY <1>1 DEF CallsInit, NoCall
  <2>. QED BY <1>1, <1>2, <2>1, <2>2 DEF CallsInit, CallsInv
<1>4. GeoInv
  <2>1. /\ vote.cast = FALSE /\ voted = <<>> /\ DOMAIN geo = {} /\ Merged = 0
    BY <1>1 DEF FieldInit, NoVote, Merged
  <2>2. voted \in Seq(Votes)
    BY <2>1
  <2>3. 1..Merged = {}
    BY <2>1
  <2>4. ~vote.cast /\ vote.cast \in BOOLEAN
    BY <2>1
  <2>. QED BY <2>1, <2>2, <2>3, <2>4 DEF GeoInv
<1>5. VoteInv
  BY <1>1 DEF FieldInit, NoVote, VoteInv
<1>. QED BY <1>3, <1>4, <1>5 DEF GroupsInv

\* A step of a group leaves the other groups' variables alone.
LEMMA GroupsStep ==
  GroupsInv /\ [GroupsNext]_<<vars, fieldVars, callVars>> => GroupsInv'
<1> SUFFICES ASSUME GroupsInv, [GroupsNext]_<<vars, fieldVars, callVars>>
             PROVE  GroupsInv'
  OBVIOUS
<1>1. ASSUME UNCHANGED callVars PROVE CallsInv'
  BY <1>1
  DEF GroupsInv, callVars, CallsInv, CallsTypeOK, Spent, RowCount, Out, Model
<1>2. ASSUME UNCHANGED fieldVars PROVE GeoInv' /\ VoteInv'
  <2>1. GeoInv'
    BY <1>2 DEF GroupsInv, fieldVars, GeoInv, Merged, FirstNear, NearOn
  <2>2. VoteInv'
    BY <1>2 DEF GroupsInv, fieldVars, VoteInv
  <2>. QED BY <2>1, <2>2
<1>3. CASE CallStep /\ UNCHANGED fieldVars
  BY <1>2, <1>3, CallsStep DEF GroupsInv
<1>4. CASE FieldNext /\ UNCHANGED callVars
  BY <1>1, <1>4, GeoStep, VoteStep DEF GroupsInv
<1>. QED BY <1>1, <1>2, <1>3, <1>4 DEF GroupsNext, GroupsInv

\* The calls, the rows of both models and the charts left keep their types.
THEOREM CallsTypeCorrect == GroupsSpec => []CallsTypeOK
BY GroupsStart, GroupsStep, PTL DEF GroupsSpec, GroupsInv, CallsInv

\* What the usage page shows as spent is what the models charged, but for
\* rows the tracker lost.
THEOREM SpentIsShownCorrect == GroupsSpec => []SpentIsShown
<1>1. GroupsInv => SpentIsShown
  BY DEF GroupsInv, CallsInv, Spent, SpentIsShown, UsageSummary
<1>. QED BY <1>1, GroupsStart, GroupsStep, PTL DEF GroupsSpec

\* The calls the usage page shows are those made, and once more those that
\* failed after they had their row.
THEOREM EveryCallHasItsRowCorrect == GroupsSpec => []EveryCallHasItsRow
<1>1. GroupsInv => EveryCallHasItsRow
  <2> SUFFICES ASSUME CallsInv, NEW p \in Models
               PROVE  sent[p] + twice[p] =
                        UsageSummary(p).calls + lost[p].answered + lost[p].failed
                        + IF (Calling \/ Raising) /\ Model = p THEN 1 ELSE 0
    BY DEF GroupsInv, EveryCallHasItsRow
  <2>1. Out(p) = IF (Calling \/ Raising) /\ Model = p THEN 1 ELSE 0
    BY DEF CallsInv, CallsTypeOK, CallRecords, Out, Calling, Raising
  <2>2. RowCount(p) = UsageSummary(p).calls + lost[p].answered + lost[p].failed
    BY DEF RowCount, UsageSummary
  <2>. QED BY <2>1, <2>2 DEF CallsInv
<1>. QED BY <1>1, GroupsStart, GroupsStep, PTL DEF GroupsSpec

\* A picture that is sent again fits the budget of the model if any step of
\* the ladder does, and at the largest step that fits.
THEOREM RetryFitsCorrect == GroupsSpec => []RetryFits
<1>1. GroupsInv => RetryFits
  <2> SUFFICES ASSUME CallsInv, call.again,
                      NEW k \in FitsAt(call.disk)
               PROVE  /\ call.sending.bytes <= MaxBytes
                      /\ \A i \in FitsAt(call.disk) : Ladder[i] <= call.sending.edge
    BY DEF GroupsInv, RetryFits
  <2> DEFINE fits == FitsAt(call.disk)
  <2>1. fits \in SUBSET Nat /\ fits # {} /\ fits \subseteq DOMAIN Ladder
    BY PictureAssumption DEF FitsAt
  <2>2. Min(fits) \in fits /\ \A i \in fits : Min(fits) <= i
    <3> HIDE DEF fits
    <3>. QED BY <2>1, MinOfNaturals
  <2>3. call.sending = Rendering(call.disk, Min(fits))
    BY DEF CallsInv, Downscale
  <2>4. call.disk.at[Min(fits)] <= MaxBytes
    BY <2>2 DEF FitsAt
  <2>5. ASSUME NEW i \in fits PROVE Ladder[i] <= Ladder[Min(fits)]
    <3>1. /\ i \in Nat /\ Min(fits) \in Nat /\ Min(fits) <= i
          /\ Ladder[i] \in Nat /\ Ladder[Min(fits)] \in Nat
          /\ i \in DOMAIN Ladder /\ Min(fits) \in DOMAIN Ladder
      BY <2>1, <2>2, PictureAssumption
    <3>2. CASE i = Min(fits)
      BY <3>1, <3>2
    <3>3. CASE Min(fits) < i
      BY <3>1, <3>3, PictureAssumption
    <3>. QED BY <3>1, <3>2, <3>3
  <2>. QED BY <2>3, <2>4, <2>5 DEF Rendering
<1>. QED BY <1>1, GroupsStart, GroupsStep, PTL DEF GroupsSpec

\* Each scalar is the first model's reading of the first chart on which both
\* models agree about it: no value of one chart is confirmed on another.
THEOREM ScalarsFromFirstAgreementCorrect ==
  GroupsSpec => []ScalarsFromFirstAgreement
<1>1. GroupsInv => ScalarsFromFirstAgreement
  BY GeoIsFirst DEF GroupsInv
<1>. QED BY <1>1, GroupsStart, GroupsStep, PTL DEF GroupsSpec

\* No line of a chart supports two frequencies, and if the lines of a service
\* lie apart in the first reading none that both models read is lost.
THEOREM LinesPairUpCorrect == GroupsSpec => []LinesPairUp
<1>1. GroupsInv => LinesPairUp
  BY LinesAre DEF GroupsInv
<1>. QED BY <1>1, GroupsStart, GroupsStep, PTL DEF GroupsSpec

-----------------------------------------------------------------------------
(* The runways: what the consensus on one chart brings in.                 *)

\* The first strip of a list that has a key is a strip of the list.
LEMMA LeastIndex ==
  ASSUME NEW list, NEW n \in Nat, DOMAIN list = 1..n, NEW key \in Keys(list)
  PROVE  \E i \in DOMAIN list : First(list, key) = list[i] /\ Key(list, i) = key
<1> DEFINE S == {i \in DOMAIN list : Key(list, i) = key}
<1>1. S \in SUBSET Nat /\ S # {}
  BY DEF Keys
<1>2. Min(S) \in S /\ \A i \in S : Min(S) <= i
  <2> HIDE DEF S
  <2>. QED BY <1>1, MinOfNaturals
<1>3. \A k \in 1..(Min(S) - 1) : Key(list, k) # key
  <2> SUFFICES ASSUME NEW k \in 1..(Min(S) - 1), Key(list, k) = key PROVE FALSE
    OBVIOUS
  <2> DEFINE m == Min(S)
  <2>1. m \in 1..n /\ \A i \in S : m <= i
    BY <1>2
  <2>2. k \in 1..(m - 1)
    OBVIOUS
  <2> HIDE DEF m
  <2>3. k \in S /\ k \in Nat /\ m \in Nat /\ k < m
    BY <2>1, <2>2
  <2>4. m <= k
    BY <2>1, <2>3
  <2>. QED BY ONLY <2>3, <2>4
<1>4. Min(S) \in DOMAIN list /\ Key(list, Min(S)) = key
  <2> DEFINE m == Min(S)
  <2>1. m \in S
    BY <1>2
  <2> HIDE DEF m
  <2>. QED BY <2>1 DEF m
<1>5. \E i \in DOMAIN list :
         Key(list, i) = key /\ \A k \in 1..(i - 1) : Key(list, k) # key
  <2> HIDE DEF S
  <2>. QED BY <1>3, <1>4
<1>. QED BY <1>5 DEF First

\* The places ByLe and Resolved pick.
LEMMA ByLeFrom ==
  ASSUME NEW list \in Seq(Strips), NEW le
  PROVE  /\ Len(ByLe(list, le)) \in Nat
         /\ DOMAIN ByLe(list, le) = 1..Len(ByLe(list, le))
         /\ \A n \in DOMAIN ByLe(list, le) :
              \E i \in DOMAIN list : ByLe(list, le)[n] = list[i] /\ list[i].le = le
<1> DEFINE places == {i \in DOMAIN list : list[i].le = le}
<1>1. places \in SUBSET Nat /\ IsFiniteSet(places)
  <2>1. Len(list) \in Nat /\ places \in SUBSET (1..Len(list))
    OBVIOUS
  <2> HIDE DEF places
  <2>. QED BY <2>1, PlacesAreFinite
<1>2. /\ Cardinality(places) \in Nat
      /\ DOMAIN ByLe(list, le) = 1..Cardinality(places)
      /\ \A n \in 1..Cardinality(places) :
           \E i \in places : ByLe(list, le)[n] = list[i]
  <2> HIDE DEF places
  <2>1. ByLe(list, le) = Picked(list, places)
    BY DEF ByLe, places
  <2>. QED BY <1>1, <2>1, PickedFrom
<1>3. Len(ByLe(list, le)) = Cardinality(places)
  <2> HIDE DEF places
  <2>. QED BY <1>2
<1>. QED BY <1>2, <1>3

\* The strips of a list that have a high end.
LEMMA ResolvedFrom ==
  ASSUME NEW list, NEW n \in Nat, DOMAIN list = 1..n
  PROVE  /\ Len(Resolved(list)) \in Nat
         /\ DOMAIN Resolved(list) = 1..Len(Resolved(list))
         /\ \A m \in DOMAIN Resolved(list) :
              \E i \in DOMAIN list :
                 Resolved(list)[m] = list[i] /\ list[i].he # None
<1> DEFINE places == {i \in DOMAIN list : list[i].he # None}
<1>1. places \in SUBSET Nat /\ IsFiniteSet(places)
  <2>1. places \in SUBSET (1..n)
    OBVIOUS
  <2> HIDE DEF places
  <2>. QED BY <2>1, PlacesAreFinite
<1>2. /\ Cardinality(places) \in Nat
      /\ DOMAIN Resolved(list) = 1..Cardinality(places)
      /\ \A m \in 1..Cardinality(places) :
           \E i \in places : Resolved(list)[m] = list[i]
  <2> HIDE DEF places
  <2>1. Resolved(list) = Picked(list, places)
    BY DEF Resolved, places
  <2>. QED BY <1>1, <2>1, PickedFrom
<1>3. Len(Resolved(list)) = Cardinality(places)
  <2> HIDE DEF places
  <2>. QED BY <1>2
<1>. QED BY <1>2, <1>3

\* What the models agree on is read by both of them, under the low end.
LEMMA AgreedFrom ==
  ASSUME NEW a \in Seq(Strips), NEW b \in Seq(Strips), NEW le
  PROVE  /\ Len(Agreed(a, b, le)) \in Nat
         /\ DOMAIN Agreed(a, b, le) = 1..Len(Agreed(a, b, le))
         /\ \A m \in DOMAIN Agreed(a, b, le) :
              \E i \in DOMAIN a, k \in DOMAIN b :
                 /\ a[i].le = le /\ b[k].le = le
                 /\ Agreed(a, b, le)[m] = Entry(a[i], b[k])
                 /\ Entry(a[i], b[k]).he # None
<1> DEFINE x == ByLe(a, le)
           y == ByLe(b, le)
           z == [i \in DOMAIN Shorter(x, y) |-> Entry(x[i], y[i])]
<1>1. /\ Len(x) \in Nat /\ DOMAIN x = 1..Len(x)
      /\ \A n \in DOMAIN x : \E i \in DOMAIN a : x[n] = a[i] /\ a[i].le = le
  BY ByLeFrom
<1>2. /\ Len(y) \in Nat /\ DOMAIN y = 1..Len(y)
      /\ \A n \in DOMAIN y : \E i \in DOMAIN b : y[n] = b[i] /\ b[i].le = le
  BY ByLeFrom
<1>3. Agreed(a, b, le) = Resolved(z)
  BY DEF Agreed
<1> HIDE DEF x, y
<1>4. PICK n \in Nat : /\ DOMAIN z = 1..n
                       /\ 1..n \in SUBSET DOMAIN x
                       /\ 1..n \in SUBSET DOMAIN y
  <2>1. CASE Len(x) < Len(y)
    <3>1. DOMAIN z = 1..Len(x)
      BY <1>1, <2>1 DEF Shorter
    <3>2. 1..Len(x) \in SUBSET (1..Len(y))
      BY ONLY <1>1, <1>2, <2>1
    <3>. QED BY <1>1, <1>2, <3>1, <3>2
  <2>2. CASE ~(Len(x) < Len(y))
    <3>1. DOMAIN z = 1..Len(y)
      BY <1>2, <2>2 DEF Shorter
    <3>2. 1..Len(y) \in SUBSET (1..Len(x))
      BY ONLY <1>1, <1>2, <2>2
    <3>. QED BY <1>1, <1>2, <3>1, <3>2
  <2>. QED BY <2>1, <2>2
<1>5. ASSUME NEW i \in DOMAIN z
      PROVE  \E k \in DOMAIN a, l \in DOMAIN b :
                a[k].le = le /\ b[l].le = le /\ z[i] = Entry(a[k], b[l])
  <2>1. PICK k \in DOMAIN a : x[i] = a[k] /\ a[k].le = le
    BY <1>1, <1>4
  <2>2. PICK l \in DOMAIN b : y[i] = b[l] /\ b[l].le = le
    BY <1>2, <1>4
  <2>. QED BY <2>1, <2>2
<1> HIDE DEF z
<1>6. /\ Len(Resolved(z)) \in Nat
      /\ DOMAIN Resolved(z) = 1..Len(Resolved(z))
      /\ \A m \in DOMAIN Resolved(z) :
           \E i \in DOMAIN z : Resolved(z)[m] = z[i] /\ z[i].he # None
  BY <1>4, ResolvedFrom
<1>7. ASSUME NEW m \in DOMAIN Resolved(z)
      PROVE  \E i \in DOMAIN a, k \in DOMAIN b :
                 /\ a[i].le = le /\ b[k].le = le
                 /\ Resolved(z)[m] = Entry(a[i], b[k])
                 /\ Entry(a[i], b[k]).he # None
  BY <1>5, <1>6
<1>. QED BY <1>3, <1>6, <1>7

-----------------------------------------------------------------------------
(* The types of what is merged and written.                                *)

\* The opposite of a designator is one (None is one, too).
LEMMA OppositeType ==
  ASSUME NEW d \in Designators
  PROVE  Opposite(d) \in Designators
<1>1. CASE d.number \in 1..36 /\ d.letters \in Letters
  <2>1. ((d.number + 17) % 36) + 1 \in Nat
    BY <1>1
  <2>2. d.letters \in Seq(Marks)
    BY DEF Designators
  <2>3. "L" \in Marks /\ "R" \in Marks
    BY DEF Marks
  <2>4. <<"L">> \in Seq(Marks) /\ <<"R">> \in Seq(Marks)
    BY <2>3
  <2>. QED BY <1>1, <2>1, <2>2, <2>4 DEF Opposite, Designators
<1>2. CASE ~(d.number \in 1..36 /\ d.letters \in Letters)
  BY <1>2 DEF Opposite, Designators, None
<1>. QED BY <1>1, <1>2

\* Two surfaces that are read make a surface.
LEMMA SurfaceType ==
  ASSUME NEW a \in Seq(Surfaces), NEW b \in Seq(Surfaces)
  PROVE  AgreeSurface(a, b) \in Surfaces
<1> DEFINE common == {i \in DOMAIN a : \E k \in DOMAIN b : a[i] = b[k]}
<1>1. MapSurface(a) \in Surfaces
  BY DEF MapSurface, Surfaces
<1>2. common # {} => a[Min(common)] \in Surfaces
  <2> SUFFICES ASSUME common # {} PROVE a[Min(common)] \in Surfaces
    OBVIOUS
  <2>1. common \in SUBSET Nat /\ common \in SUBSET DOMAIN a
    OBVIOUS
  <2> HIDE DEF common
  <2>2. Min(common) \in DOMAIN a
    BY <2>1, MinOfNaturals
  <2>. QED BY <2>2
<1>. QED BY <1>1, <1>2 DEF AgreeSurface, Surfaces

\* An entry whose high end is resolved is a row, and its high end is safe.
LEMMA EntryIsSafe ==
  ASSUME NEW s \in Strips, NEW t \in Strips, s.le = t.le,
         Entry(s, t).he # None
  PROVE  /\ Entry(s, t) \in Rows /\ Entry(s, t).le = s.le
         /\ \/ Entry(s, t).he = Opposite(s.le)
            \/ Entry(s, t).he = s.he /\ Entry(s, t).he = t.he
<1>1. /\ Entry(s, t).le = s.le
      /\ Entry(s, t).he = ResolveHe(s.le, s.he, t.he)
      /\ Entry(s, t) = [le |-> s.le, he |-> ResolveHe(s.le, s.he, t.he),
                        surface |-> AgreeSurface(s.surface, t.surface)]
  BY DEF Entry, Strip
<1>2. /\ s.le \in Designators /\ s.he \in Designators /\ t.he \in Designators
      /\ AgreeSurface(s.surface, t.surface) \in Surfaces
  BY SurfaceType DEF Strips
<1>3. \/ Entry(s, t).he = Opposite(s.le)
      \/ Entry(s, t).he = s.he /\ Entry(s, t).he = t.he
  BY <1>1 DEF ResolveHe
<1>4. Entry(s, t).he \in Designators \ {None}
  BY <1>2, <1>3, OppositeType
<1>. QED BY <1>1, <1>2, <1>3, <1>4 DEF Rows

\* A designator with the letter of a surface is a designator.
LEMMA SuffixedType ==
  ASSUME NEW d \in Designators, NEW s \in Surfaces
  PROVE  Suffixed(d, s) \in Designators \ {None}
<1>1. SurfaceSuffix[s] \in Marks
  BY DEF SurfaceSuffix, Surfaces, Marks
<1>2. d.number \in Nat /\ d.letters \in Seq(Marks)
  BY DEF Designators
<1>3. /\ Append(d.letters, SurfaceSuffix[s]) \in Seq(Marks)
      /\ Append(d.letters, SurfaceSuffix[s]) # <<>>
  BY <1>1, <1>2
<1>4. Suffixed(d, s) = [number  |-> d.number,
                        letters |-> Append(d.letters, SurfaceSuffix[s])]
  BY DEF Suffixed, Designators
<1>. QED BY <1>2, <1>3, <1>4 DEF Designators, None

-----------------------------------------------------------------------------
(* The invariant of the runways.                                           *)

\* What the tables hold, and that a chart at hand counts among the candidates.
RunwayInv ==
  /\ TypeOK
  /\ chart \in [read : BOOLEAN, a : Readings \cup {<<>>}, b : Readings \cup {<<>>}]
  /\ chart.read => phase = "reading" /\ charts < MaxCharts
  /\ phase = "written" => table = {Disambiguated(key) : key \in DOMAIN merged}

\* What the models read are lists of strips.
LEMMA ReadingsAreLists ==
  ASSUME RunwayInv
  PROVE  chart.a \in Seq(Strips) /\ chart.b \in Seq(Strips)
<1>1. <<>> \in Seq(Strips)
  OBVIOUS
<1>2. Readings \cup {<<>>} \in SUBSET Seq(Strips)
  BY <1>1, RunwayAssumption
<1>3. chart.a \in Readings \cup {<<>>} /\ chart.b \in Readings \cup {<<>>}
  BY DEF RunwayInv
<1>. QED BY <1>2, <1>3

\* What is written for a merged strip is a row of the table.
LEMMA WrittenIsRow ==
  ASSUME RunwayInv, NEW key \in DOMAIN merged
  PROVE  Disambiguated(key) \in Rows
<1>1. merged[key] \in Rows
  BY DEF RunwayInv, TypeOK
<1>2. /\ merged[key].le \in Designators
      /\ merged[key].he \in Designators \ {None}
      /\ merged[key].surface \in Surfaces
  BY <1>1 DEF Rows
<1>3. /\ Suffixed(merged[key].le, merged[key].surface) \in Designators
      /\ Suffixed(merged[key].he, merged[key].surface) \in Designators \ {None}
  BY <1>2, SuffixedType
<1>. QED BY <1>1, <1>2, <1>3 DEF Disambiguated, Strip, Rows

\* A list of rows of a low end.
IsListing(list, le) ==
  \E n \in Nat : /\ DOMAIN list = 1..n
                 /\ \A i \in 1..n : list[i] \in Rows /\ list[i].le = le

\* What the models agree on under a low end is such a list, and no high end in
\* it is guessed.
LEMMA AgreedListing ==
  ASSUME RunwayInv, NEW le \in DOMAIN AgreedOnChart(chart)
  PROVE  /\ IsListing(AgreedOnChart(chart)[le], le)
         /\ \A m \in DOMAIN AgreedOnChart(chart)[le] :
              \E i \in DOMAIN chart.a, k \in DOMAIN chart.b :
                 LET rw == AgreedOnChart(chart)[le][m]
                 IN /\ chart.a[i].le = le /\ chart.b[k].le = le
                    /\ \/ rw.he = Opposite(le)
                       \/ rw.he = chart.a[i].he /\ rw.he = chart.b[k].he
<1> DEFINE a == chart.a
           b == chart.b
<1>1. a \in Seq(Strips) /\ b \in Seq(Strips)
  BY ReadingsAreLists
<1>2. AgreedOnChart(chart)[le] = Agreed(a, b, le)
  BY DEF AgreedOnChart
<1> HIDE DEF a, b
<1>3. /\ Len(Agreed(a, b, le)) \in Nat
      /\ DOMAIN Agreed(a, b, le) = 1..Len(Agreed(a, b, le))
      /\ \A m \in DOMAIN Agreed(a, b, le) :
           \E i \in DOMAIN a, k \in DOMAIN b :
              /\ a[i].le = le /\ b[k].le = le
              /\ Agreed(a, b, le)[m] = Entry(a[i], b[k])
              /\ Entry(a[i], b[k]).he # None
  BY <1>1, AgreedFrom
<1>4. ASSUME NEW m \in DOMAIN Agreed(a, b, le)
      PROVE  /\ Agreed(a, b, le)[m] \in Rows /\ Agreed(a, b, le)[m].le = le
             /\ \E i \in DOMAIN a, k \in DOMAIN b :
                  LET rw == Agreed(a, b, le)[m]
                  IN /\ a[i].le = le /\ b[k].le = le
                     /\ \/ rw.he = Opposite(le)
                        \/ rw.he = a[i].he /\ rw.he = b[k].he
  <2>1. PICK i \in DOMAIN a, k \in DOMAIN b :
           /\ a[i].le = le /\ b[k].le = le
           /\ Agreed(a, b, le)[m] = Entry(a[i], b[k])
           /\ Entry(a[i], b[k]).he # None
    BY <1>3
  <2>2. a[i] \in Strips /\ b[k] \in Strips
    BY <1>1
  <2>. QED BY <2>1, <2>2, EntryIsSafe
<1>. QED BY <1>2, <1>3, <1>4 DEF IsListing, a, b

\* A key that a chart brings in is the key of a strip listed under its low
\* end, and that strip is merged under it.
LEMMA NewKey ==
  ASSUME RunwayInv, NEW key \in DOMAIN Merge(AgreedOnChart(chart)) \ DOMAIN merged
  PROVE  /\ key[1] \in DOMAIN AgreedOnChart(chart)
         /\ \E m \in DOMAIN AgreedOnChart(chart)[key[1]] :
              /\ Key(AgreedOnChart(chart)[key[1]], m) = key
              /\ Merge(AgreedOnChart(chart))[key] = AgreedOnChart(chart)[key[1]][m]
<1> DEFINE agreed == AgreedOnChart(chart)
<1>1. PICK le \in DOMAIN agreed : key \in Keys(agreed[le])
  BY DEF Merge
<1>2. IsListing(agreed[le], le)
  BY AgreedListing
<1> HIDE DEF agreed
<1>3. PICK n \in Nat : /\ DOMAIN agreed[le] = 1..n
                       /\ \A i \in 1..n : agreed[le][i] \in Rows /\ agreed[le][i].le = le
  BY <1>2 DEF IsListing
<1>4. PICK m \in DOMAIN agreed[le] :
         First(agreed[le], key) = agreed[le][m] /\ Key(agreed[le], m) = key
  BY <1>1, <1>3, LeastIndex
<1>5. key[1] = le
  BY <1>3, <1>4 DEF Key
<1>6. Merge(agreed)[key] = agreed[le][m]
  BY <1>1, <1>4, <1>5 DEF Merge
<1>. QED BY <1>1, <1>4, <1>5, <1>6 DEF agreed

\* What the merge of a chart adds under a new key.
LEMMA MergeAdds ==
  ASSUME RunwayInv, NEW key \in DOMAIN Merge(AgreedOnChart(chart)) \ DOMAIN merged
  PROVE  /\ Merge(AgreedOnChart(chart))[key] \in Rows
         /\ \E i \in DOMAIN chart.a, k \in DOMAIN chart.b :
              LET rw == Merge(AgreedOnChart(chart))[key]
              IN /\ chart.a[i].le = rw.le /\ chart.b[k].le = rw.le
                 /\ \/ rw.he = Opposite(rw.le)
                    \/ chart.a[i].he = rw.he /\ chart.b[k].he = rw.he
<1> DEFINE agreed == AgreedOnChart(chart)
           le == key[1]
<1>1. /\ le \in DOMAIN agreed
      /\ \E m \in DOMAIN agreed[le] :
           Key(agreed[le], m) = key /\ Merge(agreed)[key] = agreed[le][m]
  BY NewKey
<1>2. IsListing(agreed[le], le)
  BY <1>1, AgreedListing
<1>3. \A m \in DOMAIN agreed[le] :
         \E i \in DOMAIN chart.a, k \in DOMAIN chart.b :
            /\ chart.a[i].le = le /\ chart.b[k].le = le
            /\ \/ agreed[le][m].he = Opposite(le)
               \/ agreed[le][m].he = chart.a[i].he /\ agreed[le][m].he = chart.b[k].he
  BY <1>1, AgreedListing
<1> HIDE DEF agreed, le
<1>4. PICK m \in DOMAIN agreed[le] : Merge(agreed)[key] = agreed[le][m]
  BY <1>1
<1>5. Merge(agreed)[key] \in Rows /\ Merge(agreed)[key].le = le
  BY <1>2, <1>4 DEF IsListing
<1>. QED BY <1>3, <1>4, <1>5 DEF agreed

\* At first nothing is read and nothing merged.
LEMMA RunwayInvInit == Init => RunwayInv
<1> SUFFICES ASSUME Init PROVE RunwayInv
  OBVIOUS
<1>. QED BY RunwayAssumption DEF Init, RunwayInv, TypeOK, NoChart

\* Every step of the runway group keeps the invariant.
LEMMA RunwayInvNext == RunwayInv /\ [Next]_vars => RunwayInv'
<1> SUFFICES ASSUME RunwayInv, [Next]_vars PROVE RunwayInv'
  OBVIOUS
<1> USE RunwayAssumption
<1>1. CASE CallBothProviders
  <2>1. PICK a \in Readings, b \in Readings :
           chart' = [read |-> TRUE, a |-> a, b |-> b]
    BY <1>1 DEF CallBothProviders
  <2>. QED BY <1>1, <2>1 DEF CallBothProviders, RunwayInv, TypeOK
<1>2. CASE ProviderFails
  BY <1>2 DEF ProviderFails, RunwayInv, TypeOK, NoChart
<1>3. CASE MergeChart
  <2>1. charts' \in 0..MaxCharts
    BY <1>3 DEF MergeChart, RunwayInv, TypeOK
  <2>2. chart' = [read |-> FALSE, a |-> <<>>, b |-> <<>>]
    BY <1>3 DEF MergeChart, NoChart
  <2>3. phase' = "reading" /\ table' = table
    BY <1>3 DEF MergeChart, RunwayInv
  <2>4. ASSUME NEW key \in DOMAIN merged' PROVE merged'[key] \in Rows
    <3>1. merged' = Merge(AgreedOnChart(chart))
      BY <1>3 DEF MergeChart
    <3>2. CASE key \in DOMAIN merged
      <4>1. merged'[key] = merged[key]
        BY <2>4, <3>1, <3>2 DEF Merge
      <4>. QED BY <3>2, <4>1 DEF RunwayInv, TypeOK
    <3>3. CASE key \notin DOMAIN merged
      BY <2>4, <3>1, <3>3, MergeAdds
    <3>. QED BY <3>2, <3>3
  <2>. QED BY <2>1, <2>2, <2>3, <2>4 DEF RunwayInv, TypeOK
<1>4. CASE WriteRunways
  <2>1. table' = {Disambiguated(key) : key \in DOMAIN merged}
    BY <1>4 DEF WriteRunways
  <2>2. table' \in SUBSET Rows
    BY <2>1, WrittenIsRow
  <2>3. phase' = "written" /\ UNCHANGED <<charts, chart, merged>> /\ ~chart.read
    BY <1>4 DEF WriteRunways, Finished, NoChart
  <2>4. table' = {Disambiguated(key)' : key \in DOMAIN merged'}
    BY <2>1, <2>3 DEF Disambiguated, Primaries, SameLe, Rank
  <2>. QED BY <2>2, <2>3, <2>4 DEF RunwayInv, TypeOK
<1>5. CASE KeepRunways
  BY <1>5 DEF KeepRunways, Finished, NoChart, RunwayInv, TypeOK
<1>6. CASE WriteFails
  BY <1>6 DEF WriteFails, Finished, NoChart, RunwayInv, TypeOK
<1>7. CASE UNCHANGED vars
  <2>1. (phase = "written" => table = {Disambiguated(key) : key \in DOMAIN merged})'
    <3>1. UNCHANGED <<phase, table, merged>>
      BY <1>7 DEF vars
    <3>2. \A key \in DOMAIN merged : Disambiguated(key)' = Disambiguated(key)
      BY <3>1 DEF Disambiguated, Primaries, SameLe, Rank
    <3>3. DOMAIN merged' = DOMAIN merged
      BY <3>1
    <3>4. {Disambiguated(key)' : key \in DOMAIN merged'} =
            {Disambiguated(key) : key \in DOMAIN merged}
      BY <3>2, <3>3
    <3>. QED BY <3>1, <3>4 DEF RunwayInv
  <2>. QED BY <1>7, <2>1 DEF vars, RunwayInv, TypeOK
<1>. QED
  BY <1>1, <1>2, <1>3, <1>4, <1>5, <1>6, <1>7 DEF Next

\* A job's runway group behaves as RunwayConsensus, and keeps its invariant.
LEMMA RunwaysAlways == GroupsSpec => Spec /\ []RunwayInv
<1>1. GroupsInit => Init
  BY DEF GroupsInit
<1>2. [GroupsNext]_<<vars, fieldVars, callVars>> => [Next]_vars
  BY DEF GroupsNext
<1>. QED BY <1>1, <1>2, RunwayInvInit, RunwayInvNext, PTL DEF GroupsSpec, Spec

\* What is read, merged and written of the runways keeps its type.
THEOREM RunwaysTypeCorrect == GroupsSpec => []TypeOK
<1>1. RunwayInv => TypeOK
  BY DEF RunwayInv
<1>. QED BY <1>1, RunwaysAlways, PTL

\* A high end that a chart brings in is the opposite of the low end or was
\* read by both models: _resolve_he never guesses.
THEOREM HighEndIsSafeCorrect == GroupsSpec => HighEndIsSafe
<1>1. RunwayInv /\ [Next]_vars =>
        [\A key \in DOMAIN merged' \ DOMAIN merged :
           LET rw == merged'[key]
               both == \A list \in {chart.a, chart.b} : \E i \in DOMAIN list :
                          list[i].le = rw.le /\ list[i].he = rw.he
           IN rw.he # None /\ (rw.he = Opposite(rw.le) \/ both)]_vars
  <2> SUFFICES ASSUME RunwayInv, [Next]_vars,
                      NEW key \in DOMAIN merged' \ DOMAIN merged
               PROVE  LET rw == merged'[key]
                          both == \A list \in {chart.a, chart.b} :
                                    \E i \in DOMAIN list :
                                       list[i].le = rw.le /\ list[i].he = rw.he
                      IN rw.he # None /\ (rw.he = Opposite(rw.le) \/ both)
    OBVIOUS
  <2>1. MergeChart
    BY DEF Next, vars, CallBothProviders, ProviderFails, WriteRunways,
           KeepRunways, WriteFails
  <2>2. merged' = Merge(AgreedOnChart(chart))
    BY <2>1 DEF MergeChart
  <2>3. merged'[key].he # None
    BY <2>2, MergeAdds DEF Rows
  <2>. QED BY <2>2, <2>3, MergeAdds
<1>. QED BY <1>1, RunwaysAlways, PTL DEF Spec, HighEndIsSafe

\* One of the strips of a low end has the best surface.
LEMMA BestOf ==
  ASSUME RunwayInv, NEW key \in DOMAIN merged
  PROVE  \E p \in SameLe(key) : \A k \in SameLe(key) : Rank(p) <= Rank(k)
<1> DEFINE ranks == {Rank(k) : k \in SameLe(key)}
<1>1. ranks \in SUBSET Nat /\ ranks # {}
  <2>1. \A s \in Surfaces : SurfaceRank[s] \in Nat
    BY DEF SurfaceRank, Surfaces
  <2>2. \A k \in DOMAIN merged : Rank(k) \in Nat
    BY <2>1 DEF RunwayInv, TypeOK, Rows, Rank
  <2>. QED BY <2>2 DEF SameLe
<1>2. Min(ranks) \in ranks /\ \A x \in ranks : Min(ranks) <= x
  <2> HIDE DEF ranks
  <2>. QED BY <1>1, MinOfNaturals
<1>. QED BY <1>2

\* Every low end is written for a strip of the best surface that shares it.
THEOREM PrimaryHasBestSurfaceCorrect == GroupsSpec => []PrimaryHasBestSurface
<1>1. RunwayInv => PrimaryHasBestSurface
  <2> SUFFICES ASSUME RunwayInv, phase = "written", NEW key \in DOMAIN merged
               PROVE  \E rw \in table :
                         /\ rw.le = merged[key].le
                         /\ \A k \in SameLe(key) : SurfaceRank[rw.surface] <= Rank(k)
    BY DEF PrimaryHasBestSurface
  <2> DEFINE p == CHOOSE p \in SameLe(key) : \A k \in SameLe(key) : Rank(p) <= Rank(k)
  <2>1. \E q \in SameLe(key) : \A k \in SameLe(key) : Rank(q) <= Rank(k)
    BY BestOf
  <2>4. p \in SameLe(key) /\ \A k \in SameLe(key) : Rank(p) <= Rank(k)
    BY <2>1
  <2>5. p \in Primaries /\ p \in DOMAIN merged /\ merged[p].le = merged[key].le
    BY <2>4 DEF Primaries, SameLe
  <2> HIDE DEF p
  <2>6. merged[p] \in table
    BY <2>5 DEF RunwayInv, Disambiguated
  <2>. QED BY <2>4, <2>5, <2>6 DEF Rank
<1>. QED BY <1>1, RunwaysAlways, PTL

\* A permutation lists the same low ends.
LEMMA ReorderedLowEnds ==
  ASSUME NEW list \in Seq(Strips), NEW b \in Reordered(list)
  PROVE  LowEnds(b) = LowEnds(list)
<1> DEFINE D == DOMAIN list
<1>1. PICK p \in [D -> D] : /\ \A i, k \in D : p[i] = p[k] => i = k
                            /\ b = [i \in D |-> list[p[i]]]
  BY DEF Reordered
<1>2. IsFiniteSet(D)
  <2>1. D \in SUBSET (1..Len(list)) /\ Len(list) \in Nat
    OBVIOUS
  <2> HIDE DEF D
  <2>. QED BY <2>1, PlacesAreFinite
<1>3. p \in Surjection(D, D)
  <2> HIDE DEF D
  <2>1. p \in Injection(D, D)
    BY <1>1 DEF Injection, IsInjective
  <2>. QED BY <1>2, <2>1, FS_Injection
<1>4. \A k \in D : \E i \in D : p[i] = k
  BY <1>3 DEF Surjection
<1>. QED BY <1>1, <1>4 DEF LowEnds

\* The order in which a model lists runways of different low ends is without
\* effect on what the two models agree about.
THEOREM ListingOrderIrrelevantCorrect == GroupsSpec => []ListingOrderIrrelevant
<1>1. RunwayInv => ListingOrderIrrelevant
  <2> SUFFICES ASSUME RunwayInv, NEW b \in Reordered(chart.b),
                      SameGroups(chart.b, b)
               PROVE  AgreedOnChart([chart EXCEPT !.b = b]) = AgreedOnChart(chart)
    BY DEF ListingOrderIrrelevant
  <2> DEFINE c == [chart EXCEPT !.b = b]
  <2>1. c.a = chart.a /\ c.b = b
    BY DEF RunwayInv
  <2>2. LowEnds(b) = LowEnds(chart.b)
    <3>1. chart.b \in Seq(Strips)
      BY ReadingsAreLists
    <3>. QED BY <3>1, ReorderedLowEnds
  <2>3. \A le \in LowEnds(chart.b) : Agreed(c.a, c.b, le) = Agreed(chart.a, chart.b, le)
    BY <2>1 DEF Agreed, SameGroups
  <2> HIDE DEF c
  <2>4. AgreedOnChart(c) = AgreedOnChart(chart)
    BY <2>1, <2>2, <2>3 DEF AgreedOnChart
  <2>. QED BY <2>4 DEF c
<1>. QED BY <1>1, RunwaysAlways, PTL

-----------------------------------------------------------------------------
(* How many strips of a pair of designators are merged.                    *)

\* The strips of a pair in a list: each that is not the first of its pair has
\* its surface among those of the further ones.
LEMMA OfPairIs ==
  ASSUME NEW list, NEW n \in Nat, DOMAIN list = 1..n, NEW p
  PROVE  /\ \E m \in Nat : DOMAIN OfPair(list, p) = 1..m /\ Len(OfPair(list, p)) = m
         /\ \A m \in DOMAIN OfPair(list, p) :
              \E i \in DOMAIN list : OfPair(list, p)[m] = list[i]
         /\ \A i \in DOMAIN list : <<list[i].le, list[i].he>> = p =>
              /\ Len(OfPair(list, p)) # 0
              /\ (\E k \in 1..(i - 1) : SamePair(list[k], list[i])) =>
                    list[i].surface \in MoreSurfaces(OfPair(list, p))
<1> DEFINE places == {i \in DOMAIN list : <<list[i].le, list[i].he>> = p}
           x == OfPair(list, p)
           N == Cardinality(places)
<1>1. places \in SUBSET Nat /\ IsFiniteSet(places)
  <2>1. places \in SUBSET (1..n)
    OBVIOUS
  <2> HIDE DEF places
  <2>. QED BY <2>1, PlacesAreFinite
<1>2. x = Picked(list, places)
  BY DEF OfPair
<1>3. \A i, k \in DOMAIN list : SamePair(list[k], list[i]) /\ i \in places => k \in places
  BY DEF SamePair
<1>4. \A i \in places : i \in DOMAIN list
  OBVIOUS
<1>5. \A i \in DOMAIN list : <<list[i].le, list[i].he>> = p => i \in places
  OBVIOUS
<1> HIDE DEF places, x
<1>6. N \in Nat
  BY <1>1, PickedInOrder
<1>7. PICK at \in Bijection(1..N, places) :
         /\ Picked(list, places) = [m \in 1..N |-> list[at[m]]]
         /\ \A m \in 1..N : Cardinality(Upto(places, at[m])) = m
  BY <1>1, PickedInOrder
<1> HIDE DEF N
<1>8. /\ \A m \in 1..N : at[m] \in places
      /\ \A i \in places : \E m \in 1..N : at[m] = i
  BY DEF Bijection, Injection, Surjection
<1>9. DOMAIN x = 1..N /\ Len(x) = N /\ \A m \in 1..N : x[m] = list[at[m]]
  <2>1. DOMAIN x = 1..N /\ x = [m \in 1..N |-> list[at[m]]]
    BY <1>2, <1>7
  <2>. QED BY <1>6, <2>1
<1>10. ASSUME NEW i \in places
       PROVE  N # 0
  BY <1>6, <1>8
<1>11. ASSUME NEW i \in places, NEW k \in 1..(i - 1), SamePair(list[k], list[i])
       PROVE  list[i].surface \in MoreSurfaces(x)
  <2>1. PICK m \in 1..N : at[m] = i
    BY <1>8
  <2>2. i \in 1..n /\ k \in 1..n /\ k <= i /\ k # i /\ i <= i
    BY <1>4
  <2>3. k \in places
    BY <1>3, <1>11, <2>2
  <2> DEFINE upto == Upto(places, i)
  <2>4. m # 1
    <3> SUFFICES ASSUME m = 1 PROVE FALSE
      OBVIOUS
    <3>1. Cardinality(upto) = 1
      BY <1>7, <2>1
    <3>2. i \in upto /\ k \in upto /\ upto \in SUBSET places
      BY <2>2, <2>3 DEF Upto
    <3> HIDE DEF upto
    <3>3. IsFiniteSet(upto)
      BY <1>1, <3>2, FS_Subset
    <3>4. \E e : upto = {e}
      BY <3>1, <3>3, FS_Singleton
    <3>. QED BY <2>2, <3>2, <3>4
  <2>5. m \in DOMAIN x \ {1} /\ x[m] = list[i]
    BY <1>9, <2>1, <2>4
  <2>. QED BY <2>5 DEF MoreSurfaces
<1>12. \A m \in DOMAIN x : \E i \in DOMAIN list : x[m] = list[i]
  BY <1>4, <1>8, <1>9
<1>. QED BY <1>5, <1>6, <1>9, <1>10, <1>11, <1>12 DEF x

\* A list of n strips has at most n - 1 surfaces behind the first.
LEMMA MoreSurfacesAre ==
  ASSUME NEW x, NEW n \in Nat, DOMAIN x = 1..n
  PROVE  /\ IsFiniteSet(MoreSurfaces(x)) /\ Cardinality(MoreSurfaces(x)) \in Nat
         /\ n = 0 => MoreSurfaces(x) = {}
         /\ n # 0 => Cardinality(MoreSurfaces(x)) + 1 <= n
<1> DEFINE f == [i \in 2..n |-> x[i].surface]
<1>1. (1..n) \ {1} = 2..n
  OBVIOUS
<1>2. f \in Surjection(2..n, MoreSurfaces(x))
  BY <1>1 DEF MoreSurfaces, Surjection
<1> HIDE DEF f
<1>3. IsFiniteSet(2..n) /\ Cardinality(2..n) = IF 2 > n THEN 0 ELSE n - 1
  <2>1. 2 \in Int /\ n \in Int
    OBVIOUS
  <2>2. IsFiniteSet(2..n) /\ Cardinality(2..n) = IF 2 > n THEN 0 ELSE n - 2 + 1
    BY ONLY <2>1, FS_Interval
  <2>. QED BY <2>2
<1>4. /\ IsFiniteSet(MoreSurfaces(x))
      /\ Cardinality(MoreSurfaces(x)) <= Cardinality(2..n)
  BY <1>2, <1>3, FS_Surjection
<1>5. Cardinality(MoreSurfaces(x)) \in Nat
  BY <1>4, FS_CardinalityType
<1>6. n = 0 => MoreSurfaces(x) = {}
  BY <1>1 DEF MoreSurfaces
<1>7. n # 0 => Cardinality(MoreSurfaces(x)) + 1 <= n
  BY <1>3, <1>4, <1>5
<1>. QED BY <1>4, <1>5, <1>6, <1>7

\* There are finitely many surfaces.
LEMMA SurfacesAreFinite == IsFiniteSet(Surfaces)
<1>1. SurfaceRank \in Injection(Surfaces, 0..7)
  <2>1. SurfaceRank \in [Surfaces -> 0..7]
    BY DEF SurfaceRank, Surfaces
  <2>2. \A s, t \in Surfaces : SurfaceRank[s] = SurfaceRank[t] => s = t
    BY DEF SurfaceRank, Surfaces
  <2>. QED BY <2>1, <2>2 DEF Injection, IsInjective
<1>2. IsFiniteSet(0..7)
  <2>1. 0 \in Int /\ 7 \in Int
    OBVIOUS
  <2>. QED BY ONLY <2>1, FS_Interval
<1>. QED BY <1>1, <1>2, FS_Injection

\* Every merged strip was listed on a chart under its key, which says which
\* pair it is of; and the unique index alone lets the group fail.
ListedInv ==
  /\ RunwayInv
  /\ \A l \in lists : \A le \in DOMAIN l : IsListing(l[le], le)
  /\ \A key \in DOMAIN merged :
       /\ key[1] = merged[key].le /\ key[2] = merged[key].he
       /\ \E l \in lists :
            key[1] \in DOMAIN l /\ \E m \in DOMAIN l[key[1]] : Key(l[key[1]], m) = key
  /\ phase = "failed" => ~PairsDiffer

\* The pair of a merged strip is that of the key.
LEMMA ListedInit == Init => ListedInv
<1> SUFFICES ASSUME Init PROVE ListedInv
  OBVIOUS
<1>. QED BY RunwayInvInit DEF Init, ListedInv

\* Every step of the runway group keeps the merged strips listed.
LEMMA ListedNext == ListedInv /\ [Next]_vars => ListedInv'
<1> SUFFICES ASSUME ListedInv, [Next]_vars PROVE ListedInv'
  OBVIOUS
<1>1. RunwayInv /\ RunwayInv'
  BY RunwayInvNext DEF ListedInv
<1>2. CASE MergeChart
  <2> DEFINE agreed == AgreedOnChart(chart)
  <2>1. /\ merged' = Merge(agreed) /\ lists' = lists \cup {agreed}
        /\ phase' = phase /\ phase = "reading"
    BY <1>1, <1>2 DEF MergeChart, RunwayInv
  <2>2. \A le \in DOMAIN agreed : IsListing(agreed[le], le)
    BY <1>1, AgreedListing
  <2>3. \A l \in lists' : \A le \in DOMAIN l : IsListing(l[le], le)
    <3> HIDE DEF agreed
    <3>. QED BY <2>1, <2>2 DEF ListedInv
  <2>4. ASSUME NEW key \in DOMAIN merged'
        PROVE  /\ key[1] = merged'[key].le /\ key[2] = merged'[key].he
               /\ \E l \in lists' :
                    /\ key[1] \in DOMAIN l
                    /\ \E m \in DOMAIN l[key[1]] : Key(l[key[1]], m) = key
    <3>1. CASE key \in DOMAIN merged
      <4>1. merged'[key] = merged[key]
        BY <2>1, <2>4, <3>1 DEF Merge
      <4> HIDE DEF agreed
      <4>. QED BY <2>1, <3>1, <4>1 DEF ListedInv
    <3>2. CASE key \notin DOMAIN merged
      <4>1. /\ key[1] \in DOMAIN agreed
            /\ \E m \in DOMAIN agreed[key[1]] :
                 /\ Key(agreed[key[1]], m) = key
                 /\ Merge(agreed)[key] = agreed[key[1]][m]
        BY <1>1, <2>1, <2>4, <3>2, NewKey
      <4> HIDE DEF agreed
      <4>2. PICK m \in DOMAIN agreed[key[1]] :
               Key(agreed[key[1]], m) = key /\ merged'[key] = agreed[key[1]][m]
        BY <2>1, <4>1
      <4>3. key[1] = agreed[key[1]][m].le /\ key[2] = agreed[key[1]][m].he
        BY <4>2 DEF Key
      <4>. QED BY <2>1, <4>1, <4>2, <4>3
    <3>. QED BY <3>1, <3>2
  <2> HIDE DEF agreed
  <2>. QED BY <1>1, <2>1, <2>3, <2>4 DEF ListedInv
<1>3. CASE ~MergeChart
  <2>1. UNCHANGED <<merged, lists>>
    BY <1>3 DEF Next, vars, CallBothProviders, ProviderFails, WriteRunways,
                KeepRunways, WriteFails
  <2>2. phase' = "failed" => phase = "failed" \/ ~PairsDiffer
    BY <1>3 DEF Next, vars, CallBothProviders, ProviderFails, WriteRunways,
                KeepRunways, WriteFails, Finished
  <2>3. PairsDiffer' <=> PairsDiffer
    BY <2>1 DEF PairsDiffer, SamePair, Disambiguated, Primaries, SameLe, Rank
  <2>4. phase' = "failed" => ~PairsDiffer'
    BY <2>2, <2>3 DEF ListedInv
  <2>. QED BY <1>1, <2>1, <2>4 DEF ListedInv
<1>. QED BY <1>2, <1>3

\* The key of a merged strip: its pair, or its pair and the surface of a strip
\* that some chart lists behind the first of the pair.
LEMMA KeysOfRows ==
  ASSUME ListedInv, NEW p, NEW k \in RowsOf(p)
  PROVE  /\ \A x \in Listings(p) : \E n \in Nat :
               DOMAIN x = 1..n /\ Len(x) = n /\ MoreSurfaces(x) \subseteq Surfaces
         /\ \E x \in Listings(p) :
              /\ Len(x) # 0
              /\ k = p \/ \E s \in MoreSurfaces(x) : k = <<p[1], p[2], s>>
<1>0. k \in DOMAIN merged /\ p = <<merged[k].le, merged[k].he>>
  BY DEF RowsOf
<1>1. p = <<k[1], k[2]>> /\ p[1] = k[1] /\ p[2] = k[2]
  BY <1>0 DEF ListedInv
<1>2. ASSUME NEW x \in Listings(p)
      PROVE  \E n \in Nat : DOMAIN x = 1..n /\ Len(x) = n /\ MoreSurfaces(x) \subseteq Surfaces
  <2>1. PICK l \in lists : p[1] \in DOMAIN l /\ x = OfPair(l[p[1]], p)
    BY DEF Listings
  <2> DEFINE list == l[p[1]]
  <2>2. IsListing(list, p[1])
    BY <2>1 DEF ListedInv
  <2>3. x = OfPair(list, p)
    BY <2>1
  <2> HIDE DEF list
  <2>4. PICK n \in Nat : DOMAIN list = 1..n /\ \A i \in 1..n : list[i] \in Rows
    BY <2>2 DEF IsListing
  <2>5. /\ \E m \in Nat : DOMAIN x = 1..m /\ Len(x) = m
        /\ \A m \in DOMAIN x : \E i \in DOMAIN list : x[m] = list[i]
    <3>1. \E m \in Nat : DOMAIN OfPair(list, p) = 1..m /\ Len(OfPair(list, p)) = m
      BY <2>4, OfPairIs
    <3>2. \A m \in DOMAIN OfPair(list, p) :
             \E i \in DOMAIN list : OfPair(list, p)[m] = list[i]
      BY <2>4, OfPairIs
    <3>. QED BY <2>3, <3>1, <3>2
  <2>6. \A m \in DOMAIN x : x[m].surface \in Surfaces
    BY <2>4, <2>5 DEF Rows
  <2>. QED BY <2>5, <2>6 DEF MoreSurfaces
<1>3. PICK l \in lists :
         k[1] \in DOMAIN l /\ \E m \in DOMAIN l[k[1]] : Key(l[k[1]], m) = k
  BY <1>0 DEF ListedInv
<1> DEFINE list == l[p[1]]
<1>4. /\ OfPair(list, p) \in Listings(p) /\ IsListing(list, p[1])
      /\ \E m \in DOMAIN list : Key(list, m) = k
  BY <1>1, <1>3 DEF Listings, ListedInv
<1> HIDE DEF list
<1>5. PICK m \in DOMAIN list : Key(list, m) = k
  BY <1>4
<1>6. PICK n \in Nat : DOMAIN list = 1..n
  BY <1>4 DEF IsListing
<1>7. <<list[m].le, list[m].he>> = p
  BY <1>1, <1>5 DEF Key
<1>8. /\ Len(OfPair(list, p)) # 0
      /\ (\E i \in 1..(m - 1) : SamePair(list[i], list[m])) =>
            list[m].surface \in MoreSurfaces(OfPair(list, p))
  BY <1>6, <1>7, OfPairIs
<1>9. k = p \/ \E s \in MoreSurfaces(OfPair(list, p)) : k = <<p[1], p[2], s>>
  <2>1. CASE \E i \in 1..(m - 1) : SamePair(list[i], list[m])
    <3>1. k = <<list[m].le, list[m].he, list[m].surface>>
      BY <1>5, <2>1 DEF Key
    <3>. QED BY <1>7, <1>8, <2>1, <3>1
  <2>2. CASE ~ \E i \in 1..(m - 1) : SamePair(list[i], list[m])
    BY <1>5, <1>7, <2>2 DEF Key
  <2>. QED BY <2>1, <2>2
<1>. QED BY <1>2, <1>4, <1>8, <1>9

\* Of sets of surfaces of which any two are comparable one holds all others:
\* the one that leaves the fewest surfaces out.
LEMMA LargestListing ==
  ASSUME ListedInv, NEW p \in Pairs, Consistent(p)
  PROVE  \E x \in Listings(p) : \A y \in Listings(p) : MoreSurfaces(y) \subseteq MoreSurfaces(x)
<1>1. PICK k \in DOMAIN merged : p = <<merged[k].le, merged[k].he>>
  BY DEF Pairs
<1>2. k \in RowsOf(p)
  BY <1>1 DEF RowsOf
<1>3. Listings(p) # {}
  BY <1>2, KeysOfRows
<1> DEFINE missing(x) == Surfaces \ MoreSurfaces(x)
           sizes == {Cardinality(missing(x)) : x \in Listings(p)}
<1>4. \A x \in Listings(p) : IsFiniteSet(missing(x)) /\ Cardinality(missing(x)) \in Nat
  <2> TAKE x \in Listings(p)
  <2>1. missing(x) \in SUBSET Surfaces
    OBVIOUS
  <2> HIDE DEF missing
  <2>2. IsFiniteSet(missing(x))
    BY <2>1, SurfacesAreFinite, FS_Subset
  <2>. QED BY <2>2, FS_CardinalityType
<1>5. sizes \in SUBSET Nat /\ sizes # {}
  BY <1>3, <1>4
<1>6. PICK x \in Listings(p) : \A y \in Listings(p) :
         Cardinality(missing(x)) <= Cardinality(missing(y))
  <2>1. Min(sizes) \in sizes /\ \A z \in sizes : Min(sizes) <= z
    <3> HIDE DEF sizes
    <3>. QED BY <1>5, MinOfNaturals
  <2>. QED BY <2>1
<1>7. ASSUME NEW y \in Listings(p) PROVE MoreSurfaces(y) \subseteq MoreSurfaces(x)
  <2>1. CASE MoreSurfaces(x) \subseteq MoreSurfaces(y)
    <3>1. missing(y) \in SUBSET missing(x)
      BY <2>1
    <3>2. MoreSurfaces(y) \subseteq Surfaces
      BY <1>2, KeysOfRows
    <3>3. missing(y) = missing(x) => MoreSurfaces(y) \subseteq MoreSurfaces(x)
      BY <3>2
    <3>4. IsFiniteSet(missing(x)) /\ Cardinality(missing(x)) \in Nat
          /\ Cardinality(missing(y)) \in Nat
          /\ Cardinality(missing(x)) <= Cardinality(missing(y))
      BY <1>4, <1>6
    <3> HIDE DEF missing
    <3>5. missing(y) = missing(x)
      <4>1. Cardinality(missing(y)) <= Cardinality(missing(x))
        BY <3>1, <3>4, FS_Subset
      <4>2. Cardinality(missing(y)) = Cardinality(missing(x))
        BY <3>4, <4>1
      <4>. QED BY <3>1, <3>4, <4>2, FS_Subset
    <3>. QED BY <3>3, <3>5
  <2>2. CASE MoreSurfaces(y) \subseteq MoreSurfaces(x)
    BY <2>2
  <2>. QED BY <2>1, <2>2 DEF Consistent
<1>. QED BY <1>7

\* Consistent charts add up to no more strips than one of them lists: the first
\* strip of the pair, and those of the surfaces of the largest listing.
LEMMA RowsAreFew ==
  ASSUME ListedInv, NEW p \in Pairs, Consistent(p)
  PROVE  /\ IsFiniteSet(RowsOf(p)) /\ NoMoreStripsThanListed(p)
         /\ \A x \in Listings(p) : Len(x) \in Nat
<1>1. PICK k \in DOMAIN merged : p = <<merged[k].le, merged[k].he>>
  BY DEF Pairs
<1>2. k \in RowsOf(p)
  BY <1>1 DEF RowsOf
<1>3. PICK x \in Listings(p) : \A y \in Listings(p) : MoreSurfaces(y) \subseteq MoreSurfaces(x)
  BY LargestListing
<1>4. PICK n \in Nat : DOMAIN x = 1..n /\ Len(x) = n
  BY <1>2, KeysOfRows
<1> DEFINE more == MoreSurfaces(x)
           third == {<<p[1], p[2], s>> : s \in more}
           g == [s \in more |-> <<p[1], p[2], s>>]
<1>5. /\ IsFiniteSet(more) /\ Cardinality(more) \in Nat
      /\ n = 0 => more = {}
      /\ n # 0 => Cardinality(more) + 1 <= n
  BY <1>4, MoreSurfacesAre
<1>6. RowsOf(p) \in SUBSET (third \cup {p})
  <2> SUFFICES ASSUME NEW r \in RowsOf(p) PROVE r \in third \cup {p}
    OBVIOUS
  <2>1. r = p \/ \E y \in Listings(p) : \E s \in MoreSurfaces(y) : r = <<p[1], p[2], s>>
    BY KeysOfRows
  <2>. QED BY <1>3, <2>1
<1>7. g \in Surjection(more, third)
  BY DEF Surjection
<1>8. more = {} => third = {}
  OBVIOUS
<1> HIDE DEF more, third, g
<1>9. IsFiniteSet(third) /\ Cardinality(third) <= Cardinality(more) /\ Cardinality(third) \in Nat
  <2>1. IsFiniteSet(third) /\ Cardinality(third) <= Cardinality(more)
    BY <1>5, <1>7, FS_Surjection
  <2>. QED BY <2>1, FS_CardinalityType
<1>10. /\ IsFiniteSet(third \cup {p})
       /\ Cardinality(third \cup {p}) \in Nat
       /\ Cardinality(third \cup {p}) <= Cardinality(third) + 1
  <2>1. /\ IsFiniteSet(third \cup {p})
        /\ Cardinality(third \cup {p}) =
             IF p \in third THEN Cardinality(third) ELSE Cardinality(third) + 1
    BY <1>9, FS_AddElement
  <2>. QED BY <1>9, <2>1
<1>11. /\ IsFiniteSet(RowsOf(p)) /\ Cardinality(RowsOf(p)) \in Nat
       /\ Cardinality(RowsOf(p)) <= Cardinality(third \cup {p})
  <2>1. /\ IsFiniteSet(RowsOf(p))
        /\ Cardinality(RowsOf(p)) <= Cardinality(third \cup {p})
    BY <1>6, <1>10, FS_Subset
  <2>. QED BY <2>1, FS_CardinalityType
<1>12. \A y \in Listings(p) : Len(y) \in Nat
  BY <1>2, KeysOfRows
<1>13. CASE n # 0
  <2>1. Cardinality(RowsOf(p)) <= Len(x)
    BY <1>4, <1>5, <1>9, <1>10, <1>11, <1>13
  <2>. QED BY <1>11, <1>12, <2>1 DEF NoMoreStripsThanListed
<1>14. CASE n = 0
  <2>1. third \cup {p} = {p}
    BY <1>5, <1>8, <1>14
  <2>2. Cardinality(RowsOf(p)) <= 1
    BY <1>11, <2>1, FS_Singleton
  <2>3. PICK y \in Listings(p) : Len(y) # 0
    BY <1>2, KeysOfRows
  <2>4. Cardinality(RowsOf(p)) <= Len(y)
    BY <1>11, <1>12, <2>2, <2>3
  <2>. QED BY <1>11, <1>12, <2>4 DEF NoMoreStripsThanListed
<1>. QED BY <1>13, <1>14

\* The strips of a low end share one primary among them.
LEMMA OnePrimary ==
  ASSUME ListedInv, NEW k \in DOMAIN merged
  PROVE  \E p \in SameLe(k) : \A q \in SameLe(k) : q \in Primaries <=> q = p
<1> DEFINE best(key) == CHOOSE p \in SameLe(key) : \A q \in SameLe(key) : Rank(p) <= Rank(q)
<1>2. \A key \in DOMAIN merged :
         \E p \in SameLe(key) : \A q \in SameLe(key) : Rank(p) <= Rank(q)
  BY BestOf DEF ListedInv
<1>3. best(k) \in SameLe(k)
  BY <1>2
<1>4. Primaries = {best(key) : key \in DOMAIN merged}
  BY DEF Primaries
<1>5. best(k) \in Primaries
  <2> HIDE DEF best
  <2>. QED BY <1>4
<1>6. ASSUME NEW q \in SameLe(k), q \in Primaries PROVE q = best(k)
  <2>1. PICK key \in DOMAIN merged : q = best(key)
    <3> HIDE DEF best
    <3>. QED BY <1>4, <1>6
  <2>2. \E p \in SameLe(key) : \A r \in SameLe(key) : Rank(p) <= Rank(r)
    BY <1>2
  <2>3. q \in SameLe(key)
    BY <2>1, <2>2
  <2>4. SameLe(key) = SameLe(k)
    BY <1>6, <2>3 DEF SameLe
  <2>. QED BY <2>1, <2>4
<1> HIDE DEF best
<1>. QED BY <1>3, <1>5, <1>6

\* A mark that is appended makes another designator, and tells which it was.
LEMMA SuffixedDiffer ==
  ASSUME NEW d \in Designators, NEW s \in Surfaces
  PROVE  /\ Suffixed(d, s) # d
         /\ \A e \in Designators, t \in Surfaces : Suffixed(d, s) = Suffixed(e, t) => d = e
<1>1. \A u \in Surfaces : SurfaceSuffix[u] \in Marks
  BY DEF SurfaceSuffix, Surfaces, Marks
<1>2. ASSUME NEW e \in Designators, NEW t \in Surfaces
      PROVE  /\ e.letters \in Seq(Marks) /\ Suffixed(e, t).number = e.number
             /\ Suffixed(e, t).letters = Append(e.letters, SurfaceSuffix[t])
             /\ e = [number |-> e.number, letters |-> e.letters]
  BY DEF Suffixed, Designators
<1>3. ASSUME NEW x \in Seq(Marks), NEW y \in Seq(Marks), NEW u \in Marks, NEW v \in Marks,
             Append(x, u) = Append(y, v)
      PROVE  x = y
  BY <1>3, AppendInjective
<1>4. \A x \in Seq(Marks), u \in Marks : Append(x, u) # x
  BY AppendProperties
<1>. QED BY <1>1, <1>2, <1>3, <1>4

\* Three that differ are three.
LEMMA ThreeAreThree ==
  ASSUME NEW x, NEW y, NEW z, x # y, y # z, x # z
  PROVE  IsFiniteSet({x, y, z}) /\ Cardinality({x, y, z}) = 3
<1>1. IsFiniteSet({x}) /\ Cardinality({x}) = 1
  BY FS_Singleton
<1>2. IsFiniteSet({x} \cup {y}) /\ Cardinality({x} \cup {y}) = 2
  BY <1>1, FS_AddElement
<1>3. /\ IsFiniteSet({x} \cup {y} \cup {z})
      /\ Cardinality({x} \cup {y} \cup {z}) = 3
  BY <1>2, FS_AddElement
<1>4. {x} \cup {y} \cup {z} = {x, y, z}
  OBVIOUS
<1>. QED BY <1>3, <1>4

\* With at most two strips of a low end, all of one pair, and no pair named as
\* the strip beside another, the designators that are written differ.
LEMMA TwoStripsDiffer ==
  ASSUME ListedInv,
         \A p, q \in Pairs :
            /\ p[1] = q[1] => p = q
            /\ \A s \in Surfaces : p # <<Suffixed(q[1], s), Suffixed(q[2], s)>>
            /\ Consistent(p) /\ \A list \in Listings(p) : Len(list) <= 2
  PROVE  PairsDiffer
<1> DEFINE Pair(k) == <<merged[k].le, merged[k].he>>
<1> SUFFICES ASSUME NEW k \in DOMAIN merged, NEW l \in DOMAIN merged, k # l,
                    SamePair(Disambiguated(k), Disambiguated(l))
             PROVE  FALSE
  BY DEF PairsDiffer
<1>1. \A j \in DOMAIN merged : /\ merged[j].le \in Designators
                               /\ merged[j].he \in Designators
                               /\ merged[j].surface \in Surfaces
                               /\ Pair(j) \in Pairs
                               /\ Pair(j)[1] = merged[j].le /\ Pair(j)[2] = merged[j].he
  BY DEF ListedInv, RunwayInv, TypeOK, Rows, Pairs
<1>2. ASSUME NEW j \in DOMAIN merged
      PROVE  /\ Disambiguated(j).le = IF j \in Primaries THEN merged[j].le
                                      ELSE Suffixed(merged[j].le, merged[j].surface)
             /\ Disambiguated(j).he = IF j \in Primaries THEN merged[j].he
                                      ELSE Suffixed(merged[j].he, merged[j].surface)
  BY DEF Disambiguated, Strip
<1>3. \A d \in Designators, e \in Designators, s \in Surfaces, t \in Surfaces :
         Suffixed(d, s) = Suffixed(e, t) => d = e
  BY SuffixedDiffer
<1>4. merged[k].le = merged[l].le
  <2> SUFFICES ASSUME merged[k].le # merged[l].le PROVE FALSE
    OBVIOUS
  <2>1. \A i \in {k, l}, j \in {k, l} :
           Pair(i) # <<Suffixed(merged[j].le, merged[j].surface),
                       Suffixed(merged[j].he, merged[j].surface)>>
    BY <1>1
  <2> HIDE DEF Pair
  <2>2. CASE k \in Primaries /\ l \in Primaries
    BY <1>2, <2>2 DEF SamePair
  <2>3. CASE k \in Primaries /\ l \notin Primaries
    BY <1>2, <2>1, <2>3 DEF SamePair, Pair
  <2>4. CASE k \notin Primaries /\ l \in Primaries
    BY <1>2, <2>1, <2>4 DEF SamePair, Pair
  <2>5. CASE k \notin Primaries /\ l \notin Primaries
    BY <1>1, <1>2, <1>3, <2>5 DEF SamePair
  <2>. QED BY <2>2, <2>3, <2>4, <2>5
<1>5. Pair(k) = Pair(l)
  BY <1>1, <1>4
<1>6. SameLe(k) \subseteq {k, l}
  <2> SUFFICES ASSUME NEW j \in SameLe(k), j # k, j # l PROVE FALSE
    OBVIOUS
  <2> DEFINE p == Pair(k)
  <2>1. p \in Pairs /\ Pair(j) = p
    BY <1>1 DEF SameLe
  <2>2. {k, l, j} \in SUBSET RowsOf(p)
    BY <1>5, <2>1 DEF RowsOf, SameLe
  <2>3. Consistent(p) /\ \A list \in Listings(p) : Len(list) <= 2
    BY <2>1
  <2> HIDE DEF p
  <2>4. IsFiniteSet(RowsOf(p)) /\ Cardinality(RowsOf(p)) <= 2
    <3>1. PICK list \in Listings(p) : Cardinality(RowsOf(p)) <= Len(list)
      BY <2>1, <2>3, RowsAreFew DEF NoMoreStripsThanListed
    <3>2. IsFiniteSet(RowsOf(p)) /\ Len(list) \in Nat
      BY <2>1, <2>3, RowsAreFew
    <3>. QED BY <2>3, <3>1, <3>2, FS_CardinalityType
  <2>5. IsFiniteSet({k, l, j}) /\ Cardinality({k, l, j}) = 3
    BY <2>4, ThreeAreThree
  <2>6. Cardinality({k, l, j}) <= Cardinality(RowsOf(p))
    BY <2>2, <2>4, FS_Subset
  <2>. QED BY <2>4, <2>5, <2>6, FS_CardinalityType
<1>7. k \in SameLe(k) /\ l \in SameLe(k)
  BY <1>4 DEF SameLe
<1>8. k \in Primaries <=> l \notin Primaries
  BY <1>6, <1>7, OnePrimary
<1>9. merged[k].le # Suffixed(merged[l].le, merged[l].surface)
      /\ merged[l].le # Suffixed(merged[k].le, merged[k].surface)
  BY <1>1, <1>4, SuffixedDiffer
<1>. QED BY <1>2, <1>8, <1>9 DEF SamePair

\* A job's runway group keeps its merged strips listed.
LEMMA ListedAlways == GroupsSpec => []ListedInv
<1>1. GroupsInit => Init
  BY DEF GroupsInit
<1>2. [GroupsNext]_<<vars, fieldVars, callVars>> => [Next]_vars
  BY DEF GroupsNext
<1>. QED BY <1>1, <1>2, ListedInit, ListedNext, PTL DEF GroupsSpec

\* Charts that agree on what lies beside the first strip of a pair add up to
\* no more strips than one of them lists.
THEOREM ConsistentChartsAddNoStripCorrect ==
  GroupsSpec => []ConsistentChartsAddNoStrip
<1>1. ListedInv => ConsistentChartsAddNoStrip
  BY RowsAreFew DEF ConsistentChartsAddNoStrip
<1>. QED BY <1>1, ListedAlways, PTL

\* Consistent charts with at most two strips of a designator, none of which
\* is read under the name that a strip beside another gets, are written.
THEOREM TwoStripsAreWrittenCorrect == GroupsSpec => []TwoStripsAreWritten
<1>1. ListedInv => TwoStripsAreWritten
  BY TwoStripsDiffer DEF TwoStripsAreWritten, ListedInv
<1>. QED BY <1>1, ListedAlways, PTL
=============================================================================
