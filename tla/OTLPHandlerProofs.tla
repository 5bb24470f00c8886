-------------------------- MODULE OTLPHandlerProofs --------------------------
(***************************************************************************)
(* Proofs about OTLPHandler, for any producers, queue, batch and number of *)
(* records.                                                                *)
(***************************************************************************)
EXTENDS OTLPHandler, SequenceLemmas, FiniteSetTheorems

(* The records exported, in the batch and in the queue: Enqueue appends to *)
(* them, every other step moves their borders or nothing.                  *)
Line == exported \o batch \o queue

(* The positions of p's records.                                           *)
Of(line, p) == {k \in DOMAIN line : line[k][1] = p}

-----------------------------------------------------------------------------
(* The invariant.  What is sent is what was passed last, so no record in   *)
(* line has a higher number than its producer's last, and while that one   *)
(* is on its way none has its number.                                      *)
Begun == \A p \in sending : passed[p] >= 1

Accounted ==
    \A p \in Producers :
        passed[p] = Cardinality(Of(Line, p)) + failures[p] + (IF p \in sending THEN 1 ELSE 0)

Ordered ==
    \A j, k \in DOMAIN Line :
        j < k /\ Line[j][1] = Line[k][1] => Line[j][2] < Line[k][2]

Recent ==
    \A k \in DOMAIN Line :
        LET p == Line[k][1]
        IN  Line[k][2] <= passed[p] /\ (p \in sending => Line[k][2] < passed[p])

Tried == attempts <= Len(exported) /\ Len(exported) <= attempts * BatchSize

Typed == TypeOK /\ Begun

Inv == Typed /\ Accounted /\ Ordered /\ Recent /\ Tried

-----------------------------------------------------------------------------
(* Sequences and positions.                                                *)

LEMMA LineTyped == TypeOK => Line \in Seq(Records)
<1> SUFFICES ASSUME TypeOK PROVE Line \in Seq(Records)
  OBVIOUS
<1>1. exported \in Seq(Records) /\ batch \in Seq(Records) /\ queue \in Seq(Records)
  BY DEF TypeOK
<1>2. exported \o batch \in Seq(Records)
  BY <1>1, ConcatProperties
<1> QED
  BY <1>1, <1>2, ConcatProperties DEF Line

(* The positions are finitely many.                                        *)
LEMMA CardinalityOf ==
    ASSUME NEW line \in Seq(Records), NEW p
    PROVE  IsFiniteSet(Of(line, p)) /\ Cardinality(Of(line, p)) \in Nat
<1>1. Len(line) \in Nat /\ DOMAIN line = 1..Len(line)
  BY LenProperties
<1>2. IsFiniteSet(1..Len(line))
  BY <1>1, FS_Interval
<1>3. Of(line, p) \in SUBSET (1..Len(line))
  BY <1>1 DEF Of
<1> QED
  BY <1>2, <1>3, FS_Subset, FS_CardinalityType

(* Appending r adds a position to those of r's producer, and to no others. *)
LEMMA OfAppend ==
    ASSUME NEW line \in Seq(Records), NEW r \in Records, NEW p
    PROVE  /\ Cardinality(Of(line, p)) \in Nat
           /\ Cardinality(Of(Append(line, r), p)) =
                Cardinality(Of(line, p)) + (IF r[1] = p THEN 1 ELSE 0)
<1> DEFINE n == Len(line)
           more == Append(line, r)
<1>1. n \in Nat /\ DOMAIN line = 1..n
  BY LenProperties
<1>2. more \in Seq(Records) /\ Len(more) = n + 1
  BY AppendProperties
<1>3. DOMAIN more = 1..(n + 1)
  BY <1>2, LenProperties
<1>4. (\A i \in 1..n : more[i] = line[i]) /\ more[n + 1] = r
  BY AppendProperties
<1>5. IsFiniteSet(Of(line, p)) /\ Cardinality(Of(line, p)) \in Nat
  BY CardinalityOf
<1>6. n + 1 \notin Of(line, p)
  BY <1>1 DEF Of
<1> HIDE DEF n, more
<1>7. 1..(n + 1) = 1..n \cup {n + 1}
  BY <1>1
<1>8. CASE r[1] = p
  <2>1. Of(more, p) = Of(line, p) \cup {n + 1}
    BY <1>1, <1>3, <1>4, <1>7, <1>8 DEF Of
  <2>2. Cardinality(Of(more, p)) = Cardinality(Of(line, p)) + 1
    BY <2>1, <1>5, <1>6, FS_AddElement
  <2> QED
    BY <2>2, <1>5, <1>8 DEF more
<1>9. CASE r[1] # p
  <2>1. Of(more, p) = Of(line, p)
    BY <1>1, <1>3, <1>4, <1>7, <1>9 DEF Of
  <2> QED
    BY <2>1, <1>5, <1>9 DEF more
<1> QED
  BY <1>8, <1>9

-----------------------------------------------------------------------------
(* Types.                                                                  *)

(* The record a producer sends is one of its records.                      *)
LEMMA SentIsRecord ==
    ASSUME OTLPAssumption, Typed, NEW p \in sending
    PROVE  p \in Producers /\ passed[p] \in Nat /\ <<p, passed[p]>> \in Records
<1>1. p \in Producers /\ passed[p] \in 0..MaxRecords /\ passed[p] >= 1
  BY DEF Typed, TypeOK, Begun
<1>2. passed[p] \in 1..MaxRecords
  BY <1>1 DEF OTLPAssumption
<1> QED
  BY <1>1, <1>2 DEF Records

(* Of a queue that holds something: its first record goes to the batch.    *)
LEMMA Received ==
    ASSUME Typed, queue # <<>>
    PROVE  /\ Head(queue) \in Records
           /\ Tail(queue) \in Seq(Records) /\ Len(Tail(queue)) = Len(queue) - 1
           /\ Append(batch, Head(queue)) \in Seq(Records)
           /\ Len(Append(batch, Head(queue))) = Len(batch) + 1
           /\ Len(queue) \in Nat /\ Len(batch) \in Nat
<1>1. queue \in Seq(Records) /\ batch \in Seq(Records)
  BY DEF Typed, TypeOK
<1>2. Head(queue) \in Records /\ Tail(queue) \in Seq(Records) /\ Len(Tail(queue)) = Len(queue) - 1
  BY <1>1, HeadTailProperties
<1> QED
  BY <1>1, <1>2, AppendProperties, LenProperties

LEMMA TypedInit == ASSUME OTLPAssumption PROVE Init => Typed
<1> SUFFICES ASSUME Init PROVE Typed
  OBVIOUS
<1>1. <<>> \in Seq(Records) /\ Len(<<>>) = 0
  OBVIOUS
<1> QED
  BY <1>1 DEF OTLPAssumption, Init, Typed, TypeOK, Begun

LEMMA TypedStep == ASSUME OTLPAssumption PROVE Typed /\ [Next]_vars => Typed'
<1> SUFFICES ASSUME Typed, [Next]_vars PROVE Typed'
  OBVIOUS
<1> USE DEF OTLPAssumption
<1>1. ASSUME NEW p \in Producers, Pass(p) PROVE Typed'
  BY <1>1 DEF Pass, Typed, TypeOK, Begun
<1>2. ASSUME NEW p \in Producers, Enqueue(p) PROVE Typed'
  <2>1. queue \in Seq(Records) /\ <<p, passed[p]>> \in Records
    BY <1>2, SentIsRecord DEF Enqueue, Typed, TypeOK
  <2>2. queue' \in Seq(Records) /\ Len(queue') = Len(queue) + 1 /\ Len(queue) \in Nat
    BY <1>2, <2>1, AppendProperties, LenProperties DEF Enqueue
  <2> QED
    BY <1>2, <2>2 DEF Enqueue, Typed, TypeOK, Begun
<1>3. ASSUME NEW p \in Producers, Drop(p) PROVE Typed'
  BY <1>3 DEF Drop, Typed, TypeOK, Begun
<1>4. CASE Receive
  <2>1. queue' = Tail(queue) /\ queue # <<>>
    BY <1>4 DEF Receive
  <2>2. queue' \in Seq(Records) /\ Len(queue') <= QueueSize
    BY <2>1, Received DEF Typed, TypeOK
  <2>3. CASE Len(Append(batch, Head(queue))) >= BatchSize
    <3>1. exported' = exported \o Append(batch, Head(queue)) /\ attempts' = attempts + 1 /\ batch' = <<>>
      BY <1>4, <2>3 DEF Receive, Export
    <3>2. exported' \in Seq(Records)
      BY <3>1, <2>1, Received, ConcatProperties DEF Typed, TypeOK
    <3>3. batch' \in Seq(Records) /\ Len(batch') < BatchSize
      BY <3>1
    <3> QED
      BY <1>4, <2>2, <3>1, <3>2, <3>3 DEF Receive, Typed, TypeOK, Begun
  <2>4. CASE ~(Len(Append(batch, Head(queue))) >= BatchSize)
    <3>1. batch' = Append(batch, Head(queue)) /\ exported' = exported /\ attempts' = attempts
      BY <1>4, <2>4 DEF Receive
    <3>2. batch' \in Seq(Records) /\ Len(batch') < BatchSize
      BY <3>1, <2>1, <2>4, Received
    <3> QED
      BY <1>4, <2>2, <3>1, <3>2 DEF Receive, Typed, TypeOK, Begun
  <2> QED
    BY <2>3, <2>4
<1>5. CASE Tick \/ EndLoop
  <2>1. batch' = <<>> /\ queue' = queue
    BY <1>5 DEF Tick, EndLoop
  <2>2. batch' \in Seq(Records) /\ Len(batch') < BatchSize
    BY <2>1
  <2>3. exported \o batch \in Seq(Records)
    BY ConcatProperties DEF Typed, TypeOK
  <2>4. exported' \in Seq(Records) /\ attempts' \in Nat
    <3>1. CASE Export(batch)
      BY <2>3, <3>1 DEF Export, Typed, TypeOK
    <3>2. CASE exported' = exported /\ attempts' = attempts
      BY <3>2 DEF Typed, TypeOK
    <3>3. Export(batch) \/ (exported' = exported /\ attempts' = attempts)
      BY <1>5 DEF Tick, EndLoop
    <3> QED
      BY <3>1, <3>2, <3>3
  <2>5. CASE Tick
    BY <2>1, <2>2, <2>4, <2>5 DEF Tick, Typed, TypeOK, Begun
  <2>6. CASE EndLoop
    BY <2>1, <2>2, <2>4, <2>6 DEF EndLoop, Typed, TypeOK, Begun
  <2> QED
    BY <1>5, <2>5, <2>6
<1>6. CASE Close
  BY <1>6 DEF Close, Typed, TypeOK, Begun
<1>7. CASE UNCHANGED vars
  BY <1>7 DEF vars, Typed, TypeOK, Begun
<1> QED
  BY <1>1, <1>2, <1>3, <1>4, <1>5, <1>6, <1>7 DEF Next

(* The handler keeps its types: the queue its size, the batch less than a  *)
(* full one, and what is exported is records that were logged.             *)
THEOREM RecordsTyped == ASSUME OTLPAssumption PROVE Spec => []TypeOK
<1>1. Typed => TypeOK
  BY DEF Typed
<1>2. Init => Typed
  BY TypedInit
<1>3. Typed /\ [Next]_vars => Typed'
  BY TypedStep
<1> QED
  BY <1>1, <1>2, <1>3, PTL DEF Spec

-----------------------------------------------------------------------------
(* The steps of exportLoop and Close leave the line as it is.              *)
LEMMA LoopKeepsLine ==
    ASSUME Typed, Receive \/ Tick \/ EndLoop \/ Close \/ UNCHANGED vars
    PROVE  /\ Line' = Line
           /\ passed' = passed /\ sending' = sending /\ failures' = failures
<1>1. exported \in Seq(Records) /\ batch \in Seq(Records) /\ queue \in Seq(Records)
  BY DEF Typed, TypeOK
<1>2. CASE Receive
  <2>1. queue # <<>> /\ queue' = Tail(queue)
    BY <1>2 DEF Receive
  <2>2. Head(queue) \in Records /\ Tail(queue) \in Seq(Records)
        /\ Append(batch, Head(queue)) \in Seq(Records)
    BY <2>1, Received
  <2>3. Append(batch, Head(queue)) = batch \o <<Head(queue)>>
    BY <1>1, <2>2, AppendIsConcat
  <2>4. /\ <<Head(queue)>> \in Seq(Records)
        /\ <<Head(queue)>> \o Tail(queue) = queue
    BY <1>1, <2>1, HeadThenTail
  <2>5. exported \o batch \in Seq(Records)
    BY <1>1, ConcatProperties
  <2>6. exported \o Append(batch, Head(queue)) = (exported \o batch) \o <<Head(queue)>>
    BY <1>1, <2>3, <2>4, ConcatAssociative
  <2>7. ((exported \o batch) \o <<Head(queue)>>) \o Tail(queue) = (exported \o batch) \o queue
    BY <2>2, <2>4, <2>5, ConcatAssociative
  <2>8. \/ exported' = exported \o Append(batch, Head(queue)) /\ batch' = <<>>
        \/ exported' = exported /\ batch' = Append(batch, Head(queue))
    BY <1>2 DEF Receive, Export
  <2>9. exported' \o batch' = exported \o Append(batch, Head(queue))
    <3>1. exported \o Append(batch, Head(queue)) \in Seq(Records)
      BY <1>1, <2>2, ConcatProperties
    <3>2. (exported \o Append(batch, Head(queue))) \o <<>> = exported \o Append(batch, Head(queue))
      BY <3>1, ConcatEmptySeq
    <3> QED
      BY <2>8, <3>2
  <2>10. Line' = Line
    BY <2>1, <2>6, <2>7, <2>9 DEF Line
  <2> QED
    BY <1>2, <2>10 DEF Receive
<1>3. CASE Tick \/ EndLoop
  <2>1. exported \o batch \in Seq(Records)
    BY <1>1, ConcatProperties
  <2>2. (exported \o batch) \o <<>> = exported \o batch
    BY <2>1, ConcatEmptySeq
  <2>3. exported' \o batch' = exported \o batch
    BY <1>3, <2>2 DEF Tick, EndLoop, Export
  <2> QED
    BY <1>3, <2>3 DEF Line, Tick, EndLoop
<1>4. CASE Close \/ UNCHANGED vars
  BY <1>4 DEF Line, Close, vars
<1> QED
  BY <1>2, <1>3, <1>4

LEMMA InvInit == ASSUME OTLPAssumption PROVE Init => Inv
<1> SUFFICES ASSUME Init PROVE Inv
  OBVIOUS
<1>1. Line = <<>>
  BY DEF Init, Line
<1>2. DOMAIN Line = {}
  BY <1>1
<1>3. \A p \in Producers : Of(Line, p) = {}
  BY <1>2 DEF Of
<1>4. Accounted
  BY <1>3, FS_EmptySet DEF Accounted, Init
<1>5. Ordered /\ Recent
  BY <1>2 DEF Ordered, Recent
<1>6. Tried
  BY DEF OTLPAssumption, Tried, Init
<1> QED
  BY <1>4, <1>5, <1>6, TypedInit DEF Inv

(* One more attempt, with at least one record and at most a batch.         *)
LEMMA TriedAgain ==
    ASSUME OTLPAssumption, Typed, Tried, NEW records \in Seq(Records), Export(records),
           1 <= Len(records), Len(records) <= BatchSize
    PROVE  Tried'
<1>1. attempts \in Nat /\ BatchSize \in Nat /\ exported \in Seq(Records)
  BY DEF OTLPAssumption, Typed, TypeOK
<1>2. Len(exported') = Len(exported) + Len(records) /\ attempts' = attempts + 1
  BY <1>1, ConcatProperties DEF Export
<1>3. Len(exported) \in Nat /\ Len(records) \in Nat
  BY <1>1, LenProperties
<1>4. (attempts + 1) * BatchSize = attempts * BatchSize + BatchSize
  BY <1>1
<1>5. attempts * BatchSize \in Nat
  BY <1>1
<1> QED
  BY <1>1, <1>2, <1>3, <1>4, <1>5 DEF Tried

LEMMA InvStep == ASSUME OTLPAssumption PROVE Inv /\ [Next]_vars => Inv'
<1> SUFFICES ASSUME Inv, [Next]_vars PROVE Inv'
  OBVIOUS
<1>1. Typed /\ Typed' /\ Line \in Seq(Records)
  BY TypedStep, LineTyped DEF Inv, Typed
<1>2. \A k \in DOMAIN Line : Line[k] \in Records /\ Line[k][1] \in Producers /\ Line[k][2] \in Nat
  <2>1. \A k \in DOMAIN Line : Line[k] \in Records
    BY <1>1, ElementOfSeq, LenProperties
  <2> QED
    BY <2>1 DEF Records
<1>3. ASSUME NEW p \in Producers, Pass(p) PROVE Inv'
  <2>1. Line' = Line /\ exported' = exported /\ attempts' = attempts
    BY <1>3 DEF Pass, Line
  <2>2. /\ p \notin sending /\ sending' = sending \cup {p} /\ failures' = failures
        /\ passed' = [passed EXCEPT ![p] = @ + 1]
    BY <1>3 DEF Pass
  <2>3. \A q \in Producers : Cardinality(Of(Line, q)) \in Nat
    BY <1>1, CardinalityOf
  <2>4. Accounted'
    BY <1>1, <2>1, <2>2, <2>3 DEF Inv, Accounted, Typed, TypeOK
  <2>5. Recent'
    BY <1>1, <1>2, <2>1, <2>2 DEF Inv, Recent, Typed, TypeOK
  <2> QED
    BY <1>1, <2>1, <2>4, <2>5 DEF Inv, Ordered, Tried
<1>4. ASSUME NEW p \in Producers, Drop(p) PROVE Inv'
  <2>1. Line' = Line /\ exported' = exported /\ attempts' = attempts
    BY <1>4 DEF Drop, Line
  <2>2. /\ p \in sending /\ sending' = sending \ {p} /\ passed' = passed
        /\ failures' = [failures EXCEPT ![p] = @ + 1]
    BY <1>4 DEF Drop
  <2>3. \A q \in Producers : Cardinality(Of(Line, q)) \in Nat
    BY <1>1, CardinalityOf
  <2>4. Accounted'
    BY <1>1, <2>1, <2>2, <2>3 DEF Inv, Accounted, Typed, TypeOK
  <2>5. Recent'
    BY <1>1, <1>2, <2>1, <2>2 DEF Inv, Recent
  <2> QED
    BY <1>1, <2>1, <2>4, <2>5 DEF Inv, Ordered, Tried
<1>5. ASSUME NEW p \in Producers, Enqueue(p) PROVE Inv'
  <2> DEFINE r == <<p, passed[p]>>
  <2>1. /\ p \in sending /\ sending' = sending \ {p} /\ queue' = Append(queue, r)
        /\ UNCHANGED <<passed, failures, exported, batch, attempts>>
    BY <1>5 DEF Enqueue
  <2>2. r \in Records /\ passed[p] \in Nat
    BY <1>1, <2>1, SentIsRecord
  <2>3. Line' = Append(Line, r)
    <3>1. exported \in Seq(Records) /\ batch \in Seq(Records) /\ queue \in Seq(Records)
      BY <1>1 DEF Typed, TypeOK
    <3> QED
      BY <2>1, <2>2, <3>1, AppendToLast DEF Line
  <2>4. \A q \in Producers :
            /\ Cardinality(Of(Line, q)) \in Nat
            /\ Cardinality(Of(Line', q)) = Cardinality(Of(Line, q)) + (IF p = q THEN 1 ELSE 0)
    BY <1>1, <2>2, <2>3, OfAppend
  <2>5. Accounted'
    <3>1. \A q \in Producers : Of(Line, q)' = Of(Line', q)
      BY DEF Of
    <3> QED
      BY <1>1, <2>1, <2>4, <3>1 DEF Inv, Accounted, Typed, TypeOK
  <2>6. /\ DOMAIN Line = 1..Len(Line) /\ Len(Line) \in Nat
        /\ DOMAIN Line' = 1..(Len(Line) + 1)
        /\ \A k \in DOMAIN Line : Line'[k] = Line[k]
        /\ Line'[Len(Line) + 1] = r /\ r[1] = p /\ r[2] = passed[p]
    BY <1>1, <2>2, <2>3, AppendProperties, LenProperties
  <2> HIDE DEF r
  <2>7. Recent'
    <3> SUFFICES ASSUME NEW k \in DOMAIN Line'
                 PROVE  /\ Line'[k][2] <= passed'[Line'[k][1]]
                        /\ Line'[k][1] \in sending' => Line'[k][2] < passed'[Line'[k][1]]
      BY DEF Recent
    <3>1. CASE k = Len(Line) + 1
      BY <3>1, <2>1, <2>2, <2>6
    <3>2. CASE k # Len(Line) + 1
      <4>1. k \in DOMAIN Line /\ Line'[k] = Line[k]
        BY <3>2, <2>6
      <4> QED
        BY <4>1, <2>1 DEF Inv, Recent
    <3> QED
      BY <3>1, <3>2
  <2>8. Ordered'
    <3> SUFFICES ASSUME NEW j \in DOMAIN Line', NEW k \in DOMAIN Line',
                        j < k, Line'[j][1] = Line'[k][1]
                 PROVE  Line'[j][2] < Line'[k][2]
      BY DEF Ordered
    <3>1. j \in DOMAIN Line /\ Line'[j] = Line[j]
      BY <2>6
    <3>2. CASE k = Len(Line) + 1
      BY <3>1, <3>2, <2>1, <2>6 DEF Inv, Recent
    <3>3. CASE k # Len(Line) + 1
      <4>1. k \in DOMAIN Line /\ Line'[k] = Line[k]
        BY <3>3, <2>6
      <4> QED
        BY <3>1, <4>1 DEF Inv, Ordered
    <3> QED
      BY <3>2, <3>3
  <2> QED
    BY <1>1, <2>1, <2>5, <2>7, <2>8 DEF Inv, Tried
<1>6. ASSUME Receive \/ Tick \/ EndLoop \/ Close \/ UNCHANGED vars PROVE Inv'
  <2>1. Line' = Line /\ passed' = passed /\ sending' = sending /\ failures' = failures
    BY <1>1, <1>6, LoopKeepsLine
  <2>2. Accounted' /\ Ordered' /\ Recent'
    BY <2>1 DEF Inv, Accounted, Ordered, Recent
  <2>3. Len(batch) \in Nat /\ Len(batch) < BatchSize /\ batch \in Seq(Records)
        /\ BatchSize \in Nat
    BY <1>1, LenProperties DEF OTLPAssumption, Typed, TypeOK
  <2>4. Tried'
    <3>1. CASE Receive
      <4>1. Append(batch, Head(queue)) \in Seq(Records)
            /\ Len(Append(batch, Head(queue))) = Len(batch) + 1
        BY <1>1, <3>1, Received DEF Receive
      <4>2. CASE Len(Append(batch, Head(queue))) >= BatchSize
        <5>1. Export(Append(batch, Head(queue)))
          BY <3>1, <4>2 DEF Receive
        <5>2. 1 <= Len(batch) + 1 /\ Len(batch) + 1 <= BatchSize
          BY <2>3
        <5> QED
          BY <1>1, <4>1, <5>1, <5>2, TriedAgain DEF Inv
      <4>3. CASE ~(Len(Append(batch, Head(queue))) >= BatchSize)
        BY <3>1, <4>3 DEF Receive, Inv, Tried
      <4> QED
        BY <4>2, <4>3
    <3>2. CASE (Tick \/ EndLoop) /\ batch # <<>>
      <4>1. Export(batch)
        BY <3>2 DEF Tick, EndLoop
      <4>2. 1 <= Len(batch)
        BY <2>3, <3>2, EmptySeq
      <4> QED
        BY <1>1, <2>3, <4>1, <4>2, TriedAgain DEF Inv
    <3>3. CASE (EndLoop /\ batch = <<>>) \/ Close \/ UNCHANGED vars
      BY <3>3 DEF EndLoop, Close, vars, Inv, Tried
    <3> QED
      BY <1>6, <3>1, <3>2, <3>3 DEF Tick
  <2> QED
    BY <1>1, <2>2, <2>4 DEF Inv
<1> QED
  BY <1>3, <1>4, <1>5, <1>6 DEF Next

(* Every record that the next handler got is exported once, in order, or   *)
(* in the batch, in the queue, counted as a failure, or on its way, however *)
(* producers, the loop and Close follow on each other.                     *)
THEOREM EveryRecordAccounted == ASSUME OTLPAssumption PROVE Spec => []RecordsAccounted
<1>1. Inv => RecordsAccounted
  BY DEF Inv, Accounted, Ordered, Tried, RecordsAccounted, Line, Of
<1>2. Init => Inv
  BY InvInit
<1>3. Inv /\ [Next]_vars => Inv'
  BY InvStep
<1> QED
  BY <1>1, <1>2, <1>3, PTL DEF Spec
=============================================================================
