------------------------- MODULE AsyncHandlerProofs -------------------------
(***************************************************************************)
(* Proofs about AsyncHandler, for any producers, handlers, capacity and    *)
(* number of calls.                                                        *)
(***************************************************************************)
EXTENDS AsyncHandler, SequenceLemmas, FiniteSetTheorems

-----------------------------------------------------------------------------
(* Sequences.  What is written, in hand and in the channel, seen as one    *)
(* sequence, grows at its end when an entry is sent, and does not change   *)
(* when an entry is received or processed.                                 *)

(* Receiving moves the first of the channel into the empty hand.           *)
LEMMA MoveToHand ==
    ASSUME NEW S, NEW w \in Seq(S), NEW b \in Seq(S), b # <<>>
    PROVE  w \o <<Head(b)>> \o Tail(b) = w \o <<>> \o b
<1>1. <<Head(b)>> \in Seq(S) /\ Tail(b) \in Seq(S) /\ <<Head(b)>> \o Tail(b) = b
  BY HeadThenTail, HeadTailProperties
<1>2. w \o <<Head(b)>> \o Tail(b) = w \o (<<Head(b)>> \o Tail(b))
  BY <1>1, ConcatAssociative
<1>3. w \o <<>> = w
  BY ConcatEmptySeq
<1> QED
  BY <1>1, <1>2, <1>3

(* A sequence of one element is the sequence of its head.                  *)
LEMMA Singleton ==
    ASSUME NEW S, NEW h \in Seq(S), h # <<>>, Len(h) <= 1
    PROVE  Head(h) \in S /\ Len(h) = 1 /\ h = <<Head(h)>>
<1>1. Len(h) = 1
  <2>1. Len(h) \in Nat \ {0}
    BY EmptySeq
  <2> QED
    BY <2>1
<1>2. Head(h) \in S
  BY HeadTailProperties
<1>3. <<Head(h)>> \in Seq(S) /\ Len(<<Head(h)>>) = Len(h)
  BY <1>1, <1>2
<1>4. \A i \in 1..Len(h) : h[i] = <<Head(h)>>[i]
  BY <1>1
<1>5. h = <<Head(h)>>
  BY <1>3, <1>4, SeqEqual
<1> QED
  BY <1>1, <1>2, <1>5

(* Processing moves the entry in hand behind those written.                *)
LEMMA MoveToWritten ==
    ASSUME NEW S, NEW w \in Seq(S), NEW h \in Seq(S), NEW b \in Seq(S), h # <<>>, Len(h) <= 1
    PROVE  Append(w, Head(h)) \o <<>> \o b = w \o h \o b
<1>1. Head(h) \in S /\ h = <<Head(h)>>
  BY Singleton
<1>2. Append(w, Head(h)) \in Seq(S)
  BY <1>1, AppendProperties
<1>3. Append(w, Head(h)) = w \o h
  BY <1>1, AppendIsConcat
<1>4. Append(w, Head(h)) \o <<>> = Append(w, Head(h))
  BY <1>2, ConcatEmptySeq
<1> QED
  BY <1>3, <1>4

-----------------------------------------------------------------------------
(* Types.                                                                  *)

(* A producer about to send has a call left: the bound of the model.       *)
SendersHaveCalls == \A p \in Producers : pc[p] = "send" => calls[p] < MaxCalls[p]

Typed == TypeOK /\ SendersHaveCalls

(* The next entry of a producer that has a call left is an entry.          *)
LEMMA NextEntry ==
    ASSUME NEW p \in Producers, calls[p] \in Nat, calls[p] < MaxCalls[p]
    PROVE  <<p, calls[p] + 1>> \in Entry
<1>1. MaxCalls[p] \in Nat
  BY AsyncAssumption
<1>2. calls[p] + 1 \in 1..MaxCalls[p]
  BY <1>1
<1>3. <<p, calls[p] + 1>> \in {p} \X (1..MaxCalls[p])
  BY <1>2
<1> QED
  BY <1>3 DEF Entry

(* Counting keeps the statistics a record of numbers.                      *)
LEMMA StatsTyped ==
    ASSUME stats \in [buffered : Nat, processed : Nat, dropped : Nat, errors : Nat]
    PROVE  /\ [stats EXCEPT !.buffered = @ + 1]
                  \in [buffered : Nat, processed : Nat, dropped : Nat, errors : Nat]
           /\ [stats EXCEPT !.processed = @ + 1]
                  \in [buffered : Nat, processed : Nat, dropped : Nat, errors : Nat]
           /\ [stats EXCEPT !.dropped = @ + 1]
                  \in [buffered : Nat, processed : Nat, dropped : Nat, errors : Nat]
           /\ [stats EXCEPT !.errors = @ + 1]
                  \in [buffered : Nat, processed : Nat, dropped : Nat, errors : Nat]
  OBVIOUS

(* The variables keep their types, whatever step is taken.                 *)
LEMMA TypedStep == Typed /\ [Next]_vars => Typed'
<1> SUFFICES ASSUME Typed, [Next]_vars PROVE Typed'
  OBVIOUS
<1> USE AsyncAssumption
<1>1. ASSUME NEW g \in Handlers, NEW h \in Handlers, With(g, h) PROVE Typed'
  BY <1>1 DEF Typed, TypeOK, SendersHaveCalls, With, producers, worker
<1>2. ASSUME NEW p \in Producers, NEW h \in Handlers, Check(p, h) PROVE Typed'
  <2>1. CASE closed[h]
    <3>1. calls' = [calls EXCEPT ![p] = @ + 1] /\ pc' = pc
      BY <1>2, <2>1 DEF Check, Called
    <3>2. /\ pc' \in [Producers -> {"idle", "send", "count", "panicked"}]
          /\ calls' \in [Producers -> Nat]
          /\ \A q \in Producers : calls'[q] <= MaxCalls[q]
          /\ SendersHaveCalls'
      BY <1>2, <3>1 DEF Check, Typed, TypeOK, SendersHaveCalls
    <3> QED
      BY <1>2, <3>2 DEF Typed, TypeOK, Check, handlers, worker
  <2>2. CASE ~closed[h]
    <3>1. calls' = calls /\ pc' = [pc EXCEPT ![p] = "send"]
      BY <1>2, <2>2 DEF Check, Goto
    <3>2. /\ pc' \in [Producers -> {"idle", "send", "count", "panicked"}]
          /\ SendersHaveCalls'
      BY <1>2, <3>1 DEF Check, Typed, TypeOK, SendersHaveCalls
    <3> QED
      BY <1>2, <3>1, <3>2 DEF Typed, TypeOK, Check, handlers, worker
  <2> QED
    BY <2>1, <2>2
<1>3. ASSUME NEW p \in Producers, Send(p) PROVE Typed'
  <2>1. calls[p] \in Nat /\ calls[p] < MaxCalls[p]
    BY <1>3 DEF Typed, TypeOK, SendersHaveCalls, Send
  <2>2. <<p, calls[p] + 1>> \in Entry
    BY <2>1, NextEntry
  <2>3. buffer' \in Seq(Entry) /\ accepted' \in Seq(Entry)
    BY <1>3, <2>2, AppendProperties DEF Typed, TypeOK, Send
  <2>4. SendersHaveCalls'
    BY <1>3 DEF Typed, TypeOK, SendersHaveCalls, Send, Called, Goto
  <2>5. /\ pc' \in [Producers -> {"idle", "send", "count", "panicked"}]
        /\ calls' \in [Producers -> Nat]
        /\ \A q \in Producers : calls'[q] <= MaxCalls[q]
    BY <1>3, <2>1 DEF Typed, TypeOK, Send, Called, Goto
  <2> QED
    BY <1>3, <2>3, <2>4, <2>5 DEF Typed, TypeOK, Send, handlers, worker
<1>4. ASSUME NEW p \in Producers, Drop(p) PROVE Typed'
  <2>1. stats' \in [buffered : Nat, processed : Nat, dropped : Nat, errors : Nat]
    BY <1>4, StatsTyped DEF Typed, TypeOK, Drop
  <2>2. /\ pc' \in [Producers -> {"idle", "send", "count", "panicked"}]
        /\ calls' \in [Producers -> Nat]
        /\ \A q \in Producers : calls'[q] <= MaxCalls[q]
        /\ SendersHaveCalls'
    BY <1>4 DEF Typed, TypeOK, SendersHaveCalls, Drop, Called, Goto
  <2> QED
    BY <1>4, <2>1, <2>2 DEF Typed, TypeOK, Drop, handlers, worker
<1>5. ASSUME NEW p \in Producers, Panic(p) PROVE Typed'
  BY <1>5 DEF Typed, TypeOK, SendersHaveCalls, Panic, Called, Goto, handlers, worker
<1>6. ASSUME NEW p \in Producers, CountBuffered(p) PROVE Typed'
  <2>1. stats' \in [buffered : Nat, processed : Nat, dropped : Nat, errors : Nat]
    BY <1>6, StatsTyped DEF Typed, TypeOK, CountBuffered
  <2>2. /\ pc' \in [Producers -> {"idle", "send", "count", "panicked"}]
        /\ SendersHaveCalls'
    BY <1>6 DEF Typed, TypeOK, SendersHaveCalls, CountBuffered, Goto
  <2> QED
    BY <1>6, <2>1, <2>2 DEF Typed, TypeOK, CountBuffered, handlers, worker
<1>7. CASE Receive
  <2>1. hand' \in Seq(Entry) /\ buffer' \in Seq(Entry)
    BY <1>7, HeadThenTail, HeadTailProperties DEF Typed, TypeOK, Receive
  <2> QED
    BY <1>7, <2>1 DEF Typed, TypeOK, SendersHaveCalls, Receive, handlers, producers
<1>8. CASE Process
  <2>1. hand' \in Seq(Entry) /\ written' \in Seq(Entry)
    BY <1>8, HeadTailProperties, AppendProperties, EmptySeq DEF Typed, TypeOK, Process
  <2>2. stats' \in [buffered : Nat, processed : Nat, dropped : Nat, errors : Nat]
    BY <1>8, StatsTyped DEF Typed, TypeOK, Process
  <2> QED
    BY <1>8, <2>1, <2>2 DEF Typed, TypeOK, SendersHaveCalls, Process, handlers, producers
<1>9. CASE StartDrain
  BY <1>9 DEF Typed, TypeOK, SendersHaveCalls, StartDrain, handlers, producers
<1>10. CASE Finish
  BY <1>10 DEF Typed, TypeOK, SendersHaveCalls, Finish, handlers, producers
<1>11. CASE FlushStep
  BY <1>11 DEF Typed, TypeOK, SendersHaveCalls, FlushStep, Tick, Flushed, StopTicker,
               FlusherStep, handlers, producers, worker
<1>12. CASE Mark
  <2>1. due' \in Nat
    BY <1>12, LenProperties DEF Typed, TypeOK, Mark
  <2>2. closed' \in [Handlers -> BOOLEAN]
    BY <1>12 DEF Typed, TypeOK, Mark
  <2> QED
    BY <1>12, <2>1, <2>2 DEF Typed, TypeOK, SendersHaveCalls, Mark, CloseStep, Steps,
                             producers, worker
<1>13. CASE Signal \/ CloseBuffer \/ Done \/ Timeout
  BY <1>13 DEF Typed, TypeOK, SendersHaveCalls, Signal, CloseBuffer, Done, Timeout, CloseStep,
               Steps, producers, worker
<1>14. CASE UNCHANGED vars
  BY <1>14 DEF Typed, TypeOK, SendersHaveCalls, vars, handlers, producers, worker
<1> QED
  BY <1>1, <1>2, <1>3, <1>4, <1>5, <1>6, <1>7, <1>8, <1>9, <1>10, <1>11, <1>12, <1>13, <1>14
     DEF Next, ProducerStep, WorkerStep, CloserStep

(* The initial values have their types.                                    *)
LEMMA TypedInit == Init => Typed
  BY AsyncAssumption, EmptySeq DEF Init, Typed, TypeOK, SendersHaveCalls, Steps

(* Every state of AsyncHandler is well typed.                              *)
THEOREM TypeCorrect == Spec => []TypeOK
<1>1. Typed => TypeOK
  BY DEF Typed
<1> QED
  BY <1>1, TypedInit, TypedStep, PTL DEF Spec

-----------------------------------------------------------------------------
(* The way of an entry.                                                    *)

flow == <<buffer, hand, written, accepted>>

(* Only three actions move an entry.                                       *)
LEMMA FlowSteps ==
    [Next]_vars => (\E p \in Producers : Send(p)) \/ Receive \/ Process \/ UNCHANGED flow
<1> SUFFICES ASSUME [Next]_vars
             PROVE  (\E p \in Producers : Send(p)) \/ Receive \/ Process \/ UNCHANGED flow
  OBVIOUS
<1>1. ASSUME NEW g \in Handlers, NEW h \in Handlers, With(g, h) PROVE UNCHANGED flow
  BY <1>1 DEF With, worker, flow
<1>2. ASSUME NEW p \in Producers, ProducerStep(p) PROVE Send(p) \/ UNCHANGED flow
  BY <1>2 DEF ProducerStep, Check, Drop, Panic, CountBuffered, worker, flow
<1>3. CASE WorkerStep
  BY <1>3 DEF WorkerStep, StartDrain, Finish, flow
<1>4. CASE FlushStep
  BY <1>4 DEF FlushStep, Tick, Flushed, StopTicker, FlusherStep, worker, flow
<1>5. CASE CloserStep
  BY <1>5 DEF CloserStep, Mark, Signal, CloseBuffer, Done, Timeout, CloseStep, worker, flow
<1>6. CASE UNCHANGED vars
  BY <1>6 DEF vars, worker, flow
<1> QED
  BY <1>1, <1>2, <1>3, <1>4, <1>5, <1>6 DEF Next

(* processLoop has received at most one entry it has not processed, and    *)
(* the channel never holds more than its capacity.                         *)
HandHoldsOne == Len(hand) <= 1
BufferBounded == Len(buffer) <= Capacity

Conserved == Typed /\ HandHoldsOne /\ BufferBounded /\ NothingLost

(* Sending, receiving and processing lose nothing and reorder nothing.     *)
LEMMA ConservedStep == Conserved /\ [Next]_vars => Conserved'
<1> SUFFICES ASSUME Conserved, [Next]_vars PROVE Conserved'
  OBVIOUS
<1> USE AsyncAssumption
<1>1. Typed'
  BY TypedStep DEF Conserved
<1>2. buffer \in Seq(Entry) /\ hand \in Seq(Entry) /\ written \in Seq(Entry)
  BY DEF Conserved, Typed, TypeOK
<1>3. ASSUME NEW p \in Producers, Send(p) PROVE Conserved'
  <2>1. <<p, calls[p] + 1>> \in Entry
    BY <1>3, NextEntry DEF Send, Conserved, Typed, TypeOK, SendersHaveCalls
  <2> DEFINE e == <<p, calls[p] + 1>>
  <2>2. /\ accepted' = Append(accepted, e) /\ buffer' = Append(buffer, e)
        /\ Len(buffer) < Capacity
        /\ hand' = hand /\ written' = written
    BY <1>3 DEF Send, worker
  <2> HIDE DEF e
  <2>3. e \in Entry
    BY <2>1 DEF e
  <2>4. accepted' = written' \o hand' \o buffer'
    <3>1. written \o hand \o Append(buffer, e) = Append(written \o hand \o buffer, e)
      BY <1>2, <2>3, AppendToLast
    <3> QED
      BY <2>2, <3>1 DEF Conserved, NothingLost
  <2>5. Len(buffer') = Len(buffer) + 1 /\ Len(buffer) \in Nat
    BY <1>2, <2>2, <2>3, AppendProperties, LenProperties
  <2>6. BufferBounded'
    BY <2>2, <2>5 DEF BufferBounded
  <2> QED
    BY <1>1, <2>2, <2>4, <2>6 DEF Conserved, HandHoldsOne, NothingLost
<1>4. CASE Receive
  <2>1. /\ hand = <<>> /\ buffer # <<>>
        /\ hand' = <<Head(buffer)>> /\ buffer' = Tail(buffer)
        /\ written' = written /\ accepted' = accepted
    BY <1>4 DEF Receive
  <2>2. accepted' = written' \o hand' \o buffer'
    BY <1>2, <2>1, MoveToHand DEF Conserved, NothingLost
  <2>3. Len(buffer') = Len(buffer) - 1 /\ Len(buffer) \in Nat
    BY <1>2, <2>1, HeadTailProperties, LenProperties
  <2>4. HandHoldsOne'
    BY <2>1 DEF HandHoldsOne
  <2>5. BufferBounded'
    BY <2>3 DEF Conserved, BufferBounded
  <2> QED
    BY <1>1, <2>2, <2>4, <2>5 DEF Conserved, NothingLost
<1>5. CASE Process
  <2>1. /\ hand # <<>> /\ hand' = <<>>
        /\ written' = Append(written, Head(hand))
        /\ buffer' = buffer /\ accepted' = accepted
    BY <1>5 DEF Process
  <2>2. accepted' = written' \o hand' \o buffer'
    BY <1>2, <2>1, MoveToWritten DEF Conserved, NothingLost, HandHoldsOne
  <2>3. Len(hand') = 0
    BY <2>1
  <2> QED
    BY <1>1, <2>1, <2>2, <2>3 DEF Conserved, HandHoldsOne, BufferBounded, NothingLost
<1>6. CASE UNCHANGED flow
  BY <1>1, <1>6 DEF Conserved, HandHoldsOne, BufferBounded, NothingLost, flow
<1> QED
  BY <1>3, <1>4, <1>5, <1>6, FlowSteps

(* Nothing is accepted at first.                                           *)
LEMMA ConservedInit == Init => Conserved
<1> SUFFICES ASSUME Init PROVE Conserved
  OBVIOUS
<1>1. Typed
  BY TypedInit
<1>2. accepted = <<>> /\ written = <<>> /\ hand = <<>> /\ buffer = <<>>
  BY DEF Init
<1>3. <<>> \o <<>> \o <<>> = <<>>
  BY EmptySeq, ConcatEmptySeq
<1>4. Len(hand) = 0 /\ Len(buffer) = 0
  BY <1>2
<1> QED
  BY <1>1, <1>2, <1>3, <1>4, AsyncAssumption
     DEF Conserved, HandHoldsOne, BufferBounded, NothingLost

(* Every accepted entry is written, in hand or in the channel, in order.   *)
THEOREM Conservation == Spec => []NothingLost
<1>1. Conserved => NothingLost
  BY DEF Conserved
<1> QED
  BY <1>1, ConservedInit, ConservedStep, PTL DEF Spec

-----------------------------------------------------------------------------
(* Close.                                                                  *)

(* processLoop drains only after Close has closed closeCh, and Close asks  *)
(* for no more than was accepted.                                          *)
DrainsAfterClose == loop # "process" => CloseChClosed
DueSoFar == due <= Len(accepted)

Delivering == Conserved /\ DrainsAfterClose /\ DueSoFar /\ CloseDelivers

LEMMA Lengths ==
    ASSUME Typed
    PROVE  /\ Len(accepted) \in Nat /\ Len(written) \in Nat /\ due \in Nat
           /\ hand = <<>> /\ buffer = <<>> /\ NothingLost => Len(accepted) = Len(written)
<1>1. accepted \in Seq(Entry) /\ written \in Seq(Entry) /\ due \in Nat
  BY DEF Typed, TypeOK
<1>2. written \o <<>> \o <<>> = written
  BY <1>1, ConcatEmptySeq
<1> QED
  BY <1>1, <1>2, LenProperties DEF NothingLost

LEMMA DeliveringStep == Delivering /\ [Next]_vars => Delivering'
<1> SUFFICES ASSUME Delivering, [Next]_vars PROVE Delivering'
  OBVIOUS
<1>1. Conserved'
  BY ConservedStep DEF Delivering
<1>2. /\ Len(accepted) \in Nat /\ Len(written) \in Nat /\ due \in Nat
      /\ hand = <<>> /\ buffer = <<>> => Len(accepted) = Len(written)
  BY Lengths DEF Delivering, Conserved
(* Neither history ever shrinks.                                           *)
<1>3. Len(accepted) <= Len(accepted') /\ Len(written) <= Len(written')
  <2>1. ASSUME NEW p \in Producers, Send(p)
        PROVE  Len(accepted') = Len(accepted) + 1 /\ written' = written
    <3>1. <<p, calls[p] + 1>> \in Entry
      BY <2>1, NextEntry DEF Send, Delivering, Conserved, Typed, TypeOK, SendersHaveCalls
    <3>2. accepted \in Seq(Entry)
      BY DEF Delivering, Conserved, Typed, TypeOK
    <3>3. accepted' = Append(accepted, <<p, calls[p] + 1>>) /\ written' = written
      BY <2>1 DEF Send, worker
    <3> QED
      BY <3>1, <3>2, <3>3, AppendProperties
  <2>2. CASE Process
    <3>1. written \in Seq(Entry) /\ hand \in Seq(Entry) /\ hand # <<>>
      BY <2>2 DEF Process, Delivering, Conserved, Typed, TypeOK
    <3>2. Head(hand) \in Entry
      BY <3>1, HeadTailProperties
    <3>3. Len(written') = Len(written) + 1
      BY <2>2, <3>1, <3>2, AppendProperties DEF Process
    <3> QED
      BY <2>2, <3>3, <1>2 DEF Process
  <2>3. CASE Receive
    BY <2>3, <1>2 DEF Receive
  <2>4. CASE UNCHANGED flow
    BY <2>4, <1>2 DEF flow
  <2> QED
    BY <1>2, <2>1, <2>2, <2>3, <2>4, FlowSteps
<1>4. Len(accepted') \in Nat /\ Len(written') \in Nat
  <2>1. Typed'
    BY <1>1 DEF Conserved
  <2> QED
    BY <2>1, LenProperties DEF Typed, TypeOK
<1>5. CASE StartDrain
  BY <1>1, <1>2, <1>3, <1>4, <1>5
     DEF Delivering, StartDrain, DrainsAfterClose, DueSoFar, CloseDelivers, CloseChClosed
(* Nothing in hand and nothing in the channel: all of it is written.       *)
<1>6. CASE Finish
  BY <1>1, <1>2, <1>5, <1>6
     DEF Delivering, Finish, DrainsAfterClose, DueSoFar, CloseDelivers, CloseChClosed
(* Close begins while processLoop is still in its select.                  *)
<1>7. CASE Mark
  <2>1. closing = "open" /\ loop = "process" /\ loop' = loop /\ due' = Len(accepted)
    BY <1>7 DEF Mark, CloseStep, worker, Delivering, DrainsAfterClose, CloseChClosed
  <2> QED
    BY <1>1, <1>2, <1>3, <1>4, <2>1
       DEF Delivering, DrainsAfterClose, DueSoFar, CloseDelivers
<1>8. CASE Signal \/ CloseBuffer \/ Done \/ Timeout
  BY <1>1, <1>2, <1>3, <1>4, <1>8
     DEF Delivering, Signal, CloseBuffer, Done, Timeout, CloseStep, worker,
         DrainsAfterClose, DueSoFar, CloseDelivers, CloseChClosed
<1>9. ASSUME loop' = loop, closing' = closing, due' = due PROVE Delivering'
  BY <1>1, <1>2, <1>3, <1>4, <1>9
     DEF Delivering, DrainsAfterClose, DueSoFar, CloseDelivers, CloseChClosed
<1>10. ASSUME NEW g \in Handlers, NEW h \in Handlers, With(g, h) PROVE Delivering'
  BY <1>9, <1>10 DEF With, worker
<1>11. ASSUME NEW p \in Producers, ProducerStep(p) PROVE Delivering'
  BY <1>9, <1>11 DEF ProducerStep, Check, Send, Drop, Panic, CountBuffered, worker
<1>12. CASE Receive \/ Process \/ FlushStep
  BY <1>9, <1>12 DEF Receive, Process, FlushStep, Tick, Flushed, StopTicker, FlusherStep, worker
<1>13. CASE UNCHANGED vars
  BY <1>9, <1>13 DEF vars, worker
<1> QED
  BY <1>5, <1>6, <1>7, <1>8, <1>10, <1>11, <1>12, <1>13 DEF Next, WorkerStep, CloserStep

LEMMA DeliveringInit == Init => Delivering
<1> SUFFICES ASSUME Init PROVE Delivering
  OBVIOUS
<1>1. Conserved
  BY ConservedInit
<1>2. Len(accepted) = 0 /\ due = 0 /\ loop = "process"
  BY DEF Init
<1> QED
  BY <1>1, <1>2 DEF Delivering, DrainsAfterClose, DueSoFar, CloseDelivers

(* When processLoop is done, all that was accepted before Close began has  *)
(* been written.                                                           *)
THEOREM CloseKeepsItsWord == Spec => []CloseDelivers
<1>1. Delivering => CloseDelivers
  BY DEF Delivering
<1> QED
  BY <1>1, DeliveringInit, DeliveringStep, PTL DEF Spec

-----------------------------------------------------------------------------
(* AsyncHandler implements LogQueue.                                       *)

(* The number of an accepted entry is one its producer has used.           *)
Numbered == \A i \in 1..Len(accepted) : accepted[i][2] <= calls[accepted[i][1]]

LEMMA AcceptedEntry ==
    ASSUME Typed, NEW i \in 1..Len(accepted)
    PROVE  /\ accepted[i][1] \in Producers
           /\ accepted[i][2] \in Nat
           /\ calls[accepted[i][1]] \in Nat
<1>1. accepted[i] \in Entry
  BY ElementOfSeq DEF Typed, TypeOK
<1>2. PICK p \in Producers : accepted[i] \in {p} \X (1..MaxCalls[p])
  BY <1>1 DEF Entry
<1>3. MaxCalls[p] \in Nat
  BY AsyncAssumption
<1>4. accepted[i][1] = p /\ accepted[i][2] \in Nat
  BY <1>2, <1>3
<1> QED
  BY <1>4 DEF Typed, TypeOK

LEMMA NumberedStep == Typed /\ Numbered /\ [Next]_vars => Numbered'
<1> SUFFICES ASSUME Typed, Numbered, [Next]_vars PROVE Numbered'
  OBVIOUS
<1>1. accepted \in Seq(Entry) /\ calls \in [Producers -> Nat]
  BY DEF Typed, TypeOK
(* A producer only counts up.                                              *)
<1>2. ASSUME accepted' = accepted,
             \A p \in Producers : calls'[p] \in Nat /\ calls[p] <= calls'[p]
      PROVE  Numbered'
  <2> SUFFICES ASSUME NEW i \in 1..Len(accepted)
               PROVE  accepted[i][2] <= calls'[accepted[i][1]]
    BY <1>2 DEF Numbered
  <2>1. accepted[i][2] <= calls[accepted[i][1]]
    BY DEF Numbered
  <2> QED
    BY <1>2, <2>1, AcceptedEntry
<1>3. ASSUME NEW p \in Producers, Send(p) PROVE Numbered'
  <2> DEFINE e == <<p, calls[p] + 1>>
  <2>1. e \in Entry
    BY <1>3, NextEntry DEF Send, Typed, TypeOK, SendersHaveCalls
  <2>2. accepted' = Append(accepted, e) /\ calls' = [calls EXCEPT ![p] = @ + 1]
    BY <1>3 DEF Send, Called
  <2>3. /\ Len(accepted') = Len(accepted) + 1 /\ Len(accepted) \in Nat
        /\ \A i \in 1..Len(accepted) : accepted'[i] = accepted[i]
        /\ accepted'[Len(accepted) + 1] = e
    <3> HIDE DEF e
    <3> QED
      BY <1>1, <2>1, <2>2, AppendProperties, LenProperties
  <2> SUFFICES ASSUME NEW i \in 1..Len(accepted')
               PROVE  accepted'[i][2] <= calls'[accepted'[i][1]]
    BY DEF Numbered
  <2>4. CASE i = Len(accepted) + 1
    <3>1. calls'[p] = calls[p] + 1 /\ calls[p] \in Nat
      BY <1>1, <2>2
    <3>2. accepted'[i][1] = p /\ accepted'[i][2] = calls[p] + 1
      BY <2>3, <2>4
    <3> QED
      BY <3>1, <3>2
  <2>5. CASE i \in 1..Len(accepted)
    <3>1. accepted'[i] = accepted[i] /\ accepted[i][2] <= calls[accepted[i][1]]
      BY <2>3, <2>5 DEF Numbered
    <3>2. /\ accepted[i][1] \in Producers /\ accepted[i][2] \in Nat
          /\ calls[accepted[i][1]] \in Nat
      BY <2>5, AcceptedEntry
    <3>3. calls'[accepted[i][1]] \in {calls[accepted[i][1]], calls[accepted[i][1]] + 1}
      BY <1>1, <2>2, <3>2
    <3> QED
      BY <3>1, <3>2, <3>3
  <2> QED
    BY <2>3, <2>4, <2>5
<1>4. ASSUME NEW g \in Handlers, NEW h \in Handlers, With(g, h) PROVE Numbered'
  BY <1>1, <1>2, <1>4 DEF With, producers
<1>5. ASSUME NEW p \in Producers, NEW h \in Handlers, Check(p, h) PROVE Numbered'
  BY <1>1, <1>2, <1>5 DEF Check, Called
<1>6. ASSUME NEW p \in Producers, Drop(p) \/ Panic(p) \/ CountBuffered(p) PROVE Numbered'
  BY <1>1, <1>2, <1>6 DEF Drop, Panic, CountBuffered, Called
<1>7. CASE WorkerStep
  BY <1>1, <1>2, <1>7 DEF WorkerStep, Receive, Process, StartDrain, Finish, producers
<1>8. CASE FlushStep
  BY <1>1, <1>2, <1>8 DEF FlushStep, Tick, Flushed, StopTicker, FlusherStep, producers
<1>9. CASE CloserStep
  BY <1>1, <1>2, <1>9
     DEF CloserStep, Mark, Signal, CloseBuffer, Done, Timeout, CloseStep, producers
<1>10. CASE UNCHANGED vars
  BY <1>1, <1>2, <1>10 DEF vars, producers
<1> QED
  BY <1>3, <1>4, <1>5, <1>6, <1>7, <1>8, <1>9, <1>10 DEF Next, ProducerStep

(* What is in hand is the first accepted entry that is not written.        *)
LEMMA InHandIsNext ==
    ASSUME NEW S, NEW w \in Seq(S), NEW h \in Seq(S), NEW b \in Seq(S), h # <<>>, Len(h) <= 1
    PROVE  /\ Len(w) < Len(w \o h \o b)
           /\ (w \o h \o b)[Len(w) + 1] = Head(h)
<1>1. Len(h) = 1 /\ h[1] = Head(h)
  BY Singleton
<1>2. Len(w) \in Nat /\ Len(h) \in Nat /\ Len(b) \in Nat
  BY LenProperties
<1> DEFINE f == w \o h
<1>3. /\ f \in Seq(S) /\ Len(f) = Len(w) + Len(h)
      /\ \A i \in 1..Len(w) + Len(h) : f[i] = IF i <= Len(w) THEN w[i] ELSE h[i - Len(w)]
  BY ConcatProperties
<1> HIDE DEF f
<1>4. f[Len(w) + 1] = h[1]
  <2>1. Len(w) + 1 \in 1..Len(w) + Len(h) /\ ~(Len(w) + 1 <= Len(w)) /\ (Len(w) + 1) - Len(w) = 1
    BY <1>1, <1>2
  <2> QED
    BY <1>3, <2>1
<1>5. /\ Len(f \o b) = Len(f) + Len(b)
      /\ \A i \in 1..Len(f) + Len(b) : (f \o b)[i] = IF i <= Len(f) THEN f[i] ELSE b[i - Len(f)]
  BY <1>3, ConcatProperties
<1>6. Len(w) + 1 \in 1..Len(f) + Len(b) /\ Len(w) + 1 <= Len(f)
  BY <1>1, <1>2, <1>3
<1>7. (f \o b)[Len(w) + 1] = Head(h)
  BY <1>1, <1>4, <1>5, <1>6
<1>8. Len(w) < Len(f \o b)
  BY <1>1, <1>2, <1>3, <1>5
<1> QED
  BY <1>7, <1>8 DEF f

Queued == Conserved /\ Numbered

(* Every step is a step of the queue or changes neither of its histories.  *)
LEMMA QueueStep == Queued /\ [Next]_vars => [Queue!Next]_(Queue!vars)
<1> SUFFICES ASSUME Queued, [Next]_vars PROVE [Queue!Next]_(Queue!vars)
  OBVIOUS
<1>1. /\ buffer \in Seq(Entry) /\ hand \in Seq(Entry) /\ written \in Seq(Entry)
      /\ accepted \in Seq(Entry)
      /\ Len(hand) <= 1 /\ accepted = written \o hand \o buffer
  BY DEF Queued, Conserved, Typed, TypeOK, HandHoldsOne, NothingLost
<1>2. ASSUME NEW p \in Producers, Send(p) PROVE Queue!Next
  <2> DEFINE e == <<p, calls[p] + 1>>
  <2>1. e \in Entry /\ calls[p] \in Nat
    BY <1>2, NextEntry DEF Send, Queued, Conserved, Typed, TypeOK, SendersHaveCalls
  <2>2. accepted' = Append(accepted, e) /\ written' = written /\ Len(buffer) < Capacity
    BY <1>2 DEF Send, worker
  <2>3. \A i \in DOMAIN accepted : accepted[i] # e
    <3> SUFFICES ASSUME NEW i \in 1..Len(accepted), accepted[i] = e PROVE FALSE
      BY <1>1, LenProperties
    <3>1. accepted[i][1] = p /\ accepted[i][2] = calls[p] + 1
      OBVIOUS
    <3>2. accepted[i][2] <= calls[accepted[i][1]]
      BY DEF Queued, Numbered
    <3> QED
      BY <2>1, <3>1, <3>2
  <2>4. Len(accepted) - Len(written) < Capacity + 1
    <3>1. Len(accepted) = Len(written) + Len(hand) + Len(buffer)
      <4>1. written \o hand \in Seq(Entry) /\ Len(written \o hand) = Len(written) + Len(hand)
        BY <1>1, ConcatProperties
      <4> QED
        BY <1>1, <4>1, ConcatProperties
    <3>2. Len(written) \in Nat /\ Len(hand) \in Nat /\ Len(buffer) \in Nat
      BY <1>1, LenProperties
    <3> QED
      BY <1>1, <2>2, <3>1, <3>2, AsyncAssumption
  <2>5. Queue!Accept(e)
    <3> HIDE DEF e
    <3> QED
      BY <2>2, <2>3, <2>4 DEF Queue!Accept
  <2> QED
    BY <2>1, <2>5 DEF Queue!Next
<1>3. CASE Process
  <2>1. /\ hand # <<>> /\ written' = Append(written, Head(hand)) /\ accepted' = accepted
    BY <1>3 DEF Process
  <2>2. Len(written) < Len(accepted) /\ accepted[Len(written) + 1] = Head(hand)
    BY <1>1, <2>1, InHandIsNext
  <2> QED
    BY <2>1, <2>2 DEF Queue!Next, Queue!Write
<1>4. CASE Receive
  BY <1>4 DEF Receive, Queue!vars
<1>5. CASE UNCHANGED flow
  BY <1>5 DEF flow, Queue!vars
<1> QED
  BY <1>2, <1>3, <1>4, <1>5, FlowSteps

LEMMA QueuedInit == Init => Queued
<1> SUFFICES ASSUME Init PROVE Queued
  OBVIOUS
<1>1. Len(accepted) = 0
  BY DEF Init
<1> QED
  BY <1>1, ConservedInit DEF Queued, Numbered

(* AsyncHandler implements the queue of LogQueue: entries are written at   *)
(* most once, in the order they were accepted, and never more than the     *)
(* channel's capacity and one are waiting.                                 *)
THEOREM ImplementsQueue == Spec => KeepsQueuePromise
<1>1. Init => Queue!Init
  BY DEF Init, Queue!Init
<1>2. Queued /\ [Next]_vars => Queued'
  BY ConservedStep, NumberedStep DEF Queued, Conserved
<1> QED
  BY <1>1, <1>2, QueuedInit, QueueStep, PTL DEF Spec, KeepsQueuePromise, Queue!Spec

-----------------------------------------------------------------------------
(* The counters.                                                           *)

Counted == Conserved /\ CountersAgree

LEMMA CountingFinite ==
    /\ IsFiniteSet(Counting) /\ Cardinality(Counting) \in Nat
  BY AsyncAssumption, FS_Subset, FS_CardinalityType DEF Counting

(* A producer that starts or stops counting changes their number by one.   *)
LEMMA StartsCounting ==
    ASSUME NEW p \in Producers, Typed, pc[p] # "count", pc' = [pc EXCEPT ![p] = "count"]
    PROVE  Cardinality(Counting') = Cardinality(Counting) + 1
<1>1. Counting' = Counting \cup {p} /\ p \notin Counting
  BY DEF Counting, Typed, TypeOK
<1> QED
  BY <1>1, CountingFinite, FS_AddElement

LEMMA StopsCounting ==
    ASSUME NEW p \in Producers, Typed, pc[p] = "count", pc' = [pc EXCEPT ![p] = "idle"]
    PROVE  Cardinality(Counting') = Cardinality(Counting) - 1
<1>1. Counting' = Counting \ {p} /\ p \in Counting
  BY DEF Counting, Typed, TypeOK
<1> QED
  BY <1>1, CountingFinite, FS_RemoveElement

LEMMA CountedStep == Counted /\ [Next]_vars => Counted'
<1> SUFFICES ASSUME Counted, [Next]_vars PROVE CountersAgree'
  BY ConservedStep DEF Counted
<1>1. Typed /\ Conserved'
  BY ConservedStep DEF Counted, Conserved
<1>2. /\ stats.buffered \in Nat /\ stats.processed \in Nat /\ stats.errors \in Nat
      /\ Len(hand) \in Nat /\ Len(buffer) \in Nat /\ Cardinality(Counting) \in Nat
  BY <1>1, LenProperties, CountingFinite DEF Typed, TypeOK
<1>3. ASSUME NEW p \in Producers, Send(p) PROVE CountersAgree'
  <2>1. Cardinality(Counting') = Cardinality(Counting) + 1
    BY <1>1, <1>3, StartsCounting DEF Send, Goto
  <2>2. Len(buffer') = Len(buffer) + 1
    <3>1. <<p, calls[p] + 1>> \in Entry
      BY <1>1, <1>3, NextEntry DEF Send, Typed, TypeOK, SendersHaveCalls
    <3>2. buffer' = Append(buffer, <<p, calls[p] + 1>>) /\ buffer \in Seq(Entry)
      BY <1>1, <1>3 DEF Send, Typed, TypeOK
    <3> QED
      BY <3>1, <3>2, AppendProperties
  <2>3. stats' = stats /\ hand' = hand
    BY <1>3 DEF Send, worker
  <2> QED
    BY <1>2, <2>1, <2>2, <2>3 DEF Counted, CountersAgree
<1>4. ASSUME NEW p \in Producers, CountBuffered(p) PROVE CountersAgree'
  <2>1. Cardinality(Counting') = Cardinality(Counting) - 1
    BY <1>1, <1>4, StopsCounting DEF CountBuffered, Goto
  <2>2. /\ stats'.buffered = stats.buffered + 1
        /\ stats'.processed = stats.processed /\ stats'.errors = stats.errors
    BY <1>1, <1>4 DEF CountBuffered, Typed, TypeOK
  <2>3. hand' = hand /\ buffer' = buffer
    BY <1>4 DEF CountBuffered, worker
  <2> QED
    BY <1>2, <2>1, <2>2, <2>3 DEF Counted, CountersAgree
<1>5. CASE Receive
  <2>1. hand = <<>> /\ Len(hand') = 1 /\ buffer # <<>> /\ buffer' = Tail(buffer)
    BY <1>5 DEF Receive
  <2>2. Len(buffer') = Len(buffer) - 1
    BY <1>1, <2>1, HeadTailProperties DEF Typed, TypeOK
  <2>3. Counting' = Counting /\ stats' = stats /\ Len(hand) = 0
    BY <1>5, <2>1 DEF Receive, producers, Counting
  <2> QED
    BY <1>2, <2>1, <2>2, <2>3 DEF Counted, CountersAgree
<1>6. CASE Process
  <2>1. Len(hand) = 1 /\ Len(hand') = 0 /\ buffer' = buffer
    BY <1>1, <1>6, Singleton DEF Process, Counted, Conserved, HandHoldsOne, Typed, TypeOK
  <2>2. stats'.buffered = stats.buffered
    BY <1>1, <1>6 DEF Process, Typed, TypeOK
  <2>3. stats'.processed + stats'.errors = stats.processed + stats.errors + 1
    <3>1. stats \in [buffered : Nat, processed : Nat, dropped : Nat, errors : Nat]
      BY <1>1 DEF Typed, TypeOK
    <3>2. \/ stats'.processed = stats.processed + 1 /\ stats'.errors = stats.errors
          \/ stats'.processed = stats.processed /\ stats'.errors = stats.errors + 1
      BY <1>6, <3>1 DEF Process
    <3> QED
      BY <1>2, <3>2
  <2>4. Counting' = Counting
    BY <1>6 DEF Process, producers, Counting
  <2>5. stats'.processed \in Nat /\ stats'.errors \in Nat
    BY <1>1 DEF Conserved, Typed, TypeOK
  <2> QED
    BY <1>2, <2>1, <2>2, <2>3, <2>4, <2>5 DEF Counted, CountersAgree
<1>7. ASSUME /\ stats'.buffered = stats.buffered /\ stats'.processed = stats.processed
             /\ stats'.errors = stats.errors
             /\ Counting' = Counting /\ hand' = hand /\ buffer' = buffer
      PROVE  CountersAgree'
  BY <1>7 DEF Counted, CountersAgree
<1>8. ASSUME NEW p \in Producers, NEW h \in Handlers, Check(p, h) PROVE CountersAgree'
  <2>1. Counting' = Counting
    BY <1>1, <1>8 DEF Check, Goto, Counting, Typed, TypeOK
  <2> QED
    BY <1>7, <1>8, <2>1 DEF Check, worker
<1>9. ASSUME NEW p \in Producers, Drop(p) PROVE CountersAgree'
  <2>1. Counting' = Counting
    BY <1>1, <1>9 DEF Drop, Goto, Counting, Typed, TypeOK
  <2>2. /\ stats'.buffered = stats.buffered /\ stats'.processed = stats.processed
        /\ stats'.errors = stats.errors
    BY <1>1, <1>9 DEF Drop, Typed, TypeOK
  <2> QED
    BY <1>7, <1>9, <2>1, <2>2 DEF Drop, worker
<1>10. ASSUME NEW p \in Producers, Panic(p) PROVE CountersAgree'
  <2>1. Counting' = Counting
    BY <1>1, <1>10 DEF Panic, Goto, Counting, Typed, TypeOK
  <2> QED
    BY <1>7, <1>10, <2>1 DEF Panic, worker
<1>11. ASSUME NEW g \in Handlers, NEW h \in Handlers, With(g, h) PROVE CountersAgree'
  BY <1>7, <1>11 DEF With, producers, worker, Counting
<1>12. CASE StartDrain \/ Finish
  BY <1>7, <1>12 DEF StartDrain, Finish, producers, Counting
<1>13. CASE FlushStep
  BY <1>7, <1>13 DEF FlushStep, Tick, Flushed, StopTicker, FlusherStep, producers, worker, Counting
<1>14. CASE CloserStep
  BY <1>7, <1>14 DEF CloserStep, Mark, Signal, CloseBuffer, Done, Timeout, CloseStep,
                     producers, worker, Counting
<1>15. CASE UNCHANGED vars
  BY <1>7, <1>15 DEF vars, producers, worker, Counting
<1> QED
  BY <1>3, <1>4, <1>5, <1>6, <1>8, <1>9, <1>10, <1>11, <1>12, <1>13, <1>14, <1>15
     DEF Next, ProducerStep, WorkerStep

LEMMA CountedInit == Init => Counted
<1> SUFFICES ASSUME Init PROVE Counted
  OBVIOUS
<1>1. Counting = {}
  BY DEF Init, Counting
<1>2. Cardinality(Counting) = 0
  BY <1>1, FS_EmptySet
<1>3. /\ stats.buffered = 0 /\ stats.processed = 0 /\ stats.errors = 0
      /\ Len(hand) = 0 /\ Len(buffer) = 0
  BY DEF Init
<1> QED
  BY <1>2, <1>3, ConservedInit DEF Counted, CountersAgree

(* The counters account for every accepted entry.                          *)
THEOREM CountersCorrect == Spec => []CountersAgree
<1>1. Counted => CountersAgree
  BY DEF Counted
<1> QED
  BY <1>1, CountedInit, CountedStep, PTL DEF Spec
=============================================================================
