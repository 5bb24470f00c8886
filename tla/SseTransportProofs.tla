-------------------------- MODULE SseTransportProofs --------------------------
(***************************************************************************)
(* Proofs about SseTransport, for any streams, requests and sessions and   *)
(* any size of the queues, whether the writer flushes or not.              *)
(***************************************************************************)
EXTENDS SseTransport, SequenceLemmas

(* The stages at which a stream or a request has its session.              *)
InSession ==
    {"register", "queue", "stream", "deregister", "close", "respond", "accepted"}

-----------------------------------------------------------------------------
(* The invariant, by what it relates.                                      *)

(* A stream past OpenQueue has a queue for its session.                    *)
QueueThere ==
    \A c \in Streams :
        session[c] \in SessionIds =>
            pc[c] \in {"register", "queue"} \/ queues[session[c]] # NoQueue

Typed ==
    /\ TypeOK
    /\ queues \in [SessionIds -> Seq(Rpcs) \cup {NoQueue}]
    /\ \A x \in Streams \cup Rpcs :
          /\ pc[x] \in InSession => session[x] \in SessionIds
          /\ pc[x] = "idle" => session[x] = NoSession
    /\ QueueThere

(* A session's client is a stream of that session that has not deregistered *)
(* yet; a stream closes its channel after that, as the last thing it does. *)
Registration ==
    /\ \A s \in SessionIds :
          clients[s] # NoClient => /\ session[clients[s]] = s
                                   /\ pc[clients[s]] \in {"queue", "stream", "deregister"}
    /\ \A c \in closed : pc[c] = "ended"

(* What is in a session's queue was put there by a request of that session. *)
QueueIsOwn ==
    \A s \in SessionIds : queues[s] # NoQueue =>
        \A k \in DOMAIN queues[s] :
            pc[queues[s][k]] = "accepted" /\ session[queues[s][k]] = s

(* Whoever took a response is past the point where its session is fixed.   *)
WriterIsOwn ==
    \A r \in Rpcs : writer[r] # NoClient =>
        /\ pc[r] = "accepted"
        /\ pc[writer[r]] # "idle"
        /\ session[writer[r]] = session[r]

-----------------------------------------------------------------------------
(* Types.                                                                  *)

(* The elements of a queue are requests.                                   *)
LEMMA QueueElements ==
    ASSUME NEW q \in Seq(Rpcs)
    PROVE  /\ q # NoQueue
           /\ \A k \in DOMAIN q : q[k] \in Rpcs
           /\ q # <<>> => /\ Head(q) \in Rpcs /\ Tail(q) \in Seq(Rpcs)
                          /\ 1 \in DOMAIN q /\ Head(q) = q[1]
                          /\ \A k \in DOMAIN Tail(q) : k + 1 \in DOMAIN q /\ Tail(q)[k] = q[k + 1]
<1>1. q # NoQueue
  BY SseAssumption
<1>2. DOMAIN q = 1..Len(q) /\ Len(q) \in Nat /\ \A k \in DOMAIN q : q[k] \in Rpcs
  BY LenProperties, ElementOfSeq
<1>3. ASSUME q # <<>>
      PROVE  /\ Head(q) \in Rpcs /\ Tail(q) \in Seq(Rpcs)
             /\ 1 \in DOMAIN q /\ Head(q) = q[1]
             /\ \A k \in DOMAIN Tail(q) : k + 1 \in DOMAIN q /\ Tail(q)[k] = q[k + 1]
  <2>1. Head(q) \in Rpcs /\ Tail(q) \in Seq(Rpcs) /\ Len(Tail(q)) = Len(q) - 1
        /\ \A k \in 1..Len(Tail(q)) : Tail(q)[k] = q[k + 1]
    BY <1>3, HeadTailProperties
  <2>2. Len(q) # 0
    BY <1>3, EmptySeq
  <2>3. Head(q) = q[1]
    OBVIOUS
  <2>4. DOMAIN Tail(q) = 1..Len(Tail(q))
    BY <2>1, LenProperties
  <2>5. \A k \in 1..Len(Tail(q)) : k + 1 \in 1..Len(q)
    BY <1>2, <2>1
  <2> QED
    BY <1>2, <2>1, <2>2, <2>3, <2>4, <2>5
<1> QED
  BY <1>1, <1>2, <1>3

LEMMA TypedInit == Init => Typed
<1> SUFFICES ASSUME Init PROVE Typed
  OBVIOUS
<1>1. <<>> \in Seq(Rpcs)
  OBVIOUS
<1> QED
  BY <1>1, SseAssumption
  DEF Init, Manager!Init, Typed, QueueThere, TypeOK, Manager!TypeOK, Finished, InSession

(* A stream that takes up session s, whatever becomes of the manager.      *)
LEMMA OpeningTyped ==
    ASSUME Typed, NEW x \in Streams \cup Rpcs, NEW s \in SessionIds, NEW label,
           pc[x] = "idle", label = IF x \in Streams THEN "register" ELSE "respond",
           session' = [session EXCEPT ![x] = s], Goto(x, label),
           Manager!TypeOK', s \in issued', issued \subseteq issued',
           UNCHANGED <<clients, queues, streams, stop, history>>
    PROVE  Typed'
<1>1. session' \in [Streams \cup Rpcs -> issued' \cup {NoSession}]
  BY DEF Typed, TypeOK
<1>2. pc' \in [Streams \cup Rpcs -> Finished \cup
                  {"register", "queue", "stream", "deregister", "close", "respond"}]
  BY DEF Goto, Typed, TypeOK
<1>3. \A y \in Streams \cup Rpcs :
          /\ pc'[y] \in InSession => session'[y] \in SessionIds
          /\ pc'[y] = "idle" => session'[y] = NoSession
  BY DEF Goto, Typed, TypeOK
<1>4. QueueThere'
  BY DEF Goto, QueueThere, Typed, TypeOK
<1> QED
  BY <1>1, <1>2, <1>3, <1>4 DEF Typed, TypeOK, streams, history

LEMMA TypedStep == Typed /\ [Next]_vars => Typed'
<1> SUFFICES ASSUME Typed, [Next]_vars PROVE Typed'
  OBVIOUS
<1> USE SseAssumption DEF manager, streams, history
<1>1. ASSUME NEW c \in Streams, NoStream(c) PROVE Typed'
  BY <1>1 DEF NoStream, Arrives, Goto, Typed, QueueThere, TypeOK, Manager!TypeOK, Finished, InSession
<1>2. ASSUME NEW c \in Streams, NEW s \in SessionIds, Resume(c, s) PROVE Typed'
  <2>1. s \in issued' /\ Manager!TypeOK' /\ issued' = issued
    BY <1>2 DEF Resume, Manager!GetSession, Typed, TypeOK, Manager!TypeOK
  <2> QED
    BY <1>2, <2>1, OpeningTyped DEF Resume, Arrives
<1>3. ASSUME NEW c \in Streams, NEW s \in SessionIds, Begin(c, s) PROVE Typed'
  <2>1. /\ issued' = issued \cup {s} /\ sessions' = sessions \cup {s}
        /\ UNCHANGED <<stale, expired, ticking>>
    BY <1>3 DEF Begin, Manager!CreateSession
  <2>2. s \in issued' /\ Manager!TypeOK' /\ issued \subseteq issued'
    BY <2>1 DEF Typed, TypeOK, Manager!TypeOK
  <2> QED
    BY <1>3, <2>2, OpeningTyped DEF Begin, Arrives
<1>4. ASSUME NEW c \in Streams, Register(c) PROVE Typed'
  BY <1>4 DEF Register, Goto, Typed, QueueThere, TypeOK, Manager!TypeOK, Finished, InSession
<1>5. ASSUME NEW c \in Streams, OpenQueue(c) PROVE Typed'
  <2>1. queues' \in [SessionIds -> Seq(Rpcs) \cup {NoQueue}]
    <3>1. <<>> \in Seq(Rpcs)
      OBVIOUS
    <3> QED
      BY <1>5, <3>1 DEF OpenQueue, Typed
  <2>2. session[c] \in SessionIds /\ queues'[session[c]] # NoQueue
        /\ \A s \in SessionIds : queues[s] # NoQueue => queues'[s] # NoQueue
    <3>1. <<>> \in Seq(Rpcs)
      OBVIOUS
    <3> QED
      BY <1>5, <3>1 DEF OpenQueue, Typed, InSession
  <2>3. QueueThere'
    BY <1>5, <2>2 DEF OpenQueue, Goto, Typed, QueueThere, TypeOK
  <2> QED
    BY <1>5, <2>1, <2>2, <2>3 DEF OpenQueue, Goto, Typed, TypeOK, Manager!TypeOK, Finished, InSession
<1>6. ASSUME NEW c \in Streams, WriteMessage(c) PROVE Typed'
  <2> DEFINE s == session[c]
             q == queues[s]
  <2>1. s \in SessionIds /\ q \in Seq(Rpcs) /\ q # <<>>
    BY <1>6 DEF WriteMessage, Typed, InSession, QueueThere, TypeOK
  <2>2. Head(q) \in Rpcs /\ Tail(q) \in Seq(Rpcs) /\ Tail(q) # NoQueue
    BY <2>1, QueueElements
  <2>3. Append(seen[s], Head(q)) \in Seq(Rpcs)
    <3>1. seen[s] \in Seq(Rpcs)
      BY <2>1 DEF Typed, TypeOK
    <3> QED
      BY <2>2, <3>1, AppendProperties
  <2>4. seen' \in [SessionIds -> Seq(Rpcs)]
    BY <1>6, <2>1, <2>3 DEF WriteMessage, Typed, TypeOK
  <2>5. /\ queues' \in [SessionIds -> Seq(Rpcs) \cup {NoQueue}]
        /\ \A t \in SessionIds : queues[t] # NoQueue => queues'[t] # NoQueue
    BY <1>6, <2>1, <2>2 DEF WriteMessage, Typed, TypeOK
  <2>6. writer' \in [Rpcs -> Streams \cup {NoClient}]
    BY <1>6, <2>2 DEF WriteMessage, Typed, TypeOK
  <2>7. QueueThere'
    BY <1>6, <2>5 DEF WriteMessage, Typed, QueueThere
  <2> QED
    BY <1>6, <2>4, <2>5, <2>6, <2>7 DEF WriteMessage, Typed, TypeOK, Manager!TypeOK
<1>7. ASSUME NEW c \in Streams, Leave(c) PROVE Typed'
  BY <1>7 DEF Leave, Goto, Typed, QueueThere, TypeOK, Manager!TypeOK, Finished, InSession
<1>8. ASSUME NEW c \in Streams, Deregister(c) PROVE Typed'
  BY <1>8 DEF Deregister, Goto, Typed, QueueThere, TypeOK, Manager!TypeOK, Finished, InSession
<1>9. ASSUME NEW c \in Streams, CloseEvents(c) PROVE Typed'
  BY <1>9 DEF CloseEvents, Goto, Typed, QueueThere, TypeOK, Manager!TypeOK, Finished, InSession
<1>10. ASSUME NEW r \in Rpcs, RejectRpc(r) PROVE Typed'
  <2>1. Manager!TypeOK' /\ issued' = issued
    BY <1>10 DEF RejectRpc, Manager!GetSession, Typed, TypeOK, Manager!TypeOK
  <2> QED
    BY <1>10, <2>1 DEF RejectRpc, Arrives, Goto, Typed, QueueThere, TypeOK, Finished, InSession
<1>11. ASSUME NEW r \in Rpcs, NEW s \in SessionIds, AcceptRpc(r, s) PROVE Typed'
  <2>1. s \in issued' /\ Manager!TypeOK' /\ issued' = issued /\ r \notin Streams
    BY <1>11 DEF AcceptRpc, Manager!GetSession, Typed, TypeOK, Manager!TypeOK
  <2> QED
    BY <1>11, <2>1, OpeningTyped DEF AcceptRpc, Arrives
<1>12. ASSUME NEW r \in Rpcs, Respond(r) PROVE Typed'
  <2> DEFINE s == session[r]
             q == queues[s]
  <2>1. s \in SessionIds
    BY <1>12 DEF Respond, Typed, InSession
  <2>2. /\ queues' \in [SessionIds -> Seq(Rpcs) \cup {NoQueue}]
        /\ \A t \in SessionIds : queues[t] # NoQueue => queues'[t] # NoQueue
        /\ sent' \in [SessionIds -> Seq(Rpcs)]
    <3>1. CASE UNCHANGED <<queues, sent>>
      BY <3>1 DEF Typed, TypeOK
    <3>2. CASE /\ q # NoQueue
               /\ queues' = [queues EXCEPT ![s] = Append(@, r)]
               /\ sent' = [sent EXCEPT ![s] = Append(@, r)]
      <4>1. q \in Seq(Rpcs) /\ sent[s] \in Seq(Rpcs)
        BY <2>1, <3>2 DEF Typed, TypeOK
      <4>2. Append(q, r) \in Seq(Rpcs) /\ Append(sent[s], r) \in Seq(Rpcs)
        BY <4>1, AppendProperties
      <4>3. Append(q, r) # NoQueue
        BY <4>2
      <4> QED
        BY <2>1, <3>2, <4>2, <4>3 DEF Typed, TypeOK
    <3> QED
      BY <1>12, <3>1, <3>2 DEF Respond
  <2>3. pc' = [pc EXCEPT ![r] = "accepted"]
        /\ UNCHANGED <<manager, clients, session, streams, stop, seen, writer>>
        /\ unqueued' \subseteq unqueued \cup {r}
    BY <1>12 DEF Respond, Goto
  <2>4. QueueThere'
    BY <2>2, <2>3 DEF Typed, QueueThere, TypeOK
  <2> QED
    BY <2>1, <2>2, <2>3, <2>4 DEF Typed, TypeOK, Manager!TypeOK, Finished, InSession
<1>13. CASE TellClients
  BY <1>13 DEF TellClients, Registered, Typed, QueueThere, TypeOK, Manager!TypeOK
<1>14. CASE Shutdown
  BY <1>14 DEF Shutdown, Manager!Stop, Typed, QueueThere, TypeOK, Manager!TypeOK
<1>15. CASE ShutdownDone
  BY <1>15 DEF ShutdownDone, Typed, QueueThere, TypeOK, Manager!TypeOK
<1>16. CASE CleanupSessions
  <2>1. Manager!TypeOK' /\ issued' = issued
    BY <1>16 DEF CleanupSessions, Manager!Cleanup, Manager!Scan, Manager!GoStale,
                 Manager!RemoveSession, Typed, TypeOK, Manager!TypeOK
  <2> QED
    BY <1>16, <2>1 DEF CleanupSessions, Typed, QueueThere, TypeOK
<1>17. CASE UNCHANGED vars
  BY <1>17 DEF vars, Typed, QueueThere, TypeOK, Manager!TypeOK
<1> QED
  BY <1>1, <1>2, <1>3, <1>4, <1>5, <1>6, <1>7, <1>8, <1>9, <1>10, <1>11, <1>12,
     <1>13, <1>14, <1>15, <1>16, <1>17
  DEF Next, StreamStep, Told, Disconnected

(* Every variable has its type.                                            *)
THEOREM TypeCorrect == Spec => []TypeOK
<1>1. Init => Typed
  BY TypedInit
<1>2. Typed /\ [Next]_vars => Typed'
  BY TypedStep
<1>3. Typed => TypeOK
  BY DEF Typed
<1> QED
  BY <1>1, <1>2, <1>3, PTL DEF Spec

-----------------------------------------------------------------------------
(* What a step may change.                                                 *)

(* Streams and requests keep the session they have taken up, and those     *)
(* that have come to their end stay there.                                 *)
LEMMA SessionFixed ==
    ASSUME Typed, [Next]_vars, NEW x \in Streams \cup Rpcs, pc[x] # "idle"
    PROVE  /\ session'[x] = session[x]
           /\ pc'[x] # "idle"
           /\ pc[x] \in {"accepted", "ended"} => pc'[x] = pc[x]
<1> DEFINE Kept == /\ session'[x] = session[x]
                   /\ pc'[x] # "idle"
                   /\ pc[x] \in {"accepted", "ended"} => pc'[x] = pc[x]
<1> USE DEF Typed, TypeOK
<1>1. ASSUME NEW c \in Streams,
             NoStream(c) \/ \E s \in SessionIds : Resume(c, s) \/ Begin(c, s)
      PROVE  Kept
  BY <1>1 DEF NoStream, Resume, Begin, Arrives, Goto
<1>2. ASSUME NEW c \in Streams, StreamStep(c) \/ WriteMessage(c) \/ Disconnected(c)
      PROVE  Kept
  BY <1>2 DEF StreamStep, Register, OpenQueue, Told, Disconnected, Leave, Deregister,
              CloseEvents, WriteMessage, Goto
<1>3. ASSUME NEW r \in Rpcs,
             RejectRpc(r) \/ (\E s \in SessionIds : AcceptRpc(r, s)) \/ Respond(r)
      PROVE  Kept
  BY <1>3 DEF RejectRpc, AcceptRpc, Respond, Arrives, Goto
<1>4. ASSUME TellClients \/ Shutdown \/ ShutdownDone \/ CleanupSessions \/ UNCHANGED vars
      PROVE  Kept
  BY <1>4 DEF TellClients, Shutdown, ShutdownDone, CleanupSessions, vars
<1> QED
  BY <1>1, <1>2, <1>3, <1>4 DEF Next

(* Only three actions touch the queues and their histories.                *)
LEMMA QueueSteps ==
    ASSUME [Next]_vars
    PROVE  \/ \E c \in Streams : OpenQueue(c) \/ WriteMessage(c)
           \/ \E r \in Rpcs : Respond(r)
           \/ UNCHANGED <<queues, history>>
<1> DEFINE Frame == UNCHANGED <<queues, history>>
<1>1. ASSUME NEW c \in Streams,
             NoStream(c) \/ \E s \in SessionIds : Resume(c, s) \/ Begin(c, s)
      PROVE  Frame
  BY <1>1 DEF NoStream, Resume, Begin
<1>2. ASSUME NEW c \in Streams,
             Register(c) \/ Told(c) \/ Deregister(c) \/ CloseEvents(c) \/ Disconnected(c)
      PROVE  Frame
  BY <1>2 DEF Register, Told, Disconnected, Leave, Deregister, CloseEvents
<1>3. ASSUME NEW r \in Rpcs, RejectRpc(r) \/ \E s \in SessionIds : AcceptRpc(r, s)
      PROVE  Frame
  BY <1>3 DEF RejectRpc, AcceptRpc
<1>4. ASSUME TellClients \/ Shutdown \/ ShutdownDone \/ CleanupSessions \/ UNCHANGED vars
      PROVE  Frame
  BY <1>4 DEF TellClients, Shutdown, ShutdownDone, CleanupSessions, vars
<1> QED
  BY <1>1, <1>2, <1>3, <1>4 DEF Next, StreamStep

-----------------------------------------------------------------------------
(* Registration.                                                           *)

LEMMA RegistrationStep == Typed /\ Registration /\ [Next]_vars => Registration'
<1> SUFFICES ASSUME Typed, Registration, [Next]_vars PROVE Registration'
  OBVIOUS
<1> USE SseAssumption DEF streams, Registration, Typed, TypeOK
<1>1. ASSUME NEW c \in Streams,
             NoStream(c) \/ \E s \in SessionIds : Resume(c, s) \/ Begin(c, s)
      PROVE  Registration'
  \* a stream that only arrives is nobody's client yet
  <2>1. pc[c] = "idle" /\ UNCHANGED <<clients, closed>>
    BY <1>1 DEF NoStream, Resume, Begin, Arrives
  <2>2. \A d \in Streams : d # c => pc'[d] = pc[d] /\ session'[d] = session[d]
    BY <1>1 DEF NoStream, Resume, Begin, Goto
  <2> QED
    BY <2>1, <2>2
<1>2. ASSUME NEW c \in Streams, Register(c) PROVE Registration'
  BY <1>2 DEF Register, Goto, InSession
<1>3. ASSUME NEW c \in Streams, OpenQueue(c) \/ Leave(c) PROVE Registration'
  BY <1>3 DEF OpenQueue, Leave, Goto
<1>4. ASSUME NEW c \in Streams, WriteMessage(c) PROVE Registration'
  BY <1>4 DEF WriteMessage
<1>5. ASSUME NEW c \in Streams, Deregister(c) PROVE Registration'
  \* whoever was registered for c's session is not any more; c is nobody else's client
  BY <1>5 DEF Deregister, Goto, InSession
<1>6. ASSUME NEW c \in Streams, CloseEvents(c) PROVE Registration'
  BY <1>6 DEF CloseEvents, Goto
<1>7. ASSUME NEW r \in Rpcs,
             RejectRpc(r) \/ (\E s \in SessionIds : AcceptRpc(r, s)) \/ Respond(r)
      PROVE  Registration'
  <2>1. UNCHANGED <<clients, closed>>
    BY <1>7 DEF RejectRpc, AcceptRpc, Respond
  <2>2. \A d \in Streams : pc'[d] = pc[d] /\ session'[d] = session[d]
    BY <1>7 DEF RejectRpc, AcceptRpc, Respond, Goto
  <2> QED
    BY <2>1, <2>2
<1>8. ASSUME TellClients \/ Shutdown \/ ShutdownDone \/ CleanupSessions \/ UNCHANGED vars
      PROVE  Registration'
  BY <1>8 DEF TellClients, Shutdown, ShutdownDone, CleanupSessions, vars
<1> QED
  BY <1>1, <1>2, <1>3, <1>4, <1>5, <1>6, <1>7, <1>8 DEF Next, StreamStep, Told, Disconnected

(* A stream that Stop or BroadcastEvent may find has its channel open,     *)
(* however many streams overwrite and remove each other's registration.    *)
THEOREM RegisteredStaysOpen == Spec => []RegisteredIsOpen
<1>1. Init => Typed /\ Registration
  BY TypedInit DEF Init, Registration
<1>2. Typed /\ Registration /\ [Next]_vars => (Typed /\ Registration)'
  BY TypedStep, RegistrationStep
<1>3. Typed /\ Registration => RegisteredIsOpen
  <2> SUFFICES ASSUME Registration, NEW s \in SessionIds, clients[s] # NoClient
               PROVE  clients[s] \notin closed
    BY DEF RegisteredIsOpen, Registered
  <2> QED
    BY DEF Registration
<1> QED
  BY <1>1, <1>2, <1>3, PTL DEF Spec

-----------------------------------------------------------------------------
(* The order of the responses.                                             *)

Ordered ==
    \A s \in SessionIds :
        sent[s] = seen[s] \o (IF queues[s] = NoQueue THEN <<>> ELSE queues[s])

DroppedFromFull == \A r \in Dropped : Len(sent[session[r]]) >= QueueSize

LEMMA OrderStep == Typed /\ Ordered /\ [Next]_vars => Ordered'
<1> SUFFICES ASSUME Typed, Ordered, [Next]_vars, NEW s \in SessionIds
             PROVE  sent'[s] = seen'[s] \o (IF queues'[s] = NoQueue THEN <<>> ELSE queues'[s])
  BY DEF Ordered
<1> DEFINE Waiting == IF queues[s] = NoQueue THEN <<>> ELSE queues[s]
<1>0. /\ sent[s] = seen[s] \o Waiting
      /\ seen[s] \in Seq(Rpcs) /\ sent[s] \in Seq(Rpcs)
      /\ queues[s] \in Seq(Rpcs) \cup {NoQueue}
      /\ <<>> \in Seq(Rpcs)
  BY DEF Ordered, Typed, TypeOK
<1>1. ASSUME NEW c \in Streams, OpenQueue(c)
      PROVE  sent'[s] = seen'[s] \o (IF queues'[s] = NoQueue THEN <<>> ELSE queues'[s])
  <2>1. sent' = sent /\ seen' = seen
    BY <1>1 DEF OpenQueue, history
  <2>2. queues'[s] = queues[s] \/ (queues[s] = NoQueue /\ queues'[s] = <<>>)
    BY <1>1 DEF OpenQueue, Typed
  <2> QED
    BY <1>0, <2>1, <2>2, SseAssumption
<1>2. ASSUME NEW c \in Streams, WriteMessage(c)
      PROVE  sent'[s] = seen'[s] \o (IF queues'[s] = NoQueue THEN <<>> ELSE queues'[s])
  <2>1. CASE session[c] # s
    <3>1. sent'[s] = sent[s] /\ seen'[s] = seen[s] /\ queues'[s] = queues[s]
      BY <1>2, <2>1 DEF WriteMessage, Typed, TypeOK
    <3> QED
      BY <1>0, <3>1
  <2>2. CASE session[c] = s
    <3>1. queues[s] \in Seq(Rpcs) /\ queues[s] # <<>>
      BY <1>2, <2>2 DEF WriteMessage, Typed, QueueThere
    <3>2. sent'[s] = sent[s] /\ queues'[s] = Tail(queues[s])
          /\ seen'[s] = Append(seen[s], Head(queues[s]))
      BY <1>2, <2>2 DEF WriteMessage, Typed, TypeOK
    <3>3. queues[s] # NoQueue /\ Tail(queues[s]) # NoQueue
      BY <3>1, QueueElements
    <3>4. Append(seen[s], Head(queues[s])) \o Tail(queues[s]) = seen[s] \o queues[s]
      BY <1>0, <3>1, TakingKeepsOrder
    <3> QED
      BY <1>0, <3>2, <3>3, <3>4
  <2> QED
    BY <2>1, <2>2
<1>3. ASSUME NEW r \in Rpcs, Respond(r)
      PROVE  sent'[s] = seen'[s] \o (IF queues'[s] = NoQueue THEN <<>> ELSE queues'[s])
  <2>1. seen' = seen
    BY <1>3 DEF Respond
  <2>2. CASE queues'[s] = queues[s] /\ sent'[s] = sent[s]
    BY <1>0, <2>1, <2>2
  <2>3. CASE queues[s] # NoQueue /\ queues'[s] = Append(queues[s], r)
             /\ sent'[s] = Append(sent[s], r)
    <3> DEFINE w == seen[s]
               q == queues[s]
    <3>1. w \in Seq(Rpcs) /\ q \in Seq(Rpcs)
      BY <1>0, <2>3
    <3>2. Append(queues[s], r) # NoQueue
      BY <3>1, AppendProperties, SseAssumption
    <3>3. w \o Append(q, r) = Append(w \o q, r)
      <4> HIDE DEF w, q
      <4> QED
        BY <3>1, AddingKeepsOrder
    <3> QED
      BY <1>0, <2>1, <2>3, <3>2, <3>3
  <2> QED
    BY <1>3, <2>2, <2>3 DEF Respond, Typed, TypeOK
<1>4. ASSUME UNCHANGED <<queues, history>>
      PROVE  sent'[s] = seen'[s] \o (IF queues'[s] = NoQueue THEN <<>> ELSE queues'[s])
  BY <1>0, <1>4 DEF history
<1> QED
  BY <1>1, <1>2, <1>3, <1>4, QueueSteps

(* A full queue and what was taken from it is what was sent.               *)
LEMMA FullQueue ==
    ASSUME Typed, Ordered, NEW s \in SessionIds, queues[s] # NoQueue, Len(queues[s]) = QueueSize
    PROVE  Len(sent[s]) >= QueueSize
<1>1. seen[s] \in Seq(Rpcs) /\ queues[s] \in Seq(Rpcs)
  BY DEF Typed, TypeOK
<1>2. sent[s] = seen[s] \o queues[s]
  BY DEF Ordered
<1>3. Len(sent[s]) = Len(seen[s]) + Len(queues[s]) /\ Len(seen[s]) \in Nat /\ Len(queues[s]) \in Nat
  BY <1>1, <1>2, ConcatProperties, LenProperties
<1> QED
  BY <1>3

(* What a step leaves of what was sent, and of who was dropped.            *)
LEMMA DroppedStep == Typed /\ Ordered /\ DroppedFromFull /\ [Next]_vars => DroppedFromFull'
<1> SUFFICES ASSUME Typed, Ordered, DroppedFromFull, [Next]_vars,
                    NEW r \in Rpcs, pc'[r] = "accepted", r \notin unqueued',
                    \A k \in DOMAIN sent'[session'[r]] : sent'[session'[r]][k] # r
             PROVE  Len(sent'[session'[r]]) >= QueueSize
  BY DEF DroppedFromFull, Dropped
<1>1. /\ pc \in [Streams \cup Rpcs -> Finished \cup
                    {"register", "queue", "stream", "deregister", "close", "respond"}]
      /\ session \in [Streams \cup Rpcs -> issued \cup {NoSession}]
      /\ sent \in [SessionIds -> Seq(Rpcs)] /\ QueueSize \in Nat
      /\ Streams \cap Rpcs = {}
  BY SseAssumption DEF Typed, TypeOK
<1>2. pc[r] \in {"respond", "accepted"} => session[r] \in SessionIds
  BY DEF Typed, InSession
(* Of a step that leaves r and what was sent as it is there is nothing to  *)
(* show.                                                                   *)
<1>3. ASSUME pc'[r] = pc[r], session'[r] = session[r], sent' = sent, unqueued \subseteq unqueued'
      PROVE  Len(sent'[session'[r]]) >= QueueSize
  BY <1>3 DEF DroppedFromFull, Dropped
<1>4. ASSUME NEW q \in Rpcs, Respond(q) PROVE Len(sent'[session'[r]]) >= QueueSize
  <2>1. /\ pc[q] = "respond" /\ pc' = [pc EXCEPT ![q] = "accepted"] /\ session' = session
        /\ \/ unqueued' = unqueued \cup {q} /\ sent' = sent
           \/ sent' = [sent EXCEPT ![session[q]] = Append(@, q)] /\ unqueued' = unqueued
           \/ /\ queues[session[q]] # NoQueue /\ Len(queues[session[q]]) = QueueSize
              /\ sent' = sent /\ unqueued' = unqueued
    BY <1>4 DEF Respond, Goto
  <2>2. session[q] \in SessionIds
    BY <2>1 DEF Typed, InSession
  <2>3. CASE q = r
    <3>1. unqueued' # unqueued \cup {q}
      BY <2>3
    <3>2. ASSUME sent' = [sent EXCEPT ![session[q]] = Append(@, q)] PROVE FALSE
      <4>1. sent'[session'[r]] = Append(sent[session[q]], q) /\ sent[session[q]] \in Seq(Rpcs)
        BY <1>1, <2>1, <2>2, <2>3, <3>2
      <4>2. LET b == sent[session[q]]
            IN  /\ Len(b) + 1 \in DOMAIN sent'[session'[r]]
                /\ sent'[session'[r]][Len(b) + 1] = q
        BY <4>1, RowsOfAppend
      <4> QED
        BY <2>3, <4>2
    <3> QED
      BY <2>1, <2>2, <2>3, <3>1, <3>2, FullQueue
  <2>4. CASE q # r
    <3>1. /\ pc[r] = "accepted" /\ session'[r] = session[r] /\ r \notin unqueued
          /\ session[r] \in SessionIds
      <4>1. pc'[r] = pc[r] /\ session'[r] = session[r]
        BY <1>1, <2>1, <2>4
      <4>2. r \notin unqueued
        BY <2>1
      <4> QED
        BY <1>2, <4>1, <4>2
    <3>2. CASE sent'[session[r]] = sent[session[r]]
      BY <3>1, <3>2 DEF DroppedFromFull, Dropped
    <3>3. CASE sent'[session[r]] = Append(sent[session[r]], q)
      <4> DEFINE b == sent[session[r]]
      <4>1. b \in Seq(Rpcs)
        BY <1>1, <3>1
      <4>2. /\ Len(b) \in Nat /\ Len(Append(b, q)) = Len(b) + 1
            /\ DOMAIN b = 1..Len(b) /\ DOMAIN Append(b, q) = 1..(Len(b) + 1)
            /\ \A k \in DOMAIN b : Append(b, q)[k] = b[k]
        BY <4>1, RowsOfAppend
      <4>3. \A k \in DOMAIN b : b[k] # r
        BY <3>1, <3>3, <4>2
      <4>4. Len(b) >= QueueSize
        BY <3>1, <4>3 DEF DroppedFromFull, Dropped
      <4> HIDE DEF b
      <4>5. Len(Append(b, q)) >= QueueSize
        BY <1>1, <4>2, <4>4
      <4> QED
        BY <3>1, <3>3, <4>5 DEF b
    <3> QED
      BY <1>1, <2>1, <2>2, <3>1, <3>2, <3>3
  <2> QED
    BY <2>3, <2>4
<1>5. ASSUME NEW q \in Rpcs, RejectRpc(q) \/ \E s \in SessionIds : AcceptRpc(q, s)
      PROVE  Len(sent'[session'[r]]) >= QueueSize
  <2>1. sent' = sent /\ unqueued' = unqueued
    BY <1>5 DEF RejectRpc, AcceptRpc, history
  <2>2. pc' = [pc EXCEPT ![q] = "rejected"] \/ pc' = [pc EXCEPT ![q] = "respond"]
    BY <1>5 DEF RejectRpc, AcceptRpc, Goto
  <2>3. session' = session \/ \E s \in SessionIds : session' = [session EXCEPT ![q] = s]
    BY <1>5 DEF RejectRpc, AcceptRpc
  <2>4. q # r
    BY <1>1, <2>2
  <2>5. pc'[r] = pc[r] /\ session'[r] = session[r]
    BY <1>1, <2>2, <2>3, <2>4
  <2> QED
    BY <1>3, <2>1, <2>5
<1>6. ASSUME NEW c \in Streams,
             \/ NoStream(c) \/ \E s \in SessionIds : Resume(c, s) \/ Begin(c, s)
             \/ StreamStep(c) \/ WriteMessage(c) \/ Disconnected(c)
      PROVE  Len(sent'[session'[r]]) >= QueueSize
  <2>1. sent' = sent /\ unqueued' = unqueued
    BY <1>6 DEF NoStream, Resume, Begin, StreamStep, Register, OpenQueue, Told, Deregister,
                CloseEvents, WriteMessage, Disconnected, Leave, history
  <2>2. pc'[r] = pc[r] /\ session'[r] = session[r]
    BY <1>1, <1>6 DEF NoStream, Resume, Begin, StreamStep, Register, OpenQueue, Told, Deregister,
                CloseEvents, WriteMessage, Disconnected, Leave, Goto
  <2> QED
    BY <1>3, <2>1, <2>2
<1>7. CASE TellClients \/ Shutdown \/ ShutdownDone \/ CleanupSessions \/ UNCHANGED vars
  BY <1>3, <1>7 DEF TellClients, Shutdown, ShutdownDone, CleanupSessions, vars, history
<1> QED
  BY <1>4, <1>5, <1>6, <1>7 DEF Next

(* The responses of a session are taken to be written once each, in the    *)
(* order they were queued, over all its streams; one is dropped only from  *)
(* a session that was sent a full queue of others.                         *)
THEOREM ResponsesInOrder == Spec => []WrittenInOrder
<1>1. Init => Typed /\ Ordered /\ DroppedFromFull
  <2>1. Init => Ordered
    <3>1. <<>> \o <<>> = <<>>
      BY EmptySeq, ConcatEmptySeq
    <3> QED
      BY <3>1 DEF Init, Ordered
  <2>2. Init => DroppedFromFull
    BY DEF Init, DroppedFromFull, Dropped
  <2> QED
    BY <2>1, <2>2, TypedInit
<1>2. Typed /\ Ordered /\ DroppedFromFull /\ [Next]_vars => (Typed /\ Ordered /\ DroppedFromFull)'
  BY TypedStep, OrderStep, DroppedStep
<1>3. Ordered /\ DroppedFromFull => WrittenInOrder
  BY DEF Ordered, DroppedFromFull, WrittenInOrder
<1> QED
  BY <1>1, <1>2, <1>3, PTL DEF Spec

-----------------------------------------------------------------------------
(* Whose the responses are.                                                *)

LEMMA QueueIsOwnStep == Typed /\ QueueIsOwn /\ [Next]_vars => QueueIsOwn'
<1> SUFFICES ASSUME Typed, QueueIsOwn, [Next]_vars,
                    NEW s \in SessionIds, queues'[s] # NoQueue, NEW k \in DOMAIN queues'[s]
             PROVE  pc'[queues'[s][k]] = "accepted" /\ session'[queues'[s][k]] = s
  BY DEF QueueIsOwn
<1> DEFINE Own(r) == r \in Rpcs /\ pc[r] = "accepted" /\ session[r] = s
<1>0. queues[s] \in Seq(Rpcs) \cup {NoQueue}
  BY DEF Typed
<1>1. ASSUME queues[s] # NoQueue, NEW j \in DOMAIN queues[s] PROVE Own(queues[s][j])
  BY <1>0, <1>1, QueueElements DEF QueueIsOwn
<1>2. ASSUME NEW r \in Rpcs, Own(r) PROVE pc'[r] = "accepted" /\ session'[r] = s
  BY <1>2, SessionFixed
<1>3. ASSUME NEW c \in Streams, OpenQueue(c)
      PROVE  pc'[queues'[s][k]] = "accepted" /\ session'[queues'[s][k]] = s
  <2>1. queues'[s] # <<>>
    BY EmptySeq
  <2>2. queues'[s] = queues[s]
    BY <1>3, <2>1 DEF OpenQueue, Typed
  <2> QED
    BY <1>1, <1>2, <2>2
<1>4. ASSUME NEW c \in Streams, WriteMessage(c)
      PROVE  pc'[queues'[s][k]] = "accepted" /\ session'[queues'[s][k]] = s
  <2>1. CASE session[c] # s
    <3>1. queues'[s] = queues[s]
      BY <1>4, <2>1 DEF WriteMessage, Typed, TypeOK
    <3> QED
      BY <1>1, <1>2, <3>1
  <2>2. CASE session[c] = s
    <3>1. queues[s] \in Seq(Rpcs) /\ queues[s] # <<>> /\ queues'[s] = Tail(queues[s])
      BY <1>4, <2>2 DEF WriteMessage, Typed, QueueThere
    <3>2. k + 1 \in DOMAIN queues[s] /\ queues'[s][k] = queues[s][k + 1] /\ queues[s] # NoQueue
      BY <3>1, QueueElements
    <3> QED
      BY <1>1, <1>2, <3>2
  <2> QED
    BY <2>1, <2>2
<1>5. ASSUME NEW r \in Rpcs, Respond(r)
      PROVE  pc'[queues'[s][k]] = "accepted" /\ session'[queues'[s][k]] = s
  <2>1. CASE queues'[s] = queues[s]
    BY <1>1, <1>2, <2>1
  <2>2. CASE queues[s] # NoQueue /\ queues'[s] = Append(queues[s], r) /\ session[r] = s
    <3>1. queues[s] \in Seq(Rpcs) /\ Len(queues[s]) \in Nat
          /\ DOMAIN queues[s] = 1..Len(queues[s])
      BY <1>0, <2>2, LenProperties
    <3>2. queues'[s] \in Seq(Rpcs) /\ Len(queues'[s]) = Len(queues[s]) + 1
          /\ queues'[s][Len(queues[s]) + 1] = r
          /\ \A i \in 1..Len(queues[s]) : queues'[s][i] = queues[s][i]
      BY <2>2, <3>1, AppendProperties
    <3>3. DOMAIN queues'[s] = 1..Len(queues'[s])
      BY <3>2, LenProperties
    <3>4. k \in DOMAIN queues[s] \/ k = Len(queues[s]) + 1
      BY <3>1, <3>2, <3>3
    <3>5. pc'[r] = "accepted" /\ session'[r] = s
      BY <1>5, <2>2 DEF Respond, Goto, Typed, TypeOK
    <3> QED
      BY <1>1, <1>2, <2>2, <3>1, <3>2, <3>4, <3>5
  <2> QED
    BY <1>5, <2>1, <2>2 DEF Respond, Typed, TypeOK
<1>6. CASE UNCHANGED <<queues, history>>
  BY <1>1, <1>2, <1>6
<1> QED
  BY <1>3, <1>4, <1>5, <1>6, QueueSteps

LEMMA WriterIsOwnStep ==
    Typed /\ QueueIsOwn /\ WriterIsOwn /\ [Next]_vars => WriterIsOwn'
<1> SUFFICES ASSUME Typed, QueueIsOwn, WriterIsOwn, [Next]_vars,
                    NEW r \in Rpcs, writer'[r] # NoClient
             PROVE  /\ pc'[r] = "accepted"
                    /\ pc'[writer'[r]] # "idle"
                    /\ session'[writer'[r]] = session'[r]
  BY DEF WriterIsOwn
<1>1. CASE writer'[r] = writer[r]
  <2>1. writer[r] \in Streams
    BY <1>1 DEF Typed, TypeOK
  <2> QED
    BY <1>1, <2>1, SessionFixed DEF WriterIsOwn
<1>2. CASE writer'[r] # writer[r]
  <2>1. PICK c \in Streams : WriteMessage(c)
    BY <1>2, QueueSteps DEF OpenQueue, Respond, history
  <2> DEFINE s == session[c]
             q == queues[s]
  <2>2. s \in SessionIds /\ q \in Seq(Rpcs) /\ q # <<>>
    BY <2>1 DEF WriteMessage, Typed, InSession, QueueThere
  <2>3. r = Head(q) /\ writer'[r] = c
    BY <1>2, <2>1 DEF WriteMessage, Typed, TypeOK
  <2>4. pc[r] = "accepted" /\ session[r] = s
    BY <2>2, <2>3, QueueElements DEF QueueIsOwn
  <2>5. pc[c] = "stream"
    BY <2>1 DEF WriteMessage
  <2> QED
    BY <2>3, <2>4, <2>5, SessionFixed
<1> QED
  BY <1>1, <1>2

(* A stream only ever takes responses of its own session.                  *)
THEOREM NoForeignResponse == Spec => []ResponsesKeepToTheirSession
<1> DEFINE Inv == Typed /\ QueueIsOwn /\ WriterIsOwn
<1>1. Init => Inv
  BY TypedInit DEF Init, QueueIsOwn, WriterIsOwn
<1>2. Inv /\ [Next]_vars => Inv'
  BY TypedStep, QueueIsOwnStep, WriterIsOwnStep
<1>3. Inv => ResponsesKeepToTheirSession
  BY DEF WriterIsOwn, ResponsesKeepToTheirSession
<1> HIDE DEF Inv
<1> QED
  BY <1>1, <1>2, <1>3, PTL DEF Spec

-----------------------------------------------------------------------------
(* No response is lost for want of a queue once a stream of its session    *)
(* is past OpenQueue, whether that stream still lives or not.              *)
THEOREM QueueStaysWithSession == Spec => QueueOutlivesStreams
<1>1. Init => Typed
  BY TypedInit
<1>2. Typed /\ [Next]_vars => Typed'
  BY TypedStep
<1>3. ASSUME Typed, [Next]_vars
      PROVE  [\A r \in unqueued' \ unqueued, c \in Streams :
                 session[c] = session[r] => pc[c] \in {"register", "queue"}]_unqueued
  <2> SUFFICES ASSUME NEW r \in unqueued' \ unqueued, NEW c \in Streams,
                      session[c] = session[r]
               PROVE  pc[c] \in {"register", "queue"}
    OBVIOUS
  <2>1. PICK p \in Rpcs : Respond(p)
    BY <1>3, QueueSteps DEF OpenQueue, WriteMessage, history
  <2>2. r = p /\ queues[session[p]] = NoQueue
    BY <2>1 DEF Respond
  <2>3. session[p] \in SessionIds
    BY <1>3, <2>1 DEF Respond, Typed, InSession
  <2> QED
    BY <1>3, <2>2, <2>3 DEF Typed, QueueThere
<1> QED
  BY <1>1, <1>2, <1>3, PTL DEF Spec, QueueOutlivesStreams
=============================================================================
