---------------------------- MODULE SseTransport ----------------------------
(***************************************************************************)
(* internal/transport/sse.go: JSON-RPC over HTTP with the responses sent   *)
(* on a stream of server-sent events.                                      *)
(*                                                                         *)
(* GET /events (handleSSE) opens a stream: it takes up the session of its  *)
(* header or begins one, registers a client for it, finds or makes the     *)
(* session's message queue, and then writes what comes.  POST /rpc         *)
(* (handleRPC) runs a request and puts the response into the queue of the  *)
(* session.                                                                *)
(*                                                                         *)
(* net/http is external: a stream's request context is done when its       *)
(* client goes or a write fails; Shutdown stops listening and waits for    *)
(* the running handlers without interrupting them.                         *)
(***************************************************************************)
EXTENDS Naturals, Sequences, FiniteSets

CONSTANTS
    SessionIds,
    Streams,        \* the GET /events requests
    Rpcs,           \* the POST /rpc requests; each is also its own response
    NoSession,      \* no X-Session-ID header, or none yet
    NoClient,       \* no client is registered for the session
    NoQueue,        \* the session has no message queue
    QueueSize,      \* responses a queue holds: 100
    WriterFlushes   \* the ResponseWriter given to handleSSE is an http.Flusher

VARIABLES
    issued, sessions, stale, expired, ticking,  \* SessionManager
    clients,    \* clients[s]: the stream registered for session s
    queues,     \* queues[s]: the message queue of session s
    pc,         \* pc[x]: where stream or request x is
    session,    \* session[x]: the session stream or request x belongs to
    closed,     \* the streams whose EventChannel is closed
    told,       \* the streams whose Done channel is closed
    stop,       \* how far Stop has come
    sent,       \* history: sent[s], the responses put into the queue of s
    seen,       \* history: seen[s], those a stream took to write, in order
    writer,     \* history: writer[r], the stream that took response r
    unqueued    \* history: the responses that found no queue

manager == <<issued, sessions, stale, expired, ticking>>
streams == <<closed, told>>
history == <<sent, seen, writer, unqueued>>
vars == <<manager, clients, queues, pc, session, streams, stop, history>>

Manager == INSTANCE SessionManager

ASSUME SseAssumption ==
    /\ Streams \cap Rpcs = {}
    /\ NoSession \notin SessionIds
    /\ NoClient \notin Streams
    /\ NoQueue \notin Seq(Rpcs)
    /\ QueueSize \in Nat \ {0}
    /\ WriterFlushes \in BOOLEAN

Init ==
    /\ Manager!Init
    /\ clients = [s \in SessionIds |-> NoClient]
    /\ queues = [s \in SessionIds |-> NoQueue]
    /\ pc = [x \in Streams \cup Rpcs |-> "idle"]
    /\ session = [x \in Streams \cup Rpcs |-> NoSession]
    /\ closed = {}
    /\ told = {}
    /\ stop = "running"
    /\ sent = [s \in SessionIds |-> <<>>]
    /\ seen = [s \in SessionIds |-> <<>>]
    /\ writer = [r \in Rpcs |-> NoClient]
    /\ unqueued = {}

Goto(x, label) == pc' = [pc EXCEPT ![x] = label]

(* The server still takes requests.                                        *)
Listening == stop \in {"running", "told"}

Arrives(x) == pc[x] = "idle" /\ Listening

-----------------------------------------------------------------------------
(* handleSSE.  A stream that does not open: a writer that cannot flush is  *)
(* answered 500 before anything else; later, a generateSessionID that      *)
(* fails ends the stream with an error event.                              *)
NoStream(c) ==
    /\ Arrives(c)
    /\ Goto(c, IF WriterFlushes THEN "ended" ELSE "refused")
    /\ UNCHANGED <<manager, clients, queues, session, streams, stop, history>>

(* Wrong: the stream goes on with the identifier of its header.            *)
ResumeUnknown(c, s) ==
    /\ Arrives(c)
    /\ WriterFlushes
    /\ session' = [session EXCEPT ![c] = s]
    /\ Goto(c, "register")
    /\ UNCHANGED <<manager, clients, queues, streams, stop, history>>

(* The header names a session there is.                                    *)
Resume(c, s) ==
    /\ Arrives(c)
    /\ WriterFlushes
    /\ Manager!GetSession(s)
    /\ session' = [session EXCEPT ![c] = s]
    /\ Goto(c, "register")
    /\ UNCHANGED <<clients, queues, streams, stop, history>>

(* No header, or the session is gone: a new one, which the client is told. *)
Begin(c, s) ==
    /\ Arrives(c)
    /\ WriterFlushes
    /\ Manager!CreateSession(s)
    /\ session' = [session EXCEPT ![c] = s]
    /\ Goto(c, "register")
    /\ UNCHANGED <<clients, queues, streams, stop, history>>

(* A stream already registered for the session is overwritten.             *)
Register(c) ==
    /\ pc[c] = "register"
    /\ clients' = [clients EXCEPT ![session[c]] = c]
    /\ Goto(c, "queue")
    /\ UNCHANGED <<manager, queues, session, streams, stop, history>>

(* The session's queue outlives its streams.                               *)
OpenQueue(c) ==
    /\ pc[c] = "queue"
    /\ queues' = [queues EXCEPT ![session[c]] = IF @ = NoQueue THEN <<>> ELSE @]
    /\ Goto(c, "stream")
    /\ UNCHANGED <<manager, clients, session, streams, stop, history>>

(* Wrong: the response that came last is taken first.                     *)
WriteNewest(c) ==
    /\ pc[c] = "stream"
    /\ LET s    == session[c]
           last == Len(queues[s])
       IN  /\ queues[s] # <<>>
           /\ queues' = [queues EXCEPT ![s] = SubSeq(@, 1, last - 1)]
           /\ seen' = [seen EXCEPT ![s] = Append(@, queues[s][last])]
           /\ writer' = [writer EXCEPT ![queues[s][last]] = c]
    /\ UNCHANGED <<manager, clients, pc, session, streams, stop, sent, unqueued>>

(* Wrong: the stream takes from any queue there is.                        *)
WriteAnyQueue(c) ==
    /\ pc[c] = "stream"
    /\ \E s \in SessionIds :
          /\ queues[s] \notin {<<>>, NoQueue}
          /\ queues' = [queues EXCEPT ![s] = Tail(@)]
          /\ seen' = [seen EXCEPT ![s] = Append(@, Head(queues[s]))]
          /\ writer' = [writer EXCEPT ![Head(queues[s])] = c]
    /\ UNCHANGED <<manager, clients, pc, session, streams, stop, sent, unqueued>>

(* The event loop takes a response and writes it; whether the connection   *)
(* still carries it is not looked at.                                      *)
WriteMessage(c) ==
    /\ pc[c] = "stream"
    /\ LET s == session[c] IN
          /\ queues[s] # <<>>
          /\ queues' = [queues EXCEPT ![s] = Tail(@)]
          /\ seen' = [seen EXCEPT ![s] = Append(@, Head(queues[s]))]
          /\ writer' = [writer EXCEPT ![Head(queues[s])] = c]
    /\ UNCHANGED <<manager, clients, pc, session, streams, stop, sent, unqueued>>

Leave(c) ==
    /\ pc[c] = "stream"
    /\ Goto(c, "deregister")
    /\ UNCHANGED <<manager, clients, queues, session, streams, stop, history>>

(* Wrong: Done is looked at when the server has stopped.                   *)
ToldAfterAll(c) == c \in told /\ stop = "stopped" /\ Leave(c)

Disconnected(c) == Leave(c)
Told(c) == c \in told /\ Leave(c)

(* Wrong: the queue goes with the stream.                                  *)
DeregisterWithQueue(c) ==
    /\ pc[c] = "deregister"
    /\ clients' = [clients EXCEPT ![session[c]] = NoClient]
    /\ queues' = [queues EXCEPT ![session[c]] = NoQueue]
    /\ Goto(c, "close")
    /\ UNCHANGED <<manager, session, streams, stop, history>>

(* Wrong: the stream stays registered.                                     *)
DeregisterNobody(c) ==
    /\ pc[c] = "deregister"
    /\ Goto(c, "close")
    /\ UNCHANGED <<manager, clients, queues, session, streams, stop, history>>

(* The deferred clean-up: whoever is registered for the session is not any *)
(* more, and the stream closes its own channel.                            *)
Deregister(c) ==
    /\ pc[c] = "deregister"
    /\ clients' = [clients EXCEPT ![session[c]] = NoClient]
    /\ Goto(c, "close")
    /\ UNCHANGED <<manager, queues, session, streams, stop, history>>

CloseEvents(c) ==
    /\ pc[c] = "close"
    /\ closed' = closed \cup {c}
    /\ Goto(c, "ended")
    /\ UNCHANGED <<manager, clients, queues, session, told, stop, history>>

-----------------------------------------------------------------------------
(* handleRPC.  A bad method, content type or header, an unknown session    *)
(* (401), or a body that cannot be read, which is found out after the      *)
(* session was renewed, end the request.                                   *)
RejectRpc(r) ==
    /\ Arrives(r)
    /\ UNCHANGED manager \/ \E s \in SessionIds : Manager!GetSession(s)
    /\ Goto(r, "rejected")
    /\ UNCHANGED <<clients, queues, session, streams, stop, history>>

AcceptRpc(r, s) ==
    /\ Arrives(r)
    /\ Manager!GetSession(s)
    /\ session' = [session EXCEPT ![r] = s]
    /\ Goto(r, "respond")
    /\ UNCHANGED <<clients, queues, streams, stop, history>>

(* sendSSEResponse, then 202: a response that finds no queue, or a full    *)
(* one, is dropped.                                                        *)
Respond(r) ==
    /\ pc[r] = "respond"
    /\ LET s == session[r] IN
          \/ /\ queues[s] = NoQueue
             /\ unqueued' = unqueued \cup {r}
             /\ UNCHANGED <<queues, sent>>
          \/ /\ queues[s] # NoQueue
             /\ Len(queues[s]) < QueueSize
             /\ queues' = [queues EXCEPT ![s] = Append(@, r)]
             /\ sent' = [sent EXCEPT ![s] = Append(@, r)]
             /\ UNCHANGED unqueued
          \/ /\ queues[s] # NoQueue
             /\ Len(queues[s]) = QueueSize
             /\ UNCHANGED <<queues, sent, unqueued>>
    /\ Goto(r, "accepted")
    /\ UNCHANGED <<manager, clients, session, streams, stop, seen, writer>>

-----------------------------------------------------------------------------
Registered == {clients[s] : s \in SessionIds} \ {NoClient}

(* Stop: tell the registered clients, stop the session manager, and shut   *)
(* the server down.                                                        *)
TellClients ==
    /\ stop = "running"
    /\ told' = told \cup Registered
    /\ stop' = "told"
    /\ UNCHANGED <<manager, clients, queues, pc, session, closed, history>>

Shutdown ==
    /\ stop = "told"
    /\ Manager!Stop
    /\ stop' = "shutdown"
    /\ UNCHANGED <<clients, queues, pc, session, streams, history>>

Finished == {"idle", "refused", "ended", "rejected", "accepted"}

ShutdownDone ==
    /\ stop = "shutdown"
    /\ \A x \in Streams \cup Rpcs : pc[x] \in Finished
    /\ stop' = "stopped"
    /\ UNCHANGED <<manager, clients, queues, pc, session, streams, history>>

CleanupSessions ==
    /\ Manager!Cleanup
    /\ UNCHANGED <<clients, queues, pc, session, streams, stop, history>>

-----------------------------------------------------------------------------
(* What a stream does of itself once it is open.                           *)
StreamStep(c) == Register(c) \/ OpenQueue(c) \/ Told(c) \/ Deregister(c) \/ CloseEvents(c)

Next ==
    \/ \E c \in Streams :
          \/ NoStream(c) \/ \E s \in SessionIds : Resume(c, s) \/ Begin(c, s)
          \/ StreamStep(c) \/ WriteMessage(c) \/ Disconnected(c)
    \/ \E r \in Rpcs :
          RejectRpc(r) \/ (\E s \in SessionIds : AcceptRpc(r, s)) \/ Respond(r)
    \/ TellClients \/ Shutdown \/ ShutdownDone \/ CleanupSessions

Spec == Init /\ [][Next]_vars

(* Handlers and Stop run on; a Done channel that is closed stays ready, and *)
(* the select of the event loop does not pass over it for ever.  Clients   *)
(* may keep their streams.                                                 *)
Fairness ==
    /\ \A c \in Streams : WF_vars(StreamStep(c))
    /\ \A r \in Rpcs : WF_vars(Respond(r))
    /\ WF_vars(Shutdown \/ ShutdownDone)

FairSpec == Spec /\ Fairness

-----------------------------------------------------------------------------
TypeOK ==
    /\ Manager!TypeOK
    /\ clients \in [SessionIds -> Streams \cup {NoClient}]
    /\ \A s \in SessionIds : queues[s] \in Seq(Rpcs) \cup {NoQueue}
    /\ pc \in [Streams \cup Rpcs -> Finished \cup
                  {"register", "queue", "stream", "deregister", "close", "respond"}]
    /\ session \in [Streams \cup Rpcs -> issued \cup {NoSession}]
    /\ closed \cup told \subseteq Streams
    /\ stop \in {"running", "told", "shutdown", "stopped"}
    /\ sent \in [SessionIds -> Seq(Rpcs)] /\ seen \in [SessionIds -> Seq(Rpcs)]
    /\ writer \in [Rpcs -> Streams \cup {NoClient}]
    /\ unqueued \subseteq Rpcs

(* BroadcastEvent and Stop never touch a stream that has gone: a            *)
(* registered client's EventChannel is open, however streams of one        *)
(* session overwrite and remove each other's registration (a send on a     *)
(* closed channel would panic).                                            *)
RegisteredIsOpen == Registered \cap closed = {}

(* Accepted, and neither queued nor lost for want of a queue.              *)
Dropped ==
    {r \in Rpcs : /\ pc[r] = "accepted" /\ r \notin unqueued
                  /\ \A k \in DOMAIN sent[session[r]] : sent[session[r]][k] # r}

(* The responses of a session are taken to be written once each and in the *)
(* order they were queued, over all its streams, reconnections included;   *)
(* and one is dropped only from a session that was sent a full queue of    *)
(* others.  (Nothing acknowledges them: one written to a connection that   *)
(* has just broken is gone.)                                               *)
WrittenInOrder ==
    /\ \A s \in SessionIds :
          sent[s] = seen[s] \o (IF queues[s] = NoQueue THEN <<>> ELSE queues[s])
    /\ \A r \in Dropped : Len(sent[session[r]]) >= QueueSize

(* No client sees another session's response.                              *)
ResponsesKeepToTheirSession ==
    \A r \in Rpcs : writer[r] # NoClient => session[writer[r]] = session[r]

(* From the moment a client was told "connected", no response of its       *)
(* session is lost for want of a queue, not even while it is disconnected: *)
(* they wait for its reconnection (sse.go:330-335).                        *)
QueueOutlivesStreams ==
    [][\A r \in unqueued' \ unqueued, c \in Streams :
          session[c] = session[r] => pc[c] \in {"register", "queue"}]_unqueued

(* Stop returns, unless a stream it did not tell stays open: one that was   *)
(* overwritten by another of its session, lost its registration to the     *)
(* clean-up of an earlier one, or registered after TellClients.            *)
StopReturns ==
    stop = "told" ~> stop = "stopped" \/ \E c \in Streams \ told : pc[c] = "stream"

(* The response of an accepted request goes to the stream (README.md:194,  *)
(* "Send JSON-RPC requests (responses via SSE)").                          *)
AcceptedIsQueued == unqueued = {}

(* GET /events opens a stream (README.md:193, "Establish SSE connection"). *)
EventsConnect == \A c \in Streams : pc[c] # "refused"
=============================================================================
