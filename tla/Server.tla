------------------------------- MODULE Server -------------------------------
(***************************************************************************)
(* cmd/mcp-server/main.go with internal/transport/http.go and stdio.go:    *)
(* the server from its start to the end of its process.                    *)
(*                                                                         *)
(* The stdio transport reads one line, handles it and answers it before it *)
(* reads the next; it looks at its context only when it has read a line.   *)
(* The HTTP transport handles requests as they come, and when the context  *)
(* is cancelled stops listening and waits for those in progress.  main     *)
(* then runs its deferred functions, unless it calls os.Exit.              *)
(*                                                                         *)
(* net/http, bufio.Scanner and the operating system's signals are external.*)
(* Of an answer there is the request, the error code and the HTTP status.  *)
(***************************************************************************)
EXTENDS Sequences, SequencesExt, FiniteSets

CONSTANTS
    Requests,   \* each is sent once
    Result      \* an answer without an error

ServerAssumption == Result \notin {"unsent", "tool", "blank", "long", "unfit"}

VARIABLES
    transport,  \* the TransportType of the configuration
    phase,      \* where main is; "exited" and "killed" are exit codes 0 and 1
    context,    \* "live", or "cancelled" by a signal or by main's end
    kind,       \* kind[r]: what was sent, as what is to become of it
    inbox,      \* sent and not yet read
    ended,      \* the client has closed the server's standard input
    busy,       \* the requests whose tool runs
    answers,    \* history: the answers, in order
    discarded,  \* the line read after the context was cancelled
    backend     \* "none", "open", or "closed" by main

vars == <<transport, phase, context, kind, inbox, ended, busy, answers, discarded, backend>>

(* What is looked at of a request that could be parsed.  An "odd" method or*)
(* name is too long or has characters it may not have; without params, or  *)
(* without a name in them, the name is "missing".                          *)
Forms ==
    [version : {"2.0", "other"}, id : {"none", "some"},
     method : {"empty", "odd", "tools/list", "tools/call", "other"},
     name : {"missing", "number", "empty", "odd", "foreign", "memory__"},
     arguments : {"missing", "null", "object", "other"}]

ValidRequest(f) ==
    f.version = "2.0" /\ f.id = "some" /\ f.method \notin {"empty", "odd"}

(* A name of a tool begins with memory__; whether there is such a tool is  *)
(* for the manager to find out.                                            *)
IsValidToolName(name) == name \notin {"missing", "number", "empty", "odd"}

ValidCall(f) ==
    f.arguments # "other" /\ IsValidToolName(f.name) /\ f.name # "foreign"

(* HandleRequest: the answer, or "tool" when there is one to call first.   *)
HandleRequest(f) ==
    IF ~ValidRequest(f) THEN "InvalidRequest"
    ELSE CASE f.method = "tools/list" -> Result
           [] f.method = "tools/call" -> IF ValidCall(f) THEN "tool" ELSE "InvalidParams"
           [] OTHER -> "MethodNotFound"

(* Of a request there is what becomes of it.  Some never get as far as     *)
(* HandleRequest: one that cannot be parsed; one that is "unfit", with     *)
(* another HTTP method, another content type or a broken body; and lines   *)
(* that are "blank", or too "long" for the Scanner's buffer.               *)
Immediate == {"ParseError"} \cup ({HandleRequest(f) : f \in Forms} \ {"tool"})

Kinds(t) == Immediate \cup {"tool"} \cup (IF t = "http" THEN {"unfit"} ELSE {"blank", "long"})

Init ==
    /\ transport \in {"http", "stdio"}
    /\ phase = "starting"
    /\ context = "live"
    /\ kind = [r \in Requests |-> "unsent"]
    /\ inbox = <<>>
    /\ ended = FALSE
    /\ busy = {}
    /\ answers = <<>>
    /\ discarded = {}
    /\ backend = "none"

Alive == phase \notin {"exited", "killed"}

(* NewBackend, CreateTransport; an error ends in os.Exit(1).               *)
Start ==
    /\ phase = "starting"
    /\ \/ phase' = "serving" /\ backend' = "open"
       \/ phase' = "failed" /\ backend' \in {"none", "open"}
    /\ UNCHANGED <<transport, context, kind, inbox, ended, busy, answers, discarded>>

(* The client sends a request, or closes its end of the pipe.              *)
Send(r) ==
    /\ Alive /\ ~ended
    /\ kind[r] = "unsent"
    /\ \E k \in Kinds(transport) : kind' = [kind EXCEPT ![r] = k]
    /\ inbox' = Append(inbox, r)
    /\ UNCHANGED <<transport, phase, context, ended, busy, answers, discarded, backend>>

CloseInput ==
    /\ Alive /\ transport = "stdio"
    /\ ~ended /\ ended' = TRUE
    /\ UNCHANGED <<transport, phase, context, kind, inbox, busy, answers, discarded, backend>>

(* SIGINT or SIGTERM: the handler logs, cancels and returns; a second      *)
(* signal has no effect, nor has one after main's own cancel.              *)
Signal ==
    /\ phase \notin {"starting", "exited", "killed"} /\ context = "live"
    /\ context' = "cancelled"
    /\ UNCHANGED <<transport, phase, kind, inbox, ended, busy, answers, discarded, backend>>

-----------------------------------------------------------------------------
(* The HTTP status: 200 for a result and for what cannot be parsed; every  *)
(* error of HandleRequest gives 500, since none has an error_code map.     *)
Status(code) ==
    CASE transport = "stdio"              -> "line"
      [] code \in {Result, "ParseError"}  -> "200"
      [] OTHER                            -> "500"

Answer(r, code, status) ==
    answers' = Append(answers, [to |-> r, code |-> code, status |-> status])

(* A request that is answered without a tool.                              *)
Reply(r) == Answer(r, kind[r], Status(kind[r]))

(* handleRPC: from here the request has a goroutine of its own.  The       *)
(* session is found or made; when it cannot be made the answer is an       *)
(* internal error under status 200.                                        *)
Receive(r) ==
    /\ transport = "http" /\ phase = "serving"
    /\ \E i \in DOMAIN inbox : inbox[i] = r /\ inbox' = RemoveAt(inbox, i)
    /\ \/ kind[r] = "unfit" /\ Answer(r, "InternalError", "4xx") /\ UNCHANGED busy
       \/ kind[r] \in Immediate /\ Reply(r) /\ UNCHANGED busy
       \/ kind[r] = "tool" /\ busy' = busy \cup {r} /\ UNCHANGED answers
       \/ /\ kind[r] \notin {"unfit", "ParseError"}
          /\ Answer(r, "InternalError", "200") /\ UNCHANGED busy
    /\ UNCHANGED <<transport, phase, context, kind, ended, discarded, backend>>

(* Wrong: the loop does not look at its context.                           *)
ScanOn ==
    /\ transport = "stdio" /\ phase = "serving" /\ busy = {}
    /\ inbox # <<>>
    /\ inbox' = Tail(inbox)
    /\ LET r == Head(inbox)
       IN  \/ kind[r] = "long" /\ phase' = "failed" /\ UNCHANGED <<busy, answers>>
           \/ kind[r] = "blank" /\ UNCHANGED <<phase, busy, answers>>
           \/ kind[r] \in Immediate /\ Reply(r) /\ UNCHANGED <<phase, busy>>
           \/ kind[r] = "tool" /\ busy' = {r} /\ UNCHANGED <<phase, answers>>
    /\ UNCHANGED <<transport, context, kind, ended, discarded, backend>>

(* One turn of the stdio loop, up to the tool.                             *)
Scan ==
    /\ transport = "stdio" /\ phase = "serving" /\ busy = {}
    /\ inbox # <<>>
    /\ inbox' = Tail(inbox)
    /\ LET r == Head(inbox)
       IN  \/ kind[r] = "long" /\ phase' = "failed" /\ UNCHANGED <<busy, answers, discarded>>
           \/ /\ kind[r] # "long" /\ context = "cancelled"
              /\ phase' = "returned" /\ discarded' = {r} /\ UNCHANGED <<busy, answers>>
           \/ /\ context = "live"
              /\ \/ kind[r] = "blank" /\ UNCHANGED <<busy, answers>>
                 \/ kind[r] \in Immediate /\ Reply(r) /\ UNCHANGED busy
                 \/ kind[r] = "tool" /\ busy' = {r} /\ UNCHANGED answers
              /\ UNCHANGED <<phase, discarded>>
    /\ UNCHANGED <<transport, context, kind, ended, backend>>

ToolReturns(r) ==
    /\ Alive /\ r \in busy
    /\ busy' = busy \ {r}
    /\ \E code \in {Result, "InternalError"} : Answer(r, code, Status(code))
    /\ UNCHANGED <<transport, phase, context, kind, inbox, ended, discarded, backend>>

(* handleToolsCall recovers from the panic of a tool and returns nil, with *)
(* which the transport panics: the HTTP middleware answers 500, the stdio  *)
(* transport takes main with it.                                           *)
ToolPanics(r) ==
    /\ Alive /\ r \in busy
    /\ busy' = busy \ {r}
    /\ \/ transport = "http" /\ Answer(r, "none", "500") /\ UNCHANGED phase
       \/ transport = "stdio" /\ phase' = "panicked" /\ UNCHANGED answers
    /\ UNCHANGED <<transport, context, kind, inbox, ended, discarded, backend>>

-----------------------------------------------------------------------------
(* How Start returns to main.                                              *)
EndOfInput ==
    /\ transport = "stdio" /\ phase = "serving" /\ busy = {}
    /\ inbox = <<>> /\ ended
    /\ phase' = "returned"
    /\ UNCHANGED <<transport, context, kind, inbox, ended, busy, answers, discarded, backend>>

StopListening ==
    /\ transport = "http" /\ phase = "serving"
    /\ context = "cancelled"
    /\ phase' = "draining"
    /\ UNCHANGED <<transport, context, kind, inbox, ended, busy, answers, discarded, backend>>

(* Wrong: the listener is closed and nobody waits.                         *)
DrainedAtOnce ==
    /\ phase = "draining"
    /\ phase' = "returned"
    /\ UNCHANGED <<transport, context, kind, inbox, ended, busy, answers, discarded, backend>>

(* Shutdown has a background context: it waits however long it takes.      *)
Drained ==
    /\ phase = "draining"
    /\ busy = {}
    /\ phase' = "returned"
    /\ UNCHANGED <<transport, context, kind, inbox, ended, busy, answers, discarded, backend>>

(* The port is taken, or Accept fails.                                     *)
ListenFails ==
    /\ transport = "http" /\ phase = "serving"
    /\ phase' = "failed"
    /\ UNCHANGED <<transport, context, kind, inbox, ended, busy, answers, discarded, backend>>

(* The deferred functions, last one first: cancel and the backend's Close; *)
(* the recovery of a panic, which exits; the logging's Shutdown.  Of an    *)
(* error of either main only takes note.                                   *)
CloseBackend ==
    /\ phase \in {"returned", "panicked"} /\ backend = "open"
    /\ context' = "cancelled"
    /\ backend' = "closed"
    /\ UNCHANGED <<transport, phase, kind, inbox, ended, busy, answers, discarded>>

(* What Shutdown leaves of the log is AsyncHandler's: its Close gives up   *)
(* after 30 seconds and says nothing of it, and the exit code is 0 however *)
(* much is not written.                                                    *)
ShutdownLog ==
    /\ phase = "returned" /\ backend = "closed"
    /\ phase' = "exited"
    /\ UNCHANGED <<transport, context, kind, inbox, ended, busy, answers, discarded, backend>>

(* os.Exit(1): what is open stays open.                                    *)
Exit ==
    /\ phase = "failed" \/ (phase = "panicked" /\ backend = "closed")
    /\ phase' = "killed"
    /\ UNCHANGED <<transport, context, kind, inbox, ended, busy, answers, discarded, backend>>

Main == Start \/ Scan \/ EndOfInput \/ StopListening \/ Drained
            \/ CloseBackend \/ ShutdownLog \/ Exit

Tool(r) == ToolReturns(r) \/ ToolPanics(r)

Next ==
    \/ \E r \in Requests : Send(r) \/ Receive(r) \/ Tool(r)
    \/ CloseInput \/ Signal \/ ListenFails \/ Main

(* The process is scheduled and tools return; clients and signals are free.*)
Fairness == WF_vars(Main) /\ \A r \in Requests : WF_vars(Tool(r))

Spec == Init /\ [][Next]_vars /\ Fairness

-----------------------------------------------------------------------------
TypeOK ==
    /\ transport \in {"http", "stdio"}
    /\ phase \in {"starting", "serving", "draining", "returned", "failed", "panicked",
                  "exited", "killed"}
    /\ context \in {"live", "cancelled"}
    /\ kind \in [Requests -> Kinds(transport) \cup {"unsent"}]
    /\ inbox \in Seq(Requests)
    /\ busy \subseteq Requests /\ discarded \subseteq Requests
    /\ answers \in Seq([to : Requests, status : {"line", "200", "4xx", "500"},
            code : Immediate \cup {"InternalError", "none"}])
    /\ backend \in {"none", "open", "closed"}
    /\ ended \in BOOLEAN

Answered == {answers[i].to : i \in DOMAIN answers}
Sent     == {r \in Requests : kind[r] # "unsent"}
Read     == Sent \ Range(inbox)

(* A server that ends with exit code 0 owes its clients nothing: every     *)
(* request it read has one answer (but the blank lines, and the one line   *)
(* the stdio transport reads to find its context cancelled).               *)
GracefulExit ==
    phase = "exited" =>
        /\ Answered = {r \in Read : kind[r] # "blank"} \ discarded
        /\ Len(answers) = Cardinality(Answered)

(* No tool runs on a backend that is closed, whichever way the server      *)
(* ends, although the HTTP transport's requests have goroutines that main  *)
(* knows nothing of.                                                       *)
BackendOutlivesRequests == Alive /\ busy # {} => backend = "open"

(* The process ends after a signal: for the HTTP transport always, for the *)
(* stdio transport as soon as its standard input has a line or ends.       *)
ShutdownCompletes ==
    (context = "cancelled" /\ (transport = "http" \/ inbox # <<>> \/ ended)) ~> ~Alive

(* A signal ends the process (main.go:632, "sets up signal handlers for    *)
(* graceful shutdown and log level changes").                              *)
SignalEnds == context = "cancelled" ~> ~Alive
=============================================================================
