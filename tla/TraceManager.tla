---------------------------- MODULE TraceManager ----------------------------
(***************************************************************************)
(* pkg/logging/tracing.go: the table of active spans, and the middleware   *)
(* that makes one span per HTTP request.                                   *)
(*                                                                         *)
(* A request creates its span (or is refused one when the table is full),  *)
(* runs its handler, which may panic or start spans of its own, and        *)
(* finishes it.  A goroutine per span removes it after a timeout.          *)
(* GetAllActiveSpans holds the read lock and asks for it again per span:   *)
(* a writer that comes in between blocks it, itself and everyone after     *)
(* (sync.RWMutex is external).                                             *)
(***************************************************************************)
EXTENDS Naturals, FiniteSets

CONSTANTS
    Requests,
    SpanIds,          \* GenerateSpanID; a span identifier is never reused
    MaxSpansPerTrace, \* config; it limits the table, whatever the trace
    MaxRefused,       \* bound of the model: spans refused
    NoSpan

TraceAssumption ==
    /\ MaxSpansPerTrace \in Nat /\ MaxRefused \in Nat
    /\ IsFiniteSet(Requests) /\ IsFiniteSet(SpanIds) /\ NoSpan \notin SpanIds

VARIABLES
    spans,    \* tm.spans: the active ones
    status,   \* status[s]: "none" before CreateSpan, then the span's Status
    parent,   \* parent[s]: ParentID
    at,       \* at[r]: where request r is
    span,     \* span[r]: the span the middleware made for r
    inner,    \* inner[r]: a span its handler made, child of span[r]
    health,   \* healthStatus: spans created, finished, dropped
    listing   \* GetAllActiveSpans: "no", "reading", or "stuck" behind a writer

table == <<spans, status, parent, health>>
vars  == <<table, at, span, inner, listing>>

Init ==
    /\ spans = {}
    /\ status = [s \in SpanIds |-> "none"]
    /\ parent = [s \in SpanIds |-> NoSpan]
    /\ at = [r \in Requests |-> "idle"]
    /\ span = [r \in Requests |-> NoSpan]
    /\ inner = [r \in Requests |-> NoSpan]
    /\ health = [created |-> 0, finished |-> 0, dropped |-> 0]
    /\ listing = "no"

MayLock == listing = "no"

Goto(r, label) == at' = [at EXCEPT ![r] = label]

(* The table is full.                                                      *)
RefuseSpan ==
    /\ Cardinality(spans) >= MaxSpansPerTrace
    /\ health.dropped < Cardinality(SpanIds) + MaxRefused
    /\ health' = [health EXCEPT !.dropped = @ + 1]
    /\ UNCHANGED <<spans, status, parent>>

(* A new span below p, the span of the context.                            *)
Make(s, p) ==
    /\ Cardinality(spans) < MaxSpansPerTrace
    /\ status[s] = "none"
    /\ spans' = spans \cup {s}
    /\ status' = [status EXCEPT ![s] = "OK"]
    /\ parent' = [parent EXCEPT ![s] = p]
    /\ health' = [health EXCEPT !.created = @ + 1]

(* The middleware, before the handler.  A parent that the request's headers *)
(* name is a span of the caller and not one of these: NoSpan stands for it. *)
Begin(r) ==
    /\ at[r] = "idle"
    /\ MayLock
    /\ \/ RefuseSpan /\ UNCHANGED span
       \/ \E s \in SpanIds : Make(s, NoSpan) /\ span' = [span EXCEPT ![r] = s]
    /\ Goto(r, "handler")
    /\ UNCHANGED <<inner, listing>>

(* The handler starts a span of its own: its parent is the span of the     *)
(* context, which a refused CreateSpan has left as it was.                 *)
CreateInner(r) ==
    /\ at[r] = "handler"
    /\ MayLock
    /\ inner[r] = NoSpan
    /\ \/ RefuseSpan /\ UNCHANGED inner
       \/ \E s \in SpanIds : Make(s, span[r]) /\ inner' = [inner EXCEPT ![r] = s]
    /\ UNCHANGED <<at, span, listing>>

(* Wrong: the finish is counted before the table is asked for the span.    *)
FinishCounted(s, code) ==
    /\ spans' = spans \ {s}
    /\ status' = IF s \in spans THEN [status EXCEPT ![s] = code] ELSE status
    /\ health' = [health EXCEPT !.finished = @ + 1]
    /\ UNCHANGED parent

(* FinishSpan of a span that is in the table; of any other it does nothing.*)
Finish(s, code) ==
    IF s \in spans
    THEN /\ spans' = spans \ {s}
         /\ status' = [status EXCEPT ![s] = code]
         /\ health' = [health EXCEPT !.finished = @ + 1]
         /\ UNCHANGED parent
    ELSE UNCHANGED table

FinishInner(r) ==
    /\ at[r] = "handler"
    /\ MayLock
    /\ inner[r] # NoSpan
    /\ \E code \in {"OK", "ERROR"} : Finish(inner[r], code)
    /\ inner' = [inner EXCEPT ![r] = NoSpan]
    /\ UNCHANGED <<at, span, listing>>

(* The handler returned: the status code decides how the span ends.        *)
End(r) ==
    /\ at[r] = "handler"
    /\ \/ span[r] = NoSpan /\ UNCHANGED table
       \/ /\ span[r] # NoSpan /\ MayLock
          /\ \E code \in {"OK", "ERROR"} : Finish(span[r], code)
    /\ Goto(r, "done")
    /\ UNCHANGED <<span, inner, listing>>

(* The handler panics: FinishSpan is not deferred.                         *)
Panic(r) ==
    /\ at[r] = "handler"
    /\ Goto(r, "done")
    /\ UNCHANGED <<table, span, inner, listing>>

(* cleanupSpanAfterTimeout.                                                *)
TimeOut(s) ==
    /\ s \in spans
    /\ MayLock
    /\ status' = [status EXCEPT ![s] = "TIMEOUT"]
    /\ spans' = spans \ {s}
    /\ health' = [health EXCEPT !.dropped = @ + 1]
    /\ UNCHANGED <<parent, at, span, inner, listing>>

(* GetAllActiveSpans: the first read lock; the table is read and unlocked; *)
(* or a writer announces itself while there are spans left to ask for.     *)
List ==
    /\ \/ listing = "no" /\ listing' = "reading"
       \/ listing = "reading" /\ listing' = "no"
       \/ listing = "reading" /\ spans # {} /\ listing' = "stuck"
    /\ UNCHANGED <<table, at, span, inner>>

RequestStep(r) ==
    \/ Begin(r) \/ CreateInner(r) \/ FinishInner(r) \/ End(r) \/ Panic(r)

Next == (\E r \in Requests : RequestStep(r)) \/ (\E s \in SpanIds : TimeOut(s)) \/ List

Spec == Init /\ [][Next]_vars

-----------------------------------------------------------------------------
TypeOK ==
    /\ spans \subseteq SpanIds
    /\ status \in [SpanIds -> {"none", "OK", "ERROR", "TIMEOUT"}]
    /\ parent \in [SpanIds -> SpanIds \cup {NoSpan}]
    /\ at \in [Requests -> {"idle", "handler", "done"}]
    /\ span \in [Requests -> SpanIds \cup {NoSpan}]
    /\ inner \in [Requests -> SpanIds \cup {NoSpan}]
    /\ health \in [created : Nat, finished : Nat, dropped : Nat]

Made    == {s \in SpanIds : status[s] # "none"}
Expired == {s \in SpanIds : status[s] = "TIMEOUT"}

(* Each span ends once, by its request or by its timeout, however the two  *)
(* race, and the counters tell how many did; the table never outgrows its  *)
(* limit, so GetTracingHealth, which waits for twice as many, reports      *)
(* "healthy" even when every request is refused its span.                  *)
SpansEndOnce ==
    /\ health.created = Cardinality(Made)
    /\ health.created = health.finished + Cardinality(Expired) + Cardinality(spans)
    /\ health.dropped >= Cardinality(Expired)
    /\ Cardinality(spans) <= MaxSpansPerTrace
    /\ spans \cap Expired = {}
=============================================================================
