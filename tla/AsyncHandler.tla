---------------------------- MODULE AsyncHandler ----------------------------
(***************************************************************************)
(* pkg/logging/async.go: buffered asynchronous logging.                    *)
(*                                                                         *)
(* Producers call Handle on a handler; the entry goes into a buffered      *)
(* channel (or is dropped), and one goroutine, processLoop, hands the      *)
(* entries to the wrapped handler.  A second goroutine, flushLoop, calls   *)
(* Flush at every tick, which waits for the channel to be empty.  Close    *)
(* marks the handler closed, closes the two channels one after the other   *)
(* and waits for processLoop, at most 30 seconds.                          *)
(*                                                                         *)
(* WithAttrs and WithGroup make further handlers on the same channels and  *)
(* counters, each with its own copy of the closed flag; the factory makes  *)
(* one for every component and closes only the first.                      *)
(***************************************************************************)
EXTENDS Naturals, Sequences, FiniteSets

CONSTANTS
    Producers,  \* the goroutines that log
    Handlers,   \* the handlers there may ever be
    Root,       \* the one NewAsyncHandlerWithConfig makes, and Close is called on
    Capacity,   \* AsyncConfig.BufferSize
    MaxCalls    \* bound of the model: MaxCalls[p] calls of Handle by producer p

ASSUME AsyncAssumption ==
    /\ IsFiniteSet(Producers)
    /\ Root \in Handlers
    /\ Capacity \in Nat \ {0}
    /\ MaxCalls \in [Producers -> Nat]

VARIABLES
    made,       \* the handlers made so far
    closed,     \* closed[h]: the flag of handler h
    buffer,     \* the channel's contents
    closing,    \* how far Close has come
    pc,         \* pc[p]: where producer p is in Handle
    calls,      \* calls[p]: how many calls p has made; names its next entry
    loop,       \* processLoop: in its select, in drainBuffer, or doneCh closed
    hand,       \* the entry processLoop has received and not yet handled
    flusher,    \* flushLoop: waiting for a tick, in Flush, or returned
    stats,      \* AsyncStats
    accepted,   \* history: the entries that went into the channel
    written,    \* history: the entries given to the wrapped handler
    due         \* history: how many were accepted when Close began

handlers  == <<made, closed>>
producers == <<pc, calls>>
worker    == <<loop, hand, written>>
vars == <<handlers, buffer, closing, producers, worker, flusher, stats, accepted, due>>

Steps == {"open", "marked", "signalled", "waiting", "closed", "timedOut"}

CloseBegun   == closing # "open"
CloseChClosed == closing \notin {"open", "marked"}
BufferClosed == closing \notin {"open", "marked", "signalled"}

Init ==
    /\ made = {Root}
    /\ closed = [h \in Handlers |-> FALSE]
    /\ buffer = <<>>
    /\ closing = "open"
    /\ pc = [p \in Producers |-> "idle"]
    /\ calls = [p \in Producers |-> 0]
    /\ loop = "process"
    /\ hand = <<>>
    /\ flusher = "wait"
    /\ stats = [buffered |-> 0, processed |-> 0, dropped |-> 0, errors |-> 0]
    /\ accepted = <<>>
    /\ written = <<>>
    /\ due = 0

-----------------------------------------------------------------------------
(* WithAttrs, WithGroup: the copy has the flag its parent has now.         *)
With(parent, h) ==
    /\ parent \in made
    /\ h \notin made
    /\ made' = made \cup {h}
    /\ closed' = [closed EXCEPT ![h] = closed[parent]]
    /\ UNCHANGED <<buffer, closing, producers, worker, flusher, stats, accepted, due>>

(* Handle loads the flag of its handler; ErrLoggerClosed ends the call.    *)
Called(p) == calls' = [calls EXCEPT ![p] = @ + 1]
Goto(p, label) == pc' = [pc EXCEPT ![p] = label]

Check(p, h) ==
    /\ pc[p] = "idle"
    /\ calls[p] < MaxCalls[p]
    /\ h \in made
    /\ IF closed[h] THEN Called(p) /\ UNCHANGED pc
                    ELSE Goto(p, "send") /\ UNCHANGED calls
    /\ UNCHANGED <<handlers, buffer, closing, worker, flusher, stats, accepted, due>>

(* Wrong: the entry is taken for accepted when it is dropped.              *)
DropCounted(p) ==
    /\ pc[p] = "send"
    /\ ~BufferClosed
    /\ Len(buffer) = Capacity
    /\ Called(p)
    /\ Goto(p, "count")
    /\ UNCHANGED <<handlers, buffer, closing, worker, flusher, stats, accepted, due>>

(* Wrong: a full channel makes room by giving up its oldest entry.         *)
SendOverOldest(p) ==
    /\ pc[p] = "send"
    /\ ~BufferClosed
    /\ buffer' = Append(IF Len(buffer) < Capacity THEN buffer ELSE Tail(buffer), <<p, calls[p] + 1>>)
    /\ accepted' = Append(accepted, <<p, calls[p] + 1>>)
    /\ Called(p)
    /\ Goto(p, "count")
    /\ UNCHANGED <<handlers, closing, worker, flusher, stats, due>>

(* Wrong: the channel has no bound.                                        *)
SendUnbounded(p) ==
    /\ pc[p] = "send"
    /\ ~BufferClosed
    /\ buffer' = Append(buffer, <<p, calls[p] + 1>>)
    /\ accepted' = Append(accepted, <<p, calls[p] + 1>>)
    /\ Called(p)
    /\ Goto(p, "count")
    /\ UNCHANGED <<handlers, closing, worker, flusher, stats, due>>

(* Wrong: the entry is taken from the call before.                         *)
SendPrevious(p) ==
    /\ pc[p] = "send"
    /\ ~BufferClosed
    /\ Len(buffer) < Capacity
    /\ buffer' = Append(buffer, <<p, calls[p]>>)
    /\ accepted' = Append(accepted, <<p, calls[p]>>)
    /\ Called(p)
    /\ Goto(p, "count")
    /\ UNCHANGED <<handlers, closing, worker, flusher, stats, due>>

(* The select of Handle: the entry is sent, or dropped when the channel is *)
(* full; sending on a closed channel panics, whether it is full or not.    *)
Send(p) ==
    /\ pc[p] = "send"
    /\ ~BufferClosed
    /\ Len(buffer) < Capacity
    /\ buffer' = Append(buffer, <<p, calls[p] + 1>>)
    /\ accepted' = Append(accepted, <<p, calls[p] + 1>>)
    /\ Called(p)
    /\ Goto(p, "count")
    /\ UNCHANGED <<handlers, closing, worker, flusher, stats, due>>

Drop(p) ==
    /\ pc[p] = "send"
    /\ ~BufferClosed
    /\ Len(buffer) = Capacity
    /\ stats' = [stats EXCEPT !.dropped = @ + 1]
    /\ Called(p)
    /\ Goto(p, "idle")
    /\ UNCHANGED <<handlers, buffer, closing, worker, flusher, accepted, due>>

Panic(p) ==
    /\ pc[p] = "send"
    /\ BufferClosed
    /\ Called(p)
    /\ Goto(p, "panicked")
    /\ UNCHANGED <<handlers, buffer, closing, worker, flusher, stats, accepted, due>>

(* BufferedEntries is counted after the send: processLoop may have written *)
(* the entry already.                                                      *)
CountBuffered(p) ==
    /\ pc[p] = "count"
    /\ stats' = [stats EXCEPT !.buffered = @ + 1]
    /\ Goto(p, "idle")
    /\ UNCHANGED <<handlers, buffer, closing, calls, worker, flusher, accepted, due>>

-----------------------------------------------------------------------------
(* processLoop and drainBuffer.  Go's select chooses any ready case.       *)
Receive ==
    /\ loop \in {"process", "drain"}
    /\ hand = <<>>
    /\ buffer # <<>>
    /\ hand' = <<Head(buffer)>>
    /\ buffer' = Tail(buffer)
    /\ UNCHANGED <<handlers, closing, producers, loop, written, flusher, stats, accepted, due>>

(* Wrong: the loop ends on an error of the wrapped handler.                *)
ProcessOrGiveUp ==
    /\ hand # <<>>
    /\ written' = Append(written, Head(hand))
    /\ hand' = <<>>
    /\ \/ stats' = [stats EXCEPT !.processed = @ + 1] /\ UNCHANGED loop
       \/ stats' = [stats EXCEPT !.errors = @ + 1] /\ loop' = "done"
    /\ UNCHANGED <<handlers, buffer, closing, producers, flusher, accepted, due>>

(* The wrapped handler's Handle returns, with an error or without.         *)
Process ==
    /\ hand # <<>>
    /\ written' = Append(written, Head(hand))
    /\ hand' = <<>>
    /\ \/ stats' = [stats EXCEPT !.processed = @ + 1]
       \/ stats' = [stats EXCEPT !.errors = @ + 1]
    /\ UNCHANGED <<handlers, buffer, closing, producers, loop, flusher, accepted, due>>

(* Wrong: processLoop returns on closeCh without draining.                 *)
StopWithoutDrain ==
    /\ loop = "process"
    /\ hand = <<>>
    /\ CloseChClosed
    /\ loop' = "done"
    /\ UNCHANGED <<handlers, buffer, closing, producers, hand, written, flusher, stats, accepted, due>>

(* Wrong: a break leaves the select and not the loop.                      *)
BreakSelectOnly ==
    /\ loop = "process"
    /\ hand = <<>>
    /\ CloseChClosed
    /\ UNCHANGED vars

(* closeCh is closed, or the buffer channel is closed and empty.           *)
StartDrain ==
    /\ loop = "process"
    /\ hand = <<>>
    /\ CloseChClosed
    /\ loop' = "drain"
    /\ UNCHANGED <<handlers, buffer, closing, producers, hand, written, flusher, stats, accepted, due>>

(* drainBuffer finds nothing to receive: the deferred close(doneCh).       *)
Finish ==
    /\ loop = "drain"
    /\ hand = <<>>
    /\ buffer = <<>>
    /\ loop' = "done"
    /\ UNCHANGED <<handlers, buffer, closing, producers, hand, written, flusher, stats, accepted, due>>

-----------------------------------------------------------------------------
(* flushLoop: a tick calls Flush, which returns at once when closed, and   *)
(* otherwise polls until it finds the channel empty.                       *)
FlusherStep(from, to) ==
    /\ flusher = from
    /\ flusher' = to
    /\ UNCHANGED <<handlers, buffer, closing, producers, worker, stats, accepted, due>>

(* Wrong: closeCh is looked at only when a tick finds the handler open.    *)
StopTickerOnTick == ~closed[Root] /\ CloseChClosed /\ FlusherStep("wait", "stopped")

Tick       == ~closed[Root] /\ FlusherStep("wait", "flush")
Flushed    == buffer = <<>> /\ FlusherStep("flush", "wait")
StopTicker == CloseChClosed /\ FlusherStep("wait", "stopped")

-----------------------------------------------------------------------------
(* Close, under its sync.Once.                                             *)
CloseStep(from, to) ==
    /\ closing = from
    /\ closing' = to
    /\ UNCHANGED <<made, buffer, producers, worker, flusher, stats, accepted>>

Mark ==
    /\ CloseStep("open", "marked")
    /\ closed' = [closed EXCEPT ![Root] = TRUE]
    /\ due' = Len(accepted)

Signal      == CloseStep("marked", "signalled") /\ UNCHANGED <<closed, due>>
CloseBuffer == CloseStep("signalled", "waiting") /\ UNCHANGED <<closed, due>>

(* doneCh is closed, or the 30 seconds are over.                           *)
Done    == loop = "done" /\ CloseStep("waiting", "closed") /\ UNCHANGED <<closed, due>>
Timeout == CloseStep("waiting", "timedOut") /\ UNCHANGED <<closed, due>>

-----------------------------------------------------------------------------
ProducerStep(p) ==
    \/ \E h \in Handlers : Check(p, h)
    \/ Send(p) \/ Drop(p) \/ Panic(p) \/ CountBuffered(p)

WorkerStep  == Receive \/ Process \/ StartDrain \/ Finish
FlushStep   == Tick \/ Flushed \/ StopTicker
CloserStep  == Mark \/ Signal \/ CloseBuffer \/ Done \/ Timeout

Next ==
    \/ \E g, h \in Handlers : With(g, h)
    \/ \E p \in Producers : ProducerStep(p)
    \/ WorkerStep \/ FlushStep \/ CloserStep

Spec == Init /\ [][Next]_vars

(* Goroutines are scheduled and the wrapped handler returns.  Nobody has   *)
(* to log or to call Close; once called it goes on, and does not count on  *)
(* its timeout.                                                            *)
FairSpec ==
    /\ Spec
    /\ WF_vars(WorkerStep)
    /\ WF_vars(Flushed) /\ WF_vars(StopTicker)
    /\ WF_vars(Signal \/ CloseBuffer \/ Done)

-----------------------------------------------------------------------------
Entry == UNION {{p} \X (1..MaxCalls[p]) : p \in Producers}

TypeOK ==
    /\ made \in SUBSET Handlers
    /\ closed \in [Handlers -> BOOLEAN]
    /\ buffer \in Seq(Entry)
    /\ closing \in Steps
    /\ pc \in [Producers -> {"idle", "send", "count", "panicked"}]
    /\ calls \in [Producers -> Nat]
    /\ \A p \in Producers : calls[p] <= MaxCalls[p]
    /\ loop \in {"process", "drain", "done"}
    /\ hand \in Seq(Entry)
    /\ flusher \in {"wait", "flush", "stopped"}
    /\ stats \in [buffered : Nat, processed : Nat, dropped : Nat, errors : Nat]
    /\ accepted \in Seq(Entry)
    /\ written \in Seq(Entry)
    /\ due \in Nat

(* Every accepted entry is in exactly one place: written, in processLoop's *)
(* hand, or in the channel, and in the order it was accepted.              *)
NothingLost == accepted = written \o hand \o buffer

(* Close keeps its word for what was logged before it was called           *)
(* (async.go:267, "Close closes the async handler and waits for all        *)
(* buffered entries to be processed"): when processLoop is done, every     *)
(* entry accepted before Close began has been written.                     *)
CloseDelivers == loop = "done" => due <= Len(written)

(* The counters lose no entry: what producers have counted or are about to *)
(* count is what was processed, has failed, is in hand or in the channel.  *)
Counting == {p \in Producers : pc[p] = "count"}

CountersAgree ==
    stats.buffered + Cardinality(Counting)
        = stats.processed + stats.errors + Len(hand) + Len(buffer)

(* The handler implements the queue it stands for: no entry accepted or    *)
(* written twice, none written out of order, at most the channel's         *)
(* capacity and one entry in hand waiting.                                 *)
Queue == INSTANCE LogQueue WITH Entries <- Entry, Lag <- Capacity + 1
KeepsQueuePromise == Queue!Spec

(* What is accepted is written, unless it slipped in after Close began and *)
(* processLoop had gone.                                                   *)
AcceptedAreWritten ==
    \A n \in 1..Cardinality(Entry) :
        Len(accepted) >= n ~> Len(written) >= n \/ (CloseBegun /\ loop = "done" /\ due < n)

(* Close returns by itself, without its timeout.                           *)
CloseReturns == closing = "marked" ~> closing \in {"closed", "timedOut"}

(* flushLoop ends with Close, but for one case: an entry sent while Close  *)
(* runs and left in the channel keeps Flush polling for ever.              *)
FlusherEnds ==
    closing = "signalled" ~> flusher = "stopped" \/ (loop = "done" /\ buffer # <<>>)

(* Handle on a closed logger is refused with ErrLoggerClosed (async.go:12, *)
(* "returned when trying to use a closed logger"); it does not panic.      *)
NeverPanics == \A p \in Producers : pc[p] # "panicked"
=============================================================================
