-------------------------- MODULE BatchingHandler --------------------------
(***************************************************************************)
(* pkg/logging/async.go, BatchingAsyncHandler: Handle adds to a batch      *)
(* under batchMu and hands a full one to the AsyncHandler below it; a      *)
(* timer hands over what is there after a while; Close hands over the rest *)
(* and closes the AsyncHandler, all under batchMu.                         *)
(*                                                                         *)
(* Of the AsyncHandler there is here what Handle and Close see of it: the  *)
(* closed flag, the channel and whether it is closed.                      *)
(***************************************************************************)
EXTENDS Naturals, Sequences, FiniteSets

CONSTANTS
    Producers,
    BatchSize,
    MaxEntries, \* bound of the model: entries each producer logs
    Nobody, Timer, Closer

BatchingAssumption ==
    BatchSize \in Nat \ {0} /\ MaxEntries \in Nat /\ {Nobody, Timer, Closer} \cap Producers = {}

VARIABLES
    at,         \* at[p]: "idle", "check", "wait" (for batchMu), "in"
    count,      \* count[p]: entries p has passed to Handle
    mu,         \* who holds batchMu
    batch,      \* currentBatch
    cursor,     \* how many of it processBatch has handed over, while it runs
    timer,      \* batchTimer is set
    fired,      \* how many timer functions wait for batchMu
    closed,     \* the AsyncHandler's flag
    channel,    \* "open", "closed", or "panic": sent to when closed
    sent,       \* history: what went into the channel, in order
    closing     \* where Close is

vars == <<at, count, mu, batch, cursor, timer, fired, closed, channel, sent, closing>>

Entry == Producers \X (1..MaxEntries)

Init ==
    /\ at = [p \in Producers |-> "idle"]
    /\ count = [p \in Producers |-> 0]
    /\ mu = Nobody
    /\ batch = <<>>
    /\ cursor = 0
    /\ timer = FALSE
    /\ fired = 0
    /\ closed = FALSE
    /\ channel = "open"
    /\ sent = <<>>
    /\ closing = "no"

Goto(p, label) == at' = [at EXCEPT ![p] = label]

(* IsClosed says no: go on to wait for batchMu.                            *)
Check(p) ==
    /\ at[p] = "idle" /\ count[p] < MaxEntries
    /\ count' = [count EXCEPT ![p] = @ + 1]
    /\ IF closed THEN UNCHANGED at ELSE Goto(p, "wait")
    /\ UNCHANGED <<mu, batch, cursor, timer, fired, closed, channel, sent, closing>>

(* The entry is in the batch; a full batch is processed, otherwise the     *)
(* timer is stopped and set again.                                         *)
Add(p) ==
    /\ at[p] = "wait" /\ mu = Nobody
    /\ batch' = Append(batch, <<p, count[p]>>)
    /\ IF Len(batch') >= BatchSize
       THEN /\ mu' = p /\ Goto(p, "in")
            /\ UNCHANGED timer
       ELSE /\ timer' = TRUE /\ Goto(p, "idle")
            /\ UNCHANGED mu
    /\ UNCHANGED <<count, cursor, fired, closed, channel, sent, closing>>

(* AsyncHandler.Handle for the next entry of the batch: dropped when the   *)
(* channel is full, a panic when it is closed.                             *)
HandOver ==
    /\ mu # Nobody
    /\ cursor < Len(batch) /\ ~closed
    /\ cursor' = cursor + 1
    /\ IF channel = "open" THEN sent' \in {sent, Append(sent, batch[cursor + 1])} /\ UNCHANGED channel
       ELSE channel' = "panic" /\ UNCHANGED sent
    /\ UNCHANGED <<at, count, mu, batch, timer, fired, closed, closing>>

(* processBatch is through: the batch is cleared.                          *)
Cleared == cursor = Len(batch) /\ batch' = <<>> /\ cursor' = 0

(* processBatch failed at its first entry: the AsyncHandler is closed.     *)
Failed == closed /\ cursor < Len(batch) /\ cursor' = 0 /\ UNCHANGED batch

(* Handle returns what processBatch did.                                   *)
Return(p) ==
    /\ mu = p
    /\ Cleared \/ Failed
    /\ mu' = Nobody
    /\ Goto(p, "idle")
    /\ UNCHANGED <<count, timer, fired, closed, channel, sent, closing>>

(* The timer fires, and its function runs once it has batchMu; Stop does   *)
(* not stop one that has fired.                                            *)
Fire ==
    /\ timer
    /\ timer' = FALSE
    /\ fired' = fired + 1
    /\ UNCHANGED <<at, count, mu, batch, cursor, closed, channel, sent, closing>>

TimerLock ==
    /\ fired > 0 /\ mu = Nobody
    /\ mu' = Timer
    /\ fired' = fired - 1
    /\ UNCHANGED <<at, count, batch, cursor, timer, closed, channel, sent, closing>>

(* The error of processBatch is not looked at.                             *)
TimerReturn ==
    /\ mu = Timer
    /\ Cleared \/ Failed
    /\ mu' = Nobody
    /\ UNCHANGED <<at, count, timer, fired, closed, channel, sent, closing>>

CloseLock ==
    /\ closing = "no" /\ mu = Nobody
    /\ mu' = Closer
    /\ closing' = "process"
    /\ UNCHANGED <<at, count, batch, cursor, timer, fired, closed, channel, sent>>

(* Wrong: batchMu is given up before the AsyncHandler is closed, and the   *)
(* timer is not stopped.                                                   *)
MarkUnlocked ==
    /\ closing = "process"
    /\ Cleared
    /\ mu' = Nobody
    /\ closing' = "marked"
    /\ UNCHANGED <<at, count, timer, fired, closed, channel, sent>>

(* The rest is handed over, the timer stopped, the AsyncHandler marked     *)
(* closed ...                                                              *)
Mark ==
    /\ closing = "process"
    /\ Cleared
    /\ timer' = FALSE
    /\ closed' = TRUE
    /\ closing' = "marked"
    /\ UNCHANGED <<at, count, mu, fired, channel, sent>>

(* ... and its channel closed; batchMu is given up.                        *)
CloseChannel ==
    /\ closing = "marked"
    /\ channel' = "closed"
    /\ closing' = "done"
    /\ mu' = IF mu = Closer THEN Nobody ELSE mu
    /\ UNCHANGED <<at, count, batch, cursor, timer, fired, closed, sent>>

Next ==
    \/ \E p \in Producers : Check(p) \/ Add(p) \/ Return(p)
    \/ HandOver \/ Fire \/ TimerLock \/ TimerReturn
    \/ CloseLock \/ Mark \/ CloseChannel

Spec == Init /\ [][Next]_vars

-----------------------------------------------------------------------------
TypeOK ==
    /\ at \in [Producers -> {"idle", "wait", "in"}]
    /\ count \in [Producers -> 0..MaxEntries]
    /\ mu \in Producers \cup {Nobody, Timer, Closer}
    /\ batch \in Seq(Entry) /\ cursor \in 0..Len(batch)
    /\ timer \in BOOLEAN /\ fired \in Nat
    /\ closed \in BOOLEAN
    /\ channel \in {"open", "closed", "panic"}
    /\ sent \in Seq(Entry)
    /\ closing \in {"no", "process", "marked", "done"}

(* No entry is handed over twice, and each producer's come out in order,   *)
(* however Handle, the timer and Close follow on each other; what is still *)
(* in the batch has not been handed over (but for what processBatch is     *)
(* at); and nobody sends on the channel once it is closed, from which the  *)
(* AsyncHandler alone does not protect: batchMu does.                      *)
HandedOverOnce ==
    /\ channel # "panic"
    /\ \A j, k \in DOMAIN sent :
          j < k /\ sent[j][1] = sent[k][1] => sent[j][2] < sent[k][2]
    /\ \A k \in DOMAIN batch : k > cursor => \A j \in DOMAIN sent : sent[j] # batch[k]
=============================================================================
