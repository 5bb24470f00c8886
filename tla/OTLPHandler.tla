---------------------------- MODULE OTLPHandler ----------------------------
(***************************************************************************)
(* pkg/logging/otlp.go: the handler that hands records to a loop that      *)
(* exports them in batches.                                                *)
(*                                                                         *)
(* Handle passes the record to the next handler, then puts it in the       *)
(* queue, or counts a failure when the queue is full.  exportLoop moves    *)
(* records to its batch and exports it when it is full, on a tick, and     *)
(* when done is closed; then it ends, whatever is left in the queue.       *)
(* WithAttrs makes a handler with the same queue and done and counters of  *)
(* its own.                                                                *)
(***************************************************************************)
EXTENDS Naturals, Sequences, FiniteSets

CONSTANTS
    Producers,  \* each logs through a handler of its own
    QueueSize, BatchSize,
    MaxRecords  \* bound of the model: records each producer logs

OTLPAssumption ==
    QueueSize \in Nat /\ BatchSize \in Nat \ {0} /\ MaxRecords \in Nat

VARIABLES
    passed,     \* passed[p]: how many records of p the next handler got
    sending,    \* the producers between the next handler and the queue
    queue,
    batch,      \* of exportLoop
    loop,       \* "select", or "ended"
    exported,   \* history: the records exported, in order
    attempts,   \* exportAttempts, of the first handler
    failures,   \* failures[p]: exportFailures of p's handler
    done        \* "open", "closed", or "panic": closed again

vars == <<passed, sending, queue, batch, loop, exported, attempts, failures, done>>

Records == Producers \X (1..MaxRecords)

Init ==
    /\ passed = [p \in Producers |-> 0]
    /\ sending = {}
    /\ queue = <<>>
    /\ batch = <<>>
    /\ loop = "select"
    /\ exported = <<>>
    /\ attempts = 0
    /\ failures = [p \in Producers |-> 0]
    /\ done = "open"

(* Handle, up to the next handler's answer; with an error it returns.      *)
Pass(p) ==
    /\ p \notin sending /\ passed[p] < MaxRecords
    /\ passed' = [passed EXCEPT ![p] = @ + 1]
    /\ sending' = sending \cup {p}
    /\ UNCHANGED <<queue, batch, loop, exported, attempts, failures, done>>

Enqueue(p) ==
    /\ p \in sending
    /\ Len(queue) < QueueSize
    /\ queue' = Append(queue, <<p, passed[p]>>)
    /\ sending' = sending \ {p}
    /\ UNCHANGED <<passed, batch, loop, exported, attempts, failures, done>>

(* The queue is full; only the handler's own counter tells.                *)
Drop(p) ==
    /\ p \in sending
    /\ Len(queue) >= QueueSize
    /\ failures' = [failures EXCEPT ![p] = @ + 1]
    /\ sending' = sending \ {p}
    /\ UNCHANGED <<passed, queue, batch, loop, exported, attempts, done>>

Export(records) == exported' = exported \o records /\ attempts' = attempts + 1

(* Wrong: the batch is exported and kept.                                  *)
ReceiveKeeping ==
    /\ loop = "select"
    /\ queue # <<>>
    /\ queue' = Tail(queue)
    /\ batch' = Append(batch, Head(queue))
    /\ IF Len(batch') >= BatchSize THEN Export(batch') ELSE UNCHANGED <<exported, attempts>>
    /\ UNCHANGED <<passed, sending, loop, failures, done>>

Receive ==
    /\ loop = "select"
    /\ queue # <<>>
    /\ queue' = Tail(queue)
    /\ LET now == Append(batch, Head(queue))
       IN  IF Len(now) >= BatchSize
           THEN Export(now) /\ batch' = <<>>
           ELSE batch' = now /\ UNCHANGED <<exported, attempts>>
    /\ UNCHANGED <<passed, sending, loop, failures, done>>

Tick ==
    /\ loop = "select"
    /\ batch # <<>>
    /\ Export(batch)
    /\ batch' = <<>>
    /\ UNCHANGED <<passed, sending, queue, loop, failures, done>>

(* The select takes done, also when there are records in the queue.        *)
EndLoop ==
    /\ loop = "select"
    /\ done # "open"
    /\ IF batch = <<>> THEN UNCHANGED <<exported, attempts>> ELSE Export(batch)
    /\ batch' = <<>>
    /\ loop' = "ended"
    /\ UNCHANGED <<passed, sending, queue, failures, done>>

(* Close, of the first handler or a derived one: the channel they share is *)
(* closed; the second to do so panics.                                     *)
Close ==
    /\ done' = IF done = "open" THEN "closed" ELSE "panic"
    /\ UNCHANGED <<passed, sending, queue, batch, loop, exported, attempts, failures>>

Next ==
    /\ done # "panic"
    /\ \/ \E p \in Producers : Pass(p) \/ Enqueue(p) \/ Drop(p)
       \/ Receive \/ Tick \/ EndLoop \/ Close

Spec == Init /\ [][Next]_vars

-----------------------------------------------------------------------------
TypeOK ==
    /\ passed \in [Producers -> 0..MaxRecords]
    /\ sending \subseteq Producers
    /\ queue \in Seq(Records) /\ Len(queue) <= QueueSize
    /\ batch \in Seq(Records) /\ Len(batch) < BatchSize
    /\ loop \in {"select", "ended"}
    /\ exported \in Seq(Records)
    /\ attempts \in Nat
    /\ failures \in [Producers -> Nat]
    /\ done \in {"open", "closed", "panic"}

(* Every record a next handler got is in one place: exported, in the       *)
(* batch, in the queue (for good, once the loop has ended), counted as a   *)
(* failure, or still on its way; none is exported twice, and each          *)
(* producer's come out in order.                                           *)
RecordsAccounted ==
    LET line == exported \o batch \o queue
    IN  /\ \A p \in Producers :
              passed[p] = Cardinality({k \in DOMAIN line : line[k][1] = p})
                          + failures[p] + (IF p \in sending THEN 1 ELSE 0)
        /\ \A j, k \in DOMAIN line :
              j < k /\ line[j][1] = line[k][1] => line[j][2] < line[k][2]
        /\ attempts <= Len(exported) /\ Len(exported) <= attempts * BatchSize
=============================================================================
