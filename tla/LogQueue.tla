------------------------------ MODULE LogQueue ------------------------------
(***************************************************************************)
(* What asynchronous logging promises, whatever its threads do: an entry   *)
(* is accepted at most once, the entries written to the wrapped handler    *)
(* are the accepted ones in the order they were accepted, and at most Lag  *)
(* of them are waiting.  AsyncHandler implements this module.              *)
(***************************************************************************)
EXTENDS Naturals, Sequences

CONSTANTS
    Entries,    \* the log entries
    Lag         \* how many accepted entries may be unwritten

VARIABLES
    accepted,   \* the entries accepted, in order
    written     \* the entries written, in order

vars == <<accepted, written>>

Init == accepted = <<>> /\ written = <<>>

Accept(e) ==
    /\ \A i \in DOMAIN accepted : accepted[i] # e
    /\ Len(accepted) - Len(written) < Lag
    /\ accepted' = Append(accepted, e)
    /\ UNCHANGED written

Write ==
    /\ Len(written) < Len(accepted)
    /\ written' = Append(written, accepted[Len(written) + 1])
    /\ UNCHANGED accepted

Next == (\E e \in Entries : Accept(e)) \/ Write

Spec == Init /\ [][Next]_vars
=============================================================================
