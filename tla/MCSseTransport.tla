--------------------------- MODULE MCSseTransport ---------------------------
(* A small instance of SseTransport: two streams, and either two sessions  *)
(* with two requests, to be mixed up, or one session with three, the last  *)
(* of which may find the queue of two full.                                *)
EXTENDS SseTransport

CONSTANT LastRpc    \* the request that waits for there to be one session only

(* Only what clients begin of themselves can leave the bounds, so no step  *)
(* that is fair is ever held up.                                           *)
InBounds    == issued = SessionIds => pc[LastRpc] = "idle"
BoundedNext == Next /\ InBounds'
BoundedSpec == Init /\ [][BoundedNext]_vars /\ Fairness
=============================================================================
