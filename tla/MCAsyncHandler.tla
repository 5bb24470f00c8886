--------------------------- MODULE MCAsyncHandler ---------------------------
(* A small instance of AsyncHandler: one producer with two calls and one   *)
(* with one, the first handler and one made from it, a small channel.      *)
EXTENDS AsyncHandler

CONSTANTS p1, p2

MCProducers == {p1, p2}
MCMaxCalls == [p \in MCProducers |-> IF p = p1 THEN 2 ELSE 1]
=============================================================================
