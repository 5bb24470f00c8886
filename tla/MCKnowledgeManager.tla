------------------------- MODULE MCKnowledgeManager -------------------------
(* A small instance of KnowledgeManager: two calls over two identifiers  *)
(* of the client's and those the manager generates.                        *)
EXTENDS KnowledgeManager

CONSTANTS c1, c2, i1, i2

MCCalls == {c1, c2}
MCClientIds == {i1, i2}

el(i) == [id |-> i, type |-> "person", body |-> "alpha"]

(* No elements; a client's identifier twice; one generated and one given;  *)
(* one the manager accepts and the backend refuses.                        *)
MCRequests == {
    Malformed,
    <<>>,
    <<el(i1), Undecodable>>,
    <<el(i1), el(i1)>>,
    <<el(NoId), el(i1)>>,
    <<el(i2), el(BlankId)>>}
=============================================================================
