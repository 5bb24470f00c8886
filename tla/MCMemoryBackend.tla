-------------------------- MODULE MCMemoryBackend --------------------------
(* A small instance of MemoryBackend: three calls over two identifiers.    *)
EXTENDS MemoryBackend

CONSTANTS c1, c2, c3, i1, i2

MCCalls == {c1, c2, c3}
MCIds == {i1, i2}
MCTypes == {"", "person"}
MCBodies == {"alpha", "beta"}
MCQueries == {MCBodies, {"beta"}}
MCTimes == {1, 2}

row(i, t, body, time) ==
    [id |-> i, type |-> t, body |-> body, created |-> time, updated |-> time]

(* The empty batch; one identifier twice in a batch; a batch of two rows; a *)
(* batch whose second row is blank; a single row both others collide with.  *)
MCBatches == {
    <<>>,
    <<row(i1, "person", "alpha", 1), row(i1, "", "beta", 1)>>,
    <<row(i1, "person", "beta", 2), row(i2, "person", "beta", 2)>>,
    <<row(i2, "", "alpha", 1), row(BlankId, "", "alpha", 1)>>,
    <<row(i2, "person", "alpha", 2)>>}
=============================================================================
