-------------------------- MODULE MCSqliteBackend --------------------------
(* A small instance of SqliteBackend: two calls over two identifiers, on *)
(* a new file or on one that holds an entity already.                      *)
EXTENDS SqliteBackend

CONSTANTS c1, c2, i1, i2

MCCalls == {c1, c2}
MCIds == {i1, i2}
MCTypes == {"", "person"}
MCBodies == {"alpha"}
MCTimes == 1..3
MCAllSchemas == {"absent", "old", "current"}
MCOldSchema == {"old"}

row(i, t, created) ==
    [id |-> i, type |-> t, body |-> "alpha", created |-> created, updated |-> created]

MCStores == {[i \in MCIds |-> IF i = i1 THEN row(i1, "person", 1) ELSE NoEntity]}

(* The empty batch; two rows; one identifier twice; a blank second row.    *)
MCBatches == {
    <<>>,
    <<row(i1, "", 2), row(i2, "person", 2)>>,
    <<row(i2, "person", 3), row(i2, "", 2)>>,
    <<row(i1, "person", 3), row(BlankId, "", 3)>>}
=============================================================================
