--------------------------- MODULE SqliteBackend ---------------------------
(***************************************************************************)
(* internal/storage/sqlite.go: the storage.Backend over a SQLite file.     *)
(*                                                                         *)
(* NewSqliteBackend opens the file and brings its schema up to date        *)
(* (initSchema); CreateEntities upserts its batch row by row in one        *)
(* transaction; GetStatistics asks two queries outside any transaction.    *)
(*                                                                         *)
(* SQLite itself is external: a transaction takes the single write lock at *)
(* its first INSERT (the driver begins it deferred), nobody sees its rows  *)
(* before COMMIT, and ROLLBACK or the end of the process undoes it.  The   *)
(* file outlives the process.                                              *)
(***************************************************************************)
EXTENDS Naturals, Sequences, FiniteSets

CONSTANTS Calls, Ids, BlankId, Types, NoType, Bodies, Times, Batches, NoEntity,
    Readers,       \* the goroutines that ask for statistics
    Nobody,        \* nobody holds the write lock
    Null,          \* SQL NULL
    Schemas,       \* the schemas the file may have when the server first opens it
    InitialStores, \* and the entities in it
    Faults         \* whether a database call may fail: I/O, a busy timeout, a done context

VARIABLES
    schema,     \* "old" is the table before updated_at was added to it
    rows,       \* the committed rows of table entities
    up,         \* how far the process's NewSqliteBackend has come
    writer,     \* the call whose transaction holds the write lock
    image,      \* the rows as that transaction sees them; none without one
    batch,      \* batch[c]: the argument of call c
    next,       \* next[c]: the row the insert loop of call c is at
    pc,         \* pc[c]: where call c is
    counted,    \* counted[r]: the answer to reader r's first query, or Nobody
    stats       \* stats[r]: what reader r's last GetStatistics returned

file   == <<schema, rows>>
tx     == <<writer, image>>
calls  == <<batch, next, pc>>
counts == <<counted, stats>>
vars   == <<file, up, tx, calls, counts>>

StageOf == [idle |-> "idle", called |-> "called", insert |-> "called",
            commit |-> "called", return |-> "stored",
            ok |-> "ok", error |-> "error", lost |-> "lost"]

(* A row whose updated_at is still missing stands for an entity updated    *)
(* when it was created, which is what the migration makes of it.           *)
Committed ==
    [i \in Ids |-> IF rows[i] # NoEntity /\ rows[i].updated = Null
                   THEN [rows[i] EXCEPT !.updated = rows[i].created]
                   ELSE rows[i]]

Promise == INSTANCE EntityStore WITH
    store <- Committed,
    stage <- [c \in Calls |-> StageOf[pc[c]]],
    Overwrite <- TRUE,
    Durable <- TRUE

ASSUME SqliteAssumption ==
    /\ Promise!WellFormed
    /\ Nobody \notin Calls
    /\ Null \notin Times
    /\ IsFiniteSet(Ids)
    /\ Schemas \subseteq {"absent", "old", "current"}
    /\ InitialStores \subseteq Promise!Store
    /\ Faults \in BOOLEAN

Entity == Promise!Entity

Count(s, P(_)) == Cardinality({i \in Ids : s[i] # NoEntity /\ P(s[i])})
Total(s) == Count(s, LAMBDA e : TRUE)
ByType(s) == [t \in Types \ {NoType} |-> Count(s, LAMBDA e : e.type = t)]

(* The rows of a table that has no updated_at column.                      *)
WithoutUpdated(s) ==
    [i \in Ids |-> IF s[i] = NoEntity THEN s[i] ELSE [s[i] EXCEPT !.updated = Null]]

Init ==
    /\ schema \in Schemas
    /\ \E s \in InitialStores :
          rows = CASE schema = "absent"  -> [i \in Ids |-> NoEntity]
                   [] schema = "old"     -> WithoutUpdated(s)
                   [] schema = "current" -> s
    /\ up = "down"
    /\ writer = Nobody
    /\ image = Promise!EmptyStore
    /\ batch = [c \in Calls |-> <<>>]
    /\ next = [c \in Calls |-> 1]
    /\ pc = [c \in Calls |-> "idle"]
    /\ counted = [r \in Readers |-> Nobody]
    /\ stats = [r \in Readers |-> [entities |-> 0, byType |-> ByType(Promise!EmptyStore)]]

-----------------------------------------------------------------------------
(* NewSqliteBackend and initSchema.                                        *)
Start ==
    /\ up \in {"down", "failed"}
    /\ up' = "create"
    /\ UNCHANGED <<file, tx, calls, counts>>

(* CREATE TABLE IF NOT EXISTS and the four CREATE INDEX IF NOT EXISTS of   *)
(* one Exec.  The first leaves an existing table as it is; the last names  *)
(* column updated_at, so it fails on a table that has none, and initSchema *)
(* returns its error.                                                      *)
CreateTable ==
    /\ up = "create"
    /\ schema' = IF schema = "absent" THEN "current" ELSE schema
    /\ up' = IF schema = "old" THEN "failed" ELSE "addColumn"
    /\ UNCHANGED <<rows, tx, calls, counts>>

(* ALTER TABLE ADD COLUMN; its "duplicate column name" error is ignored.   *)
AddColumn ==
    /\ up = "addColumn"
    /\ schema' = "current"
    /\ up' = "fill"
    /\ UNCHANGED <<rows, tx, calls, counts>>

(* UPDATE entities SET updated_at = created_at WHERE updated_at IS NULL    *)
FillUpdated ==
    /\ up = "fill"
    /\ rows' = Committed
    /\ up' = "ready"
    /\ UNCHANGED <<schema, tx, calls, counts>>

StartupFault ==
    /\ Faults
    /\ up \in {"create", "addColumn", "fill"}
    /\ up' = "failed"
    /\ UNCHANGED <<file, tx, calls, counts>>

-----------------------------------------------------------------------------
(* CreateEntities.                                                         *)
Goto(c, label) == pc' = [pc EXCEPT ![c] = label]

Invoke(c) ==
    /\ up = "ready"
    /\ pc[c] = "idle"
    /\ \E b \in Batches : batch' = [batch EXCEPT ![c] = b]
    /\ Goto(c, "called")
    /\ UNCHANGED <<file, up, tx, next, counts>>

NothingToStore(c) ==
    /\ pc[c] = "called"
    /\ batch[c] = <<>>
    /\ Goto(c, "return")
    /\ UNCHANGED <<file, up, tx, batch, next, counts>>

(* BeginTx and PrepareContext: no row is read or written yet.              *)
Begin(c) ==
    /\ pc[c] = "called"
    /\ batch[c] # <<>>
    /\ Goto(c, "insert")
    /\ UNCHANGED <<file, up, tx, batch, next, counts>>

(* Wrong: the update sets created_at to NULL, or to the new row's.         *)
UpsertedWithoutCreated(table, e) ==
    [table EXCEPT ![e.id] = IF table[e.id] = NoEntity THEN e ELSE [e EXCEPT !.created = Null]]

UpsertedWithCreated(table, e) == [table EXCEPT ![e.id] = e]

(* INSERT ... ON CONFLICT(id) DO UPDATE: a row with this identifier keeps  *)
(* its created_at.                                                         *)
Upserted(table, e) ==
    [table EXCEPT ![e.id] = IF table[e.id] = NoEntity THEN e
                            ELSE [e EXCEPT !.created = table[e.id].created]]

(* Wrong: each row commits by itself.                                      *)
InsertAutocommit(c) ==
    /\ pc[c] = "insert"
    /\ batch[c][next[c]].id # BlankId
    /\ rows' = Upserted(rows, batch[c][next[c]])
    /\ next' = [next EXCEPT ![c] = @ + 1]
    /\ Goto(c, IF next[c] = Len(batch[c]) THEN "return" ELSE "insert")
    /\ UNCHANGED <<schema, up, tx, batch, counts>>

Insert(c) ==
    /\ pc[c] = "insert"
    /\ writer \in {Nobody, c}
    /\ LET row == batch[c][next[c]]
           table == IF writer = c THEN image ELSE rows
       IN  /\ row.id # BlankId
           /\ image' = Upserted(table, row)
    /\ writer' = c
    /\ next' = [next EXCEPT ![c] = @ + 1]
    /\ Goto(c, IF next[c] = Len(batch[c]) THEN "commit" ELSE "insert")
    /\ UNCHANGED <<file, up, batch, counts>>

(* The transaction of c ends, if it had the write lock.                    *)
EndTransaction(c) ==
    /\ writer' = IF writer = c THEN Nobody ELSE writer
    /\ image' = IF writer = c THEN Promise!EmptyStore ELSE image

(* Wrong: the transaction is left open.                                    *)
RejectBlankInTransaction(c) ==
    /\ pc[c] = "insert"
    /\ batch[c][next[c]].id = BlankId
    /\ Goto(c, "error")
    /\ UNCHANGED <<file, up, tx, batch, next, counts>>

(* A blank identifier is met in the loop, after the rows before it were    *)
(* inserted: the deferred Rollback takes them back.                        *)
RejectBlank(c) ==
    /\ pc[c] = "insert"
    /\ batch[c][next[c]].id = BlankId
    /\ EndTransaction(c)
    /\ Goto(c, "error")
    /\ UNCHANGED <<file, up, batch, next, counts>>

Commit(c) ==
    /\ pc[c] = "commit"
    /\ rows' = image
    /\ EndTransaction(c)
    /\ Goto(c, "return")
    /\ UNCHANGED <<schema, up, batch, next, counts>>

Return(c) ==
    /\ pc[c] = "return"
    /\ Goto(c, "ok")
    /\ UNCHANGED <<file, up, tx, batch, next, counts>>

(* BeginTx, PrepareContext, an INSERT (the write lock not had in time) or  *)
(* Commit returns an error.                                                *)
Fail(c) ==
    /\ Faults
    /\ pc[c] \in {"called", "insert", "commit"}
    /\ batch[c] # <<>>
    /\ EndTransaction(c)
    /\ Goto(c, "error")
    /\ UNCHANGED <<file, up, batch, next, counts>>

-----------------------------------------------------------------------------
(* Wrong: rows are counted before they are committed.                      *)
CountUncommitted(r) ==
    /\ up = "ready"
    /\ counted[r] = Nobody
    /\ counted' = [counted EXCEPT ![r] = Total(IF writer = Nobody THEN rows ELSE image)]
    /\ UNCHANGED <<file, up, tx, calls, stats>>

(* GetStatistics: SELECT COUNT( * ), then SELECT ... GROUP BY entity_type. *)
CountAll(r) ==
    /\ up = "ready"
    /\ counted[r] = Nobody
    /\ counted' = [counted EXCEPT ![r] = Total(rows)]
    /\ UNCHANGED <<file, up, tx, calls, stats>>

CountTypes(r) ==
    /\ counted[r] # Nobody
    /\ stats' = [stats EXCEPT ![r] = [entities |-> counted[r], byType |-> ByType(rows)]]
    /\ counted' = [counted EXCEPT ![r] = Nobody]
    /\ UNCHANGED <<file, up, tx, calls>>

(* The second query fails: the caller gets no statistics.                  *)
CountFails(r) ==
    /\ Faults
    /\ counted[r] # Nobody
    /\ counted' = [counted EXCEPT ![r] = Nobody]
    /\ UNCHANGED <<file, up, tx, calls, stats>>

(* The process ends, in a call or in its startup.                          *)
Crash ==
    /\ up # "down"
    /\ up' = "down"
    /\ writer' = Nobody
    /\ image' = Promise!EmptyStore
    /\ pc' = [c \in Calls |->
                 IF pc[c] \in {"idle", "ok", "error", "lost"} THEN pc[c] ELSE "lost"]
    /\ counted' = [r \in Readers |-> Nobody]
    /\ UNCHANGED <<file, batch, next, stats>>

CallStep(c) ==
    NothingToStore(c) \/ Begin(c) \/ Insert(c) \/ RejectBlank(c) \/ Commit(c) \/ Return(c)

Next ==
    \/ Start \/ CreateTable \/ AddColumn \/ FillUpdated \/ StartupFault
    \/ \E c \in Calls : Invoke(c) \/ CallStep(c) \/ Fail(c)
    \/ \E r \in Readers : CountAll(r) \/ CountTypes(r) \/ CountFails(r)
    \/ Crash

Spec == Init /\ [][Next]_vars

FairSpec == Spec /\ \A c \in Calls : WF_vars(CallStep(c))

-----------------------------------------------------------------------------
TypeOK ==
    /\ schema \in {"absent", "old", "current"}
    /\ Committed \in Promise!Store
    /\ up \in {"down", "create", "addColumn", "fill", "ready", "failed"}
    /\ writer \in Calls \cup {Nobody}
    /\ image \in Promise!Store
    /\ batch \in [Calls -> Batches \cup {<<>>}]
    /\ next \in [Calls -> Nat \ {0}]
    /\ pc \in [Calls -> DOMAIN StageOf]
    /\ counted \in [Readers -> 0..Cardinality(Ids) \cup {Nobody}]
    /\ stats \in [Readers -> [entities : 0..Cardinality(Ids),
                              byType : [Types \ {NoType} -> 0..Cardinality(Ids)]]]

(* The backend keeps the promise of storage.Backend with upserts and a     *)
(* durable store: the row-by-row transaction is one step to everybody      *)
(* else, an "ok" is only given for a committed batch, and an error, a      *)
(* rollback or a crash leaves nothing of it.                               *)
KeepsPromise == Promise!Spec

(* Once an entity is stored it stays, with the creation time it was first  *)
(* stored with (sqlite.go:166, "created_at is NOT updated, preserving      *)
(* original creation time"): through concurrent upserts of the same        *)
(* identifier, crashes and restarts.  (A file with the old table is never  *)
(* opened, so this says of it only that a failed start changes no row.)    *)
CreationTimeKept ==
    [][\A i \in Ids : Committed[i] # NoEntity =>
          /\ Committed'[i] # NoEntity
          /\ Committed'[i].created = Committed[i].created]_vars

(* The two queries of GetStatistics bracket the truth: the total may be    *)
(* older than the counts by type, never newer, so it never exceeds the     *)
(* number of entities there are when the call returns.                     *)
StatisticsBracketed ==
    [][\A r \in Readers : stats'[r] # stats[r] =>
          /\ stats'[r].entities <= Total(Committed)
          /\ stats'[r].byType = ByType(Committed)]_stats

(* Every call is answered unless its process ends: no path through         *)
(* CreateEntities leaves a transaction holding the write lock.             *)
CallsReturn ==
    \A c \in Calls : pc[c] = "called" ~> pc[c] \in {"ok", "error", "lost"}

(* A server whose database calls all succeed starts, on a new file and on  *)
(* one whose table has no updated_at yet (sqlite.go:109, "Migration: Add   *)
(* updated_at column if it doesn't exist (for existing databases)").       *)
OpensExistingDatabases == ~Faults => up # "failed"
=============================================================================
