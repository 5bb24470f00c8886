--------------------------- MODULE MemoryBackend ---------------------------
(***************************************************************************)
(* internal/storage/memory.go: the map-backed storage.Backend.             *)
(*                                                                         *)
(* CreateEntities checks its context, takes mu, validates the whole batch  *)
(* and then writes it row by row; the readers hold mu.RLock for the whole  *)
(* of their scan.  Reading the map is therefore one step that needs mu     *)
(* free, and writing it is one step for each row, under mu.                *)
(***************************************************************************)
EXTENDS Naturals, Sequences, FiniteSets

CONSTANTS Calls, Ids, BlankId, Types, NoType, Bodies, Times, Batches, NoEntity,
    Readers,    \* the goroutines that search and count
    Queries,    \* a query is the set of bodies its text occurs in
    Nobody      \* mu is free

VARIABLES
    entities,   \* MemoryBackend.entities
    mu,         \* the call holding mu for writing
    batch,      \* batch[c]: the argument of call c
    next,       \* next[c]: the row the write loop of call c is at
    pc,         \* pc[c]: where call c is
    found,      \* found[r]: what reader r's last search returned
    stats       \* stats[r]: what reader r's last GetStatistics returned

vars == <<entities, mu, batch, next, pc, found, stats>>

(* What the backend promises, with an existing identifier refused and      *)
(* nothing kept over a restart.  The batch in mid-write is not promised to *)
(* anybody yet: mu hides it.                                               *)
Writing(c) == pc[c] = "writing"

Committed ==
    [i \in Ids |->
        IF \E c \in Calls : Writing(c) /\ \E k \in DOMAIN batch[c] : batch[c][k].id = i
        THEN NoEntity ELSE entities[i]]

StageOf == [idle |-> "idle", called |-> "called", lock |-> "called",
            validate |-> "called", writing |-> "called", return |-> "stored",
            ok |-> "ok", error |-> "error", lost |-> "lost"]

Promise == INSTANCE EntityStore WITH
    store <- Committed,
    stage <- [c \in Calls |-> StageOf[pc[c]]],
    Overwrite <- FALSE,
    Durable <- FALSE

ASSUME MemoryAssumption ==
    /\ Promise!WellFormed
    /\ Nobody \notin Calls
    /\ IsFiniteSet(Ids)

Entity == Promise!Entity
Store == Promise!Store

(* GetStatistics over a store: the number of entities, and the number of   *)
(* each type but the empty one.                                            *)
Count(s, P(_)) == Cardinality({i \in Ids : s[i] # NoEntity /\ P(s[i])})

StatisticsOf(s) ==
    [entities |-> Count(s, LAMBDA e : TRUE),
     byType |-> [t \in Types \ {NoType} |-> Count(s, LAMBDA e : e.type = t)]]

(* SearchEntities over a store: the entities whose name or observations    *)
(* hold the query.                                                         *)
Matching(s, query) == {s[i] : i \in {j \in Ids : s[j] # NoEntity /\ s[j].body \in query}}

Init ==
    /\ entities = [i \in Ids |-> NoEntity]
    /\ mu = Nobody
    /\ batch = [c \in Calls |-> <<>>]
    /\ next = [c \in Calls |-> 1]
    /\ pc = [c \in Calls |-> "idle"]
    /\ found = [r \in Readers |-> {}]
    /\ stats = [r \in Readers |-> StatisticsOf(entities)]

Goto(c, label) == pc' = [pc EXCEPT ![c] = label]

unread == <<found, stats>>

Invoke(c) ==
    /\ pc[c] = "idle"
    /\ \E b \in Batches : batch' = [batch EXCEPT ![c] = b]
    /\ Goto(c, "called")
    /\ UNCHANGED <<entities, mu, next, unread>>

(* An empty batch is answered before the context or mu are looked at.      *)
NothingToStore(c) ==
    /\ pc[c] = "called"
    /\ batch[c] = <<>>
    /\ Goto(c, "return")
    /\ UNCHANGED <<entities, mu, batch, next, unread>>

(* The context is looked at once, before mu is taken: a caller that went   *)
(* away, or whose deadline passed, by then is refused; one that goes later *)
(* is served.                                                              *)
CheckContext(c) ==
    /\ pc[c] = "called"
    /\ batch[c] # <<>>
    /\ \E canceled \in BOOLEAN : Goto(c, IF canceled THEN "error" ELSE "lock")
    /\ UNCHANGED <<entities, mu, batch, next, unread>>

(* Wrong: mu is taken from whoever holds it.                               *)
LockWithoutWaiting(c) ==
    /\ pc[c] = "lock"
    /\ mu' = c
    /\ Goto(c, "validate")
    /\ UNCHANGED <<entities, batch, next, unread>>

Lock(c) ==
    /\ pc[c] = "lock"
    /\ mu = Nobody
    /\ mu' = c
    /\ Goto(c, "validate")
    /\ UNCHANGED <<entities, batch, next, unread>>

(* Wrong: only the first row is validated.                                 *)
ValidateFirst(c) ==
    /\ pc[c] = "validate"
    /\ LET valid == batch[c][1].id # BlankId /\ entities[batch[c][1].id] = NoEntity
       IN  /\ Goto(c, IF valid THEN "writing" ELSE "error")
           /\ mu' = IF valid THEN mu ELSE Nobody
    /\ UNCHANGED <<entities, batch, next, unread>>

(* Wrong: the error path keeps mu.                                         *)
ValidateKeepingLock(c) ==
    /\ pc[c] = "validate"
    /\ LET valid == \A k \in DOMAIN batch[c] :
                       batch[c][k].id # BlankId /\ entities[batch[c][k].id] = NoEntity
       IN  Goto(c, IF valid THEN "writing" ELSE "error")
    /\ UNCHANGED <<entities, mu, batch, next, unread>>

(* Every row is validated before any is written.                           *)
Validate(c) ==
    /\ pc[c] = "validate"
    /\ LET valid == \A k \in DOMAIN batch[c] :
                       batch[c][k].id # BlankId /\ entities[batch[c][k].id] = NoEntity
       IN  /\ Goto(c, IF valid THEN "writing" ELSE "error")
           /\ mu' = IF valid THEN mu ELSE Nobody
    /\ UNCHANGED <<entities, batch, next, unread>>

(* Wrong: every row goes where the first one belongs.                      *)
WriteFirstSlot(c) ==
    /\ pc[c] = "writing"
    /\ entities' = [entities EXCEPT ![batch[c][1].id] = batch[c][next[c]]]
    /\ next' = [next EXCEPT ![c] = @ + 1]
    /\ Goto(c, IF next[c] = Len(batch[c]) THEN "return" ELSE "writing")
    /\ UNCHANGED <<mu, batch, unread>>

Write(c) ==
    /\ pc[c] = "writing"
    /\ LET row == batch[c][next[c]] IN entities' = [entities EXCEPT ![row.id] = row]
    /\ next' = [next EXCEPT ![c] = @ + 1]
    /\ Goto(c, IF next[c] = Len(batch[c]) THEN "return" ELSE "writing")
    /\ UNCHANGED <<mu, batch, unread>>

Return(c) ==
    /\ pc[c] = "return"
    /\ mu' = IF mu = c THEN Nobody ELSE mu
    /\ Goto(c, "ok")
    /\ UNCHANGED <<entities, batch, next, unread>>

-----------------------------------------------------------------------------
(* Wrong: the scan does not take mu.                                       *)
SearchWithoutLock(r) ==
    /\ \E query \in Queries : found' = [found EXCEPT ![r] = Matching(entities, query)]
    /\ UNCHANGED <<entities, mu, batch, next, pc, stats>>

(* The readers.                                                            *)
SearchEntities(r) ==
    /\ mu = Nobody
    /\ \E query \in Queries : found' = [found EXCEPT ![r] = Matching(entities, query)]
    /\ UNCHANGED <<entities, mu, batch, next, pc, stats>>

GetStatistics(r) ==
    /\ mu = Nobody
    /\ stats' = [stats EXCEPT ![r] = StatisticsOf(entities)]
    /\ UNCHANGED <<entities, mu, batch, next, pc, found>>

(* The process ends and is started again with an empty map.                *)
Crash ==
    /\ entities' = [i \in Ids |-> NoEntity]
    /\ mu' = Nobody
    /\ pc' = [c \in Calls |->
                 IF pc[c] \in {"idle", "ok", "error", "lost"} THEN pc[c] ELSE "lost"]
    /\ UNCHANGED <<batch, next, unread>>

CallStep(c) ==
    NothingToStore(c) \/ CheckContext(c) \/ Lock(c) \/ Validate(c) \/ Write(c) \/ Return(c)

Next ==
    \/ \E c \in Calls : Invoke(c) \/ CallStep(c)
    \/ \E r \in Readers : SearchEntities(r) \/ GetStatistics(r)
    \/ Crash

Spec == Init /\ [][Next]_vars

FairSpec == Spec /\ \A c \in Calls : WF_vars(CallStep(c))

-----------------------------------------------------------------------------
TypeOK ==
    /\ entities \in Store
    /\ mu \in Calls \cup {Nobody}
    /\ batch \in [Calls -> Batches \cup {<<>>}]
    /\ next \in [Calls -> Nat \ {0}]
    /\ pc \in [Calls -> DOMAIN StageOf]
    /\ found \in [Readers -> SUBSET Entity]
    /\ stats \in [Readers -> [entities : 0..Cardinality(Ids),
                              byType : [Types \ {NoType} -> 0..Cardinality(Ids)]]]

(* The backend keeps the promise of storage.Backend: a batch is visible as *)
(* a whole or not at all, an "ok" follows its storing, and a refused batch *)
(* leaves no trace (memory.go:60, "Validate all entities first before      *)
(* making any changes").                                                   *)
KeepsPromise == Promise!Spec

(* No reader sees part of a batch: what a search or a count returns is a   *)
(* function of the committed store, even while a writer is in its loop.    *)
ReadsAreCommitted ==
    [][\A r \in Readers :
          /\ found'[r] # found[r] =>
                \E query \in Queries : found'[r] = Matching(Committed, query)
          /\ stats'[r] # stats[r] => stats'[r] = StatisticsOf(Committed)]_<<found, stats>>

(* The first call to store an identifier wins: while the process lives no  *)
(* call replaces an entity another call has stored, however their          *)
(* validations and writes interleave; a write that replaces anything       *)
(* replaces an earlier row of its own batch.                               *)
FirstWriterWins ==
    [][Crash \/ \A i \in Ids :
          entities[i] # NoEntity /\ entities'[i] # entities[i] =>
              \E c \in Calls :
                  /\ next'[c] = next[c] + 1
                  /\ \E k \in 1..(next[c] - 1) : batch[c][k].id = i]_entities

(* Every call is answered, or lost with its process: no path through       *)
(* CreateEntities keeps mu.                                                *)
CallsReturn ==
    \A c \in Calls : pc[c] = "called" ~> pc[c] \in {"ok", "error", "lost"}
=============================================================================
