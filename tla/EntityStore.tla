---------------------------- MODULE EntityStore ----------------------------
(***************************************************************************)
(* What a storage.Backend (internal/storage/backend.go) promises of        *)
(* CreateEntities: a call stores its whole batch in one step or nothing of *)
(* it, it is answered "ok" only after the batch is stored, and a refused   *)
(* batch leaves no trace.  The two backends differ in two parameters:      *)
(*                                                                         *)
(*   Overwrite  an existing identifier is updated and keeps its creation   *)
(*              time (SQLite's ON CONFLICT clause), or refuses the batch   *)
(*              (the memory backend);                                      *)
(*   Durable    the stored entities survive the process (SQLite) or not.   *)
(*                                                                         *)
(* MemoryBackend and SqliteBackend implement this module, each with its    *)
(* own values of the two parameters.                                       *)
(***************************************************************************)
EXTENDS Naturals, Sequences, FiniteSets

CONSTANTS
    Calls,      \* the CreateEntities calls (one goroutine each)
    Ids,        \* entity identifiers with a character that is not white space
    BlankId,    \* an identifier strings.TrimSpace reduces to ""
    Types,      \* entity types, NoType among them
    NoType,     \* the empty entity type
    Bodies,     \* name and observations, as far as a search tells them apart
    Times,      \* created_at and updated_at values
    Batches,    \* the argument lists a call may pass
    NoEntity,   \* "no row with this identifier"
    Overwrite,  \* TRUE: upsert; FALSE: an existing identifier refuses the batch
    Durable     \* TRUE: the store survives a crash of the process

(* mcp.Entity *)
Entity == [id : Ids \cup {BlankId}, type : Types, body : Bodies,
           created : Times, updated : Times]

(* What the constants have to be; the modules that use this one assume it. *)
WellFormed ==
    /\ BlankId \notin Ids
    /\ NoType \in Types
    /\ Batches \subseteq Seq(Entity)
    /\ NoEntity \notin Entity
    /\ Overwrite \in BOOLEAN
    /\ Durable \in BOOLEAN

(* A store: at each identifier the entity with that identifier, or none.   *)
Store == {s \in [Ids -> Entity \cup {NoEntity}] :
             \A i \in Ids : s[i] # NoEntity => s[i].id = i}

EmptyStore == [i \in Ids |-> NoEntity]

Mentions(b, i) == \E k \in DOMAIN b : b[k].id = i

FirstWith(b, i) == CHOOSE k \in DOMAIN b :
                      b[k].id = i /\ \A j \in DOMAIN b : b[j].id = i => k <= j
LastWith(b, i)  == CHOOSE k \in DOMAIN b :
                      b[k].id = i /\ \A j \in DOMAIN b : b[j].id = i => j <= k

(* The store after batch b: the last row given for an identifier wins; an  *)
(* upsert keeps the creation time of the row it replaces, which is the     *)
(* batch's first row for that identifier when the store had none.          *)
PutAll(s, b) ==
    [i \in Ids |->
        IF ~Mentions(b, i) THEN s[i]
        ELSE IF ~Overwrite THEN b[LastWith(b, i)]
        ELSE [b[LastWith(b, i)] EXCEPT
                 !.created = IF s[i] = NoEntity THEN b[FirstWith(b, i)].created
                             ELSE s[i].created]]

Acceptable(s, b) ==
    /\ \A k \in DOMAIN b : b[k].id # BlankId
    /\ Overwrite \/ \A k \in DOMAIN b : s[b[k].id] = NoEntity

-----------------------------------------------------------------------------
VARIABLES
    store,   \* what a reader of the backend can see
    batch,   \* batch[c]: the entities call c was given
    stage    \* stage[c]: how far call c has come

vars == <<store, batch, stage>>

Stages == {"idle", "called", "stored", "ok", "error", "lost"}

Init ==
    /\ store \in Store
    /\ batch = [c \in Calls |-> <<>>]
    /\ stage = [c \in Calls |-> "idle"]

(* A caller passes a batch.                                                *)
Invoke(c) ==
    /\ stage[c] = "idle"
    /\ \E b \in Batches : batch' = [batch EXCEPT ![c] = b]
    /\ stage' = [stage EXCEPT ![c] = "called"]
    /\ UNCHANGED store

(* The batch becomes visible, as a whole.                                  *)
Apply(c) ==
    /\ stage[c] = "called"
    /\ Acceptable(store, batch[c])
    /\ store' = PutAll(store, batch[c])
    /\ stage' = [stage EXCEPT ![c] = "stored"]
    /\ UNCHANGED batch

Reply(c) ==
    /\ stage[c] = "stored"
    /\ stage' = [stage EXCEPT ![c] = "ok"]
    /\ UNCHANGED <<store, batch>>

(* The call fails; nothing of its batch is or becomes visible.             *)
Refuse(c) ==
    /\ stage[c] = "called"
    /\ stage' = [stage EXCEPT ![c] = "error"]
    /\ UNCHANGED <<store, batch>>

(* The process ends: no call in progress is answered.                      *)
Crash ==
    /\ store' = IF Durable THEN store ELSE EmptyStore
    /\ stage' = [c \in Calls |->
                    IF stage[c] \in {"called", "stored"} THEN "lost" ELSE stage[c]]
    /\ UNCHANGED batch

Next ==
    \/ \E c \in Calls : Invoke(c) \/ Apply(c) \/ Reply(c) \/ Refuse(c)
    \/ Crash

Spec == Init /\ [][Next]_vars
=============================================================================
