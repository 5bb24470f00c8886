-------------------------- MODULE KnowledgeManager --------------------------
(***************************************************************************)
(* internal/knowledge/manager.go: handleCreateEntities, over any storage   *)
(* backend that keeps the promise of EntityStore.                          *)
(*                                                                         *)
(* A call decodes its arguments, reads the clock once for all its          *)
(* entities, writes one audit entry for each of them, and only then hands  *)
(* the batch to the backend, whose answer becomes the call's.  The audit   *)
(* file and the database are two stores that nothing ties together.        *)
(*                                                                         *)
(* The other tools (search, get, statistics) pass one read to the backend  *)
(* and change nothing.                                                     *)
(***************************************************************************)
EXTENDS Naturals, Sequences, FiniteSets

CONSTANTS Calls, Types, NoType, Bodies, NoEntity, BlankId, Overwrite, Durable,
    ClientIds,    \* identifiers clients choose
    NoId,         \* the empty identifier: the manager generates one
    Requests,     \* what args["entities"] may be, see Request
    Malformed,    \* the field is missing, or not an array
    Undecodable,  \* an array element mapstructure does not decode to an entity
    MaxBatch,     \* bound of the model: elements of a request
    Times,        \* readings of the clock
    Auditing      \* whether the manager has an audit logger

(* An element of a request; created_at cannot be given, because mapstructure *)
(* refuses to decode anything JSON can hold into a time but the zero time.   *)
Element == [id : ClientIds \cup {BlankId, NoId}, type : Types, body : Bodies]

(* The identifier generateEntityID makes for element k of call c: a UUID,  *)
(* so no two are the same and no client knows one.                         *)
Generated(c, k) == <<c, k>>

Ids == ClientIds \cup {Generated(c, k) : c \in Calls, k \in 1..MaxBatch}

Decodable(request) ==
    request # Malformed /\ \A k \in DOMAIN request : request[k] # Undecodable

(* The entities of a request that is decoded by call c at time now.        *)
Decoded(c, request, now) ==
    [k \in DOMAIN request |->
        [id      |-> IF request[k].id = NoId THEN Generated(c, k) ELSE request[k].id,
         type    |-> request[k].type,
         body    |-> request[k].body,
         created |-> now,
         updated |-> now]]

VARIABLES
    store, batch, stage,  \* the backend: EntityStore
    pc,         \* pc[c]: where call c is; "success" and "error" are its answers
    entities,   \* entities[c]: the entities call c has decoded
    at,         \* at[c]: the entity the audit loop of call c is at
    audit,      \* the "entity.created" entries in the audit file
    unwritten   \* history: those that could not be written

backend == <<store, batch, stage>>
vars == <<backend, pc, entities, at, audit, unwritten>>

(* What the backend may be given.                                          *)
Batches == {Decoded(c, r, t) : c \in Calls, r \in {q \in Requests : Decodable(q)}, t \in Times}

Backend == INSTANCE EntityStore

ASSUME ManagerAssumption ==
    /\ Backend!WellFormed
    /\ MaxBatch \in Nat
    /\ \A r \in Requests : r # Malformed =>
          r \in Seq(Element \cup {Undecodable}) /\ Len(r) <= MaxBatch
    /\ \A c \in Calls, k \in 1..MaxBatch : Generated(c, k) \notin ClientIds

Init ==
    /\ store = Backend!EmptyStore
    /\ batch = [c \in Calls |-> <<>>]
    /\ stage = [c \in Calls |-> "idle"]
    /\ pc = [c \in Calls |-> "idle"]
    /\ entities = [c \in Calls |-> <<>>]
    /\ at = [c \in Calls |-> 1]
    /\ audit = {}
    /\ unwritten = {}

Goto(c, label) == pc' = [pc EXCEPT ![c] = label]

(* Wrong: neither identifiers nor times are filled in.                     *)
DecodeWithoutDefaults(c) ==
    /\ pc[c] = "idle"
    /\ \E request \in Requests :
          /\ Decodable(request)
          /\ entities' = [entities EXCEPT ![c] = request]
    /\ Goto(c, "audit")
    /\ UNCHANGED <<backend, at, audit, unwritten>>

(* The arguments are decoded; the clock is read once, for the whole batch. *)
Decode(c) ==
    /\ pc[c] = "idle"
    /\ \E request \in Requests, now \in Times :
          /\ Decodable(request)
          /\ entities' = [entities EXCEPT ![c] = Decoded(c, request, now)]
    /\ Goto(c, "audit")
    /\ UNCHANGED <<backend, at, audit, unwritten>>

(* A field missing or of the wrong type, an element that is no entity, or  *)
(* a context done before the last element was decoded, as any may be.      *)
RejectArguments(c) ==
    /\ pc[c] = "idle"
    /\ Goto(c, "error")
    /\ UNCHANGED <<backend, entities, at, audit, unwritten>>

(* LogEntityCreated for the next entity; its error is not looked at.       *)
Audit(c) ==
    /\ pc[c] = "audit"
    /\ Auditing
    /\ at[c] <= Len(entities[c])
    /\ LET entry == [call |-> c, id |-> entities[c][at[c]].id]
       IN  \/ audit' = audit \cup {entry} /\ UNCHANGED unwritten
           \/ unwritten' = unwritten \cup {entry} /\ UNCHANGED audit
    /\ at' = [at EXCEPT ![c] = @ + 1]
    /\ UNCHANGED <<backend, pc, entities>>

(* Wrong: the audit loop stops one entity short.                           *)
SubmitUnaudited(c) ==
    /\ pc[c] = "audit"
    /\ ~Auditing \/ at[c] >= Len(entities[c])
    /\ Backend!Invoke(c)
    /\ batch'[c] = entities[c]
    /\ Goto(c, "storing")
    /\ UNCHANGED <<entities, at, audit, unwritten>>

(* storage.CreateEntities.                                                 *)
Submit(c) ==
    /\ pc[c] = "audit"
    /\ ~Auditing \/ at[c] > Len(entities[c])
    /\ Backend!Invoke(c)
    /\ batch'[c] = entities[c]
    /\ Goto(c, "storing")
    /\ UNCHANGED <<entities, at, audit, unwritten>>

BackendStep(c) ==
    /\ Backend!Apply(c) \/ Backend!Reply(c) \/ Backend!Refuse(c)
    /\ UNCHANGED <<pc, entities, at, audit, unwritten>>

(* Wrong: the backend's error is not looked at.                            *)
RespondSuccess(c) ==
    /\ pc[c] = "storing"
    /\ stage[c] \in {"ok", "error"}
    /\ Goto(c, "success")
    /\ UNCHANGED <<backend, entities, at, audit, unwritten>>

(* Wrong: only a success is answered.                                      *)
RespondOnSuccess(c) ==
    /\ pc[c] = "storing"
    /\ stage[c] = "ok"
    /\ Goto(c, "success")
    /\ UNCHANGED <<backend, entities, at, audit, unwritten>>

(* The backend's error is wrapped and returned, or the count is.           *)
Respond(c) ==
    /\ pc[c] = "storing"
    /\ stage[c] \in {"ok", "error"}
    /\ Goto(c, IF stage[c] = "ok" THEN "success" ELSE "error")
    /\ UNCHANGED <<backend, entities, at, audit, unwritten>>

(* The process ends; the audit file stays.                                 *)
Crash ==
    /\ Backend!Crash
    /\ pc' = [c \in Calls |-> IF pc[c] \in {"audit", "storing"} THEN "lost" ELSE pc[c]]
    /\ UNCHANGED <<entities, at, audit, unwritten>>

CallStep(c) == Audit(c) \/ Submit(c) \/ BackendStep(c) \/ Respond(c)

Next ==
    \/ \E c \in Calls : Decode(c) \/ RejectArguments(c) \/ CallStep(c)
    \/ Crash

Spec == Init /\ [][Next]_vars

FairSpec == Spec /\ \A c \in Calls : WF_vars(CallStep(c))

-----------------------------------------------------------------------------
TypeOK ==
    /\ store \in Backend!Store
    /\ stage \in [Calls -> Backend!Stages]
    /\ pc \in [Calls -> {"idle", "audit", "storing", "success", "error", "lost"}]
    /\ entities \in [Calls -> Seq(Backend!Entity)]
    /\ at \in [Calls -> 1..(MaxBatch + 1)]
    /\ audit \cup unwritten \subseteq [call : Calls, id : Ids \cup {BlankId}]

(* Nothing is in the store that is not in the audit file, but for an entry *)
(* that could not be written, whatever crashes between the two writes.     *)
StoredIsAudited ==
    Auditing =>
        \A i \in Ids : store[i] # NoEntity =>
            \E entry \in audit \cup unwritten : entry.id = i

(* A caller can believe its answer: after "success" every entity of the    *)
(* request is in the store and stays there, after an error none of them    *)
(* was stored by this call.                                                *)
AnswersAreTrue ==
    \A c \in Calls :
        /\ Durable /\ pc[c] = "success" =>
              \A k \in DOMAIN entities[c] : store[entities[c][k].id] # NoEntity
        /\ pc[c] = "error" =>
              /\ stage[c] \in {"idle", "error"}
              /\ \A k \in 1..MaxBatch : store[Generated(c, k)] = NoEntity

(* Every call that was accepted is answered, unless the process ends.      *)
CallsAnswered ==
    \A c \in Calls : pc[c] = "audit" ~> pc[c] \in {"success", "error", "lost"}

(* The audit log tells what happened: an entry "entity.created" with       *)
(* result "success" (audit.go:458, "LogEntityCreated logs an entity        *)
(* creation event") is not the entry of a call that answered an error.     *)
AuditIsTrue == \A entry \in audit : pc[entry.call] # "error"
=============================================================================
