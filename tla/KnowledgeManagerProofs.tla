----------------------- MODULE KnowledgeManagerProofs -----------------------
(***************************************************************************)
(* Proofs about KnowledgeManager over any backend that keeps EntityStore's *)
(* promise, for any calls, requests and identifiers.                       *)
(***************************************************************************)
EXTENDS KnowledgeManager, SequenceLemmas

-----------------------------------------------------------------------------
(* What a batch makes of a store.                                          *)

(* The first and the last row for an identifier are rows of the batch.     *)
LEMMA RowsOf ==
    ASSUME NEW b \in Seq(Backend!Entity), NEW i, Backend!Mentions(b, i)
    PROVE  /\ b[Backend!FirstWith(b, i)] \in Backend!Entity
           /\ b[Backend!LastWith(b, i)] \in Backend!Entity
           /\ b[Backend!LastWith(b, i)].id = i
<1> DEFINE T == {k \in DOMAIN b : b[k].id = i}
<1>1. DOMAIN b = 1..Len(b) /\ Len(b) \in Nat /\ \A k \in DOMAIN b : b[k] \in Backend!Entity
  BY LenProperties, ElementOfSeq
<1>2. T \subseteq 1..Len(b) /\ T # {}
  BY <1>1 DEF Backend!Mentions
<1>3. /\ \E k \in T : \A j \in T : k <= j
      /\ \E k \in T : \A j \in T : j <= k
  BY <1>1, <1>2, FirstAndLast
<1>4. \E k \in DOMAIN b : b[k].id = i /\ \A j \in DOMAIN b : b[j].id = i => k <= j
  BY <1>3
<1>5. \E k \in DOMAIN b : b[k].id = i /\ \A j \in DOMAIN b : b[j].id = i => j <= k
  BY <1>3
<1>6. Backend!FirstWith(b, i) \in DOMAIN b
  BY <1>4 DEF Backend!FirstWith
<1>7. Backend!LastWith(b, i) \in DOMAIN b /\ b[Backend!LastWith(b, i)].id = i
  BY <1>5 DEF Backend!LastWith
<1> QED
  BY <1>1, <1>6, <1>7

(* The store after a batch is a store; it has what it had and the batch's  *)
(* entities, and nothing else.                                             *)
LEMMA PutAllStores ==
    ASSUME NEW s \in Backend!Store, NEW b \in Seq(Backend!Entity)
    PROVE  /\ Backend!PutAll(s, b) \in Backend!Store
           /\ \A i \in Ids : Backend!PutAll(s, b)[i] # NoEntity <=>
                                 s[i] # NoEntity \/ Backend!Mentions(b, i)
<1> DEFINE t == Backend!PutAll(s, b)
<1>1. s \in [Ids -> Backend!Entity \cup {NoEntity}] /\ \A i \in Ids : s[i] # NoEntity => s[i].id = i
  BY DEF Backend!Store
<1>2. NoEntity \notin Backend!Entity
  BY ManagerAssumption DEF Backend!WellFormed
<1>3. t = [i \in Ids |-> t[i]]
  BY DEF Backend!PutAll
<1>4. ASSUME NEW i \in Ids, ~Backend!Mentions(b, i) PROVE t[i] = s[i]
  BY <1>4 DEF Backend!PutAll
<1>5. ASSUME NEW i \in Ids, Backend!Mentions(b, i) PROVE t[i] \in Backend!Entity /\ t[i].id = i
  <2> DEFINE last == b[Backend!LastWith(b, i)]
             first == b[Backend!FirstWith(b, i)]
  <2>1. last \in Backend!Entity /\ first \in Backend!Entity /\ last.id = i
    BY <1>5, RowsOf
  <2>2. CASE ~Overwrite
    <3>1. t[i] = last
      BY <1>5, <2>2 DEF Backend!PutAll
    <3> QED
      BY <2>1, <3>1
  <2>3. CASE Overwrite
    <3>1. t[i] = [last EXCEPT !.created = IF s[i] = NoEntity THEN first.created ELSE s[i].created]
      BY <1>5, <2>3 DEF Backend!PutAll
    <3>2. (IF s[i] = NoEntity THEN first.created ELSE s[i].created) \in Times
      BY <1>1, <2>1 DEF Backend!Entity
    <3> HIDE DEF last, first, t
    <3> QED
      BY <2>1, <3>1, <3>2 DEF Backend!Entity
  <2> QED
    BY <2>2, <2>3
<1> HIDE DEF t
<1>6. t \in Backend!Store
  BY <1>1, <1>3, <1>4, <1>5 DEF Backend!Store
<1>7. \A i \in Ids : t[i] # NoEntity <=> s[i] # NoEntity \/ Backend!Mentions(b, i)
  BY <1>2, <1>4, <1>5
<1> QED
  BY <1>6, <1>7 DEF t

-----------------------------------------------------------------------------
(* Types.                                                                  *)

Typed ==
    /\ TypeOK
    /\ batch \in [Calls -> Seq(Backend!Entity)]
    /\ \A c \in Calls : Len(entities[c]) <= MaxBatch

(* The identifiers call c may use.                                         *)
Own(c) == ClientIds \cup {BlankId} \cup {Generated(c, k) : k \in 1..MaxBatch}

(* What a request is decoded to.                                           *)
LEMMA DecodedBatch ==
    ASSUME NEW c \in Calls, NEW r \in Requests, Decodable(r), NEW now \in Times
    PROVE  /\ Decoded(c, r, now) \in Seq(Backend!Entity)
           /\ Len(Decoded(c, r, now)) <= MaxBatch
           /\ \A k \in DOMAIN Decoded(c, r, now) : Decoded(c, r, now)[k].id \in Own(c)
<1> DEFINE b == Decoded(c, r, now)
<1>1. b \in Seq(Backend!Entity)
  <2>1. b \in Batches
    <3>1. r \in {q \in Requests : Decodable(q)}
      OBVIOUS
    <3> QED
      BY <3>1, SMTT(20) DEF Batches
  <2> HIDE DEF b
  <2> QED
    BY <2>1, ManagerAssumption DEF Backend!WellFormed
<1>2. r \in Seq(Element \cup {Undecodable}) /\ Len(r) <= MaxBatch /\ MaxBatch \in Nat
  BY ManagerAssumption DEF Decodable
<1>3. DOMAIN r = 1..Len(r) /\ Len(r) \in Nat /\ \A k \in DOMAIN r : r[k] \in Element
  <2>1. DOMAIN r = 1..Len(r) /\ Len(r) \in Nat
    BY <1>2, LenProperties
  <2>2. \A k \in DOMAIN r : r[k] \in Element \cup {Undecodable} /\ r[k] # Undecodable
    BY <1>2, <2>1, ElementOfSeq DEF Decodable
  <2> QED
    BY <2>1, <2>2
<1>4. DOMAIN b = DOMAIN r
  BY DEF Decoded
<1>5. Len(b) = Len(r)
  BY <1>1, <1>3, <1>4, LenProperties
<1>6. ASSUME NEW k \in DOMAIN b PROVE b[k].id \in Own(c)
  <2>1. k \in DOMAIN r /\ k \in 1..MaxBatch /\ r[k].id \in ClientIds \cup {BlankId, NoId}
    BY <1>2, <1>3, <1>4 DEF Element
  <2>2. b[k].id = IF r[k].id = NoId THEN Generated(c, k) ELSE r[k].id
    BY <2>1 DEF Decoded
  <2> QED
    BY <2>1, <2>2 DEF Own
<1> QED
  BY <1>1, <1>2, <1>5, <1>6

LEMMA TypedInit == Init => Typed
<1> SUFFICES ASSUME Init PROVE Typed
  OBVIOUS
<1>1. <<>> \in Seq(Backend!Entity) /\ Len(<<>>) = 0
  OBVIOUS
<1>2. Backend!EmptyStore \in Backend!Store
  BY DEF Backend!EmptyStore, Backend!Store
<1> QED
  BY <1>1, <1>2, ManagerAssumption DEF Init, Typed, TypeOK, Backend!Stages

LEMMA TypedStep == Typed /\ [Next]_vars => Typed'
<1> SUFFICES ASSUME Typed, [Next]_vars PROVE Typed'
  OBVIOUS
<1> USE DEF backend
<1>0. MaxBatch \in Nat
  BY ManagerAssumption
<1>1. ASSUME NEW c \in Calls, Decode(c) PROVE Typed'
  <2>1. PICK r \in Requests, now \in Times :
            Decodable(r) /\ entities' = [entities EXCEPT ![c] = Decoded(c, r, now)]
    BY <1>1 DEF Decode
  <2>2. entities' \in [Calls -> Seq(Backend!Entity)] /\ \A d \in Calls : Len(entities'[d]) <= MaxBatch
    BY <2>1, DecodedBatch DEF Typed, TypeOK
  <2> QED
    BY <1>1, <2>2 DEF Decode, Goto, Typed, TypeOK
<1>2. ASSUME NEW c \in Calls, RejectArguments(c) PROVE Typed'
  BY <1>2 DEF RejectArguments, Goto, Typed, TypeOK
<1>3. ASSUME NEW c \in Calls, Audit(c) PROVE Typed'
  <2> DEFINE entry == [call |-> c, id |-> entities[c][at[c]].id]
  <2>1. entities[c] \in Seq(Backend!Entity) /\ at[c] \in 1..Len(entities[c])
        /\ Len(entities[c]) \in Nat /\ Len(entities[c]) <= MaxBatch
    BY <1>0, <1>3, LenProperties DEF Audit, Typed, TypeOK
  <2>2. entities[c][at[c]] \in Backend!Entity
    BY <2>1, ElementOfSeq
  <2>3. entry \in [call : Calls, id : Ids \cup {BlankId}]
    BY <2>2 DEF Backend!Entity
  <2>4. \/ audit' = audit \cup {entry} /\ unwritten' = unwritten
        \/ unwritten' = unwritten \cup {entry} /\ audit' = audit
    BY <1>3 DEF Audit
  <2>5. audit' \cup unwritten' \subseteq [call : Calls, id : Ids \cup {BlankId}]
    BY <2>3, <2>4 DEF Typed, TypeOK
  <2>6. at' \in [Calls -> 1..(MaxBatch + 1)]
    BY <1>0, <1>3, <2>1 DEF Audit, Typed, TypeOK
  <2> QED
    BY <1>3, <2>5, <2>6 DEF Audit, Typed, TypeOK
<1>4. ASSUME NEW c \in Calls, Submit(c) PROVE Typed'
  <2>1. PICK b \in Batches : batch' = [batch EXCEPT ![c] = b]
    BY <1>4 DEF Submit, Backend!Invoke
  <2>2. b = entities[c]
    BY <1>4, <2>1 DEF Submit, Typed
  <2>3. batch' \in [Calls -> Seq(Backend!Entity)]
    BY <2>1, <2>2 DEF Typed, TypeOK
  <2>4. stage' = [stage EXCEPT ![c] = "called"] /\ store' = store
    BY <1>4 DEF Submit, Backend!Invoke
  <2> QED
    BY <1>4, <2>3, <2>4 DEF Submit, Goto, Typed, TypeOK, Backend!Stages
<1>5. ASSUME NEW c \in Calls, BackendStep(c) PROVE Typed'
  <2>1. store' \in Backend!Store
    BY <1>5, PutAllStores DEF BackendStep, Backend!Apply, Backend!Reply, Backend!Refuse, Typed, TypeOK
  <2>2. stage' \in [Calls -> Backend!Stages] /\ batch' = batch
    BY <1>5 DEF BackendStep, Backend!Apply, Backend!Reply, Backend!Refuse, Backend!Stages, Typed, TypeOK
  <2> QED
    BY <1>5, <2>1, <2>2 DEF BackendStep, Typed, TypeOK
<1>6. ASSUME NEW c \in Calls, Respond(c) PROVE Typed'
  BY <1>6 DEF Respond, Goto, Typed, TypeOK
<1>7. CASE Crash
  <2>1. store' \in Backend!Store
    BY <1>7 DEF Crash, Backend!Crash, Backend!EmptyStore, Backend!Store, Typed, TypeOK
  <2>2. stage' \in [Calls -> Backend!Stages] /\ batch' = batch
    BY <1>7 DEF Crash, Backend!Crash, Backend!Stages, Typed, TypeOK
  <2>3. pc' \in [Calls -> {"idle", "audit", "storing", "success", "error", "lost"}]
    BY <1>7 DEF Crash, Typed, TypeOK
  <2> QED
    BY <1>7, <2>1, <2>2, <2>3 DEF Crash, Typed, TypeOK
<1>8. CASE UNCHANGED vars
  BY <1>8 DEF vars, Typed, TypeOK
<1> QED
  BY <1>1, <1>2, <1>3, <1>4, <1>5, <1>6, <1>7, <1>8 DEF Next, CallStep

(* The manager and the backend under it keep their types; in particular    *)
(* the store files each entity under its own identifier.                   *)
THEOREM TypeCorrect == Spec => []TypeOK
<1>1. Typed => TypeOK
  BY DEF Typed
<1> QED
  BY <1>1, TypedInit, TypedStep, PTL DEF Spec

-----------------------------------------------------------------------------
(* How far a call has come in the manager, in the backend and in the audit *)
(* loop: the backend has what was decoded, and all of it was audited.      *)
Progress ==
    \A c \in Calls :
        /\ pc[c] \in {"idle", "audit"} => stage[c] = "idle"
        /\ pc[c] = "idle" => at[c] = 1
        /\ pc[c] = "storing" => stage[c] \in {"called", "stored", "ok", "error"}
        /\ pc[c] = "success" => stage[c] = "ok"
        /\ pc[c] = "error" => stage[c] \in {"idle", "error"}
        /\ stage[c] # "idle" =>
              batch[c] = entities[c] /\ (Auditing => at[c] > Len(entities[c]))

Staged == Typed /\ Progress

LEMMA StagedInit == Init => Staged
  BY TypedInit DEF Staged, Progress, Init

LEMMA StagedStep == Staged /\ [Next]_vars => Staged'
<1> SUFFICES ASSUME Staged, [Next]_vars PROVE Progress'
  BY TypedStep DEF Staged
<1> USE DEF backend
<1>0. Typed
  BY DEF Staged
<1>1. ASSUME NEW c \in Calls, Decode(c) PROVE Progress'
  BY <1>0, <1>1 DEF Staged, Progress, Decode, Goto, Typed, TypeOK
<1>2. ASSUME NEW c \in Calls, RejectArguments(c) PROVE Progress'
  BY <1>0, <1>2 DEF Staged, Progress, RejectArguments, Goto, Typed, TypeOK
<1>3. ASSUME NEW c \in Calls, Audit(c) PROVE Progress'
  BY <1>0, <1>3 DEF Staged, Progress, Audit, Typed, TypeOK
<1>4. ASSUME NEW c \in Calls, Submit(c) PROVE Progress'
  <2>1. /\ stage' = [stage EXCEPT ![c] = "called"] /\ pc' = [pc EXCEPT ![c] = "storing"]
        /\ batch'[c] = entities[c] /\ (Auditing => at[c] > Len(entities[c]))
        /\ entities' = entities /\ at' = at
    BY <1>4 DEF Submit, Goto, Backend!Invoke
  <2>2. \A d \in Calls : d # c => batch'[d] = batch[d]
    BY <1>0, <1>4 DEF Submit, Backend!Invoke, Typed
  <2> QED
    BY <1>0, <2>1, <2>2 DEF Staged, Progress, Typed, TypeOK
<1>5. ASSUME NEW c \in Calls, BackendStep(c) PROVE Progress'
  <2>1. PICK how \in {"stored", "ok", "error"} :
            /\ stage' = [stage EXCEPT ![c] = how]
            /\ stage[c] \in {"called", "stored"}
    <3>1. CASE Backend!Apply(c)
      BY <3>1 DEF Backend!Apply
    <3>2. CASE Backend!Reply(c)
      BY <3>2 DEF Backend!Reply
    <3>3. CASE Backend!Refuse(c)
      BY <3>3 DEF Backend!Refuse
    <3> QED
      BY <1>5, <3>1, <3>2, <3>3 DEF BackendStep
  <2>2. batch' = batch /\ UNCHANGED <<pc, entities, at>>
    BY <1>5 DEF BackendStep, Backend!Apply, Backend!Reply, Backend!Refuse
  <2> QED
    BY <1>0, <2>1, <2>2 DEF Staged, Progress, Typed, TypeOK
<1>6. ASSUME NEW c \in Calls, Respond(c) PROVE Progress'
  BY <1>0, <1>6 DEF Staged, Progress, Respond, Goto, Typed, TypeOK
<1>7. CASE Crash
  <2>1. \A c \in Calls :
            /\ pc'[c] = IF pc[c] \in {"audit", "storing"} THEN "lost" ELSE pc[c]
            /\ stage'[c] = IF stage[c] \in {"called", "stored"} THEN "lost" ELSE stage[c]
    BY <1>7 DEF Crash, Backend!Crash
  <2>2. batch' = batch /\ entities' = entities /\ at' = at
    BY <1>7 DEF Crash, Backend!Crash
  <2> QED
    BY <2>1, <2>2 DEF Staged, Progress
<1>8. CASE UNCHANGED vars
  BY <1>8 DEF vars, Staged, Progress
<1> QED
  BY <1>1, <1>2, <1>3, <1>4, <1>5, <1>6, <1>7, <1>8 DEF Next, CallStep

-----------------------------------------------------------------------------
(* The audit file.                                                         *)

Entries == audit \cup unwritten

(* The entities the audit loop is past have their entries.                 *)
Covered ==
    \A c \in Calls : \A k \in DOMAIN entities[c] :
        k < at[c] => \E entry \in Entries : entry.id = entities[c][k].id

Audited == Staged /\ Covered /\ StoredIsAudited

LEMMA AuditedInit == Init => Audited
<1> SUFFICES ASSUME Init PROVE Audited
  OBVIOUS
<1>1. \A c \in Calls : DOMAIN entities[c] = {}
  BY DEF Init
<1>2. \A i \in Ids : store[i] = NoEntity
  BY DEF Init, Backend!EmptyStore
<1> QED
  BY <1>1, <1>2, StagedInit DEF Audited, Covered, StoredIsAudited

LEMMA AuditedStep == Audited /\ [Next]_vars => Audited'
<1> SUFFICES ASSUME Audited, [Next]_vars PROVE Covered' /\ StoredIsAudited'
  BY StagedStep DEF Audited
<1> USE DEF backend
<1>0. Staged /\ Typed /\ Progress
  BY DEF Audited, Staged
<1>1. ASSUME NEW c \in Calls, Decode(c) PROVE Covered' /\ StoredIsAudited'
  <2>1. at[c] = 1 /\ at' = at /\ store' = store /\ Entries' = Entries
        /\ audit' = audit /\ unwritten' = unwritten
    BY <1>0, <1>1 DEF Decode, Progress, Entries
  <2>2. \A d \in Calls : d # c => entities'[d] = entities[d]
    BY <1>0, <1>1 DEF Decode, Typed, TypeOK
  <2>3. \A k \in DOMAIN entities'[c] : ~(k < at'[c])
    <3>1. entities'[c] \in Seq(Backend!Entity)
      BY TypedStep, <1>0 DEF Typed, TypeOK
    <3>2. DOMAIN entities'[c] = 1..Len(entities'[c]) /\ Len(entities'[c]) \in Nat
      BY <3>1, LenProperties
    <3> QED
      BY <2>1, <3>2
  <2> QED
    BY <2>1, <2>2, <2>3 DEF Audited, Covered, StoredIsAudited
<1>2. ASSUME NEW c \in Calls, Audit(c) PROVE Covered' /\ StoredIsAudited'
  <2> DEFINE entry == [call |-> c, id |-> entities[c][at[c]].id]
  <2>1. /\ Entries' = Entries \cup {entry}
        /\ entities' = entities /\ store' = store /\ at' = [at EXCEPT ![c] = @ + 1]
    BY <1>2 DEF Audit, Entries
  <2>2. entry.id = entities[c][at[c]].id
    OBVIOUS
  <2> HIDE DEF entry
  <2>3. StoredIsAudited'
    BY <2>1 DEF Audited, StoredIsAudited, Entries
  <2>4. ASSUME NEW d \in Calls, NEW k \in DOMAIN entities'[d], k < at'[d]
        PROVE  \E e \in Entries' : e.id = entities'[d][k].id
    <3>1. k \in Nat /\ at[d] \in Nat
      BY <1>0, <2>1, LenProperties DEF Typed, TypeOK
    <3>2. CASE k < at[d]
      BY <2>1, <3>2 DEF Audited, Covered
    <3>3. CASE ~(k < at[d])
      <4>1. d = c /\ k = at[c]
        BY <1>0, <2>1, <2>4, <3>1, <3>3 DEF Typed, TypeOK
      <4> QED
        BY <2>1, <2>2, <4>1
    <3> QED
      BY <3>2, <3>3
  <2> QED
    BY <2>3, <2>4 DEF Covered
<1>3. ASSUME NEW c \in Calls, Backend!Apply(c), BackendStep(c) PROVE Covered' /\ StoredIsAudited'
  <2>1. UNCHANGED <<entities, at, audit, unwritten>>
    BY <1>3 DEF BackendStep
  <2>2. /\ stage[c] = "called" /\ store' = Backend!PutAll(store, batch[c])
        /\ batch[c] = entities[c] /\ (Auditing => at[c] > Len(entities[c]))
    BY <1>0, <1>3 DEF Backend!Apply, Progress
  <2>3. ASSUME Auditing, NEW i \in Ids, store'[i] # NoEntity
        PROVE  \E entry \in Entries : entry.id = i
    <3>1. entities[c] \in Seq(Backend!Entity) /\ store \in Backend!Store
      BY <1>0 DEF Typed, TypeOK
    <3>2. store[i] # NoEntity \/ Backend!Mentions(entities[c], i)
      BY <2>2, <2>3, <3>1, PutAllStores
    <3>3. CASE store[i] # NoEntity
      BY <2>3, <3>3 DEF Audited, StoredIsAudited, Entries
    <3>4. CASE Backend!Mentions(entities[c], i)
      <4>1. PICK k \in DOMAIN entities[c] : entities[c][k].id = i
        BY <3>4 DEF Backend!Mentions
      <4>2. k < at[c]
        <5>1. k \in 1..Len(entities[c]) /\ Len(entities[c]) \in Nat /\ at[c] \in Nat
          BY <1>0, <3>1, <4>1, LenProperties DEF Typed, TypeOK
        <5> QED
          BY <2>2, <2>3, <5>1
      <4> QED
        BY <4>1, <4>2 DEF Audited, Covered
    <3> QED
      BY <3>2, <3>3, <3>4
  <2> QED
    BY <2>1, <2>3 DEF Audited, Covered, StoredIsAudited, Entries
<1>4. CASE Crash
  <2>1. UNCHANGED <<entities, at, audit, unwritten>>
    BY <1>4 DEF Crash
  <2>2. \A i \in Ids : store'[i] = store[i] \/ store'[i] = NoEntity
    BY <1>4 DEF Crash, Backend!Crash, Backend!EmptyStore
  <2> QED
    BY <2>1, <2>2 DEF Audited, Covered, StoredIsAudited, Entries
<1>5. ASSUME UNCHANGED <<store, entities, at, audit, unwritten>> PROVE Covered' /\ StoredIsAudited'
  BY <1>5 DEF Audited, Covered, StoredIsAudited, Entries
<1>6. ASSUME NEW c \in Calls, BackendStep(c) PROVE Covered' /\ StoredIsAudited'
  <2>1. CASE Backend!Apply(c)
    BY <1>3, <1>6, <2>1
  <2>2. CASE Backend!Reply(c) \/ Backend!Refuse(c)
    BY <1>5, <1>6, <2>2 DEF BackendStep, Backend!Reply, Backend!Refuse
  <2> QED
    BY <1>6, <2>1, <2>2 DEF BackendStep
<1>7. ASSUME NEW c \in Calls, RejectArguments(c) \/ Submit(c) \/ Respond(c)
      PROVE  Covered' /\ StoredIsAudited'
  BY <1>5, <1>7 DEF RejectArguments, Submit, Respond, Backend!Invoke
<1>8. CASE UNCHANGED vars
  BY <1>5, <1>8 DEF vars
<1> QED
  BY <1>1, <1>2, <1>4, <1>6, <1>7, <1>8 DEF Next, CallStep

(* Nothing is in the store that was not audited, or could not be, before   *)
(* it was stored, whatever calls overlap and wherever the process ends.    *)
THEOREM StoredWasAudited == Spec => []StoredIsAudited
<1>1. Audited => StoredIsAudited
  BY DEF Audited
<1> QED
  BY <1>1, AuditedInit, AuditedStep, PTL DEF Spec

-----------------------------------------------------------------------------
(* The answers.                                                            *)

OwnIdsOnly == \A c \in Calls : \A k \in DOMAIN entities[c] : entities[c][k].id \in Own(c)

(* A call that has stored nothing, and may never: nobody else has stored   *)
(* anything under the identifiers made for it.                             *)
Untouched ==
    \A c \in Calls, k \in 1..MaxBatch :
        stage[c] \in {"idle", "called", "error"} => store[Generated(c, k)] = NoEntity

(* What a call has stored stays.                                           *)
Kept ==
    Durable => \A c \in Calls : stage[c] \in {"stored", "ok"} =>
        \A k \in DOMAIN entities[c] :
            entities[c][k].id \in Ids /\ store[entities[c][k].id] # NoEntity

Answering == Staged /\ OwnIdsOnly /\ Untouched /\ Kept

(* No call uses an identifier made for another.                            *)
LEMMA OthersAreForeign ==
    ASSUME NEW c \in Calls, NEW d \in Calls, c # d, NEW k \in 1..MaxBatch
    PROVE  Generated(d, k) \in Ids /\ Generated(d, k) \notin Own(c)
<1>1. Generated(d, k) \in Ids
  BY DEF Ids
<1>2. Generated(d, k) \notin ClientIds /\ Generated(d, k) # BlankId
  BY <1>1, ManagerAssumption DEF Backend!WellFormed
<1>3. \A j \in 1..MaxBatch : Generated(d, k) # Generated(c, j)
  BY DEF Generated
<1> QED
  BY <1>1, <1>2, <1>3 DEF Own

LEMMA AnsweringInit == Init => Answering
<1> SUFFICES ASSUME Init PROVE Answering
  OBVIOUS
<1>1. OwnIdsOnly
  BY DEF Init, OwnIdsOnly
<1>2. Untouched
  BY DEF Init, Untouched, Backend!EmptyStore, Ids
<1>3. Kept
  BY DEF Init, Kept
<1> QED
  BY <1>1, <1>2, <1>3, StagedInit DEF Answering

LEMMA AnsweringStep == Answering /\ [Next]_vars => Answering'
<1> SUFFICES ASSUME Answering, [Next]_vars PROVE OwnIdsOnly' /\ Untouched' /\ Kept'
  BY StagedStep DEF Answering
<1> USE DEF backend
<1>0. Staged /\ Typed /\ Progress
  BY DEF Answering, Staged
<1>1. ASSUME NEW c \in Calls, Decode(c) PROVE OwnIdsOnly' /\ Untouched' /\ Kept'
  <2>1. stage' = stage /\ store' = store /\ stage[c] = "idle"
    BY <1>0, <1>1 DEF Decode, Progress
  <2>2. PICK r \in Requests, now \in Times :
            Decodable(r) /\ entities' = [entities EXCEPT ![c] = Decoded(c, r, now)]
    BY <1>1 DEF Decode
  <2>3. entities'[c] = Decoded(c, r, now) /\ \A d \in Calls : d # c => entities'[d] = entities[d]
    BY <1>0, <2>2 DEF Typed, TypeOK
  <2>4. OwnIdsOnly'
    BY <2>2, <2>3, DecodedBatch DEF Answering, OwnIdsOnly, Own
  <2> QED
    BY <2>1, <2>3, <2>4 DEF Answering, Untouched, Kept
<1>2. ASSUME NEW c \in Calls, Backend!Apply(c), BackendStep(c) PROVE OwnIdsOnly' /\ Untouched' /\ Kept'
  <2>1. /\ stage[c] = "called" /\ stage' = [stage EXCEPT ![c] = "stored"]
        /\ store' = Backend!PutAll(store, entities[c]) /\ entities' = entities
        /\ \A k \in DOMAIN entities[c] : entities[c][k].id # BlankId
    BY <1>0, <1>2 DEF Backend!Apply, Backend!Acceptable, BackendStep, Progress
  <2>2. entities[c] \in Seq(Backend!Entity) /\ store \in Backend!Store
        /\ stage'[c] = "stored" /\ \A d \in Calls : d # c => stage'[d] = stage[d]
    BY <1>0, <2>1 DEF Typed, TypeOK
  <2>3. \A i \in Ids : store'[i] # NoEntity <=> store[i] # NoEntity \/ Backend!Mentions(entities[c], i)
    BY <2>1, <2>2, PutAllStores
  <2>4. OwnIdsOnly'
    BY <2>1 DEF Answering, OwnIdsOnly, Own
  <2>5. Untouched'
    <3> SUFFICES ASSUME NEW d \in Calls, NEW k \in 1..MaxBatch, stage'[d] \in {"idle", "called", "error"}
                 PROVE  store'[Generated(d, k)] = NoEntity
      BY DEF Untouched
    <3>1. d # c /\ store[Generated(d, k)] = NoEntity
      BY <2>2 DEF Answering, Untouched
    <3>2. Generated(d, k) \in Ids /\ Generated(d, k) \notin Own(c)
      BY <3>1, OthersAreForeign
    <3>3. ~Backend!Mentions(entities[c], Generated(d, k))
      BY <3>2 DEF Answering, OwnIdsOnly, Backend!Mentions
    <3> QED
      BY <2>3, <3>1, <3>2, <3>3
  <2>6. \A k \in DOMAIN entities[c] :
            entities[c][k].id \in Ids /\ Backend!Mentions(entities[c], entities[c][k].id)
    <3>1. \A k \in DOMAIN entities[c] : entities[c][k] \in Backend!Entity
      BY <2>2, ElementOfSeq, LenProperties
    <3> QED
      BY <2>1, <3>1 DEF Backend!Entity, Backend!Mentions
  <2>7. Kept'
    <3> SUFFICES ASSUME Durable, NEW d \in Calls, stage'[d] \in {"stored", "ok"},
                        NEW k \in DOMAIN entities[d]
                 PROVE  entities[d][k].id \in Ids /\ store'[entities[d][k].id] # NoEntity
      BY <2>1 DEF Kept
    <3>1. CASE d = c
      BY <2>3, <2>6, <3>1
    <3>2. CASE d # c
      BY <2>2, <2>3, <3>2 DEF Answering, Kept
    <3> QED
      BY <3>1, <3>2
  <2> QED
    BY <2>4, <2>5, <2>7
<1>3. ASSUME NEW c \in Calls, Backend!Reply(c) \/ Backend!Refuse(c), BackendStep(c)
      PROVE  OwnIdsOnly' /\ Untouched' /\ Kept'
  <2>1. store' = store /\ entities' = entities
    BY <1>3 DEF BackendStep, Backend!Reply, Backend!Refuse
  <2>2. \/ stage[c] = "stored" /\ stage' = [stage EXCEPT ![c] = "ok"]
        \/ stage[c] = "called" /\ stage' = [stage EXCEPT ![c] = "error"]
    BY <1>3 DEF Backend!Reply, Backend!Refuse
  <2>3. \A d \in Calls :
            /\ stage'[d] \in {"idle", "called", "error"} => stage[d] \in {"idle", "called", "error"}
            /\ stage'[d] \in {"stored", "ok"} => stage[d] \in {"stored", "ok"}
    BY <1>0, <2>2 DEF Typed, TypeOK
  <2> QED
    BY <2>1, <2>3 DEF Answering, OwnIdsOnly, Own, Untouched, Kept
<1>4. CASE Crash
  <2>1. /\ entities' = entities
        /\ store' = IF Durable THEN store ELSE Backend!EmptyStore
        /\ stage' = [c \in Calls |-> IF stage[c] \in {"called", "stored"} THEN "lost" ELSE stage[c]]
    BY <1>4 DEF Crash, Backend!Crash
  <2>2. \A i \in Ids : Backend!EmptyStore[i] = NoEntity
    BY DEF Backend!EmptyStore
  <2>3. \A c \in Calls, k \in 1..MaxBatch : Generated(c, k) \in Ids
    BY DEF Ids
  <2>4. \A c \in Calls :
            /\ stage'[c] \in {"idle", "called", "error"} => stage[c] \in {"idle", "called", "error"}
            /\ stage'[c] \in {"stored", "ok"} => stage[c] \in {"stored", "ok"}
    BY <2>1
  <2>5. OwnIdsOnly' /\ Kept'
    BY <2>1, <2>4 DEF Answering, OwnIdsOnly, Own, Kept
  <2>6. Untouched'
    BY <2>1, <2>2, <2>3, <2>4 DEF Answering, Untouched
  <2> QED
    BY <2>5, <2>6
<1>5. ASSUME NEW c \in Calls, Submit(c) PROVE OwnIdsOnly' /\ Untouched' /\ Kept'
  <2>1. /\ stage[c] = "idle" /\ stage' = [stage EXCEPT ![c] = "called"]
        /\ store' = store /\ entities' = entities
    BY <1>5 DEF Submit, Backend!Invoke
  <2> QED
    BY <1>0, <2>1 DEF Answering, OwnIdsOnly, Own, Untouched, Kept, Typed, TypeOK
<1>6. ASSUME UNCHANGED <<store, stage, entities>> PROVE OwnIdsOnly' /\ Untouched' /\ Kept'
  BY <1>6 DEF Answering, OwnIdsOnly, Own, Untouched, Kept
<1>7. ASSUME NEW c \in Calls, RejectArguments(c) \/ Audit(c) \/ Respond(c)
      PROVE  OwnIdsOnly' /\ Untouched' /\ Kept'
  BY <1>6, <1>7 DEF RejectArguments, Audit, Respond
<1>8. CASE UNCHANGED vars
  BY <1>6, <1>8 DEF vars
<1>9. ASSUME NEW c \in Calls, BackendStep(c) PROVE OwnIdsOnly' /\ Untouched' /\ Kept'
  BY <1>2, <1>3, <1>9 DEF BackendStep
<1> QED
  BY <1>1, <1>4, <1>5, <1>7, <1>8, <1>9 DEF Next, CallStep

(* After "success" every entity of the request is stored, for good; after  *)
(* an error none of them was stored by this call.                          *)
THEOREM AnswersTrue == Spec => []AnswersAreTrue
<1>1. Answering => AnswersAreTrue
  BY DEF Answering, Staged, Progress, Untouched, Kept, AnswersAreTrue
<1> QED
  BY <1>1, AnsweringInit, AnsweringStep, PTL DEF Spec
=============================================================================
