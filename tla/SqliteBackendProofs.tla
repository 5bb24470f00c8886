------------------------- MODULE SqliteBackendProofs -------------------------
(***************************************************************************)
(* Proofs about SqliteBackend, for any calls, batches, readers, finite set *)
(* of identifiers, schemas and contents of the file, with faults or        *)
(* without.                                                                *)
(***************************************************************************)
EXTENDS SqliteBackend, SequenceLemmas, FiniteSetTheorems

-----------------------------------------------------------------------------
(* What a batch makes of a store that is upserted.                         *)

(* The last row for an identifier gives its contents, the first the        *)
(* creation time of an entity that was not there before.                   *)
LEMMA FirstWithIs ==
    ASSUME NEW b \in Seq(Entity), NEW i, NEW k \in DOMAIN b, b[k].id = i,
           \A j \in DOMAIN b : b[j].id = i => k <= j
    PROVE  Promise!FirstWith(b, i) = k
<1> DEFINE m == Promise!FirstWith(b, i)
<1>1. DOMAIN b = 1..Len(b) /\ Len(b) \in Nat
  BY LenProperties
<1>2. m \in DOMAIN b /\ b[m].id = i /\ \A j \in DOMAIN b : b[j].id = i => m <= j
  BY DEF Promise!FirstWith
<1> HIDE DEF m
<1>3. m <= k /\ k <= m /\ m \in Int /\ k \in Int
  BY <1>1, <1>2
<1> QED
  BY <1>3 DEF m

LEMMA LastWithIs ==
    ASSUME NEW b \in Seq(Entity), NEW i, NEW k \in DOMAIN b, b[k].id = i,
           \A j \in DOMAIN b : b[j].id = i => j <= k
    PROVE  Promise!LastWith(b, i) = k
<1> DEFINE m == Promise!LastWith(b, i)
<1>1. DOMAIN b = 1..Len(b) /\ Len(b) \in Nat
  BY LenProperties
<1>2. m \in DOMAIN b /\ b[m].id = i /\ \A j \in DOMAIN b : b[j].id = i => j <= m
  BY DEF Promise!LastWith
<1> HIDE DEF m
<1>3. m <= k /\ k <= m /\ m \in Int /\ k \in Int
  BY <1>1, <1>2
<1> QED
  BY <1>3 DEF m

LEMMA RowsExist ==
    ASSUME NEW b \in Seq(Entity), NEW i, Promise!Mentions(b, i)
    PROVE  /\ Promise!FirstWith(b, i) \in DOMAIN b
           /\ b[Promise!FirstWith(b, i)].id = i
           /\ \A j \in DOMAIN b : b[j].id = i => Promise!FirstWith(b, i) <= j
           /\ Promise!LastWith(b, i) \in DOMAIN b
           /\ b[Promise!LastWith(b, i)].id = i
           /\ \A j \in DOMAIN b : b[j].id = i => j <= Promise!LastWith(b, i)
           /\ b[Promise!FirstWith(b, i)] \in Entity
           /\ b[Promise!LastWith(b, i)] \in Entity
<1> DEFINE T == {k \in DOMAIN b : b[k].id = i}
<1>1. DOMAIN b = 1..Len(b) /\ Len(b) \in Nat /\ \A k \in DOMAIN b : b[k] \in Entity
  BY LenProperties, ElementOfSeq
<1>2. T \subseteq 1..Len(b) /\ T # {}
  BY <1>1 DEF Promise!Mentions
<1>3. /\ \E k \in T : \A j \in T : k <= j
      /\ \E k \in T : \A j \in T : j <= k
  BY <1>1, <1>2, FirstAndLast
<1>4. \E k \in DOMAIN b : b[k].id = i /\ \A j \in DOMAIN b : b[j].id = i => k <= j
  BY <1>3
<1>5. \E k \in DOMAIN b : b[k].id = i /\ \A j \in DOMAIN b : b[j].id = i => j <= k
  BY <1>3
<1>6. Promise!FirstWith(b, i) \in DOMAIN b /\ b[Promise!FirstWith(b, i)].id = i
      /\ \A j \in DOMAIN b : b[j].id = i => Promise!FirstWith(b, i) <= j
  BY <1>4 DEF Promise!FirstWith
<1>7. Promise!LastWith(b, i) \in DOMAIN b /\ b[Promise!LastWith(b, i)].id = i
      /\ \A j \in DOMAIN b : b[j].id = i => j <= Promise!LastWith(b, i)
  BY <1>5 DEF Promise!LastWith
<1> QED
  BY <1>1, <1>6, <1>7

(* What the store has of an identifier after the batch.                    *)
LEMMA PutIsStore ==
    ASSUME NEW s, NEW b
    PROVE  Promise!PutAll(s, b) = [i \in Ids |-> Promise!PutAll(s, b)[i]]
  BY DEF Promise!PutAll

LEMMA PutOther ==
    ASSUME NEW s, NEW b, NEW i \in Ids, ~Promise!Mentions(b, i)
    PROVE  Promise!PutAll(s, b)[i] = s[i]
  BY DEF Promise!PutAll

LEMMA PutRow ==
    ASSUME NEW s, NEW b \in Seq(Entity), NEW i \in Ids, Promise!Mentions(b, i)
    PROVE  Promise!PutAll(s, b)[i] =
              [b[Promise!LastWith(b, i)] EXCEPT
                  !.created = IF s[i] = NoEntity THEN b[Promise!FirstWith(b, i)].created
                              ELSE s[i].created]
  BY DEF Promise!PutAll

LEMMA PutAllStores ==
    ASSUME NEW s \in Promise!Store, NEW b \in Seq(Entity)
    PROVE  /\ Promise!PutAll(s, b) \in Promise!Store
           /\ \A i \in Ids :
                 s[i] # NoEntity => /\ Promise!PutAll(s, b)[i] # NoEntity
                                    /\ Promise!PutAll(s, b)[i].created = s[i].created
<1> DEFINE t == Promise!PutAll(s, b)
<1>1. s \in [Ids -> Entity \cup {NoEntity}] /\ \A i \in Ids : s[i] # NoEntity => s[i].id = i
  BY DEF Promise!Store, Entity
<1>2. NoEntity \notin Entity
  BY SqliteAssumption DEF Promise!WellFormed, Entity
<1>3. t = [i \in Ids |-> t[i]]
  BY PutIsStore
<1>4. ASSUME NEW i \in Ids, ~Promise!Mentions(b, i) PROVE t[i] = s[i]
  BY <1>4, PutOther
<1>5. ASSUME NEW i \in Ids, Promise!Mentions(b, i)
      PROVE  t[i] \in Entity /\ t[i].id = i /\ (s[i] # NoEntity => t[i].created = s[i].created)
  <2> DEFINE last == b[Promise!LastWith(b, i)]
             first == b[Promise!FirstWith(b, i)]
             time == IF s[i] = NoEntity THEN first.created ELSE s[i].created
  <2>1. last \in Entity /\ first \in Entity /\ last.id = i
    BY <1>5, RowsExist
  <2>2. t[i] = [last EXCEPT !.created = time]
    BY <1>5, PutRow
  <2>3. time \in Times
    BY <1>1, <2>1 DEF Entity, Promise!Entity
  <2>4. s[i] # NoEntity => time = s[i].created
    OBVIOUS
  <2> HIDE DEF last, first, time, t
  <2> QED
    BY <2>1, <2>2, <2>3, <2>4 DEF Entity, Promise!Entity
<1> HIDE DEF t
<1>6. t \in Promise!Store
  BY <1>1, <1>3, <1>4, <1>5 DEF Promise!Store, Entity
<1>7. \A i \in Ids : s[i] # NoEntity => t[i] # NoEntity /\ t[i].created = s[i].created
  BY <1>2, <1>4, <1>5
<1> QED
  BY <1>6, <1>7 DEF t

(* An upsert more makes of the store what a row more in the batch does, so *)
(* the insert loop makes of it what the whole batch does.                  *)
LEMMA PutAllAppend ==
    ASSUME NEW s \in Promise!Store, NEW b \in Seq(Entity), NEW e \in Entity, e.id \in Ids
    PROVE  Promise!PutAll(s, Append(b, e)) = Upserted(Promise!PutAll(s, b), e)
<1> DEFINE more == Append(b, e)
           n == Len(b) + 1
           old == Promise!PutAll(s, b)
           new == Promise!PutAll(s, more)
           x == e.id
<1>1. /\ more \in Seq(Entity)
      /\ Len(b) \in Nat /\ DOMAIN b = 1..Len(b) /\ DOMAIN more = 1..n
      /\ more[n] = e
      /\ \A k \in DOMAIN b : more[k] = b[k]
  BY RowsOfAppend
<1> HIDE DEF more
<1>2. n \in DOMAIN more /\ \A j \in DOMAIN more : j <= n
  BY <1>1
<1>3. Promise!LastWith(more, x) = n /\ Promise!Mentions(more, x)
  <2>1. Promise!LastWith(more, x) = n
    BY <1>1, <1>2, LastWithIs
  <2> QED
    BY <1>1, <1>2, <2>1 DEF Promise!Mentions
<1>4. ASSUME NEW i, Promise!Mentions(b, i) PROVE Promise!FirstWith(more, i) = Promise!FirstWith(b, i)
  <2> DEFINE k == Promise!FirstWith(b, i)
  <2>1. k \in DOMAIN b /\ b[k].id = i /\ \A j \in DOMAIN b : b[j].id = i => k <= j
    BY <1>4, RowsExist
  <2> HIDE DEF k
  <2>2. k \in DOMAIN more /\ more[k].id = i
    BY <1>1, <2>1
  <2>3. \A j \in DOMAIN more : more[j].id = i => k <= j
    <3> TAKE j \in DOMAIN more
    <3>1. j \in DOMAIN b \/ j = n
      BY <1>1
    <3>2. k <= n
      BY <1>1, <2>1
    <3> QED
      BY <1>1, <2>1, <3>1, <3>2
  <2>4. Promise!FirstWith(more, i) = k
    BY <1>1, <2>2, <2>3, FirstWithIs
  <2> QED
    BY <2>4 DEF k
<1>5. new[x] = IF old[x] = NoEntity THEN e ELSE [e EXCEPT !.created = old[x].created]
  <2> DEFINE time == IF s[x] = NoEntity THEN more[Promise!FirstWith(more, x)].created
                     ELSE s[x].created
  <2>1. new[x] = [e EXCEPT !.created = time]
    BY <1>1, <1>3, PutRow
  <2>2. NoEntity \notin Entity
    BY SqliteAssumption DEF Promise!WellFormed, Entity
  <2>3. CASE Promise!Mentions(b, x)
    <3> DEFINE last == b[Promise!LastWith(b, x)]
               first == b[Promise!FirstWith(b, x)]
    <3>1. last \in Entity /\ first \in Entity
      BY <2>3, RowsExist
    <3>2. time = IF s[x] = NoEntity THEN first.created ELSE s[x].created
      BY <1>1, <1>4, <2>3, RowsExist
    <3>3. old[x] = [last EXCEPT !.created = time]
      BY <2>3, <3>2, PutRow
    <3>4. time \in Times
      BY <3>1, <3>2 DEF Promise!Store, Entity, Promise!Entity
    <3> HIDE DEF last, time, old
    <3>5. old[x] \in Entity /\ old[x].created = time
      BY <3>1, <3>3, <3>4 DEF Entity, Promise!Entity
    <3> QED
      BY <2>1, <2>2, <3>5
  <2>4. CASE ~Promise!Mentions(b, x)
    <3>1. old[x] = s[x]
      BY <2>4, PutOther
    <3>2. Promise!FirstWith(more, x) = n
      <4>1. \A j \in DOMAIN more : more[j].id = x => n <= j
        BY <1>1, <2>4 DEF Promise!Mentions
      <4> QED
        BY <1>1, <1>2, <4>1, FirstWithIs
    <3>3. time = IF s[x] = NoEntity THEN e.created ELSE s[x].created
      BY <1>1, <3>2
    <3> HIDE DEF time, old
    <3>4. [e EXCEPT !.created = e.created] = e
      BY DEF Entity, Promise!Entity
    <3> QED
      BY <2>1, <3>1, <3>3, <3>4
  <2> QED
    BY <2>3, <2>4
<1>6. ASSUME NEW i \in Ids, i # x PROVE new[i] = old[i]
  <2>1. \A k \in DOMAIN more : more[k].id = i => k \in DOMAIN b
    BY <1>1, <1>6
  <2>2. Promise!Mentions(more, i) <=> Promise!Mentions(b, i)
    BY <1>1, <2>1 DEF Promise!Mentions
  <2>3. CASE Promise!Mentions(b, i)
    <3> DEFINE k == Promise!LastWith(b, i)
               f == Promise!FirstWith(b, i)
    <3>1. k \in DOMAIN b /\ b[k].id = i /\ (\A j \in DOMAIN b : b[j].id = i => j <= k)
          /\ f \in DOMAIN b
      BY <2>3, RowsExist
    <3> HIDE DEF k, f
    <3>2. k \in DOMAIN more /\ more[k] = b[k] /\ more[f] = b[f]
          /\ \A j \in DOMAIN more : more[j].id = i => j <= k
      BY <1>1, <2>1, <3>1
    <3>3. Promise!LastWith(more, i) = k
      BY <1>1, <3>1, <3>2, LastWithIs
    <3>4. Promise!FirstWith(more, i) = f
      BY <1>4, <2>3 DEF f
    <3>5. new[i] = [more[k] EXCEPT !.created = IF s[i] = NoEntity THEN more[f].created
                                               ELSE s[i].created]
      BY <1>1, <2>2, <2>3, <3>3, <3>4, PutRow
    <3>6. old[i] = [b[k] EXCEPT !.created = IF s[i] = NoEntity THEN b[f].created
                                            ELSE s[i].created]
      BY <2>3, PutRow DEF k, f
    <3> QED
      BY <3>2, <3>5, <3>6
  <2>4. CASE ~Promise!Mentions(b, i)
    BY <2>2, <2>4, PutOther
  <2> QED
    BY <2>3, <2>4
<1>7. new = [i \in Ids |-> new[i]] /\ old = [i \in Ids |-> old[i]]
  BY PutIsStore
<1> HIDE DEF new, old
<1>8. new = [old EXCEPT ![x] = IF old[x] = NoEntity THEN e ELSE [e EXCEPT !.created = old[x].created]]
  BY <1>5, <1>6, <1>7
<1> QED
  BY <1>8 DEF new, old, more, Upserted

(* An empty batch leaves the store as it is.                               *)
LEMMA PutNothing ==
    ASSUME NEW s, s = [i \in Ids |-> s[i]]
    PROVE  Promise!PutAll(s, <<>>) = s
<1>1. \A i : ~Promise!Mentions(<<>>, i)
  BY DEF Promise!Mentions
<1> QED
  BY <1>1 DEF Promise!PutAll

-----------------------------------------------------------------------------
(* The invariant.                                                          *)

(* The rows of the file, whose updated_at may be NULL until the server has *)
(* filled it in.                                                           *)
Row == [id : Ids \cup {BlankId}, type : Types, body : Bodies,
        created : Times, updated : Times \cup {Null}]

RowsTyped ==
    /\ rows \in [Ids -> Row \cup {NoEntity}]
    /\ \A i \in Ids : rows[i] # NoEntity => rows[i].id = i
    /\ up = "ready" => rows \in Promise!Store

(* Calls and counts are in progress only while the server is up.           *)
Running ==
    /\ \A c \in Calls : pc[c] \in {"called", "insert", "commit", "return"} => up = "ready"
    /\ \A r \in Readers : counted[r] # Nobody => up = "ready"

(* A call has the write lock from its first INSERT to the end of its       *)
(* transaction, and all rows before next are inserted.                     *)
InTransaction(c) == pc[c] \in {"insert", "commit"}

Transactions ==
    \A c \in Calls :
        /\ pc[c] \in {"idle", "called"} => next[c] = 1
        /\ writer = c => InTransaction(c)
        /\ pc[c] = "insert" => /\ next[c] \in 1..Len(batch[c])
                               /\ next[c] = 1 \/ writer = c
        /\ pc[c] = "commit" => writer = c /\ next[c] = Len(batch[c]) + 1
        /\ InTransaction(c) => \A k \in 1..(next[c] - 1) : batch[c][k].id # BlankId

(* The rows inserted so far.                                               *)
Before(c) == SubSeq(batch[c], 1, next[c] - 1)

(* The transaction sees what its rows make of the committed ones.          *)
ImageIs == \A c \in Calls : writer = c => image = Promise!PutAll(rows, Before(c))

(* A total that was counted is no more than there are now.                 *)
CountedEarlier == \A r \in Readers : counted[r] # Nobody => counted[r] <= Total(rows)

Inv == TypeOK /\ RowsTyped /\ Running /\ Transactions /\ ImageIs /\ CountedEarlier

-----------------------------------------------------------------------------
(* Rows, batches and counts.                                               *)

LEMMA Stages ==
    /\ DOMAIN StageOf = {"idle", "called", "insert", "commit", "return", "ok", "error", "lost"}
    /\ StageOf["idle"] = "idle" /\ StageOf["called"] = "called"
    /\ StageOf["insert"] = "called" /\ StageOf["commit"] = "called"
    /\ StageOf["return"] = "stored"
    /\ StageOf["ok"] = "ok" /\ StageOf["error"] = "error" /\ StageOf["lost"] = "lost"
  BY DEF StageOf

LEMMA BatchTyped ==
    ASSUME TypeOK, NEW c \in Calls
    PROVE  /\ batch[c] \in Seq(Entity)
           /\ Len(batch[c]) \in Nat /\ DOMAIN batch[c] = 1..Len(batch[c])
           /\ \A k \in DOMAIN batch[c] : batch[c][k] \in Entity /\ batch[c][k].id \in Ids \cup {BlankId}
           /\ batch[c] # <<>> => Len(batch[c]) # 0
<1>1. batch[c] \in Batches \cup {<<>>} /\ Batches \subseteq Seq(Entity) /\ <<>> \in Seq(Entity)
  BY SqliteAssumption DEF TypeOK, Promise!WellFormed, Entity
<1>2. batch[c] \in Seq(Entity)
  BY <1>1
<1>3. Len(batch[c]) \in Nat /\ DOMAIN batch[c] = 1..Len(batch[c])
  BY <1>2, LenProperties
<1>4. \A k \in DOMAIN batch[c] : batch[c][k] \in Entity
  BY <1>2, <1>3, ElementOfSeq
<1>5. \A k \in DOMAIN batch[c] : batch[c][k].id \in Ids \cup {BlankId}
  BY <1>4 DEF Entity, Promise!Entity
<1>6. batch[c] # <<>> => Len(batch[c]) # 0
  BY <1>2, EmptySeq
<1> QED
  BY <1>2, <1>3, <1>4, <1>5, <1>6

(* No updated_at is missing in a store.                                    *)
LEMMA StoreIsFilled ==
    ASSUME NEW s \in Promise!Store
    PROVE  [i \in Ids |-> IF s[i] # NoEntity /\ s[i].updated = Null
                          THEN [s[i] EXCEPT !.updated = s[i].created]
                          ELSE s[i]] = s
<1>1. ASSUME NEW i \in Ids, s[i] # NoEntity PROVE s[i].updated # Null
  BY <1>1, SqliteAssumption DEF Promise!Store, Promise!Entity
<1>2. s = [i \in Ids |-> s[i]]
  BY DEF Promise!Store
<1> QED
  BY <1>1, <1>2

(* What the migration makes of the rows is a store; it makes nothing of    *)
(* rows that are one already.                                              *)
LEMMA CommittedTyped ==
    ASSUME RowsTyped
    PROVE  /\ Committed \in Promise!Store
           /\ Committed = [i \in Ids |-> Committed[i]]
           /\ \A i \in Ids : Committed[i] = NoEntity <=> rows[i] = NoEntity
           /\ rows \in Promise!Store => Committed = rows
<1>1. ASSUME NEW i \in Ids, rows[i] # NoEntity
      PROVE  Committed[i] \in Entity /\ Committed[i].id = i /\ Committed[i] # NoEntity
  <2>1. rows[i] \in Row /\ rows[i].id = i
    BY <1>1 DEF RowsTyped
  <2>2. CASE rows[i].updated = Null
    <3>1. Committed[i] = [rows[i] EXCEPT !.updated = rows[i].created]
      BY <1>1, <2>2 DEF Committed
    <3>2. Committed[i] \in Entity /\ Committed[i].id = i
      BY <2>1, <3>1 DEF Row, Entity, Promise!Entity
    <3> QED
      BY <3>2, SqliteAssumption DEF Promise!WellFormed, Entity
  <2>3. CASE rows[i].updated # Null
    <3>1. Committed[i] = rows[i]
      BY <2>3 DEF Committed
    <3>2. rows[i] \in Entity
      BY <2>1, <2>3 DEF Row, Entity, Promise!Entity
    <3> QED
      BY <1>1, <2>1, <3>1, <3>2
  <2> QED
    BY <2>2, <2>3
<1>2. ASSUME NEW i \in Ids, rows[i] = NoEntity PROVE Committed[i] = NoEntity
  BY <1>2 DEF Committed
<1>3. Committed = [i \in Ids |-> Committed[i]]
  BY DEF Committed
<1>4. Committed \in Promise!Store
  <2>1. Committed \in [Ids -> Entity \cup {NoEntity}]
    BY <1>1, <1>2, <1>3
  <2>2. \A i \in Ids : Committed[i] # NoEntity => Committed[i].id = i
    BY <1>1, <1>2
  <2> HIDE DEF Committed
  <2> QED
    BY <2>1, <2>2 DEF Promise!Store, Entity
<1>5. rows \in Promise!Store => Committed = rows
  BY StoreIsFilled DEF Committed
<1> QED
  BY <1>1, <1>2, <1>3, <1>4, <1>5

(* A store is made of rows.                                                *)
LEMMA StoreIsRows ==
    ASSUME NEW s \in Promise!Store
    PROVE  s \in [Ids -> Row \cup {NoEntity}] /\ \A i \in Ids : s[i] # NoEntity => s[i].id = i
<1>1. Entity \subseteq Row
  BY DEF Entity, Promise!Entity, Row
<1> QED
  BY <1>1 DEF Promise!Store, Entity

(* There are no more entities than identifiers, of any type or in all, and *)
(* a store with more of them has no fewer.                                 *)
LEMMA CountBounded ==
    ASSUME NEW T \in SUBSET Ids
    PROVE  Cardinality(T) \in 0..Cardinality(Ids) /\ Cardinality(T) \in Nat /\ IsFiniteSet(T)
<1>1. IsFiniteSet(Ids)
  BY SqliteAssumption
<1>2. IsFiniteSet(T) /\ Cardinality(T) <= Cardinality(Ids)
  BY <1>1, FS_Subset
<1>3. Cardinality(T) \in Nat /\ Cardinality(Ids) \in Nat
  BY <1>1, <1>2, FS_CardinalityType
<1> QED
  BY <1>2, <1>3

LEMMA TotalTyped == ASSUME NEW s PROVE Total(s) \in 0..Cardinality(Ids) /\ Total(s) \in Nat
<1> DEFINE all == {i \in Ids : s[i] # NoEntity}
<1>1. Total(s) = Cardinality(all)
  BY DEF Total, Count
<1>2. all \in SUBSET Ids
  OBVIOUS
<1> HIDE DEF all
<1> QED
  BY <1>1, <1>2, CountBounded

LEMMA ByTypeTyped == ASSUME NEW s PROVE ByType(s) \in [Types \ {NoType} -> 0..Cardinality(Ids)]
<1> DEFINE typed(t) == {i \in Ids : s[i] # NoEntity /\ s[i].type = t}
<1>1. ByType(s) = [t \in Types \ {NoType} |-> Cardinality(typed(t))]
  BY DEF ByType, Count
<1>2. \A t : typed(t) \in SUBSET Ids
  OBVIOUS
<1> HIDE DEF typed
<1>3. \A t : Cardinality(typed(t)) \in 0..Cardinality(Ids)
  BY <1>2, CountBounded
<1> QED
  BY <1>1, <1>3

LEMMA TotalGrows ==
    ASSUME NEW s, NEW t, \A i \in Ids : s[i] # NoEntity => t[i] # NoEntity
    PROVE  Total(s) <= Total(t)
<1> DEFINE S == {i \in Ids : s[i] # NoEntity}
           T == {i \in Ids : t[i] # NoEntity}
<1>1. Total(s) = Cardinality(S) /\ Total(t) = Cardinality(T)
  BY DEF Total, Count
<1>2. S \in SUBSET T /\ T \in SUBSET Ids
  OBVIOUS
<1> HIDE DEF S, T
<1>3. IsFiniteSet(T)
  BY <1>2, CountBounded
<1>4. Cardinality(S) <= Cardinality(T)
  BY <1>2, <1>3, FS_Subset
<1> QED
  BY <1>1, <1>4

-----------------------------------------------------------------------------
(* The initial states.                                                     *)

LEMMA InvInit == Init => Inv
<1> SUFFICES ASSUME Init PROVE Inv
  OBVIOUS
<1>1. /\ rows \in [Ids -> Row \cup {NoEntity}]
      /\ \A i \in Ids : rows[i] # NoEntity => rows[i].id = i
  <2>1. PICK s \in InitialStores :
           rows = CASE schema = "absent"  -> [i \in Ids |-> NoEntity]
                    [] schema = "old"     -> WithoutUpdated(s)
                    [] schema = "current" -> s
    BY DEF Init
  <2>2. schema \in {"absent", "old", "current"}
    BY SqliteAssumption DEF Init
  <2>3. s \in Promise!Store
    BY SqliteAssumption
  <2>4. CASE schema = "absent"
    BY <2>1, <2>4
  <2>5. CASE schema = "old"
    <3>1. rows = [i \in Ids |-> IF s[i] = NoEntity THEN s[i] ELSE [s[i] EXCEPT !.updated = Null]]
      BY <2>1, <2>5 DEF WithoutUpdated
    <3>2. ASSUME NEW i \in Ids, s[i] # NoEntity
          PROVE  [s[i] EXCEPT !.updated = Null] \in Row /\ [s[i] EXCEPT !.updated = Null].id = i
      <4>1. s[i] \in Entity /\ s[i].id = i
        BY <2>3, <3>2 DEF Promise!Store, Entity
      <4> QED
        BY <4>1 DEF Entity, Promise!Entity, Row
    <3>3. ASSUME NEW i \in Ids
          PROVE  rows[i] = NoEntity \/ (rows[i] \in Row /\ rows[i].id = i)
      BY <3>1, <3>2
    <3>4. rows = [i \in Ids |-> rows[i]]
      BY <3>1
    <3> QED
      BY <3>3, <3>4
  <2>6. CASE schema = "current"
    <3>1. rows = s
      BY <2>1, <2>6
    <3> QED
      BY <2>3, <3>1, StoreIsRows
  <2> QED
    BY <2>2, <2>4, <2>5, <2>6
<1>2. RowsTyped
  BY <1>1 DEF RowsTyped, Init
<1>3. Promise!EmptyStore \in Promise!Store
  BY DEF Promise!EmptyStore, Promise!Store
<1>4. ByType(Promise!EmptyStore) \in [Types \ {NoType} -> 0..Cardinality(Ids)]
  BY ByTypeTyped
<1>5. stats \in [Readers -> [entities : 0..Cardinality(Ids),
                             byType : [Types \ {NoType} -> 0..Cardinality(Ids)]]]
  <2>1. 0 \in 0..Cardinality(Ids)
    BY SqliteAssumption, FS_CardinalityType
  <2> DEFINE none == [entities |-> 0, byType |-> ByType(Promise!EmptyStore)]
  <2>2. none \in [entities : 0..Cardinality(Ids), byType : [Types \ {NoType} -> 0..Cardinality(Ids)]]
    BY <1>4, <2>1
  <2>3. stats = [r \in Readers |-> none]
    BY DEF Init
  <2> HIDE DEF none
  <2> QED
    BY <2>2, <2>3
<1>6. TypeOK
  <2>1. /\ schema \in {"absent", "old", "current"} /\ up = "down" /\ writer = Nobody
        /\ batch \in [Calls -> Batches \cup {<<>>}] /\ next \in [Calls -> Nat \ {0}]
        /\ pc \in [Calls -> DOMAIN StageOf]
        /\ counted \in [Readers -> 0..Cardinality(Ids) \cup {Nobody}]
        /\ image \in Promise!Store
    BY <1>3, SqliteAssumption, Stages DEF Init
  <2>2. Committed \in Promise!Store
    BY <1>2, CommittedTyped
  <2> QED
    BY <1>5, <2>1, <2>2 DEF TypeOK
<1>7. Running /\ Transactions /\ ImageIs /\ CountedEarlier
  BY SqliteAssumption DEF Init, Running, Transactions, InTransaction, ImageIs, CountedEarlier
<1> QED
  BY <1>2, <1>6, <1>7 DEF Inv

-----------------------------------------------------------------------------
(* Transactions.                                                           *)

(* An INSERT adds the row to what the transaction sees.                    *)
LEMMA InsertAddsRow ==
    ASSUME Inv, NEW c \in Calls, Insert(c)
    PROVE  /\ next[c] \in 1..Len(batch[c])
           /\ image' = Promise!PutAll(rows, SubSeq(batch[c], 1, next[c]))
           /\ image' \in Promise!Store
<1> DEFINE b == batch[c]
           n == next[c]
           row == b[n]
           before == SubSeq(b, 1, n - 1)
           table == IF writer = c THEN image ELSE rows
<1>0. TypeOK /\ RowsTyped /\ Running /\ Transactions /\ ImageIs
  BY DEF Inv
<1>1. /\ pc[c] = "insert" /\ writer \in {Nobody, c} /\ row.id # BlankId
      /\ image' = Upserted(table, row)
  BY DEF Insert
<1>2. n \in 1..Len(b) /\ (n = 1 \/ writer = c)
  BY <1>0, <1>1 DEF Transactions
<1>3. b \in Seq(Entity) /\ row \in Entity /\ row.id \in Ids
  BY <1>0, <1>1, <1>2, BatchTyped
<1>4. rows \in Promise!Store
  BY <1>0, <1>1 DEF Running, RowsTyped
<1>5. before \in Seq(Entity) /\ SubSeq(b, 1, n) = Append(before, row)
  BY <1>2, <1>3, PrefixGrows
<1>6. table = Promise!PutAll(rows, before)
  <2>1. CASE writer = c
    BY <1>0, <2>1 DEF ImageIs, Before
  <2>2. CASE writer # c
    <3>1. n = 1 /\ n - 1 = 0
      BY <1>2, <2>2
    <3>2. before = <<>>
      BY <3>1, SubSeqEmpty
    <3>3. rows = [i \in Ids |-> rows[i]]
      BY <1>4 DEF Promise!Store
    <3> QED
      BY <2>2, <3>2, <3>3, PutNothing
  <2> QED
    BY <2>1, <2>2
<1>7. Promise!PutAll(rows, Append(before, row)) = Upserted(Promise!PutAll(rows, before), row)
  <2> HIDE DEF before, row
  <2> QED
    BY <1>3, <1>4, <1>5, PutAllAppend
<1>8. image' = Promise!PutAll(rows, SubSeq(b, 1, n))
  BY <1>1, <1>5, <1>6, <1>7
<1>9. SubSeq(b, 1, n) \in Seq(Entity)
  <2>1. before \in Seq(Entity) /\ row \in Entity
    BY <1>3, <1>5
  <2> HIDE DEF before, row
  <2>2. Append(before, row) \in Seq(Entity)
    BY <2>1, AppendProperties
  <2> QED
    BY <1>5, <2>2
<1>10. image' \in Promise!Store
  BY <1>4, <1>8, <1>9, PutAllStores
<1> QED
  BY <1>2, <1>8, <1>10

(* A COMMIT makes the whole batch visible.                                 *)
LEMMA CommitStores ==
    ASSUME Inv, NEW c \in Calls, Commit(c)
    PROVE  /\ rows \in Promise!Store
           /\ rows' = Promise!PutAll(rows, batch[c])
           /\ rows' \in Promise!Store
           /\ \A k \in DOMAIN batch[c] : batch[c][k].id # BlankId
<1> DEFINE b == batch[c]
<1>0. TypeOK /\ RowsTyped /\ Running /\ Transactions /\ ImageIs
  BY DEF Inv
<1>1. pc[c] = "commit" /\ rows' = image
  BY DEF Commit
<1>2. /\ writer = c /\ next[c] = Len(b) + 1
      /\ \A k \in 1..(next[c] - 1) : b[k].id # BlankId
  BY <1>0, <1>1 DEF Transactions, InTransaction
<1>3. b \in Seq(Entity) /\ Len(b) \in Nat /\ DOMAIN b = 1..Len(b)
  BY <1>0, BatchTyped
<1>4. rows \in Promise!Store
  BY <1>0, <1>1 DEF Running, RowsTyped
<1>5. next[c] - 1 = Len(b)
  BY <1>2, <1>3
<1>6. Before(c) = b
  BY <1>3, <1>5, SubSeqFull DEF Before
<1>7. rows' = Promise!PutAll(rows, b)
  BY <1>0, <1>1, <1>2, <1>6 DEF ImageIs
<1>8. rows' \in Promise!Store
  BY <1>3, <1>4, <1>7, PutAllStores
<1> QED
  BY <1>2, <1>3, <1>4, <1>5, <1>7, <1>8

(* Only a COMMIT changes what a reader can see: the migration writes what  *)
(* a missing updated_at already stood for.                                 *)
LEMMA CommittedStep ==
    ASSUME Inv, [Next]_vars
    PROVE  /\ RowsTyped'
           /\ (\A c \in Calls : ~Commit(c)) => Committed' = Committed
           /\ \A c \in Calls : Commit(c) => Committed = rows /\ Committed' = rows'
           /\ \A i \in Ids : rows[i] # NoEntity => rows'[i] # NoEntity
<1>0. RowsTyped /\ TypeOK
  BY DEF Inv
<1>1. ASSUME rows' \in Promise!Store PROVE RowsTyped' /\ Committed' = rows'
  <2>1. rows' \in [Ids -> Row \cup {NoEntity}] /\ \A i \in Ids : rows'[i] # NoEntity => rows'[i].id = i
    BY <1>1, StoreIsRows
  <2>2. Committed' = rows'
    BY <1>1, StoreIsFilled DEF Committed
  <2> QED
    BY <1>1, <2>1, <2>2 DEF RowsTyped, Row
<1>2. ASSUME NEW c \in Calls, Commit(c)
      PROVE  /\ RowsTyped' /\ Committed = rows /\ Committed' = rows'
             /\ \A i \in Ids : rows[i] # NoEntity => rows'[i] # NoEntity
  <2>1. /\ rows \in Promise!Store /\ rows' \in Promise!Store
        /\ rows' = Promise!PutAll(rows, batch[c]) /\ batch[c] \in Seq(Entity)
    BY <1>0, <1>2, CommitStores, BatchTyped
  <2>2. \A i \in Ids : rows[i] # NoEntity => rows'[i] # NoEntity
    BY <2>1, PutAllStores
  <2> QED
    BY <1>0, <1>1, <2>1, <2>2, CommittedTyped
<1>3. CASE FillUpdated
  <2>1. rows' = Committed /\ \A c \in Calls : ~Commit(c)
    BY <1>3 DEF FillUpdated, Commit, Running, Inv
  <2>2. rows' \in Promise!Store /\ \A i \in Ids : rows[i] # NoEntity => rows'[i] # NoEntity
    BY <1>0, <2>1, CommittedTyped
  <2> QED
    BY <1>1, <2>1, <2>2
<1>4. ASSUME rows' = rows, up' = "ready" => up = "ready"
      PROVE  RowsTyped' /\ Committed' = Committed
  BY <1>0, <1>4 DEF RowsTyped, Committed, Row
<1>5. CASE Start \/ CreateTable \/ AddColumn \/ StartupFault \/ Crash
  <2>1. rows' = rows /\ up' # "ready"
    BY <1>5 DEF Start, CreateTable, AddColumn, StartupFault, Crash, file
  <2> QED
    BY <1>2, <1>4, <2>1
<1>6. ASSUME NEW c \in Calls,
             Invoke(c) \/ NothingToStore(c) \/ Begin(c) \/ Insert(c) \/ RejectBlank(c)
                \/ Return(c) \/ Fail(c)
      PROVE  rows' = rows /\ up' = up
  BY <1>6 DEF Invoke, NothingToStore, Begin, Insert, RejectBlank, Return, Fail, file
<1>7. ASSUME NEW r \in Readers, CountAll(r) \/ CountTypes(r) \/ CountFails(r)
      PROVE  rows' = rows /\ up' = up
  BY <1>7 DEF CountAll, CountTypes, CountFails, file
<1>8. CASE UNCHANGED vars
  BY <1>2, <1>4, <1>8 DEF vars, file
<1> QED
  BY <1>2, <1>3, <1>4, <1>5, <1>6, <1>7, <1>8 DEF Next, CallStep

-----------------------------------------------------------------------------
(* Types.                                                                  *)

Statistics == [entities : 0..Cardinality(Ids),
               byType : [Types \ {NoType} -> 0..Cardinality(Ids)]]

LEMMA TypeStep == Inv /\ [Next]_vars => TypeOK'
<1> SUFFICES ASSUME Inv, [Next]_vars PROVE TypeOK'
  OBVIOUS
<1>0. Committed' \in Promise!Store
  <2>1. CASE \A c \in Calls : ~Commit(c)
    BY <2>1, CommittedStep DEF Inv, TypeOK
  <2>2. ASSUME NEW c \in Calls, Commit(c) PROVE Committed' \in Promise!Store
    BY <2>2, CommittedStep, CommitStores
  <2> QED
    BY <2>1, <2>2
<1>e. Promise!EmptyStore \in Promise!Store
  BY DEF Promise!EmptyStore, Promise!Store
<1> DEFINE Rest ==
      /\ schema' \in {"absent", "old", "current"}
      /\ up' \in {"down", "create", "addColumn", "fill", "ready", "failed"}
      /\ writer' \in Calls \cup {Nobody}
      /\ image' \in Promise!Store
      /\ batch' \in [Calls -> Batches \cup {<<>>}]
      /\ next' \in [Calls -> Nat \ {0}]
      /\ pc' \in [Calls -> DOMAIN StageOf]
      /\ counted' \in [Readers -> 0..Cardinality(Ids) \cup {Nobody}]
      /\ stats' \in [Readers -> Statistics]
<1> USE Stages DEF Inv, TypeOK, file, tx, calls, counts, Statistics
<1>1. ASSUME Start \/ CreateTable \/ AddColumn \/ FillUpdated \/ StartupFault PROVE Rest
  BY <1>1 DEF Start, CreateTable, AddColumn, FillUpdated, StartupFault
<1>2. ASSUME NEW c \in Calls, Invoke(c) PROVE Rest
  BY <1>2 DEF Invoke, Goto
<1>3. ASSUME NEW c \in Calls, NothingToStore(c) \/ Begin(c) \/ Return(c) PROVE Rest
  BY <1>3 DEF NothingToStore, Begin, Return, Goto
<1>4. ASSUME NEW c \in Calls, Insert(c) PROVE Rest
  <2>1. image' \in Promise!Store
    BY <1>4, InsertAddsRow
  <2>2. next' \in [Calls -> Nat \ {0}]
    BY <1>4 DEF Insert
  <2>3. pc' \in [Calls -> DOMAIN StageOf] /\ writer' \in Calls \cup {Nobody}
    BY <1>4 DEF Insert, Goto
  <2> QED
    BY <1>4, <2>1, <2>2, <2>3 DEF Insert
<1>5. ASSUME NEW c \in Calls, RejectBlank(c) \/ Commit(c) \/ Fail(c) PROVE Rest
  <2>1. image' \in Promise!Store /\ writer' \in Calls \cup {Nobody}
    BY <1>e, <1>5 DEF RejectBlank, Commit, Fail, EndTransaction
  <2> QED
    BY <1>5, <2>1 DEF RejectBlank, Commit, Fail, Goto
<1>6. ASSUME NEW r \in Readers, CountAll(r) \/ CountFails(r) PROVE Rest
  <2>1. Total(rows) \in 0..Cardinality(Ids)
    BY TotalTyped
  <2>2. counted' \in [Readers -> 0..Cardinality(Ids) \cup {Nobody}]
    BY <1>6, <2>1 DEF CountAll, CountFails
  <2> QED
    BY <1>6, <2>2 DEF CountAll, CountFails
<1>7. ASSUME NEW r \in Readers, CountTypes(r) PROVE Rest
  <2> DEFINE answer == [entities |-> counted[r], byType |-> ByType(rows)]
  <2>1. answer \in Statistics
    <3>1. ByType(rows) \in [Types \ {NoType} -> 0..Cardinality(Ids)]
      BY ByTypeTyped
    <3>2. counted[r] \in 0..Cardinality(Ids)
      BY <1>7 DEF CountTypes
    <3> QED
      BY <3>1, <3>2
  <2>2. stats' = [stats EXCEPT ![r] = answer]
    BY <1>7 DEF CountTypes
  <2> HIDE DEF answer
  <2>3. stats' \in [Readers -> Statistics]
    BY <2>1, <2>2
  <2>4. counted' \in [Readers -> 0..Cardinality(Ids) \cup {Nobody}]
    BY <1>7 DEF CountTypes
  <2> QED
    BY <1>7, <2>3, <2>4 DEF CountTypes
<1>8. ASSUME Crash PROVE Rest
  BY <1>e, <1>8 DEF Crash
<1>9. ASSUME UNCHANGED vars PROVE Rest
  BY <1>9 DEF vars
<1>10. Rest
  BY <1>1, <1>2, <1>3, <1>4, <1>5, <1>6, <1>7, <1>8, <1>9 DEF Next, CallStep
<1> QED
  BY <1>0, <1>10

-----------------------------------------------------------------------------
(* Who runs, and who has the write lock.                                   *)

LEMMA RunningStep == Inv /\ [Next]_vars => Running'
<1> SUFFICES ASSUME Inv, [Next]_vars PROVE Running'
  OBVIOUS
<1> USE DEF Inv, TypeOK, Running, file, tx, calls, counts
<1>1. CASE Start \/ CreateTable \/ AddColumn \/ FillUpdated \/ StartupFault
  BY <1>1 DEF Start, CreateTable, AddColumn, FillUpdated, StartupFault
<1>2. ASSUME NEW c \in Calls, Invoke(c) \/ NothingToStore(c) \/ Begin(c) \/ Return(c)
      PROVE  Running'
  BY <1>2 DEF Invoke, NothingToStore, Begin, Return, Goto
<1>3. ASSUME NEW c \in Calls, Insert(c) PROVE Running'
  BY <1>3 DEF Insert, Goto
<1>4. ASSUME NEW c \in Calls, RejectBlank(c) \/ Commit(c) \/ Fail(c) PROVE Running'
  BY <1>4 DEF RejectBlank, Commit, Fail, Goto
<1>5. ASSUME NEW r \in Readers, CountAll(r) \/ CountTypes(r) \/ CountFails(r) PROVE Running'
  BY <1>5 DEF CountAll, CountTypes, CountFails
<1>6. CASE Crash
  BY <1>6 DEF Crash
<1>7. CASE UNCHANGED vars
  BY <1>7 DEF vars
<1> QED
  BY <1>1, <1>2, <1>3, <1>4, <1>5, <1>6, <1>7 DEF Next, CallStep

LEMMA TransactionsStep == Inv /\ [Next]_vars => Transactions'
<1> SUFFICES ASSUME Inv, [Next]_vars PROVE Transactions'
  OBVIOUS
<1> USE SqliteAssumption DEF Inv, TypeOK, Transactions, InTransaction, file, tx, calls, counts
<1>1. CASE Start \/ CreateTable \/ AddColumn \/ FillUpdated \/ StartupFault
  BY <1>1 DEF Start, CreateTable, AddColumn, FillUpdated, StartupFault
<1>2. ASSUME NEW c \in Calls, Invoke(c) PROVE Transactions'
  BY <1>2 DEF Invoke, Goto
<1>3. ASSUME NEW c \in Calls, NothingToStore(c) \/ Return(c) PROVE Transactions'
  <2>1. /\ pc[c] \in {"called", "return"} /\ pc'[c] \in {"return", "ok"}
        /\ \A d \in Calls : d # c => pc'[d] = pc[d]
        /\ UNCHANGED <<writer, batch, next>>
    BY <1>3 DEF NothingToStore, Return, Goto
  <2> QED
    BY <2>1
<1>4. ASSUME NEW c \in Calls, Begin(c) PROVE Transactions'
  <2>1. batch[c] # <<>> /\ pc[c] = "called" /\ next[c] = 1
    BY <1>4 DEF Begin
  <2>2. 1 \in 1..Len(batch[c]) /\ \A k \in 1..(1 - 1) : batch[c][k].id # BlankId
    BY <2>1, BatchTyped
  <2>3. pc' = [pc EXCEPT ![c] = "insert"] /\ UNCHANGED <<writer, batch, next>>
    BY <1>4 DEF Begin, Goto
  <2> QED
    BY <2>1, <2>2, <2>3
<1>5. ASSUME NEW c \in Calls, Insert(c) PROVE Transactions'
  <2> DEFINE b == batch[c]
             n == next[c]
  <2>1. /\ n \in 1..Len(b) /\ Len(b) \in Nat /\ n \in Nat /\ pc[c] = "insert"
        /\ b[n].id # BlankId /\ writer \in {Nobody, c}
        /\ \A k \in 1..(n - 1) : b[k].id # BlankId
    BY <1>5, InsertAddsRow, BatchTyped DEF Insert
  <2>2. /\ batch' = batch /\ writer' = c /\ next' = [next EXCEPT ![c] = n + 1]
        /\ pc' = [pc EXCEPT ![c] = IF n = Len(b) THEN "commit" ELSE "insert"]
    BY <1>5 DEF Insert, Goto
  <2>3. \A k \in 1..((n + 1) - 1) : b[k].id # BlankId
    <3>1. \A k \in 1..((n + 1) - 1) : k \in 1..(n - 1) \/ k = n
      BY <2>1
    <3> QED
      BY <2>1, <3>1
  <2>4. ASSUME NEW d \in Calls, d # c PROVE
           /\ pc'[d] = pc[d] /\ next'[d] = next[d] /\ batch'[d] = batch[d]
           /\ writer # d /\ writer' # d
    BY <2>1, <2>2, <2>4
  <2>5. pc'[c] = "insert" => n + 1 \in 1..Len(b)
    BY <2>1, <2>2
  <2>6. pc'[c] = "commit" => n + 1 = Len(b) + 1
    BY <2>2
  <2>7. pc'[c] \in {"insert", "commit"} /\ next'[c] = n + 1 /\ batch'[c] = b
    BY <2>2
  <2> HIDE DEF b, n
  <2>8. ASSUME NEW d \in Calls, d # c
        PROVE  /\ pc'[d] \in {"idle", "called"} => next'[d] = 1
               /\ writer' = d => pc'[d] \in {"insert", "commit"}
               /\ pc'[d] = "insert" => /\ next'[d] \in 1..Len(batch'[d])
                                       /\ next'[d] = 1 \/ writer' = d
               /\ pc'[d] = "commit" => writer' = d /\ next'[d] = Len(batch'[d]) + 1
               /\ pc'[d] \in {"insert", "commit"} =>
                     \A k \in 1..(next'[d] - 1) : batch'[d][k].id # BlankId
    BY <2>4, <2>8
  <2> QED
    BY <2>2, <2>3, <2>5, <2>6, <2>7, <2>8
<1>6. ASSUME NEW c \in Calls, RejectBlank(c) \/ Commit(c) \/ Fail(c) PROVE Transactions'
  <2>1. /\ \/ pc' = [pc EXCEPT ![c] = "return"]
           \/ pc' = [pc EXCEPT ![c] = "error"]
        /\ UNCHANGED <<batch, next>>
        /\ writer' = IF writer = c THEN Nobody ELSE writer
    BY <1>6 DEF RejectBlank, Commit, Fail, Goto, EndTransaction
  <2>2. pc'[c] \in {"return", "error"} /\ writer' # c
    BY <2>1
  <2>3. ASSUME NEW d \in Calls, d # c
        PROVE  pc'[d] = pc[d] /\ (writer' = d <=> writer = d)
    BY <2>1, <2>3
  <2> QED
    BY <2>1, <2>2, <2>3
<1>7. ASSUME NEW r \in Readers, CountAll(r) \/ CountTypes(r) \/ CountFails(r)
      PROVE  Transactions'
  BY <1>7 DEF CountAll, CountTypes, CountFails
<1>8. CASE Crash
  BY <1>8 DEF Crash
<1>9. CASE UNCHANGED vars
  BY <1>9 DEF vars
<1> QED
  BY <1>1, <1>2, <1>3, <1>4, <1>5, <1>6, <1>7, <1>8, <1>9 DEF Next, CallStep

(* Whoever has the write lock is the only one to change the rows, and the  *)
(* rows change when it gives the lock back.                                *)
LEMMA ImageStep == Inv /\ [Next]_vars => ImageIs'
<1> SUFFICES ASSUME Inv, [Next]_vars, NEW d \in Calls, writer' = d
             PROVE  image' = Promise!PutAll(rows', Before(d)')
  BY DEF ImageIs
<1> USE SqliteAssumption DEF Inv, TypeOK, file, tx, calls, counts
<1>b. Before(d)' = SubSeq(batch'[d], 1, next'[d] - 1)
  BY DEF Before
<1>k. ASSUME writer = d, image' = image, rows' = rows, batch'[d] = batch[d], next'[d] = next[d]
      PROVE  image' = Promise!PutAll(rows', Before(d)')
  BY <1>k, <1>b DEF ImageIs, Before
<1>1. CASE Start \/ CreateTable \/ AddColumn \/ FillUpdated \/ StartupFault
  <2>1. up # "ready" /\ writer' = writer
    BY <1>1 DEF Start, CreateTable, AddColumn, FillUpdated, StartupFault
  <2> QED
    BY <2>1 DEF Running, Transactions, InTransaction
<1>2. ASSUME NEW c \in Calls, Invoke(c) \/ NothingToStore(c) \/ Begin(c) \/ Return(c)
      PROVE  image' = Promise!PutAll(rows', Before(d)')
  <2>1. /\ writer' = writer /\ image' = image /\ rows' = rows /\ next' = next
        /\ pc[c] \in {"idle", "called", "return"}
        /\ \A e \in Calls : e # c => batch'[e] = batch[e]
    BY <1>2 DEF Invoke, NothingToStore, Begin, Return
  <2>2. d # c
    BY <2>1 DEF Transactions, InTransaction
  <2> QED
    BY <1>k, <2>1, <2>2
<1>3. ASSUME NEW c \in Calls, Insert(c)
      PROVE  image' = Promise!PutAll(rows', Before(d)')
  <2>1. /\ c = d /\ batch' = batch /\ next'[c] = next[c] + 1 /\ rows' = rows
        /\ next[c] \in Nat
    BY <1>3 DEF Insert
  <2>2. image' = Promise!PutAll(rows, SubSeq(batch[c], 1, next[c]))
    BY <1>3, InsertAddsRow
  <2>3. next'[c] - 1 = next[c]
    BY <2>1
  <2> QED
    BY <1>b, <2>1, <2>2, <2>3
<1>4. ASSUME NEW c \in Calls, RejectBlank(c) \/ Commit(c) \/ Fail(c)
      PROVE  image' = Promise!PutAll(rows', Before(d)')
  <2>1. /\ writer' = IF writer = c THEN Nobody ELSE writer
        /\ image' = IF writer = c THEN Promise!EmptyStore ELSE image
        /\ UNCHANGED <<batch, next>>
        /\ rows' = rows \/ pc[c] = "commit"
    BY <1>4 DEF RejectBlank, Commit, Fail, EndTransaction
  <2>2. writer = d /\ writer # c
    BY <2>1
  <2>3. pc[c] # "commit"
    BY <2>2 DEF Transactions
  <2> QED
    BY <1>k, <2>1, <2>2, <2>3
<1>5. ASSUME NEW r \in Readers, CountAll(r) \/ CountTypes(r) \/ CountFails(r)
      PROVE  image' = Promise!PutAll(rows', Before(d)')
  BY <1>k, <1>5 DEF CountAll, CountTypes, CountFails
<1>6. CASE Crash
  BY <1>6 DEF Crash
<1>7. CASE UNCHANGED vars
  BY <1>k, <1>7 DEF vars
<1> QED
  BY <1>1, <1>2, <1>3, <1>4, <1>5, <1>6, <1>7 DEF Next, CallStep

(* No row ever goes, so a count can only be behind.                        *)
LEMMA CountedStep == Inv /\ [Next]_vars => CountedEarlier'
<1> SUFFICES ASSUME Inv, [Next]_vars, NEW r \in Readers, counted'[r] # Nobody
             PROVE  counted'[r] <= Total(rows)'
  BY DEF CountedEarlier
<1>1. Total(rows)' = Total(rows') /\ Total(rows) <= Total(rows')
  <2>1. \A i \in Ids : rows[i] # NoEntity => rows'[i] # NoEntity
    BY CommittedStep
  <2>2. Total(rows) <= Total(rows')
    BY <2>1, TotalGrows
  <2> QED
    BY <2>2 DEF Total, Count
<1>2. Total(rows) \in Nat /\ Total(rows') \in Nat
  BY TotalTyped
<1>3. counted'[r] = counted[r] \/ counted'[r] = Total(rows)
  <2> USE DEF Inv, TypeOK, calls, counts
  <2>1. CASE Start \/ CreateTable \/ AddColumn \/ FillUpdated \/ StartupFault
    BY <2>1 DEF Start, CreateTable, AddColumn, FillUpdated, StartupFault
  <2>2. ASSUME NEW c \in Calls, Invoke(c) \/ CallStep(c) \/ Fail(c) PROVE counted' = counted
    BY <2>2 DEF Invoke, CallStep, NothingToStore, Begin, Insert, RejectBlank, Commit, Return, Fail
  <2>3. ASSUME NEW p \in Readers, CountAll(p) \/ CountTypes(p) \/ CountFails(p)
        PROVE  counted'[r] = counted[r] \/ counted'[r] = Total(rows)
    BY <2>3 DEF CountAll, CountTypes, CountFails
  <2>4. CASE Crash
    BY <2>4 DEF Crash
  <2>5. CASE UNCHANGED vars
    BY <2>5 DEF vars
  <2> QED
    BY <2>1, <2>2, <2>3, <2>4, <2>5 DEF Next
<1>4. counted'[r] = counted[r] => counted[r] \in Nat /\ counted[r] <= Total(rows)
  <2>1. Cardinality(Ids) \in Nat
    BY SqliteAssumption, FS_CardinalityType
  <2> QED
    BY <2>1 DEF Inv, TypeOK, CountedEarlier
<1> QED
  BY <1>1, <1>2, <1>3, <1>4

LEMMA Invariant == Spec => []Inv
<1>1. Inv /\ [Next]_vars => Inv'
  <2>1. Inv /\ [Next]_vars => RowsTyped'
    BY CommittedStep
  <2> QED
    BY <2>1, TypeStep, RunningStep, TransactionsStep, ImageStep, CountedStep DEF Inv
<1> QED
  BY <1>1, InvInit, PTL DEF Spec

-----------------------------------------------------------------------------
(* What follows.                                                           *)

(* Every variable has its type.                                            *)
THEOREM TypeCorrect == Spec => []TypeOK
<1>1. Inv => TypeOK
  BY DEF Inv
<1> QED
  BY <1>1, Invariant, PTL

(* The entities there are keep their creation times through upserts,       *)
(* crashes and restarts.                                                   *)
THEOREM CreationTimesStay == Spec => CreationTimeKept
<1>1. ASSUME Inv, [Next]_vars
      PROVE  [\A i \in Ids : Committed[i] # NoEntity =>
                /\ Committed'[i] # NoEntity
                /\ Committed'[i].created = Committed[i].created]_vars
  <2>1. CASE \A c \in Calls : ~Commit(c)
    BY <1>1, <2>1, CommittedStep
  <2>2. ASSUME NEW c \in Calls, Commit(c)
        PROVE  \A i \in Ids : Committed[i] # NoEntity =>
                  /\ Committed'[i] # NoEntity
                  /\ Committed'[i].created = Committed[i].created
    <3>1. Committed = rows /\ Committed' = rows'
      BY <1>1, <2>2, CommittedStep
    <3>2. /\ rows \in Promise!Store /\ batch[c] \in Seq(Entity)
          /\ rows' = Promise!PutAll(rows, batch[c])
      BY <1>1, <2>2, CommitStores, BatchTyped DEF Inv
    <3> HIDE DEF Committed
    <3> QED
      BY <3>1, <3>2, PutAllStores
  <2> QED
    BY <2>1, <2>2
<1> QED
  BY <1>1, Invariant, PTL DEF Spec, CreationTimeKept

(* GetStatistics' total is at most the number of entities there are when   *)
(* it returns, and its counts by type are exact then.                      *)
THEOREM StatisticsBracket == Spec => StatisticsBracketed
<1>1. ASSUME Inv, [Next]_vars
      PROVE  [\A r \in Readers : stats'[r] # stats[r] =>
                /\ stats'[r].entities <= Total(Committed)
                /\ stats'[r].byType = ByType(Committed)]_stats
  <2> SUFFICES ASSUME NEW r \in Readers, stats'[r] # stats[r]
               PROVE  /\ stats'[r].entities <= Total(Committed)
                      /\ stats'[r].byType = ByType(Committed)
    OBVIOUS
  <2> USE DEF counts
  <2>1. CASE Start \/ CreateTable \/ AddColumn \/ FillUpdated \/ StartupFault \/ Crash
    BY <2>1 DEF Start, CreateTable, AddColumn, FillUpdated, StartupFault, Crash
  <2>2. ASSUME NEW c \in Calls, Invoke(c) \/ CallStep(c) \/ Fail(c) PROVE stats' = stats
    BY <2>2 DEF Invoke, CallStep, NothingToStore, Begin, Insert, RejectBlank, Commit, Return, Fail
  <2>3. ASSUME NEW p \in Readers, CountAll(p) \/ CountFails(p) PROVE stats' = stats
    BY <2>3 DEF CountAll, CountFails
  <2>4. ASSUME NEW p \in Readers, CountTypes(p)
        PROVE  /\ stats'[r].entities <= Total(Committed)
               /\ stats'[r].byType = ByType(Committed)
    <3> DEFINE answer == [entities |-> counted[p], byType |-> ByType(rows)]
    <3>1. stats' = [stats EXCEPT ![p] = answer] /\ counted[p] # Nobody
      BY <2>4 DEF CountTypes
    <3>2. p = r /\ stats'[r] = answer
      <4> HIDE DEF answer
      <4> QED
        BY <1>1, <3>1 DEF Inv, TypeOK
    <3>3. counted[p] <= Total(rows) /\ up = "ready"
      BY <1>1, <3>1 DEF Inv, CountedEarlier, Running
    <3>4. Committed = rows
      BY <1>1, <3>3, CommittedTyped DEF Inv, RowsTyped
    <3> QED
      BY <3>2, <3>3, <3>4
  <2>5. CASE UNCHANGED vars
    BY <2>5 DEF vars
  <2> QED
    BY <1>1, <2>1, <2>2, <2>3, <2>4, <2>5 DEF Next
<1> QED
  BY <1>1, Invariant, PTL DEF Spec, StatisticsBracketed

-----------------------------------------------------------------------------
(* SqliteBackend implements EntityStore.                                   *)

Stage == [c \in Calls |-> StageOf[pc[c]]]

(* A call that goes from one place to the next goes from that stage to the *)
(* next, or stays.                                                         *)
LEMMA StageMoves ==
    ASSUME TypeOK, NEW c \in Calls, NEW label \in DOMAIN StageOf, Goto(c, label)
    PROVE  /\ Stage[c] = StageOf[pc[c]]
           /\ Stage' = [Stage EXCEPT ![c] = StageOf[label]]
           /\ StageOf[label] = StageOf[pc[c]] => Stage' = Stage
<1>1. \A d \in Calls : pc'[d] = IF d = c THEN label ELSE pc[d]
  BY DEF Goto, TypeOK
<1>2. Stage' = [d \in Calls |-> StageOf[pc'[d]]]
  BY DEF Stage
<1> QED
  BY <1>1, <1>2 DEF Stage

LEMMA PromiseInit == Init => Promise!Init
<1> SUFFICES ASSUME Init PROVE Promise!Init
  OBVIOUS
<1>1. Committed \in Promise!Store
  BY InvInit DEF Inv, TypeOK
<1> QED
  BY <1>1, Stages DEF Init, Promise!Init

LEMMA PromiseStep == Inv /\ [Next]_vars => [Promise!Next]_(Promise!vars)
<1> SUFFICES ASSUME Inv, [Next]_vars PROVE [Promise!Next]_(Promise!vars)
  OBVIOUS
<1> DEFINE Stutter == Committed' = Committed /\ batch' = batch /\ Stage' = Stage
<1>0. TypeOK
  BY DEF Inv
<1>s. Stutter => UNCHANGED Promise!vars
  BY DEF Promise!vars, Stage
<1>q. ASSUME rows' = rows PROVE Committed' = Committed
  BY <1>q DEF Committed
<1> USE DEF file, tx, calls
<1>1. CASE Start \/ CreateTable \/ AddColumn \/ FillUpdated \/ StartupFault
  <2>1. UNCHANGED calls /\ \A c \in Calls : ~Commit(c)
    BY <1>1 DEF Start, CreateTable, AddColumn, FillUpdated, StartupFault, Commit, Inv, Running
  <2>2. Committed' = Committed
    BY <2>1, CommittedStep
  <2>3. Stage' = Stage
    BY <2>1 DEF Stage
  <2> QED
    BY <1>s, <2>1, <2>2, <2>3
<1>2. ASSUME NEW c \in Calls, Invoke(c) PROVE Promise!Next
  <2>1. Committed' = Committed
    BY <1>2, <1>q DEF Invoke
  <2>2. Goto(c, "called") /\ pc[c] = "idle"
    BY <1>2 DEF Invoke
  <2>3. Stage[c] = "idle" /\ Stage' = [Stage EXCEPT ![c] = "called"]
    BY <1>0, <2>2, StageMoves, Stages
  <2>4. Promise!Invoke(c)
    BY <1>2, <2>1, <2>3 DEF Invoke, Promise!Invoke, Stage
  <2> QED
    BY <2>4 DEF Promise!Next
<1>3. ASSUME NEW c \in Calls, NothingToStore(c) PROVE Promise!Next
  <2>1. Committed' = Committed
    BY <1>3, <1>q DEF NothingToStore
  <2>2. Goto(c, "return") /\ pc[c] = "called" /\ batch[c] = <<>> /\ batch' = batch
    BY <1>3 DEF NothingToStore
  <2>3. Stage[c] = "called" /\ Stage' = [Stage EXCEPT ![c] = "stored"]
    BY <1>0, <2>2, StageMoves, Stages
  <2>4. Committed = [i \in Ids |-> Committed[i]]
    BY CommittedTyped DEF Inv
  <2>5. Promise!PutAll(Committed, <<>>) = Committed
    BY <2>4, PutNothing
  <2>6. Promise!Acceptable(Committed, <<>>)
    BY DEF Promise!Acceptable
  <2>7. Promise!Apply(c)
    BY <2>1, <2>2, <2>3, <2>5, <2>6 DEF Promise!Apply, Stage
  <2> QED
    BY <2>7 DEF Promise!Next
<1>4. ASSUME NEW c \in Calls, Begin(c) PROVE UNCHANGED Promise!vars
  <2>1. pc[c] = "called" /\ batch' = batch /\ rows' = rows /\ Goto(c, "insert")
    BY <1>4 DEF Begin
  <2>2. Stage' = Stage
    BY <1>0, <2>1, StageMoves, Stages
  <2> QED
    BY <1>s, <1>q, <2>1, <2>2
<1>5. ASSUME NEW c \in Calls, Insert(c) PROVE UNCHANGED Promise!vars
  <2>1. pc[c] = "insert" /\ batch' = batch /\ rows' = rows
        /\ (Goto(c, "commit") \/ Goto(c, "insert"))
    BY <1>5 DEF Insert
  <2>2. Stage' = Stage
    BY <1>0, <2>1, StageMoves, Stages
  <2> QED
    BY <1>s, <1>q, <2>1, <2>2
<1>6. ASSUME NEW c \in Calls, RejectBlank(c) \/ Fail(c) PROVE Promise!Next
  <2>1. pc[c] \in {"called", "insert", "commit"} /\ batch' = batch /\ rows' = rows
        /\ Goto(c, "error")
    BY <1>6 DEF RejectBlank, Fail
  <2>2. Stage[c] = "called" /\ Stage' = [Stage EXCEPT ![c] = "error"]
    BY <1>0, <2>1, StageMoves, Stages
  <2>3. Promise!Refuse(c)
    BY <1>q, <2>1, <2>2 DEF Promise!Refuse, Stage
  <2> QED
    BY <2>3 DEF Promise!Next
<1>7. ASSUME NEW c \in Calls, Commit(c) PROVE Promise!Next
  <2>1. pc[c] = "commit" /\ batch' = batch /\ Goto(c, "return")
    BY <1>7 DEF Commit
  <2>2. Stage[c] = "called" /\ Stage' = [Stage EXCEPT ![c] = "stored"]
    BY <1>0, <2>1, StageMoves, Stages
  <2>3. Committed = rows /\ Committed' = rows'
    BY <1>7, CommittedStep
  <2>4. rows' = Promise!PutAll(rows, batch[c]) /\ \A k \in DOMAIN batch[c] : batch[c][k].id # BlankId
    BY <1>7, CommitStores
  <2>5. Promise!Acceptable(Committed, batch[c])
    BY <2>4 DEF Promise!Acceptable
  <2>6. Committed' = Promise!PutAll(Committed, batch[c])
    BY <2>3, <2>4
  <2>7. Promise!Apply(c)
    BY <2>1, <2>2, <2>5, <2>6 DEF Promise!Apply, Stage
  <2> QED
    BY <2>7 DEF Promise!Next
<1>8. ASSUME NEW c \in Calls, Return(c) PROVE Promise!Next
  <2>1. pc[c] = "return" /\ batch' = batch /\ rows' = rows /\ Goto(c, "ok")
    BY <1>8 DEF Return
  <2>2. Stage[c] = "stored" /\ Stage' = [Stage EXCEPT ![c] = "ok"]
    BY <1>0, <2>1, StageMoves, Stages
  <2>3. Promise!Reply(c)
    BY <1>q, <2>1, <2>2 DEF Promise!Reply, Stage
  <2> QED
    BY <2>3 DEF Promise!Next
<1>9. ASSUME NEW r \in Readers, CountAll(r) \/ CountTypes(r) \/ CountFails(r)
      PROVE  UNCHANGED Promise!vars
  <2>1. rows' = rows /\ batch' = batch /\ pc' = pc
    BY <1>9 DEF CountAll, CountTypes, CountFails
  <2>2. Stage' = Stage
    BY <2>1 DEF Stage
  <2> QED
    BY <1>s, <1>q, <2>1, <2>2
<1>10. CASE Crash
  <2>1. Committed' = Committed /\ batch' = batch
    BY <1>10, <1>q DEF Crash
  <2>2. Stage' = [c \in Calls |-> IF Stage[c] \in {"called", "stored"} THEN "lost" ELSE Stage[c]]
    BY <1>0, <1>10, Stages DEF Crash, Stage, TypeOK
  <2>3. Promise!Crash
    BY <2>1, <2>2 DEF Promise!Crash, Stage
  <2> QED
    BY <2>3 DEF Promise!Next
<1>11. CASE UNCHANGED vars
  <2>1. rows' = rows /\ batch' = batch /\ pc' = pc
    BY <1>11 DEF vars
  <2>2. Stage' = Stage
    BY <2>1 DEF Stage
  <2> QED
    BY <1>s, <1>q, <2>1, <2>2
<1> QED
  BY <1>1, <1>2, <1>3, <1>4, <1>5, <1>6, <1>7, <1>8, <1>9, <1>10, <1>11 DEF Next, CallStep

(* The row-by-row transaction is one step of EntityStore, at its COMMIT; a *)
(* rollback, an error or a crash is none.  The store outlives the process. *)
THEOREM ImplementsStore == Spec => KeepsPromise
<1>1. Inv /\ [Next]_vars => [Promise!Next]_(Promise!vars)
  BY PromiseStep
<1> QED
  BY <1>1, PromiseInit, Invariant, PTL DEF Spec, KeepsPromise, Promise!Spec
==============================================================================
