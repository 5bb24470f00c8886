------------------------- MODULE MemoryBackendProofs -------------------------
(***************************************************************************)
(* Proofs about MemoryBackend, for any calls, batches, readers and finite  *)
(* set of identifiers.                                                     *)
(***************************************************************************)
EXTENDS MemoryBackend, SequenceLemmas, FiniteSetTheorems

-----------------------------------------------------------------------------
(* What a batch makes of a store that refuses identifiers it has.          *)

(* The row that counts for an identifier is the last one of the batch.     *)
LEMMA LastWithIs ==
    ASSUME NEW b \in Seq(Entity), NEW i, NEW k \in DOMAIN b, b[k].id = i,
           \A j \in DOMAIN b : b[j].id = i => j <= k
    PROVE  Promise!LastWith(b, i) = k
<1> DEFINE m == Promise!LastWith(b, i)
<1>1. DOMAIN b = 1..Len(b) /\ Len(b) \in Nat
  BY LenProperties
<1>2. m \in DOMAIN b /\ b[m].id = i /\ \A j \in DOMAIN b : b[j].id = i => j <= m
  BY DEF Promise!LastWith
<1> HIDE DEF m
<1>3. m <= k /\ k <= m /\ m \in Int /\ k \in Int
  BY <1>1, <1>2
<1> QED
  BY <1>3 DEF m

LEMMA LastWithExists ==
    ASSUME NEW b \in Seq(Entity), NEW i, Promise!Mentions(b, i)
    PROVE  /\ Promise!LastWith(b, i) \in DOMAIN b
           /\ b[Promise!LastWith(b, i)].id = i
           /\ \A j \in DOMAIN b : b[j].id = i => j <= Promise!LastWith(b, i)
<1> DEFINE T == {k \in DOMAIN b : b[k].id = i}
<1>1. DOMAIN b = 1..Len(b) /\ Len(b) \in Nat
  BY LenProperties
<1>2. T \subseteq 1..Len(b) /\ T # {}
  BY <1>1 DEF Promise!Mentions
<1>3. \E k \in T : \A j \in T : j <= k
  BY <1>1, <1>2, FirstAndLast
<1>4. \E k \in DOMAIN b : b[k].id = i /\ \A j \in DOMAIN b : b[j].id = i => j <= k
  BY <1>3
<1> QED
  BY <1>4 DEF Promise!LastWith

(* A row more in the batch is a row more in the store, so the write loop   *)
(* makes of the store what the whole batch makes of it.                    *)
LEMMA PutAllAppend ==
    ASSUME NEW s, NEW b \in Seq(Entity), NEW e \in Entity, e.id \in Ids
    PROVE  Promise!PutAll(s, Append(b, e)) = [Promise!PutAll(s, b) EXCEPT ![e.id] = e]
<1> DEFINE more == Append(b, e)
           put(t) == Promise!PutAll(s, t)
<1>1. /\ more \in Seq(Entity)
      /\ Len(b) \in Nat /\ DOMAIN b = 1..Len(b) /\ DOMAIN more = 1..(Len(b) + 1)
      /\ more[Len(b) + 1] = e
      /\ \A k \in DOMAIN b : more[k] = b[k]
  BY RowsOfAppend
<1>2. \A t : put(t) = [i \in Ids |-> IF ~Promise!Mentions(t, i) THEN s[i]
                                     ELSE t[Promise!LastWith(t, i)]]
  BY DEF Promise!PutAll
<1> HIDE DEF more, put
<1>3. put(more)[e.id] = e
  <2>1. Len(b) + 1 \in DOMAIN more /\ \A j \in DOMAIN more : j <= Len(b) + 1
    BY <1>1
  <2>2. Promise!LastWith(more, e.id) = Len(b) + 1
    BY <1>1, <2>1, LastWithIs
  <2>3. Promise!Mentions(more, e.id)
    BY <1>1, <2>1 DEF Promise!Mentions
  <2> QED
    BY <1>1, <1>2, <2>2, <2>3
<1>4. ASSUME NEW i \in Ids, i # e.id PROVE put(more)[i] = put(b)[i]
  <2>1. \A k \in DOMAIN more : more[k].id = i => k \in DOMAIN b
    BY <1>1, <1>4
  <2>2. Promise!Mentions(more, i) <=> Promise!Mentions(b, i)
    BY <1>1, <2>1 DEF Promise!Mentions
  <2>3. CASE Promise!Mentions(b, i)
    <3> DEFINE k == Promise!LastWith(b, i)
    <3>1. k \in DOMAIN b /\ b[k].id = i /\ \A j \in DOMAIN b : b[j].id = i => j <= k
      BY <2>3, LastWithExists
    <3> HIDE DEF k
    <3>2. k \in DOMAIN more /\ more[k] = b[k]
          /\ \A j \in DOMAIN more : more[j].id = i => j <= k
      BY <1>1, <2>1, <3>1
    <3>3. Promise!LastWith(more, i) = k
      BY <1>1, <3>1, <3>2, LastWithIs
    <3> QED
      BY <1>2, <2>2, <2>3, <3>2, <3>3 DEF k
  <2>4. CASE ~Promise!Mentions(b, i)
    BY <1>2, <2>2, <2>4
  <2> QED
    BY <2>3, <2>4
<1>5. put(more) = [i \in Ids |-> put(more)[i]] /\ put(b) = [i \in Ids |-> put(b)[i]]
  BY <1>2
<1>6. put(more) = [put(b) EXCEPT ![e.id] = e]
  BY <1>3, <1>4, <1>5
<1> QED
  BY <1>6 DEF put, more

(* An empty batch leaves the store as it is.                               *)
LEMMA PutNothing ==
    ASSUME NEW s, s = [i \in Ids |-> s[i]]
    PROVE  Promise!PutAll(s, <<>>) = s
<1>1. \A i : ~Promise!Mentions(<<>>, i)
  BY DEF Promise!Mentions
<1> QED
  BY <1>1 DEF Promise!PutAll

-----------------------------------------------------------------------------
(* The invariant.  Whoever validates or writes has mu; the write loop has  *)
(* made of the committed store what the rows before next make of it.       *)

Locked ==
    /\ \A c \in Calls : pc[c] \in {"validate", "writing"} => mu = c
    /\ \A c \in Calls : pc[c] = "return" => mu = c \/ batch[c] = <<>>
    /\ mu # Nobody => pc[mu] \in {"validate", "writing", "return"}

Rows(c) == SubSeq(batch[c], 1, next[c] - 1)

Looping ==
    \A c \in Calls :
        /\ pc[c] \in {"idle", "called", "lock", "validate"} => next[c] = 1
        /\ pc[c] \in {"lock", "validate", "writing"} => batch[c] # <<>>
        /\ Writing(c) => /\ next[c] \in 1..Len(batch[c])
                         /\ \A k \in DOMAIN batch[c] : batch[c][k].id # BlankId

Written ==
    \A c \in Calls : Writing(c) => entities = Promise!PutAll(Committed, Rows(c))

Inv == TypeOK /\ Locked /\ Looping /\ Written

-----------------------------------------------------------------------------
(* Stages and batches.                                                     *)

LEMMA Stages ==
    /\ DOMAIN StageOf = {"idle", "called", "lock", "validate", "writing", "return",
                         "ok", "error", "lost"}
    /\ StageOf["idle"] = "idle" /\ StageOf["called"] = "called"
    /\ StageOf["lock"] = "called" /\ StageOf["validate"] = "called"
    /\ StageOf["writing"] = "called" /\ StageOf["return"] = "stored"
    /\ StageOf["ok"] = "ok" /\ StageOf["error"] = "error" /\ StageOf["lost"] = "lost"
  BY DEF StageOf

LEMMA BatchTyped ==
    ASSUME TypeOK, NEW c \in Calls
    PROVE  /\ batch[c] \in Seq(Entity)
           /\ Len(batch[c]) \in Nat /\ DOMAIN batch[c] = 1..Len(batch[c])
           /\ \A k \in DOMAIN batch[c] : batch[c][k] \in Entity /\ batch[c][k].id \in Ids \cup {BlankId}
           /\ batch[c] # <<>> => Len(batch[c]) # 0
<1>1. batch[c] \in Batches \cup {<<>>} /\ Batches \subseteq Seq(Entity) /\ <<>> \in Seq(Entity)
  BY MemoryAssumption DEF TypeOK, Promise!WellFormed, Entity
<1>2. batch[c] \in Seq(Entity)
  BY <1>1
<1>3. Len(batch[c]) \in Nat /\ DOMAIN batch[c] = 1..Len(batch[c])
  BY <1>2, LenProperties
<1>4. \A k \in DOMAIN batch[c] : batch[c][k] \in Entity
  BY <1>2, <1>3, ElementOfSeq
<1>5. \A k \in DOMAIN batch[c] : batch[c][k].id \in Ids \cup {BlankId}
  BY <1>4 DEF Entity, Promise!Entity
<1>6. batch[c] # <<>> => Len(batch[c]) # 0
  BY <1>2, EmptySeq
<1> QED
  BY <1>2, <1>3, <1>4, <1>5, <1>6

(* At most one call writes, and nobody writes while mu is free.            *)
LEMMA OneWriter ==
    ASSUME TypeOK, Locked
    PROVE  /\ \A c, d \in Calls : Writing(c) /\ Writing(d) => c = d
           /\ mu = Nobody => \A c \in Calls : ~Writing(c)
  BY MemoryAssumption DEF Locked, Writing

(* Nothing is hidden when nobody writes.                                   *)
LEMMA CommittedIs ==
    ASSUME TypeOK
    PROVE  /\ Committed = [i \in Ids |-> Committed[i]]
           /\ (\A c \in Calls : ~Writing(c)) => Committed = entities
<1>1. entities = [i \in Ids |-> entities[i]]
  BY DEF TypeOK, Store, Promise!Store
<1>2. Committed = [i \in Ids |-> Committed[i]]
  BY DEF Committed
<1>3. ASSUME \A c \in Calls : ~Writing(c) PROVE Committed = entities
  BY <1>1, <1>3 DEF Committed
<1> QED
  BY <1>2, <1>3

(* What is hidden when c writes.                                           *)
LEMMA CommittedWhenWriting ==
    ASSUME TypeOK, Locked, NEW c \in Calls, Writing(c), NEW i \in Ids
    PROVE  Committed[i] = IF Promise!Mentions(batch[c], i) THEN NoEntity ELSE entities[i]
  BY OneWriter DEF Committed, Promise!Mentions

-----------------------------------------------------------------------------
(* Types.                                                                  *)

Statistics == [entities : 0..Cardinality(Ids),
               byType : [Types \ {NoType} -> 0..Cardinality(Ids)]]

(* There are no more entities than identifiers, of any type or in all.     *)
LEMMA StatisticsTyped == ASSUME NEW s PROVE StatisticsOf(s) \in Statistics
<1>1. ASSUME NEW T \in SUBSET Ids PROVE Cardinality(T) \in 0..Cardinality(Ids)
  <2>1. IsFiniteSet(Ids)
    BY MemoryAssumption
  <2>2. IsFiniteSet(T) /\ Cardinality(T) <= Cardinality(Ids)
    BY <2>1, FS_Subset
  <2>3. Cardinality(T) \in Nat /\ Cardinality(Ids) \in Nat
    BY <2>1, <2>2, FS_CardinalityType
  <2> QED
    BY <2>2, <2>3
<1> DEFINE all == {i \in Ids : s[i] # NoEntity}
           typed(t) == {i \in Ids : s[i] # NoEntity /\ s[i].type = t}
<1>2. Cardinality(all) \in 0..Cardinality(Ids)
  BY <1>1
<1>3. ASSUME NEW t PROVE Cardinality(typed(t)) \in 0..Cardinality(Ids)
  BY <1>1
<1>4. StatisticsOf(s) = [entities |-> Cardinality(all),
                         byType |-> [t \in Types \ {NoType} |-> Cardinality(typed(t))]]
  BY DEF StatisticsOf, Count
<1> HIDE DEF all, typed
<1> QED
  BY <1>2, <1>3, <1>4 DEF Statistics

LEMMA InvInit == Init => Inv
<1> SUFFICES ASSUME Init PROVE Inv
  OBVIOUS
<1>1. entities \in Store
  BY DEF Init, Store, Promise!Store
<1>2. stats \in [Readers -> Statistics]
  BY StatisticsTyped DEF Init
<1>3. TypeOK
  <2>1. pc \in [Calls -> DOMAIN StageOf] /\ next \in [Calls -> Nat \ {0}]
        /\ batch \in [Calls -> Batches \cup {<<>>}] /\ found \in [Readers -> SUBSET Entity]
        /\ mu \in Calls \cup {Nobody}
    BY Stages DEF Init
  <2> QED
    BY <1>1, <1>2, <2>1 DEF TypeOK, Statistics
<1>4. Locked /\ Looping /\ Written
  BY MemoryAssumption DEF Init, Locked, Looping, Written, Writing
<1> QED
  BY <1>3, <1>4 DEF Inv

(* A row of a batch is written where it belongs.                           *)
LEMMA WriteTyped ==
    ASSUME Inv, NEW c \in Calls, Write(c)
    PROVE  /\ batch[c][next[c]] \in Entity
           /\ batch[c][next[c]].id \in Ids
           /\ entities' \in Store
<1> DEFINE b == batch[c]
           n == next[c]
<1>1. n \in DOMAIN b /\ b[n] \in Entity /\ b[n].id \in Ids
  BY BatchTyped DEF Inv, Write, Looping, Writing
<1>2. entities' = [entities EXCEPT ![b[n].id] = b[n]]
  BY DEF Write
<1> HIDE DEF b, n
<1>3. entities' \in Store
  BY <1>1, <1>2 DEF Inv, TypeOK, Store, Entity, Promise!Store
<1> QED
  BY <1>1, <1>3 DEF b, n

LEMMA TypeStep == Inv /\ [Next]_vars => TypeOK'
<1> SUFFICES ASSUME Inv, [Next]_vars PROVE TypeOK'
  OBVIOUS
<1> USE Stages DEF Inv, TypeOK, unread
<1>1. ASSUME NEW c \in Calls, Invoke(c) PROVE TypeOK'
  BY <1>1 DEF Invoke, Goto
<1>2. ASSUME NEW c \in Calls, NothingToStore(c) \/ CheckContext(c) PROVE TypeOK'
  BY <1>2 DEF NothingToStore, CheckContext, Goto
<1>3. ASSUME NEW c \in Calls, Lock(c) \/ Validate(c) \/ Return(c) PROVE TypeOK'
  BY <1>3 DEF Lock, Validate, Return, Goto
<1>4. ASSUME NEW c \in Calls, Write(c) PROVE TypeOK'
  <2>1. entities' \in Store
    BY <1>4, WriteTyped
  <2>2. next' \in [Calls -> Nat \ {0}]
    BY <1>4 DEF Write
  <2> QED
    BY <1>4, <2>1, <2>2 DEF Write, Goto
<1>5. ASSUME NEW r \in Readers, SearchEntities(r) PROVE TypeOK'
  <2>1. ASSUME NEW query PROVE Matching(entities, query) \in SUBSET Entity
    BY DEF Matching, Store, Entity, Promise!Store
  <2>2. found' \in [Readers -> SUBSET Entity]
    BY <1>5, <2>1 DEF SearchEntities
  <2> QED
    BY <1>5, <2>2 DEF SearchEntities
<1>6. ASSUME NEW r \in Readers, GetStatistics(r) PROVE TypeOK'
  <2>1. StatisticsOf(entities) \in Statistics
    BY StatisticsTyped
  <2>2. stats' \in [Readers -> Statistics]
    BY <1>6, <2>1 DEF GetStatistics, Statistics
  <2> QED
    BY <1>6, <2>2 DEF GetStatistics, Statistics
<1>7. CASE Crash
  <2>1. entities' \in Store
    BY <1>7 DEF Crash, Store, Promise!Store
  <2> QED
    BY <1>7, <2>1 DEF Crash
<1>8. CASE UNCHANGED vars
  BY <1>8 DEF vars
<1> QED
  BY <1>1, <1>2, <1>3, <1>4, <1>5, <1>6, <1>7, <1>8 DEF Next, CallStep

-----------------------------------------------------------------------------
(* The lock and the loop.                                                  *)

LEMMA LockedStep == Inv /\ [Next]_vars => Locked'
<1> SUFFICES ASSUME Inv, [Next]_vars PROVE Locked'
  OBVIOUS
<1> USE MemoryAssumption DEF Inv, TypeOK, Locked
<1>1. ASSUME NEW c \in Calls, Invoke(c) PROVE Locked'
  BY <1>1 DEF Invoke, Goto
<1>2. ASSUME NEW c \in Calls, NothingToStore(c) \/ CheckContext(c) PROVE Locked'
  BY <1>2 DEF NothingToStore, CheckContext, Goto
<1>3. ASSUME NEW c \in Calls, Lock(c) PROVE Locked'
  BY <1>3 DEF Lock, Goto
<1>4. ASSUME NEW c \in Calls, Validate(c) PROVE Locked'
  <2>1. mu = c /\ pc[c] = "validate"
    BY <1>4 DEF Validate
  <2>2. \/ pc' = [pc EXCEPT ![c] = "writing"] /\ mu' = mu
        \/ pc' = [pc EXCEPT ![c] = "error"] /\ mu' = Nobody
    BY <1>4 DEF Validate, Goto
  <2>3. batch' = batch
    BY <1>4 DEF Validate
  <2> QED
    BY <2>1, <2>2, <2>3
<1>5. ASSUME NEW c \in Calls, Write(c) PROVE Locked'
  BY <1>5 DEF Write, Goto
<1>6. ASSUME NEW c \in Calls, Return(c) PROVE Locked'
  BY <1>6 DEF Return, Goto
<1>7. ASSUME NEW r \in Readers, SearchEntities(r) \/ GetStatistics(r) PROVE Locked'
  BY <1>7 DEF SearchEntities, GetStatistics
<1>8. CASE Crash
  BY <1>8 DEF Crash
<1>9. CASE UNCHANGED vars
  BY <1>9 DEF vars
<1> QED
  BY <1>1, <1>2, <1>3, <1>4, <1>5, <1>6, <1>7, <1>8, <1>9 DEF Next, CallStep

LEMMA LoopingStep == Inv /\ [Next]_vars => Looping'
<1> SUFFICES ASSUME Inv, [Next]_vars PROVE Looping'
  OBVIOUS
<1> USE MemoryAssumption DEF Inv, TypeOK, Looping, Writing
<1>1. ASSUME NEW c \in Calls, Invoke(c) PROVE Looping'
  BY <1>1 DEF Invoke, Goto
<1>2. ASSUME NEW c \in Calls, NothingToStore(c) \/ CheckContext(c) \/ Lock(c) \/ Return(c)
      PROVE  Looping'
  BY <1>2 DEF NothingToStore, CheckContext, Lock, Return, Goto
<1>3. ASSUME NEW c \in Calls, Validate(c) PROVE Looping'
  <2> DEFINE b == batch[c]
  <2>1. batch' = batch /\ next' = next /\ next[c] = 1 /\ b # <<>>
    BY <1>3 DEF Validate
  <2>2. \/ /\ pc' = [pc EXCEPT ![c] = "writing"]
           /\ \A k \in DOMAIN b : b[k].id # BlankId
        \/ pc' = [pc EXCEPT ![c] = "error"]
    BY <1>3 DEF Validate, Goto
  <2>3. 1 \in 1..Len(b)
    BY <2>1, BatchTyped
  <2> QED
    BY <2>1, <2>2, <2>3
<1>4. ASSUME NEW c \in Calls, Write(c) PROVE Looping'
  <2> DEFINE b == batch[c]
             n == next[c]
  <2>1. /\ n \in 1..Len(b) /\ b # <<>> /\ pc[c] = "writing"
        /\ \A k \in DOMAIN b : b[k].id # BlankId
        /\ Len(b) \in Nat
    BY <1>4, BatchTyped DEF Write
  <2>2. /\ batch' = batch /\ next' = [next EXCEPT ![c] = n + 1]
        /\ pc' = [pc EXCEPT ![c] = IF n = Len(b) THEN "return" ELSE "writing"]
    BY <1>4 DEF Write, Goto
  <2>3. pc'[c] = "writing" => n + 1 \in 1..Len(b)
    BY <2>1, <2>2
  <2> QED
    BY <2>1, <2>2, <2>3
<1>5. ASSUME NEW r \in Readers, SearchEntities(r) \/ GetStatistics(r) PROVE Looping'
  BY <1>5 DEF SearchEntities, GetStatistics
<1>6. CASE Crash
  BY <1>6 DEF Crash
<1>7. CASE UNCHANGED vars
  BY <1>7 DEF vars
<1> QED
  BY <1>1, <1>2, <1>3, <1>4, <1>5, <1>6, <1>7 DEF Next, CallStep

-----------------------------------------------------------------------------
(* The committed store.                                                    *)

(* It changes with the map and with who writes what, and nothing else.     *)
LEMMA CommittedKept ==
    ASSUME entities' = entities,
           \A c \in Calls : Writing(c)' <=> Writing(c),
           \A c \in Calls : Writing(c) => batch'[c] = batch[c]
    PROVE  Committed' = Committed
<1>1. ASSUME NEW i
      PROVE  (\E c \in Calls : Writing(c)' /\ \E k \in DOMAIN batch'[c] : batch'[c][k].id = i)
         <=> (\E c \in Calls : Writing(c) /\ \E k \in DOMAIN batch[c] : batch[c][k].id = i)
  OBVIOUS
<1> QED
  BY <1>1 DEF Committed

(* A batch that is found valid is put aside, with nothing of it in the     *)
(* store yet.                                                              *)
LEMMA ValidateKeeps ==
    ASSUME Inv, NEW c \in Calls, Validate(c)
    PROVE  /\ entities = Committed
           /\ Committed' = Committed
           /\ Writing(c)' => Promise!Acceptable(Committed, batch[c])
           /\ \A d \in Calls : Writing(d)' => d = c
<1> DEFINE b == batch[c]
<1>1. \A d \in Calls : d # c => ~Writing(d) /\ ~Writing(d)'
  BY DEF Inv, TypeOK, Locked, Validate, Goto, Writing
<1>2. ~Writing(c) /\ entities' = entities /\ batch' = batch
  BY DEF Validate, Writing
<1>3. Committed = entities
  BY <1>1, <1>2, CommittedIs DEF Inv
<1>4. CASE ~Writing(c)'
  <2>1. Committed' = Committed
    BY <1>1, <1>2, <1>4, CommittedKept
  <2> QED
    BY <1>1, <1>3, <1>4, <2>1
<1>5. CASE Writing(c)'
  <2>1. \A k \in DOMAIN b : b[k].id # BlankId /\ entities[b[k].id] = NoEntity
    BY <1>5 DEF Validate, Goto, Writing, Inv, TypeOK
  <2>2. ASSUME NEW i \in Ids PROVE Committed'[i] = entities[i]
    <3>1. Committed'[i] = IF \E k \in DOMAIN b : b[k].id = i THEN NoEntity ELSE entities[i]
      BY <1>1, <1>2, <1>5 DEF Committed
    <3> QED
      BY <2>1, <3>1
  <2>3. Committed' = [i \in Ids |-> Committed'[i]] /\ Committed = [i \in Ids |-> Committed[i]]
    BY DEF Committed
  <2>4. Committed' = Committed
    BY <1>3, <2>2, <2>3
  <2>5. Promise!Acceptable(Committed, b)
    BY <1>3, <2>1 DEF Promise!Acceptable
  <2> QED
    BY <1>1, <1>3, <2>4, <2>5
<1> QED
  BY <1>4, <1>5

(* What the loop writes is a row more of the batch, and hidden as long as  *)
(* the loop runs.                                                          *)
LEMMA WriteAddsRow ==
    ASSUME Inv, NEW c \in Calls, Write(c)
    PROVE  /\ entities' = Promise!PutAll(Committed, SubSeq(batch[c], 1, next[c]))
           /\ Writing(c)' => Committed' = Committed /\ Rows(c)' = SubSeq(batch[c], 1, next[c])
           /\ ~Writing(c)' => Committed' = entities' /\ next[c] = Len(batch[c])
           /\ \A d \in Calls : d # c => ~Writing(d) /\ ~Writing(d)'
<1> DEFINE b == batch[c]
           n == next[c]
           row == b[n]
<1>0. TypeOK /\ Locked /\ Looping /\ Written
  BY DEF Inv
<1>1. /\ Writing(c) /\ n \in 1..Len(b) /\ b \in Seq(Entity) /\ n \in DOMAIN b
      /\ n \in Nat /\ Len(b) \in Nat
  BY <1>0, BatchTyped DEF Write, Writing, Looping, TypeOK
<1>2. row \in Entity /\ row.id \in Ids /\ entities' \in Store
  BY WriteTyped
<1>3. /\ entities' = [entities EXCEPT ![row.id] = row]
      /\ pc' = [pc EXCEPT ![c] = IF n = Len(b) THEN "return" ELSE "writing"]
      /\ next' = [next EXCEPT ![c] = n + 1]
      /\ batch' = batch
  BY DEF Write, Goto
<1>4. \A d \in Calls : d # c => ~Writing(d) /\ ~Writing(d)'
  BY <1>0, <1>1, <1>3, OneWriter DEF Writing, TypeOK
<1>5. entities' = Promise!PutAll(Committed, SubSeq(b, 1, n))
  <2> DEFINE before == SubSeq(b, 1, n - 1)
             s == Committed
  <2>1. entities = Promise!PutAll(s, before)
    BY <1>0, <1>1 DEF Written, Rows
  <2>2. before \in Seq(Entity) /\ SubSeq(b, 1, n) = Append(before, row)
    BY <1>1, PrefixGrows
  <2>3. Promise!PutAll(s, Append(before, row)) = [Promise!PutAll(s, before) EXCEPT ![row.id] = row]
    <3> HIDE DEF before, row, s
    <3> QED
      BY <1>2, <2>2, PutAllAppend
  <2> QED
    BY <1>3, <2>1, <2>2, <2>3
<1>6. ASSUME Writing(c)' PROVE Committed' = Committed /\ Rows(c)' = SubSeq(b, 1, n)
  <2>1. ASSUME NEW i \in Ids PROVE Committed'[i] = Committed[i]
    <3>1. Committed[i] = IF Promise!Mentions(b, i) THEN NoEntity ELSE entities[i]
      BY <1>0, <1>1, CommittedWhenWriting
    <3>2. Committed'[i] = IF Promise!Mentions(b, i) THEN NoEntity ELSE entities'[i]
      BY <1>3, <1>4, <1>6 DEF Committed, Promise!Mentions
    <3>3. ~Promise!Mentions(b, i) => entities'[i] = entities[i]
      BY <1>0, <1>1, <1>3 DEF Promise!Mentions, TypeOK, Store, Promise!Store
    <3> QED
      BY <3>1, <3>2, <3>3
  <2>2. Committed' = [i \in Ids |-> Committed'[i]] /\ Committed = [i \in Ids |-> Committed[i]]
    BY DEF Committed
  <2>3. Committed' = Committed
    BY <2>1, <2>2
  <2>4. Rows(c)' = SubSeq(b, 1, n)
    <3>1. next'[c] = n + 1 /\ (n + 1) - 1 = n
      BY <1>0, <1>1, <1>3 DEF TypeOK
    <3>2. Rows(c)' = SubSeq(batch'[c], 1, next'[c] - 1)
      BY DEF Rows
    <3> QED
      BY <1>3, <3>1, <3>2
  <2> QED
    BY <2>3, <2>4
<1>7. ASSUME ~Writing(c)' PROVE Committed' = entities' /\ n = Len(b)
  <2>1. n = Len(b)
    BY <1>0, <1>3, <1>7 DEF Writing, TypeOK
  <2>2. entities' = [i \in Ids |-> entities'[i]]
    BY <1>2 DEF Store, Promise!Store
  <2>3. \A d \in Calls : ~Writing(d)'
    BY <1>4, <1>7
  <2>4. Committed' = entities'
    BY <2>2, <2>3 DEF Committed
  <2> QED
    BY <2>1, <2>4
<1> QED
  BY <1>4, <1>5, <1>6, <1>7

(* The steps that leave the map and the writers alone.                     *)
LEMMA OtherStep ==
    ASSUME Inv, [Next]_vars,
           \A c \in Calls : ~Validate(c) /\ ~Write(c), ~Crash
    PROVE  /\ entities' = entities
           /\ \A c \in Calls : Writing(c)' <=> Writing(c)
           /\ \A c \in Calls : Writing(c) => batch'[c] = batch[c] /\ next'[c] = next[c]
<1> USE DEF Inv, TypeOK, Writing
<1>1. ASSUME NEW c \in Calls,
             Invoke(c) \/ NothingToStore(c) \/ CheckContext(c) \/ Lock(c) \/ Return(c)
      PROVE  /\ entities' = entities
             /\ \A d \in Calls : Writing(d)' <=> Writing(d)
             /\ \A d \in Calls : Writing(d) => batch'[d] = batch[d] /\ next'[d] = next[d]
  BY <1>1 DEF Invoke, NothingToStore, CheckContext, Lock, Return, Goto
<1>2. ASSUME NEW r \in Readers, SearchEntities(r) \/ GetStatistics(r)
      PROVE  /\ entities' = entities
             /\ \A d \in Calls : Writing(d)' <=> Writing(d)
             /\ \A d \in Calls : Writing(d) => batch'[d] = batch[d] /\ next'[d] = next[d]
  BY <1>2 DEF SearchEntities, GetStatistics
<1>3. CASE UNCHANGED vars
  BY <1>3 DEF vars
<1> QED
  BY <1>1, <1>2, <1>3 DEF Next, CallStep

LEMMA WrittenStep == Inv /\ [Next]_vars => Written'
<1> SUFFICES ASSUME Inv, [Next]_vars, NEW d \in Calls, Writing(d)'
             PROVE  entities' = Promise!PutAll(Committed', Rows(d)')
  BY DEF Written
<1>1. ASSUME NEW c \in Calls, Validate(c)
      PROVE  entities' = Promise!PutAll(Committed', Rows(d)')
  <2>1. d = c /\ entities = Committed /\ Committed' = Committed
    BY <1>1, ValidateKeeps
  <2>2. next'[d] = 1 /\ entities' = entities
    BY <1>1, <2>1 DEF Validate, Inv, Looping
  <2>3. Rows(d)' = SubSeq(batch'[d], 1, next'[d] - 1)
    BY DEF Rows
  <2>4. Rows(d)' = <<>>
    BY <2>2, <2>3, SubSeqEmpty
  <2>5. Promise!PutAll(Committed, <<>>) = Committed
    BY PutNothing, CommittedIs DEF Inv
  <2> QED
    BY <2>1, <2>2, <2>4, <2>5
<1>2. ASSUME NEW c \in Calls, Write(c)
      PROVE  entities' = Promise!PutAll(Committed', Rows(d)')
  BY <1>2, WriteAddsRow
<1>3. CASE Crash
  BY <1>3 DEF Crash, Writing
<1>4. CASE (\A c \in Calls : ~Validate(c) /\ ~Write(c)) /\ ~Crash
  <2>1. /\ Writing(d) /\ entities' = entities
        /\ batch'[d] = batch[d] /\ next'[d] = next[d]
        /\ Committed' = Committed
    BY <1>4, OtherStep, CommittedKept
  <2>2. Rows(d)' = Rows(d)
    BY <2>1 DEF Rows
  <2> QED
    BY <2>1, <2>2 DEF Inv, Written
<1> QED
  BY <1>1, <1>2, <1>3, <1>4

LEMMA Invariant == Spec => []Inv
<1>1. Inv /\ [Next]_vars => Inv'
  BY TypeStep, LockedStep, LoopingStep, WrittenStep DEF Inv
<1> QED
  BY <1>1, InvInit, PTL DEF Spec

-----------------------------------------------------------------------------
(* What follows.                                                           *)

(* Every variable has its type.                                            *)
THEOREM TypeCorrect == Spec => []TypeOK
<1>1. Inv => TypeOK
  BY DEF Inv
<1> QED
  BY <1>1, Invariant, PTL

(* What a search or a count returns is a function of the committed store:  *)
(* no reader sees part of a batch.                                         *)
THEOREM ReadersSeeWholeBatches == Spec => ReadsAreCommitted
<1>1. ASSUME Inv, [Next]_vars
      PROVE  [\A r \in Readers :
                /\ found'[r] # found[r] =>
                      \E query \in Queries : found'[r] = Matching(Committed, query)
                /\ stats'[r] # stats[r] => stats'[r] = StatisticsOf(Committed)]_<<found, stats>>
  <2> SUFFICES ASSUME NEW r \in Readers
               PROVE  /\ found'[r] # found[r] =>
                            \E query \in Queries : found'[r] = Matching(Committed, query)
                      /\ stats'[r] # stats[r] => stats'[r] = StatisticsOf(Committed)
    OBVIOUS
  <2>1. ASSUME NEW p \in Readers, SearchEntities(p) \/ GetStatistics(p)
        PROVE  Committed = entities
    BY <1>1, <2>1, OneWriter, CommittedIs DEF SearchEntities, GetStatistics, Inv
  <2>2. ASSUME NEW p \in Readers, SearchEntities(p)
        PROVE  /\ stats' = stats
               /\ found'[r] # found[r] =>
                     \E query \in Queries : found'[r] = Matching(entities, query)
    BY <1>1, <2>2 DEF SearchEntities, Inv, TypeOK
  <2>3. ASSUME NEW p \in Readers, GetStatistics(p)
        PROVE  found' = found /\ (stats'[r] # stats[r] => stats'[r] = StatisticsOf(entities))
    BY <1>1, <2>3 DEF GetStatistics, Inv, TypeOK
  <2>4. ASSUME NEW c \in Calls, Invoke(c) \/ CallStep(c) PROVE found' = found /\ stats' = stats
    BY <2>4 DEF Invoke, CallStep, NothingToStore, CheckContext, Lock, Validate, Write, Return,
                unread
  <2>5. CASE Crash \/ UNCHANGED vars
    BY <2>5 DEF Crash, vars, unread
  <2> QED
    BY <1>1, <2>1, <2>2, <2>3, <2>4, <2>5 DEF Next
<1> QED
  BY <1>1, Invariant, PTL DEF Spec, ReadsAreCommitted

(* No call replaces an entity another call has stored: what a write        *)
(* replaces is an earlier row of the same batch.                           *)
THEOREM StoredOnce == Spec => FirstWriterWins
<1>1. ASSUME Inv, [Next]_vars
      PROVE  [Crash \/ \A i \in Ids :
                entities[i] # NoEntity /\ entities'[i] # entities[i] =>
                    \E c \in Calls :
                        /\ next'[c] = next[c] + 1
                        /\ \E k \in 1..(next[c] - 1) : batch[c][k].id = i]_entities
  <2> SUFFICES ASSUME ~Crash, NEW i \in Ids, entities[i] # NoEntity, entities'[i] # entities[i]
               PROVE  \E c \in Calls :
                          /\ next'[c] = next[c] + 1
                          /\ \E k \in 1..(next[c] - 1) : batch[c][k].id = i
    OBVIOUS
  <2>1. PICK c \in Calls : Write(c)
    BY <1>1, OtherStep DEF Validate
  <2> DEFINE b == batch[c]
             n == next[c]
             before == SubSeq(b, 1, n - 1)
             s == Committed
  <2>2. /\ TypeOK /\ Locked /\ Writing(c)
        /\ n \in 1..Len(b) /\ b \in Seq(Entity) /\ n \in DOMAIN b
        /\ entities = Promise!PutAll(s, before)
    BY <1>1, <2>1, BatchTyped DEF Inv, Write, Writing, Looping, Written, Rows
  <2>3. b[n].id = i /\ next'[c] = n + 1
    BY <1>1, <2>1, <2>2 DEF Write, TypeOK, Store, Promise!Store
  <2>4. s[i] = NoEntity
    BY <2>2, <2>3, CommittedWhenWriting DEF Promise!Mentions
  <2>5. Promise!Mentions(before, i)
    <3> HIDE DEF s, before
    <3> QED
      BY <2>2, <2>4 DEF Promise!PutAll
  <2>6. /\ before \in Seq(Entity) /\ Len(before) = n - 1
        /\ \A k \in 1..(n - 1) : before[k] = b[k]
    BY <2>2, PrefixGrows
  <2>7. DOMAIN before = 1..(n - 1)
    BY <2>6, LenProperties
  <2>8. PICK k \in 1..(n - 1) : b[k].id = i
    BY <2>5, <2>6, <2>7 DEF Promise!Mentions
  <2> QED
    BY <2>3, <2>8
<1> QED
  BY <1>1, Invariant, PTL DEF Spec, FirstWriterWins

-----------------------------------------------------------------------------
(* MemoryBackend implements EntityStore.                                   *)

Stage == [c \in Calls |-> StageOf[pc[c]]]

(* A call that goes from one place to the next goes from that stage to the *)
(* next, or stays.                                                         *)
LEMMA StageMoves ==
    ASSUME TypeOK, NEW c \in Calls, NEW label \in DOMAIN StageOf, Goto(c, label)
    PROVE  /\ Stage[c] = StageOf[pc[c]]
           /\ Stage' = [Stage EXCEPT ![c] = StageOf[label]]
           /\ StageOf[label] = StageOf[pc[c]] => Stage' = Stage
<1>1. \A d \in Calls : pc'[d] = IF d = c THEN label ELSE pc[d]
  BY DEF Goto, TypeOK
<1>2. Stage' = [d \in Calls |-> StageOf[pc'[d]]]
  BY DEF Stage
<1> QED
  BY <1>1, <1>2 DEF Stage

LEMMA PromiseInit == Init => Promise!Init
<1> SUFFICES ASSUME Init PROVE Promise!Init
  OBVIOUS
<1>1. Inv /\ Committed = entities
  BY InvInit, CommittedIs DEF Init, Inv, Writing
<1>2. Committed \in Promise!Store
  BY <1>1 DEF Inv, TypeOK, Store
<1> QED
  BY <1>2, Stages DEF Init, Promise!Init

LEMMA PromiseStep == Inv /\ [Next]_vars => [Promise!Next]_(Promise!vars)
<1> SUFFICES ASSUME Inv, [Next]_vars PROVE [Promise!Next]_(Promise!vars)
  OBVIOUS
<1> DEFINE Stutter == Committed' = Committed /\ batch' = batch /\ Stage' = Stage
<1>0. TypeOK
  BY DEF Inv
<1>s. Stutter => UNCHANGED Promise!vars
  BY DEF Promise!vars, Stage
<1>1. ASSUME NEW c \in Calls, Invoke(c) PROVE Promise!Next
  <2>1. Committed' = Committed
    BY <1>0, <1>1, CommittedKept DEF Invoke, Goto, Writing, TypeOK
  <2>2. Goto(c, "called") /\ pc[c] = "idle"
    BY <1>1 DEF Invoke
  <2>3. Stage[c] = "idle" /\ Stage' = [Stage EXCEPT ![c] = "called"]
    BY <1>0, <2>2, StageMoves, Stages
  <2>4. Promise!Invoke(c)
    BY <1>1, <2>1, <2>3 DEF Invoke, Promise!Invoke, Stage
  <2> QED
    BY <2>4 DEF Promise!Next
<1>2. ASSUME NEW c \in Calls, NothingToStore(c) PROVE Promise!Next
  <2>1. Committed' = Committed
    BY <1>0, <1>2, CommittedKept DEF NothingToStore, Goto, Writing, TypeOK
  <2>2. Goto(c, "return") /\ pc[c] = "called" /\ batch[c] = <<>> /\ batch' = batch
    BY <1>2 DEF NothingToStore
  <2>3. Stage[c] = "called" /\ Stage' = [Stage EXCEPT ![c] = "stored"]
    BY <1>0, <2>2, StageMoves, Stages
  <2>4. Promise!PutAll(Committed, <<>>) = Committed
    BY <1>0, PutNothing, CommittedIs
  <2>5. Promise!Acceptable(Committed, <<>>)
    BY DEF Promise!Acceptable
  <2>6. Promise!Apply(c)
    BY <2>1, <2>2, <2>3, <2>4, <2>5 DEF Promise!Apply, Stage
  <2> QED
    BY <2>6 DEF Promise!Next
<1>3. ASSUME NEW c \in Calls, CheckContext(c) PROVE [Promise!Next]_(Promise!vars)
  <2>1. Committed' = Committed
    BY <1>0, <1>3, CommittedKept DEF CheckContext, Goto, Writing, TypeOK
  <2>2. pc[c] = "called" /\ batch' = batch /\ (Goto(c, "error") \/ Goto(c, "lock"))
    BY <1>3 DEF CheckContext
  <2>3. CASE Goto(c, "error")
    <3>1. Stage[c] = "called" /\ Stage' = [Stage EXCEPT ![c] = "error"]
      BY <1>0, <2>2, <2>3, StageMoves, Stages
    <3>2. Promise!Refuse(c)
      BY <2>1, <2>2, <3>1 DEF Promise!Refuse, Stage
    <3> QED
      BY <3>2 DEF Promise!Next
  <2>4. CASE Goto(c, "lock")
    <3>1. Stage' = Stage
      BY <1>0, <2>2, <2>4, StageMoves, Stages
    <3> QED
      BY <1>s, <2>1, <2>2, <3>1
  <2> QED
    BY <2>2, <2>3, <2>4
<1>4. ASSUME NEW c \in Calls, Lock(c) PROVE [Promise!Next]_(Promise!vars)
  <2>1. Committed' = Committed
    BY <1>0, <1>4, CommittedKept DEF Lock, Goto, Writing, TypeOK
  <2>2. pc[c] = "lock" /\ batch' = batch /\ Goto(c, "validate")
    BY <1>4 DEF Lock
  <2>3. Stage' = Stage
    BY <1>0, <2>2, StageMoves, Stages
  <2> QED
    BY <1>s, <2>1, <2>2, <2>3
<1>5. ASSUME NEW c \in Calls, Validate(c) PROVE [Promise!Next]_(Promise!vars)
  <2>1. Committed' = Committed
    BY <1>5, ValidateKeeps
  <2>2. pc[c] = "validate" /\ batch' = batch /\ (Goto(c, "error") \/ Goto(c, "writing"))
    BY <1>5 DEF Validate
  <2>3. CASE Goto(c, "error")
    <3>1. Stage[c] = "called" /\ Stage' = [Stage EXCEPT ![c] = "error"]
      BY <1>0, <2>2, <2>3, StageMoves, Stages
    <3>2. Promise!Refuse(c)
      BY <2>1, <2>2, <3>1 DEF Promise!Refuse, Stage
    <3> QED
      BY <3>2 DEF Promise!Next
  <2>4. CASE Goto(c, "writing")
    <3>1. Stage' = Stage
      BY <1>0, <2>2, <2>4, StageMoves, Stages
    <3> QED
      BY <1>s, <2>1, <2>2, <3>1
  <2> QED
    BY <2>2, <2>3, <2>4
<1>6. ASSUME NEW c \in Calls, Write(c) PROVE [Promise!Next]_(Promise!vars)
  <2>1. pc[c] = "writing" /\ batch' = batch
        /\ Goto(c, IF next[c] = Len(batch[c]) THEN "return" ELSE "writing")
    BY <1>6 DEF Write
  <2>2. CASE Writing(c)'
    <3>1. Committed' = Committed
      BY <1>6, <2>2, WriteAddsRow
    <3>2. Goto(c, "writing")
      BY <1>0, <2>1, <2>2 DEF Writing, Goto, TypeOK
    <3>3. Stage' = Stage
      BY <1>0, <2>1, <3>2, StageMoves, Stages
    <3> QED
      BY <1>s, <2>1, <3>1, <3>3
  <2>3. CASE ~Writing(c)'
    <3>1. /\ entities' = Promise!PutAll(Committed, SubSeq(batch[c], 1, next[c]))
          /\ Committed' = entities' /\ next[c] = Len(batch[c])
      BY <1>6, <2>3, WriteAddsRow
    <3>2. SubSeq(batch[c], 1, Len(batch[c])) = batch[c]
      BY <1>0, BatchTyped, SubSeqFull
    <3>3. Committed' = Promise!PutAll(Committed, batch[c])
      BY <3>1, <3>2
    <3>4. Promise!Acceptable(Committed, batch[c])
      <4>1. TypeOK /\ Locked /\ Looping /\ Writing(c)
        BY <2>1 DEF Inv, Writing
      <4>2. ASSUME NEW k \in DOMAIN batch[c]
            PROVE  batch[c][k].id # BlankId /\ Committed[batch[c][k].id] = NoEntity
        <5>1. batch[c][k].id \in Ids /\ batch[c][k].id # BlankId
          BY <4>1, BatchTyped DEF Looping
        <5>2. Promise!Mentions(batch[c], batch[c][k].id)
          BY DEF Promise!Mentions
        <5> QED
          BY <4>1, <5>1, <5>2, CommittedWhenWriting
      <4> QED
        BY <4>2 DEF Promise!Acceptable
    <3>5. Stage[c] = "called" /\ Stage' = [Stage EXCEPT ![c] = "stored"]
      BY <1>0, <2>1, <3>1, StageMoves, Stages
    <3>6. Promise!Apply(c)
      BY <2>1, <3>3, <3>4, <3>5 DEF Promise!Apply, Stage
    <3> QED
      BY <3>6 DEF Promise!Next
  <2> QED
    BY <2>2, <2>3
<1>7. ASSUME NEW c \in Calls, Return(c) PROVE Promise!Next
  <2>1. Committed' = Committed
    BY <1>0, <1>7, CommittedKept DEF Return, Goto, Writing, TypeOK
  <2>2. pc[c] = "return" /\ batch' = batch /\ Goto(c, "ok")
    BY <1>7 DEF Return
  <2>3. Stage[c] = "stored" /\ Stage' = [Stage EXCEPT ![c] = "ok"]
    BY <1>0, <2>2, StageMoves, Stages
  <2>4. Promise!Reply(c)
    BY <2>1, <2>2, <2>3 DEF Promise!Reply, Stage
  <2> QED
    BY <2>4 DEF Promise!Next
<1>8. ASSUME NEW r \in Readers, SearchEntities(r) \/ GetStatistics(r)
      PROVE  UNCHANGED Promise!vars
  <2>1. UNCHANGED <<entities, batch, pc>>
    BY <1>8 DEF SearchEntities, GetStatistics
  <2>2. Committed' = Committed
    BY <2>1, CommittedKept DEF Writing
  <2>3. Stage' = Stage
    BY <2>1 DEF Stage
  <2> QED
    BY <1>s, <2>1, <2>2, <2>3
<1>9. CASE Crash
  <2>1. Committed' = Promise!EmptyStore
    <3>1. \A i \in Ids : entities'[i] = NoEntity
      BY <1>9 DEF Crash
    <3> QED
      BY <3>1 DEF Committed, Promise!EmptyStore
  <2>2. batch' = batch
    BY <1>9 DEF Crash
  <2>3. Stage' = [c \in Calls |-> IF Stage[c] \in {"called", "stored"} THEN "lost" ELSE Stage[c]]
    BY <1>0, <1>9, Stages DEF Crash, Stage, TypeOK
  <2>4. Promise!Crash
    BY <2>1, <2>2, <2>3 DEF Promise!Crash, Stage
  <2> QED
    BY <2>4 DEF Promise!Next
<1>10. CASE UNCHANGED vars
  <2>1. UNCHANGED <<entities, batch, pc>>
    BY <1>10 DEF vars
  <2>2. Committed' = Committed /\ Stage' = Stage
    BY <2>1, CommittedKept DEF Writing, Stage
  <2> QED
    BY <1>s, <2>1, <2>2
<1> QED
  BY <1>1, <1>2, <1>3, <1>4, <1>5, <1>6, <1>7, <1>8, <1>9, <1>10 DEF Next, CallStep

(* The row-by-row loop under mu is one step of EntityStore: to everybody   *)
(* else a batch is stored as a whole or not at all, and answered after.    *)
THEOREM ImplementsStore == Spec => KeepsPromise
<1>1. Inv /\ [Next]_vars => [Promise!Next]_(Promise!vars)
  BY PromiseStep
<1> QED
  BY <1>1, PromiseInit, Invariant, PTL DEF Spec, KeepsPromise, Promise!Spec
=============================================================================
