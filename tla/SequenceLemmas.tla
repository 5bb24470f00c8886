---------------------------- MODULE SequenceLemmas ----------------------------
(***************************************************************************)
(* What the proofs about queues and batches need of sequences.             *)
(***************************************************************************)
EXTENDS Integers, SequenceTheorems, WellFoundedInduction, TLAPS

(* Appending to the last of three sequences appends to the whole.          *)
LEMMA AppendToLast ==
    ASSUME NEW S, NEW w \in Seq(S), NEW h \in Seq(S), NEW b \in Seq(S), NEW e \in S
    PROVE  w \o h \o Append(b, e) = Append(w \o h \o b, e)
<1>1. w \o h \in Seq(S) /\ <<e>> \in Seq(S)
  BY ConcatProperties
<1>2. Append(b, e) = b \o <<e>>
  BY AppendIsConcat
<1>3. w \o h \o b \in Seq(S)
  BY <1>1, ConcatProperties
<1>4. Append(w \o h \o b, e) = (w \o h \o b) \o <<e>>
  BY <1>3, AppendIsConcat
<1>5. (w \o h \o b) \o <<e>> = w \o h \o (b \o <<e>>)
  BY <1>1, ConcatAssociative
<1> QED
  BY <1>2, <1>4, <1>5

(* A non-empty sequence is its head followed by its tail.                  *)
LEMMA HeadThenTail ==
    ASSUME NEW S, NEW b \in Seq(S), b # <<>>
    PROVE  /\ <<Head(b)>> \in Seq(S)
           /\ <<Head(b)>> \o Tail(b) = b
<1>1. Head(b) \in S /\ Tail(b) \in Seq(S) /\ Len(Tail(b)) = Len(b) - 1
  BY HeadTailProperties
<1>2. \A i \in 1..Len(Tail(b)) : Tail(b)[i] = b[i + 1]
  BY HeadTailProperties
<1>3. Len(b) \in Nat \ {0}
  BY EmptySeq
<1>4. <<Head(b)>> \in Seq(S) /\ Len(<<Head(b)>>) = 1 /\ <<Head(b)>>[1] = b[1]
  BY <1>1, <1>3
<1> DEFINE s == <<Head(b)>> \o Tail(b)
<1>5. /\ s \in Seq(S)
      /\ Len(s) = Len(b)
      /\ \A i \in 1..Len(b) : s[i] = IF i <= 1 THEN b[1] ELSE Tail(b)[i - 1]
  BY <1>1, <1>3, <1>4, ConcatProperties
<1>6. ASSUME NEW i \in 1..Len(b) PROVE s[i] = b[i]
  <2>1. CASE i = 1
    BY <2>1, <1>5
  <2>2. CASE i # 1
    <3>1. i - 1 \in 1..Len(Tail(b)) /\ ~(i <= 1) /\ (i - 1) + 1 = i
      BY <2>2, <1>1, <1>3
    <3> HIDE DEF s
    <3> QED
      BY <3>1, <1>2, <1>5
  <2> QED
    BY <2>1, <2>2
<1> HIDE DEF s
<1>7. s = b
  BY <1>5, <1>6, SeqEqual
<1> QED
  BY <1>4, <1>7 DEF s

(* Taking the head of a queue moves it from the queue to what is taken.    *)
LEMMA TakingKeepsOrder ==
    ASSUME NEW S, NEW w \in Seq(S), NEW q \in Seq(S), q # <<>>
    PROVE  Append(w, Head(q)) \o Tail(q) = w \o q
<1>1. Head(q) \in S /\ Tail(q) \in Seq(S)
  BY HeadTailProperties
<1>2. <<Head(q)>> \in Seq(S) /\ <<Head(q)>> \o Tail(q) = q
  BY HeadThenTail
<1>3. Append(w, Head(q)) = w \o <<Head(q)>>
  BY <1>1, AppendIsConcat
<1>4. (w \o <<Head(q)>>) \o Tail(q) = w \o (<<Head(q)>> \o Tail(q))
  BY <1>1, <1>2, ConcatAssociative
<1> QED
  BY <1>2, <1>3, <1>4

(* What is added to a queue comes after all there was.                     *)
LEMMA AddingKeepsOrder ==
    ASSUME NEW S, NEW w \in Seq(S), NEW q \in Seq(S), NEW r \in S
    PROVE  w \o Append(q, r) = Append(w \o q, r)
<1>1. Append(q, r) = q \o <<r>> /\ <<r>> \in Seq(S)
  BY AppendIsConcat
<1>2. w \o q \in Seq(S)
  BY ConcatProperties
<1>3. Append(w \o q, r) = (w \o q) \o <<r>>
  BY <1>2, AppendIsConcat
<1>4. (w \o q) \o <<r>> = w \o (q \o <<r>>)
  BY <1>1, ConcatAssociative
<1> QED
  BY <1>1, <1>3, <1>4

(* A set of positions that is not empty has a first and a last.            *)
LEMMA FirstAndLast ==
    ASSUME NEW n \in Nat, NEW T, T \subseteq 1..n, T # {}
    PROVE  /\ \E k \in T : \A j \in T : k <= j
           /\ \E k \in T : \A j \in T : j <= k
<1> DEFINE less == OpToRel(<, Nat)
<1>1. IsWellFoundedOn(less, Nat)
  BY NatLessThanWellFounded
<1>2. \A i, j \in Nat : <<i, j>> \in less <=> i < j
  BY DEF OpToRel
<1> HIDE DEF less
<1>3. ASSUME NEW U, U \subseteq Nat, U # {} PROVE \E k \in U : \A j \in U : k <= j
  <2>1. PICK k \in U : \A j \in U : ~ (<<j, k>> \in less)
    BY <1>1, <1>3, WFMin, Zenon
  <2>2. ASSUME NEW j \in U PROVE k <= j
    <3>1. j \in Nat /\ k \in Nat /\ ~ (<<j, k>> \in less)
      BY <1>3, <2>1
    <3>2. ~(j < k)
      BY <1>2, <3>1
    <3> QED
      BY <3>1, <3>2
  <2> QED
    BY <2>2
<1>4. \E k \in T : \A j \in T : k <= j
  <2>1. T \subseteq Nat
    OBVIOUS
  <2> QED
    BY <1>3, <2>1
<1>5. \E k \in T : \A j \in T : j <= k
  <2> DEFINE U == {n - k : k \in T}
  <2>1. U \subseteq Nat /\ U # {}
    <3>1. \A k \in T : n - k \in Nat
      OBVIOUS
    <3> QED
      BY <3>1
  <2>2. PICK m \in U : \A j \in U : m <= j
    <3> HIDE DEF U
    <3> QED
      BY <1>3, <2>1
  <2>3. PICK k \in T : m = n - k
    BY <2>2
  <2>4. ASSUME NEW j \in T PROVE j <= k
    <3>1. n - k <= n - j
      BY <2>2, <2>3
    <3>2. j \in Nat /\ k \in Nat
      OBVIOUS
    <3> QED
      BY <3>1, <3>2
  <2> QED
    BY <2>4
<1> QED
  BY <1>4, <1>5

(* The rows of a sequence one is appended to.                              *)
LEMMA RowsOfAppend ==
    ASSUME NEW S, NEW b \in Seq(S), NEW e \in S
    PROVE  /\ Append(b, e) \in Seq(S)
           /\ Len(b) \in Nat /\ Len(Append(b, e)) = Len(b) + 1
           /\ DOMAIN b = 1..Len(b) /\ DOMAIN Append(b, e) = 1..(Len(b) + 1)
           /\ Append(b, e)[Len(b) + 1] = e
           /\ \A k \in DOMAIN b : Append(b, e)[k] = b[k]
<1>1. Len(b) \in Nat /\ DOMAIN b = 1..Len(b)
  BY LenProperties
<1>2. /\ Append(b, e) \in Seq(S)
      /\ Len(Append(b, e)) = Len(b) + 1
      /\ \A i \in 1..Len(b) : Append(b, e)[i] = b[i]
      /\ Append(b, e)[Len(b) + 1] = e
  BY AppendProperties
<1>3. DOMAIN Append(b, e) = 1..Len(Append(b, e))
  BY <1>2, LenProperties
<1> QED
  BY <1>1, <1>2, <1>3

(* A prefix of a sequence grows by the sequence's next row.                *)
LEMMA PrefixGrows ==
    ASSUME NEW S, NEW b \in Seq(S), NEW n \in 1..Len(b)
    PROVE  /\ SubSeq(b, 1, n - 1) \in Seq(S)
           /\ Len(SubSeq(b, 1, n - 1)) = n - 1
           /\ \A k \in 1..(n - 1) : SubSeq(b, 1, n - 1)[k] = b[k]
           /\ b[n] \in S
           /\ SubSeq(b, 1, n) = Append(SubSeq(b, 1, n - 1), b[n])
<1>1. Len(b) \in Nat /\ n \in Int /\ n - 1 \in Nat
  BY LenProperties
<1>2. \A i \in 1..Len(b) : b[i] \in S
  BY ElementOfSeq
<1>3. \A i \in 1..(n - 1) : b[i] \in S
  BY <1>1, <1>2
<1> DEFINE p == SubSeq(b, 1, n - 1)
<1>4. /\ p \in Seq(S)
      /\ Len(p) = IF 1 <= n - 1 THEN (n - 1) - 1 + 1 ELSE 0
      /\ \A i \in 1..((n - 1) - 1 + 1) : p[i] = b[1 + i - 1]
  BY <1>1, <1>3, SubSeqProperties
<1>5. Len(p) = n - 1 /\ \A k \in 1..(n - 1) : p[k] = b[k]
  <2> HIDE DEF p
  <2>1. Len(p) = n - 1
    BY <1>1, <1>4
  <2>2. ASSUME NEW k \in 1..(n - 1) PROVE p[k] = b[k]
    <3>1. k \in 1..((n - 1) - 1 + 1) /\ 1 + k - 1 = k
      BY <1>1
    <3> QED
      BY <3>1, <1>4
  <2> QED
    BY <2>1, <2>2
<1>6. SubSeq(b, 1, n) = p \o <<b[n]>>
  BY <1>1, SubSeqRecursiveSecond
<1>7. Append(p, b[n]) = p \o <<b[n]>>
  BY <1>2, <1>4, AppendIsConcat
<1> QED
  BY <1>2, <1>4, <1>5, <1>6, <1>7

(* The rows of a sequence, and sequences without one twice.                *)
RowsIn(s) == {s[k] : k \in DOMAIN s}
NoRowTwice(s) == \A j, k \in DOMAIN s : s[j] = s[k] => j = k

LEMMA AppendedRow ==
    ASSUME NEW S, NEW s \in Seq(S), NEW e \in S
    PROVE  /\ RowsIn(Append(s, e)) = RowsIn(s) \cup {e}
           /\ NoRowTwice(s) /\ e \notin RowsIn(s) => NoRowTwice(Append(s, e))
<1>1. /\ Len(s) \in Nat /\ DOMAIN s = 1..Len(s) /\ DOMAIN Append(s, e) = 1..(Len(s) + 1)
      /\ Append(s, e)[Len(s) + 1] = e /\ \A k \in DOMAIN s : Append(s, e)[k] = s[k]
  BY RowsOfAppend
<1>2. 1..(Len(s) + 1) = 1..Len(s) \cup {Len(s) + 1}
  BY <1>1
<1>3. RowsIn(Append(s, e)) = RowsIn(s) \cup {e}
  BY <1>1, <1>2 DEF RowsIn
<1>4. NoRowTwice(s) /\ e \notin RowsIn(s) => NoRowTwice(Append(s, e))
  BY <1>1, <1>2 DEF RowsIn, NoRowTwice
<1> QED
  BY <1>3, <1>4

(* The tail has every row but the head.                                    *)
LEMMA TailRows ==
    ASSUME NEW S, NEW s \in Seq(S), s # <<>>, NoRowTwice(s)
    PROVE  /\ Head(s) \in RowsIn(s) /\ Tail(s) \in Seq(S)
           /\ RowsIn(Tail(s)) = RowsIn(s) \ {Head(s)}
           /\ NoRowTwice(Tail(s))
<1>1. Len(s) \in Nat \ {0} /\ DOMAIN s = 1..Len(s) /\ Head(s) = s[1]
  BY EmptySeq, LenProperties
<1>2. /\ Tail(s) \in Seq(S) /\ Len(Tail(s)) = Len(s) - 1
      /\ \A i \in 1..Len(Tail(s)) : Tail(s)[i] = s[i + 1]
  BY HeadTailProperties
<1>3. DOMAIN Tail(s) = 1..(Len(s) - 1)
  BY <1>2, LenProperties
<1>4. Head(s) \in RowsIn(s)
  BY <1>1 DEF RowsIn
<1>5. \A i \in DOMAIN Tail(s) : i + 1 \in DOMAIN s /\ Tail(s)[i] = s[i + 1] /\ i + 1 # 1
  BY <1>1, <1>2, <1>3
<1>6. NoRowTwice(Tail(s))
  BY <1>3, <1>5 DEF NoRowTwice
<1>7. RowsIn(Tail(s)) \subseteq RowsIn(s) \ {Head(s)}
  BY <1>1, <1>5 DEF RowsIn, NoRowTwice
<1>8. ASSUME NEW k \in DOMAIN s, s[k] # Head(s) PROVE s[k] \in RowsIn(Tail(s))
  <2>1. k - 1 \in DOMAIN Tail(s) /\ (k - 1) + 1 = k
    BY <1>1, <1>3, <1>8
  <2> QED
    BY <1>5, <2>1 DEF RowsIn
<1> QED
  BY <1>2, <1>4, <1>6, <1>7, <1>8 DEF RowsIn

(* Taking out the i-th row leaves all others.                              *)
Without(s, i) == SubSeq(s, 1, i - 1) \o SubSeq(s, i + 1, Len(s))

LEMMA RowRemoved ==
    ASSUME NEW S, NEW s \in Seq(S), NEW i \in 1..Len(s), NoRowTwice(s)
    PROVE  /\ Without(s, i) \in Seq(S)
           /\ RowsIn(Without(s, i)) = RowsIn(s) \ {s[i]}
           /\ NoRowTwice(Without(s, i))
<1> DEFINE a == SubSeq(s, 1, i - 1)
           b == SubSeq(s, i + 1, Len(s))
           t == Without(s, i)
           n == Len(s)
           pos(k) == IF k < i THEN k ELSE k + 1
<1>1. n \in Nat /\ DOMAIN s = 1..n /\ i \in 1..n /\ \A k \in 1..n : s[k] \in S
  BY LenProperties, ElementOfSeq
<1>2. /\ a \in Seq(S) /\ Len(a) = i - 1 /\ \A k \in 1..(i - 1) : a[k] = s[k]
  <2>1. \A k \in 1..(i - 1) : s[k] \in S
    BY <1>1
  <2>2. /\ a \in Seq(S) /\ Len(a) = IF 1 <= i - 1 THEN (i - 1) - 1 + 1 ELSE 0
        /\ \A k \in 1..((i - 1) - 1 + 1) : a[k] = s[1 + k - 1]
    BY <1>1, <2>1, SubSeqProperties
  <2> HIDE DEF a
  <2>3. (i - 1) - 1 + 1 = i - 1 /\ \A k \in 1..(i - 1) : 1 + k - 1 = k
    BY <1>1
  <2> QED
    BY <1>1, <2>2, <2>3
<1>3. /\ b \in Seq(S) /\ Len(b) = n - i /\ \A k \in 1..(n - i) : b[k] = s[i + k]
  <2>1. \A k \in (i + 1)..n : s[k] \in S
    BY <1>1
  <2>2. /\ b \in Seq(S) /\ Len(b) = IF i + 1 <= n THEN n - (i + 1) + 1 ELSE 0
        /\ \A k \in 1..(n - (i + 1) + 1) : b[k] = s[(i + 1) + k - 1]
    BY <1>1, <2>1, SubSeqProperties
  <2> HIDE DEF b
  <2>3. n - (i + 1) + 1 = n - i /\ \A k \in 1..(n - i) : (i + 1) + k - 1 = i + k
    BY <1>1
  <2> HIDE DEF n
  <2>4. Len(b) = n - i
    BY <1>1, <2>2, <2>3
  <2>5. ASSUME NEW k \in 1..(n - i) PROVE b[k] = s[i + k]
    <3>1. k \in 1..(n - (i + 1) + 1) /\ (i + 1) + k - 1 = i + k
      BY <2>3
    <3>2. b[k] = s[(i + 1) + k - 1]
      BY <2>2, <3>1
    <3> QED
      BY <3>1, <3>2
  <2> QED
    BY <2>2, <2>4, <2>5
<1> HIDE DEF a, b, n, t
<1>4. /\ t \in Seq(S) /\ Len(t) = (i - 1) + (n - i)
      /\ \A k \in 1..((i - 1) + (n - i)) : t[k] = IF k <= i - 1 THEN a[k] ELSE b[k - (i - 1)]
  <2>1. t = a \o b
    BY DEF a, b, t, Without
  <2>2. /\ a \o b \in Seq(S) /\ Len(a \o b) = Len(a) + Len(b)
        /\ \A k \in 1..(Len(a) + Len(b)) :
              (a \o b)[k] = IF k <= Len(a) THEN a[k] ELSE b[k - Len(a)]
    BY <1>2, <1>3, ConcatProperties
  <2> QED
    BY <1>2, <1>3, <2>1, <2>2
<1>5. (i - 1) + (n - i) = n - 1
  BY <1>1
<1>6. DOMAIN t = 1..(n - 1)
  BY <1>4, <1>5, LenProperties
<1>7. ASSUME NEW k \in 1..(n - 1) PROVE t[k] = s[pos(k)] /\ pos(k) \in 1..n /\ pos(k) # i
  <2>1. CASE k < i
    BY <1>1, <1>2, <1>4, <1>5, <2>1
  <2>2. CASE ~(k < i)
    <3>1. k - (i - 1) \in 1..(n - i) /\ i + (k - (i - 1)) = k + 1 /\ ~(k <= i - 1)
      BY <1>1, <2>2
    <3> QED
      BY <1>1, <1>3, <1>4, <1>5, <2>2, <3>1
  <2> QED
    BY <2>1, <2>2
<1>8. \A j, k \in 1..(n - 1) : pos(j) = pos(k) => j = k
  BY <1>1
<1>9. \A j \in 1..n : j # i => \E k \in 1..(n - 1) : pos(k) = j
  <2> SUFFICES ASSUME NEW j \in 1..n, j # i PROVE \E k \in 1..(n - 1) : pos(k) = j
    OBVIOUS
  <2>1. CASE j < i
    BY <1>1, <2>1
  <2>2. CASE j > i
    <3>1. j - 1 \in 1..(n - 1) /\ ~(j - 1 < i) /\ (j - 1) + 1 = j
      BY <1>1, <2>2
    <3> QED
      BY <3>1
  <2> QED
    BY <1>1, <2>1, <2>2
<1> HIDE DEF pos
<1>10. NoRowTwice(t)
  BY <1>1, <1>6, <1>7, <1>8 DEF NoRowTwice
<1>11. RowsIn(t) \subseteq RowsIn(s) \ {s[i]}
  BY <1>1, <1>6, <1>7 DEF RowsIn, NoRowTwice
<1>12. RowsIn(s) \ {s[i]} \subseteq RowsIn(t)
  <2> SUFFICES ASSUME NEW j \in 1..n, s[j] # s[i] PROVE s[j] \in RowsIn(t)
    BY <1>1 DEF RowsIn
  <2>1. PICK k \in 1..(n - 1) : pos(k) = j
    BY <1>9
  <2> QED
    BY <1>6, <1>7, <2>1 DEF RowsIn
<1> QED
  BY <1>4, <1>10, <1>11, <1>12 DEF t

(* Two sequences with no row in common, one after the other.               *)
LEMMA JoinedRows ==
    ASSUME NEW S, NEW p \in Seq(S), NEW q \in Seq(S)
    PROVE  /\ p \o q \in Seq(S)
           /\ RowsIn(p \o q) = RowsIn(p) \cup RowsIn(q)
           /\ NoRowTwice(p) /\ NoRowTwice(q) /\ RowsIn(p) \cap RowsIn(q) = {} => NoRowTwice(p \o q)
<1> DEFINE t == p \o q
<1>1. /\ t \in Seq(S) /\ Len(t) = Len(p) + Len(q) /\ Len(p) \in Nat /\ Len(q) \in Nat
      /\ DOMAIN p = 1..Len(p) /\ DOMAIN q = 1..Len(q) /\ DOMAIN t = 1..Len(t)
      /\ \A k \in 1..Len(t) : t[k] = IF k <= Len(p) THEN p[k] ELSE q[k - Len(p)]
  BY ConcatProperties, LenProperties
<1> HIDE DEF t
<1>2. /\ \A k \in DOMAIN p : k \in DOMAIN t /\ t[k] = p[k]
      /\ \A k \in DOMAIN q : k + Len(p) \in DOMAIN t /\ t[k + Len(p)] = q[k]
  BY <1>1
<1>3. \A k \in DOMAIN t : \/ k \in DOMAIN p /\ t[k] = p[k]
                          \/ k - Len(p) \in DOMAIN q /\ t[k] = q[k - Len(p)] /\ k \notin DOMAIN p
  BY <1>1
<1>4. RowsIn(t) = RowsIn(p) \cup RowsIn(q)
  BY <1>2, <1>3 DEF RowsIn
<1>5. ASSUME NoRowTwice(p), NoRowTwice(q), RowsIn(p) \cap RowsIn(q) = {},
             NEW j \in DOMAIN t, NEW k \in DOMAIN t, t[j] = t[k]
      PROVE  j = k
  <2>1. CASE j \in DOMAIN p /\ k \in DOMAIN p
    BY <1>2, <1>5, <2>1 DEF NoRowTwice
  <2>2. CASE j \notin DOMAIN p /\ k \notin DOMAIN p
    <3>1. j - Len(p) = k - Len(p)
      BY <1>3, <1>5, <2>2 DEF NoRowTwice
    <3> QED
      BY <1>1, <3>1
  <2>3. CASE ~(j \in DOMAIN p <=> k \in DOMAIN p)
    BY <1>3, <1>5, <2>3 DEF RowsIn
  <2> QED
    BY <2>1, <2>2, <2>3
<1> QED
  BY <1>1, <1>4, <1>5 DEF NoRowTwice, t
==============================================================================
