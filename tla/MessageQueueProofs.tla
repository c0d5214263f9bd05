-------------------------- MODULE MessageQueueProofs --------------------------
(***************************************************************************)
(* What the slice algorithms do for every queue, and that a queue stays    *)
(* ordered and bounded for every value of the constants.                   *)
(***************************************************************************)
EXTENDS MessageQueue, TLAPS, FiniteSetTheorems, SequenceTheorems,
        WellFoundedInduction

(***************************************************************************)
(* The smallest and the largest index of a set.                            *)
(***************************************************************************)

(* A non-empty set of natural numbers has a smallest element.              *)
LEMMA LeastElement ==
    ASSUME NEW S \in SUBSET Nat, S # {}
    PROVE  \E m \in S : \A n \in S : m <= n
<1>1. PICK m \in S : \A n \in S : ~(<<n, m>> \in OpToRel(<, Nat))
  BY NatLessThanWellFounded, WFMin
<1>2. \A n \in S : ~(n < m)
  BY <1>1 DEF OpToRel
<1> QED
  BY <1>2

(* FirstOf picks it.                                                       *)
LEMMA FirstOfProperty ==
    ASSUME NEW S \in SUBSET Nat, S # {}
    PROVE  FirstOf(S) \in S /\ \A j \in S : FirstOf(S) <= j
BY LeastElement DEF FirstOf

(* LastOf picks the largest element of a bounded set.                      *)
LEMMA LastOfProperty ==
    ASSUME NEW n \in Nat, NEW S \in SUBSET (1..n), S # {}
    PROVE  LastOf(S) \in S /\ \A j \in S : j <= LastOf(S)
<1> DEFINE T == {n - i : i \in S}
<1>1. T \in SUBSET Nat
  <2>1. \A i \in S : n - i \in Nat
    OBVIOUS
  <2> QED
    BY <2>1, Zenon
<1>2. T # {}
  BY Zenon
<1>3. PICK t \in T : \A u \in T : t <= u
  BY <1>1, <1>2, LeastElement
<1>4. PICK i \in S : t = n - i
  BY <1>3
<1>5. \A j \in S : j <= i
  <2> TAKE j \in S
  <2>1. n - i <= n - j
    BY <1>3, <1>4
  <2> QED
    BY <2>1
<1> QED
  BY <1>4, <1>5 DEF LastOf

(***************************************************************************)
(* Subsequences.  r picks some of the elements of s, in their order.       *)
(***************************************************************************)
Picks(r, s) ==
    \E g \in [1..Len(r) -> 1..Len(s)] :
        /\ \A i, j \in 1..Len(r) : i < j => g[i] < g[j]
        /\ \A i \in 1..Len(r) : r[i] = s[g[i]]

(* A subsequence of an ordered queue is ordered.                           *)
LEMMA PicksOrdered ==
    ASSUME NEW s, NEW r, Ordered(s), Picks(r, s)
    PROVE  Ordered(r)
<1>1. PICK g \in [1..Len(r) -> 1..Len(s)] :
          /\ \A i, j \in 1..Len(r) : i < j => g[i] < g[j]
          /\ \A i \in 1..Len(r) : r[i] = s[g[i]]
  BY DEF Picks
<1> SUFFICES ASSUME NEW i \in 1..Len(r), NEW j \in 1..Len(r), i < j
             PROVE  Precedes(r[i], r[j])
  BY DEF Ordered
<1> QED
  BY <1>1 DEF Ordered

(* A piece of a sequence picks its elements.                               *)
LEMMA SubSeqPicks ==
    ASSUME NEW E, NEW s \in Seq(E), NEW m \in 1..(Len(s) + 1)
    PROVE  /\ SubSeq(s, m, Len(s)) \in Seq(E)
           /\ Len(SubSeq(s, m, Len(s))) = Len(s) - m + 1
           /\ Picks(SubSeq(s, m, Len(s)), s)
<1> DEFINE r == SubSeq(s, m, Len(s))
           g == [i \in 1..Len(r) |-> m + i - 1]
<1>1. /\ r \in Seq(E)
      /\ Len(r) = Len(s) - m + 1
      /\ \A i \in 1..Len(r) : r[i] = s[m + i - 1]
  <2>1. \A i \in m..Len(s) : s[i] \in E
    BY ElementOfSeq
  <2> QED
    BY <2>1, SubSeqProperties, LenProperties
<1>2. g \in [1..Len(r) -> 1..Len(s)]
  BY <1>1, LenProperties
<1>3. \A i, j \in 1..Len(r) : i < j => g[i] < g[j]
  BY <1>1, LenProperties
<1>4. \A i \in 1..Len(r) : r[i] = s[g[i]]
  BY <1>1, LenProperties
<1>5. Picks(r, s)
  <2> HIDE DEF g, r
  <2> QED
    BY <1>2, <1>3, <1>4 DEF Picks
<1> QED
  BY <1>1, <1>5

(***************************************************************************)
(* Keep                                                                    *)
(***************************************************************************)

(* Ranks are numbers, and grow with the index.                             *)
LEMMA RankProperties ==
    ASSUME NEW n \in Nat, NEW K \in SUBSET (1..n)
    PROVE  /\ IsFiniteSet(K)
           /\ Cardinality(K) \in 0..n
           /\ \A i \in K : Rank(K, i) \in Nat
           /\ \A i, j \in K : i <= j => Rank(K, i) <= Rank(K, j)
<1>1. IsFiniteSet(1..n) /\ Cardinality(1..n) = n
  BY FS_Interval
<1>2. IsFiniteSet(K) /\ Cardinality(K) <= n
  BY <1>1, FS_Subset
<1>3. Cardinality(K) \in Nat
  BY <1>2, FS_CardinalityType
<1>4. \A i \in K : IsFiniteSet({k \in K : k <= i})
  BY <1>2, FS_Subset
<1>5. \A i \in K : Rank(K, i) \in Nat
  BY <1>4, FS_CardinalityType DEF Rank
<1>6. ASSUME NEW i \in K, NEW j \in K, i <= j
      PROVE  Rank(K, i) <= Rank(K, j)
  <2>1. \A k \in K : k <= i => k <= j
    BY <1>6
  <2>2. {k \in K : k <= i} \subseteq {k \in K : k <= j}
    BY <2>1, Zenon
  <2> QED
    BY <2>2, <1>4, FS_Subset DEF Rank
<1> QED
  BY <1>2, <1>3, <1>5, <1>6

(* Every number up to the cardinality is the rank of an index.             *)
LEMMA RankOnto ==
    ASSUME NEW n \in Nat, NEW K \in SUBSET (1..n), NEW k \in 1..Cardinality(K)
    PROVE  \E i \in K : Rank(K, i) = k
<1>1. /\ IsFiniteSet(K)
      /\ Cardinality(K) \in 0..n
      /\ \A i \in K : Rank(K, i) \in Nat
  BY RankProperties
<1>2. K # {}
  BY <1>1, FS_EmptySet
<1>3. \A i \in K : i \in Nat
  OBVIOUS
<1> DEFINE T == {i \in K : k <= Rank(K, i)}
<1>4. LastOf(K) \in T
  <2>1. LastOf(K) \in K /\ \A j \in K : j <= LastOf(K)
    BY <1>2, LastOfProperty
  <2>2. {j \in K : j <= LastOf(K)} = K
    BY <2>1
  <2> QED
    BY <2>1, <2>2, <1>1 DEF Rank
<1>5. PICK m \in T : \A i \in T : m <= i
  <2>1. T \in SUBSET Nat /\ T # {}
    BY <1>4, <1>3, Zenon
  <2> HIDE DEF T
  <2> QED
    BY <2>1, LeastElement
<1> DEFINE B == {j \in K : j < m}
<1>6. /\ IsFiniteSet(B)
      /\ Cardinality(B) \in Nat
  BY <1>1, FS_Subset, FS_CardinalityType
<1>7. Rank(K, m) = Cardinality(B) + 1
  <2>1. \A j \in K : j <= m <=> (j < m \/ j = m)
    OBVIOUS
  <2>2. {j \in K : j <= m} = B \cup {m}
    BY <2>1, Zenon
  <2>3. m \notin B
    OBVIOUS
  <2> QED
    BY <2>2, <2>3, <1>6, FS_AddElement DEF Rank
<1>8. Cardinality(B) < k
  <2>1. CASE B = {}
    BY <2>1, FS_EmptySet, <1>1
  <2>2. CASE B # {}
    <3>1. LastOf(B) \in B /\ \A j \in B : j <= LastOf(B)
      BY <2>2, LastOfProperty
    <3>2. \A j \in K : j <= LastOf(B) <=> j < m
      <4>1. m \in Nat /\ LastOf(B) \in Nat /\ LastOf(B) < m
        BY <3>1, <1>3, Zenon
      <4>2. \A j \in K : j < m => j <= LastOf(B)
        BY <3>1, Zenon
      <4> HIDE DEF B, T
      <4>3. \A j \in K : j <= LastOf(B) => j < m
        BY <4>1, <1>3
      <4> QED
        BY <4>2, <4>3
    <3>3. {j \in K : j <= LastOf(B)} = B
      BY <3>2, Zenon
    <3>4. Rank(K, LastOf(B)) = Cardinality(B)
      BY <3>3 DEF Rank
    <3>5. LastOf(B) \notin T
      <4>1. m \in Nat /\ LastOf(B) \in Nat /\ LastOf(B) < m
        BY <3>1, <1>3, Zenon
      <4>2. ~(m <= LastOf(B))
        <5> HIDE DEF B
        <5> QED
          BY <4>1
      <4> QED
        BY <4>2, <1>5
    <3> QED
      BY <3>1, <3>4, <3>5, <1>1, <1>6
  <2> QED
    BY <2>1, <2>2
<1> QED
  BY <1>5, <1>6, <1>7, <1>8, <1>1

(* Keep is the subsequence at the given indices.                           *)
LEMMA KeepPicks ==
    ASSUME NEW E, NEW s \in Seq(E), NEW K \in SUBSET (1..Len(s))
    PROVE  /\ Keep(s, K) \in Seq(E)
           /\ Len(Keep(s, K)) = Cardinality(K)
           /\ Len(Keep(s, K)) <= Len(s)
           /\ Picks(Keep(s, K), s)
<1> DEFINE n == Len(s)
           c == Cardinality(K)
           g == [k \in 1..c |-> CHOOSE i \in K : Rank(K, i) = k]
<1>1. n \in Nat /\ \A i \in 1..n : s[i] \in E
  BY LenProperties, ElementOfSeq
<1>2. /\ IsFiniteSet(K)
      /\ c \in 0..n
      /\ \A i \in K : Rank(K, i) \in Nat
      /\ \A i, j \in K : i <= j => Rank(K, i) <= Rank(K, j)
  <2> HIDE DEF n
  <2> QED
    BY <1>1, RankProperties DEF n
<1>3. \A k \in 1..c : g[k] \in K /\ Rank(K, g[k]) = k
  BY <1>1, RankOnto
<1>4. g \in [1..c -> 1..n]
  BY <1>3
<1>5. \A i, j \in 1..c : i < j => g[i] < g[j]
  <2> SUFFICES ASSUME NEW i \in 1..c, NEW j \in 1..c, i < j, ~(g[i] < g[j])
               PROVE  FALSE
    OBVIOUS
  <2>1. g[i] \in K /\ g[j] \in K /\ Rank(K, g[i]) = i /\ Rank(K, g[j]) = j
    BY <1>3
  <2> HIDE DEF g, c
  <2>2. g[i] \in Nat /\ g[j] \in Nat
    <3>1. \A k \in K : k \in Nat
      BY <1>1
    <3> QED
      BY <2>1, <3>1, Zenon
  <2>3. g[j] <= g[i]
    BY <2>2
  <2>4. Rank(K, g[j]) <= Rank(K, g[i])
    BY <2>1, <2>3, <1>2
  <2> QED
    BY <2>1, <2>4, <1>2
<1>6. Keep(s, K) = [k \in 1..c |-> s[g[k]]]
  BY DEF Keep
<1>7. Keep(s, K) \in [1..c -> E]
  <2> HIDE DEF g, c, n
  <2> QED
    BY <1>1, <1>4, <1>6
<1>8. Keep(s, K) \in Seq(E) /\ Len(Keep(s, K)) = c
  BY <1>2, <1>7, SeqDef, LenProperties
<1>9. Picks(Keep(s, K), s)
  <2> HIDE DEF g, c, n
  <2> QED
    BY <1>4, <1>5, <1>6, <1>8 DEF Picks, n
<1> QED
  BY <1>2, <1>8, <1>9

(* Different indices have different ranks, and an index above the set is   *)
(* ranked after all of them.                                               *)
LEMMA RankAbove ==
    ASSUME NEW n \in Nat, NEW K \in SUBSET (1..n)
    PROVE  /\ \A i, j \in K : Rank(K, i) = Rank(K, j) => i = j
           /\ Rank(K \cup {n + 1}, n + 1) = Cardinality(K) + 1
           /\ \A i \in K : Rank(K \cup {n + 1}, i) = Rank(K, i)
           /\ \A i \in K : Rank(K, i) \in 1..Cardinality(K)
           /\ Cardinality(K \cup {n + 1}) = Cardinality(K) + 1
<1>1. /\ IsFiniteSet(K) /\ Cardinality(K) \in 0..n
      /\ \A i \in K : Rank(K, i) \in Nat
      /\ \A i \in K : i \in Nat /\ i <= n
  BY RankProperties
<1>2. \A i \in K : IsFiniteSet({k \in K : k <= i})
  BY <1>1, FS_Subset
<1>3. ASSUME NEW i \in K, NEW j \in K, i < j
      PROVE  Rank(K, i) # Rank(K, j)
  <2> DEFINE A == {k \in K : k <= i}
             B == {k \in K : k <= j}
  <2>1. A \in SUBSET B /\ j \in B /\ j \notin A
    <3>1. \A k \in K : k <= i => k <= j
      BY <1>1, <1>3
    <3>2. ~(j <= i) /\ j <= j
      BY <1>1, <1>3
    <3> QED
      BY <3>1, <3>2, Zenon
  <2>2. IsFiniteSet(B)
    BY <1>2
  <2> HIDE DEF A, B
  <2>3. Cardinality(A) # Cardinality(B)
    BY <2>1, <2>2, FS_Subset
  <2> QED
    BY <2>3 DEF Rank, A, B
<1>4. \A i, j \in K : Rank(K, i) = Rank(K, j) => i = j
  <2> TAKE i, j \in K
  <2>1. i < j \/ j < i \/ i = j
    BY <1>1
  <2> QED
    BY <2>1, <1>3
<1>5. n + 1 \notin K /\ n + 1 \in Nat
  BY <1>1
<1>6. Cardinality(K \cup {n + 1}) = Cardinality(K) + 1
  BY <1>1, <1>5, FS_AddElement
<1>7. Rank(K \cup {n + 1}, n + 1) = Cardinality(K) + 1
  <2>1. \A j \in K \cup {n + 1} : j <= n + 1
    BY <1>1
  <2>2. {j \in K \cup {n + 1} : j <= n + 1} = K \cup {n + 1}
    BY <2>1, Zenon
  <2> QED
    BY <2>2, <1>6 DEF Rank
<1>8. ASSUME NEW i \in K
      PROVE  Rank(K \cup {n + 1}, i) = Rank(K, i)
  <2>1. ~(n + 1 <= i)
    BY <1>1
  <2>2. {j \in K \cup {n + 1} : j <= i} = {j \in K : j <= i}
    BY <2>1, Zenon
  <2> QED
    BY <2>2 DEF Rank
<1>9. ASSUME NEW i \in K
      PROVE  Rank(K, i) \in 1..Cardinality(K)
  <2> DEFINE A == {k \in K : k <= i}
  <2>1. A \in SUBSET K /\ i \in A
    BY <1>1
  <2>2. IsFiniteSet(A)
    BY <1>2
  <2> HIDE DEF A
  <2>3. Cardinality(A) <= Cardinality(K) /\ Cardinality(A) # 0
    BY <2>1, <2>2, <1>1, FS_Subset, FS_EmptySet
  <2>4. Rank(K, i) = Cardinality(A)
    BY DEF Rank, A
  <2> QED
    BY <2>3, <2>4, <1>1
<1> QED
  BY <1>4, <1>6, <1>7, <1>8, <1>9

(* To keep one more index, above the others, is to append its element.     *)
LEMMA KeepAppend ==
    ASSUME NEW E, NEW s \in Seq(E), NEW n \in 0..(Len(s) - 1),
           NEW K \in SUBSET (1..n)
    PROVE  Keep(s, K \cup {n + 1}) = Append(Keep(s, K), s[n + 1])
<1> DEFINE L == K \cup {n + 1}
           c == Cardinality(K)
<1>1. /\ Len(s) \in Nat /\ n \in Nat /\ n + 1 \in 1..Len(s) /\ s[n + 1] \in E
      /\ K \in SUBSET (1..Len(s)) /\ L \in SUBSET (1..Len(s))
  <2>1. Len(s) \in Nat
    BY LenProperties
  <2>2. n \in Nat /\ n + 1 \in 1..Len(s)
    BY <2>1
  <2> QED
    BY <2>1, <2>2, ElementOfSeq
<1>2. /\ \A i, j \in K : Rank(K, i) = Rank(K, j) => i = j
      /\ Rank(L, n + 1) = c + 1
      /\ \A i \in K : Rank(L, i) = Rank(K, i)
      /\ \A i \in K : Rank(K, i) \in 1..c
      /\ Cardinality(L) = c + 1
      /\ c \in Nat
  <2>1. c \in Nat
    BY <1>1, RankProperties
  <2>2. n \in Nat /\ K \in SUBSET (1..n)
    BY <1>1
  <2> QED
    BY <2>1, <2>2, RankAbove, Zenon
<1>3. /\ Keep(s, K) \in Seq(E) /\ Len(Keep(s, K)) = c
      /\ Keep(s, L) \in Seq(E) /\ Len(Keep(s, L)) = c + 1
  <2> HIDE DEF L, c
  <2> QED
    BY <1>1, <1>2, KeepPicks DEF c
<1> DEFINE r == Append(Keep(s, K), s[n + 1])
<1>4. /\ r \in Seq(E) /\ Len(r) = c + 1
      /\ \A k \in 1..c : r[k] = Keep(s, K)[k]
      /\ r[c + 1] = s[n + 1]
  <2> HIDE DEF c
  <2> QED
    BY <1>1, <1>3, AppendProperties
<1>5. ASSUME NEW k \in 1..(c + 1)
      PROVE  Keep(s, L)[k] = r[k]
  <2> DEFINE at(S) == CHOOSE i \in S : Rank(S, i) = k
  <2>1. Keep(s, L)[k] = s[at(L)]
    BY <1>2 DEF Keep
  <2>2. CASE k = c + 1
    <3>1. \A i \in L : Rank(L, i) = k => i = n + 1
      <4> SUFFICES ASSUME NEW i \in K, Rank(L, i) = k PROVE FALSE
        OBVIOUS
      <4> HIDE DEF L, c
      <4> QED
        BY <1>2, <2>2
    <3>2. n + 1 \in L /\ Rank(L, n + 1) = k
      BY <1>2, <2>2
    <3> HIDE DEF L, c, r
    <3>3. at(L) = n + 1
      BY <3>1, <3>2, Zenon
    <3> QED
      BY <2>1, <2>2, <3>3, <1>4
  <2>3. CASE k # c + 1
    <3>1. k \in 1..c
      BY <2>3, <1>2
    <3>2. PICK m \in K : Rank(K, m) = k
      <4> HIDE DEF L
      <4> QED
        BY <3>1, <1>1, RankOnto
    <3>3. \A i \in K : Rank(K, i) = k => i = m
      BY <3>2, <1>2
    <3>4. \A i \in L : Rank(L, i) = k => i = m
      <4> SUFFICES ASSUME NEW i \in L, Rank(L, i) = k PROVE i = m
        OBVIOUS
      <4>1. i # n + 1
        BY <1>2, <2>3
      <4>2. i \in K
        BY <4>1
      <4> QED
        BY <4>2, <3>3, <1>2
    <3>5. m \in L /\ Rank(L, m) = k
      BY <3>2, <1>2
    <3> HIDE DEF L, c, r
    <3>6. at(L) = m /\ at(K) = m
      BY <3>2, <3>3, <3>4, <3>5, Zenon
    <3>7. Keep(s, K)[k] = s[at(K)]
      BY <3>1 DEF Keep, c
    <3> QED
      BY <2>1, <3>1, <3>6, <3>7, <1>4
  <2> QED
    BY <2>2, <2>3
<1> HIDE DEF L, c, r
<1>6. Keep(s, L) = r
  BY <1>3, <1>4, <1>5, SeqEqual
<1> QED
  BY <1>6 DEF L, r

(***************************************************************************)
(* Insert                                                                  *)
(***************************************************************************)

(* What the queue's order says of two entries with integer fields.         *)
Queued == [priority : Int, outdatedAt : Int, data : Int]

(* The insert position separates the entries that are at least as          *)
(* important from those that are less important.                           *)
LEMMA InsertPosition ==
    ASSUME NEW s \in Seq(Queued), Ordered(s), NEW p \in Int
    PROVE  /\ findInsertPosition(s, p) \in 1..(Len(s) + 1)
           /\ \A i \in 1..Len(s) :
                 IF i < findInsertPosition(s, p) THEN s[i].priority <= p
                                                 ELSE s[i].priority > p
<1> DEFINE n == Len(s)
           larger == {i \in 1..n : s[i].priority > p}
           index == findInsertPosition(s, p)
<1>1. n \in Nat /\ \A i \in 1..n : s[i] \in Queued
  BY LenProperties, ElementOfSeq
<1>2. \A i \in 1..n : s[i].priority \in Int
  BY <1>1 DEF Queued
<1>3. index = FirstOf(larger \cup {n + 1})
  BY DEF findInsertPosition, Search
<1>4. (larger \cup {n + 1}) \in SUBSET Nat /\ larger \cup {n + 1} # {}
  BY <1>1
<1> HIDE DEF index
<1>5. /\ index \in larger \cup {n + 1}
      /\ \A j \in larger \cup {n + 1} : index <= j
  <2> HIDE DEF larger, n
  <2> QED
    BY <1>3, <1>4, FirstOfProperty
<1>6. index \in 1..(n + 1)
  BY <1>1, <1>5
<1>7. ASSUME NEW i \in 1..n, i < index PROVE s[i].priority <= p
  BY <1>1, <1>2, <1>5, <1>6, <1>7
<1>8. ASSUME NEW i \in 1..n, ~(i < index) PROVE s[i].priority > p
  <2>1. index \in larger
    BY <1>1, <1>5, <1>6, <1>8
  <2>2. CASE i = index
    BY <2>1, <2>2
  <2>3. CASE index < i
    <3>1. Precedes(s[index], s[i])
      BY <2>1, <2>3 DEF Ordered
    <3> QED
      BY <3>1, <2>1, <1>2 DEF Precedes
  <2> QED
    BY <1>1, <1>6, <1>8, <2>2, <2>3
<1> QED
  BY <1>6, <1>7, <1>8 DEF index

(* Insert keeps the queue ordered: the newest entry of its priority goes   *)
(* behind the others.                                                      *)
LEMMA InsertOrdered ==
    ASSUME NEW E \in SUBSET Queued, NEW s \in Seq(E), Ordered(s), NEW e \in E,
           \A i \in 1..Len(s) : s[i].data < e.data
    PROVE  /\ Insert(s, e) \in Seq(E)
           /\ Len(Insert(s, e)) = Len(s) + 1
           /\ Ordered(Insert(s, e))
           /\ \A i \in 1..Len(Insert(s, e)) :
                 \/ Insert(s, e)[i] = e
                 \/ \E j \in 1..Len(s) : Insert(s, e)[i] = s[j]
           /\ \E i \in 1..Len(Insert(s, e)) : Insert(s, e)[i] = e
           /\ \A j \in 1..Len(s) : \E i \in 1..Len(Insert(s, e)) : Insert(s, e)[i] = s[j]
<1> DEFINE n == Len(s)
           k == findInsertPosition(s, e.priority)
           front == SubSeq(s, 1, k - 1)
           back == SubSeq(s, k, n)
           r == Insert(s, e)
<1>1. n \in Nat /\ \A i \in 1..n : s[i] \in E
  BY LenProperties, ElementOfSeq
<1>2. e.priority \in Int /\ e.data \in Int
  BY DEF Queued
<1>3. \A i \in 1..n : s[i].priority \in Int /\ s[i].data \in Int
  BY <1>1 DEF Queued
<1>4. s \in Seq(Queued)
  BY SeqMonotonic
<1>5. /\ k \in 1..(n + 1)
      /\ \A i \in 1..n : IF i < k THEN s[i].priority <= e.priority
                                  ELSE s[i].priority > e.priority
  BY <1>2, <1>4, InsertPosition
<1> HIDE DEF k, n
<1>6. /\ front \in Seq(E)
      /\ Len(front) = k - 1
      /\ \A i \in 1..(k - 1) : front[i] = s[i]
  <2>1. \A i \in 1..(k - 1) : s[i] \in E
    BY <1>1, <1>5
  <2> QED
    BY <2>1, <1>5, <1>1, SubSeqProperties
<1>7. /\ back \in Seq(E)
      /\ Len(back) = n - k + 1
      /\ \A i \in 1..(n - k + 1) : back[i] = s[k + i - 1]
  <2>1. \A i \in k..n : s[i] \in E
    BY <1>1, <1>5
  <2> QED
    BY <2>1, <1>5, <1>1, SubSeqProperties
<1>8. <<e>> \in Seq(E) /\ Len(<<e>>) = 1 /\ <<e>>[1] = e
  OBVIOUS
<1> DEFINE upto == front \o <<e>>
<1>9. r = upto \o back
  BY DEF Insert, k, n
<1> HIDE DEF front, back, r
<1>10. /\ upto \in Seq(E)
       /\ Len(upto) = k
       /\ \A i \in 1..k : upto[i] = IF i < k THEN s[i] ELSE e
  BY <1>1, <1>5, <1>6, <1>8, ConcatProperties
<1> HIDE DEF upto
<1>11. /\ r \in Seq(E)
       /\ Len(r) = n + 1
       /\ \A i \in 1..(n + 1) : r[i] = IF i <= k THEN upto[i]
                                       ELSE back[i - k]
  BY <1>1, <1>5, <1>7, <1>9, <1>10, ConcatProperties
<1>12. \A i \in 1..(n + 1) : r[i] = IF i < k THEN s[i]
                                    ELSE IF i = k THEN e ELSE s[i - 1]
  <2> TAKE i \in 1..(n + 1)
  <2>1. CASE i <= k
    <3>1. r[i] = upto[i] /\ i \in 1..k
      BY <2>1, <1>1, <1>5, <1>11
    <3>2. r[i] = IF i < k THEN s[i] ELSE e
      BY <3>1, <1>10
    <3> QED
      BY <2>1, <3>2, <1>1, <1>5
  <2>2. CASE ~(i <= k)
    <3>1. r[i] = back[i - k] /\ i - k \in 1..(n - k + 1)
      BY <2>2, <1>1, <1>5, <1>11
    <3>2. r[i] = s[k + (i - k) - 1]
      BY <3>1, <1>7
    <3>3. k + (i - k) - 1 = i - 1
      BY <1>1, <1>5
    <3> QED
      BY <2>2, <3>2, <3>3, <1>1, <1>5
  <2> QED
    BY <2>1, <2>2
<1>13. Ordered(r)
  <2> SUFFICES ASSUME NEW i \in 1..(n + 1), NEW j \in 1..(n + 1), i < j
               PROVE  Precedes(r[i], r[j])
    BY <1>11 DEF Ordered
  <2>1. \A a, b \in 1..n : a < b => Precedes(s[a], s[b])
    BY DEF Ordered, n
  <2>2. CASE j < k
    BY <2>1, <2>2, <1>1, <1>5, <1>12
  <2>3. CASE j = k
    <3>1. r[i] = s[i] /\ r[j] = e /\ i \in 1..n
      BY <2>3, <1>1, <1>5, <1>12
    <3>2. s[i].priority <= e.priority /\ s[i].data < e.data
      BY <2>3, <3>1, <1>5 DEF n
    <3> QED
      BY <3>1, <3>2, <1>2, <1>3 DEF Precedes
  <2>4. CASE k < j
    <3>1. r[j] = s[j - 1] /\ j - 1 \in 1..n /\ s[j - 1].priority > e.priority
      BY <2>4, <1>1, <1>5, <1>12
    <3>2. CASE i < k
      BY <3>1, <3>2, <2>1, <2>4, <1>1, <1>5, <1>12
    <3>3. CASE i = k
      BY <3>1, <3>3, <1>2, <1>3, <1>5, <1>12 DEF Precedes
    <3>4. CASE k < i
      BY <3>1, <3>4, <2>1, <1>1, <1>5, <1>12
    <3> QED
      BY <3>2, <3>3, <3>4, <1>5, <1>1
  <2> QED
    BY <2>2, <2>3, <2>4, <1>5, <1>1
<1>14. ASSUME NEW i \in 1..Len(r) PROVE r[i] = e \/ \E j \in 1..n : r[i] = s[j]
  <2>1. i \in 1..(n + 1)
    BY <1>11
  <2>2. CASE i < k
    <3>1. i \in 1..n /\ r[i] = s[i]
      BY <1>1, <1>5, <1>12, <2>1, <2>2
    <3> QED
      BY <3>1
  <2>3. CASE i = k
    BY <1>1, <1>5, <1>12, <2>1, <2>3
  <2>4. CASE k < i
    <3>1. i - 1 \in 1..n /\ r[i] = s[i - 1]
      BY <1>1, <1>5, <1>12, <2>1, <2>4
    <3> QED
      BY <3>1
  <2> QED
    BY <1>1, <1>5, <2>1, <2>2, <2>3, <2>4
<1>15. k \in 1..Len(r) /\ r[k] = e
  BY <1>1, <1>5, <1>11, <1>12
<1>16. ASSUME NEW j \in 1..n PROVE \E i \in 1..Len(r) : r[i] = s[j]
  <2>1. CASE j < k
    BY <1>1, <1>5, <1>11, <1>12, <2>1
  <2>2. CASE ~(j < k)
    <3>1. j + 1 \in 1..Len(r) /\ r[j + 1] = s[j + 1 - 1] /\ j + 1 - 1 = j
      BY <1>1, <1>5, <1>11, <1>12, <2>2
    <3> QED
      BY <3>1
  <2> QED
    BY <2>1, <2>2
<1> QED
  BY <1>11, <1>13, <1>14, <1>15, <1>16 DEF r, n

(***************************************************************************)
(* prune and getFirst                                                      *)
(***************************************************************************)

(* r holds the elements of u before lo and those from mid to hi.           *)
HasPieces(r, u, lo, mid, hi) ==
    /\ \A i \in 1..Len(r) :
          \E j \in 1..Len(u) : (j < lo \/ (mid <= j /\ j <= hi)) /\ r[i] = u[j]
    /\ \A j \in 1..Len(u) :
          (j < lo \/ (mid <= j /\ j <= hi)) => \E i \in 1..Len(r) : r[i] = u[j]

(* Two pieces of a queue, the second one after the first, pick elements in *)
(* their order.                                                            *)
LEMMA TwoPieces ==
    ASSUME NEW E, NEW u \in Seq(E),
           NEW lo \in 1..Len(u), NEW hi \in 1..Len(u), NEW mid \in Nat,
           lo <= mid, mid <= hi + 1
    PROVE  LET r == SubSeq(u, 1, lo - 1) \o SubSeq(u, mid, hi) IN
           /\ r \in Seq(E)
           /\ Len(r) = hi + lo - mid
           /\ Picks(r, u)
           /\ HasPieces(r, u, lo, mid, hi)
<1> DEFINE d == mid - lo
           r == SubSeq(u, 1, lo - 1) \o SubSeq(u, mid, hi)
<1>0. d \in Nat /\ mid = lo + d /\ lo + d <= hi + 1 /\ hi - d = hi + lo - mid
  BY LenProperties
<1> HIDE DEF d
<1> DEFINE a == SubSeq(u, 1, lo - 1)
           b == SubSeq(u, lo + d, hi)
           g == [i \in 1..(hi - d) |-> IF i < lo THEN i ELSE i + d]
<1>1. Len(u) \in Nat /\ d \in Nat /\ lo + d <= hi + 1 /\ \A i \in 1..Len(u) : u[i] \in E
  BY <1>0, LenProperties, ElementOfSeq
<1>2. /\ a \in Seq(E)
      /\ Len(a) = lo - 1
      /\ \A i \in 1..(lo - 1) : a[i] = u[i]
  <2>1. (\A i \in 1..(lo - 1) : u[i] \in E) /\ lo - 1 \in Int /\ 1 \in Int
    BY <1>1
  <2>2. /\ a \in Seq(E) /\ Len(a) = (IF 1 <= lo - 1 THEN lo - 1 - 1 + 1 ELSE 0)
        /\ \A i \in 1..(lo - 1 - 1 + 1) : a[i] = u[1 + i - 1]
    BY <2>1, SubSeqProperties
  <2> HIDE DEF a
  <2> QED
    BY <2>2, <1>1
<1>3. /\ b \in Seq(E)
      /\ Len(b) = hi - lo - d + 1
      /\ \A i \in 1..(hi - lo - d + 1) : b[i] = u[lo + d + i - 1]
  <2>1. (\A i \in (lo + d)..hi : u[i] \in E) /\ lo + d \in Int /\ hi \in Int
    BY <1>1
  <2>2. /\ b \in Seq(E) /\ Len(b) = (IF lo + d <= hi THEN hi - (lo + d) + 1 ELSE 0)
        /\ \A i \in 1..(hi - (lo + d) + 1) : b[i] = u[lo + d + i - 1]
    BY <2>1, SubSeqProperties
  <2> HIDE DEF b
  <2> QED
    BY <2>2, <1>1
<1>4. r = a \o b
  BY <1>0
<1> HIDE DEF a, b, r
<1>5. /\ r \in Seq(E)
      /\ Len(r) = Len(a) + Len(b)
      /\ \A i \in 1..(Len(a) + Len(b)) : r[i] = IF i <= Len(a) THEN a[i]
                                                ELSE b[i - Len(a)]
  <2>1. a \in Seq(E) /\ b \in Seq(E)
    BY <1>2, <1>3
  <2>2. /\ a \o b \in Seq(E)
        /\ Len(a \o b) = Len(a) + Len(b)
        /\ \A i \in 1..(Len(a) + Len(b)) :
              (a \o b)[i] = IF i <= Len(a) THEN a[i] ELSE b[i - Len(a)]
    BY <2>1, ConcatProperties, Zenon
  <2> QED
    BY <2>2, <1>4, Zenon
<1>6. Len(a) + Len(b) = hi - d
  BY <1>1, <1>2, <1>3
<1>7. /\ r \in Seq(E)
      /\ Len(r) = hi - d
      /\ \A i \in 1..(hi - d) : r[i] = IF i <= lo - 1 THEN a[i]
                                       ELSE b[i - (lo - 1)]
  BY <1>5, <1>6, <1>2
<1>8. g \in [1..Len(r) -> 1..Len(u)]
  BY <1>1, <1>7
<1>9. \A i, j \in 1..Len(r) : i < j => g[i] < g[j]
  BY <1>1, <1>7
<1>10. ASSUME NEW i \in 1..Len(r) PROVE r[i] = u[g[i]]
  <2>1. CASE i < lo
    <3>1. i \in 1..(lo - 1) /\ i \in 1..(hi - d) /\ i <= lo - 1
      BY <2>1, <1>1, <1>7
    <3>2. r[i] = a[i]
      BY <3>1, <1>7
    <3> QED
      BY <3>1, <3>2, <2>1, <1>2
  <2>2. CASE ~(i < lo)
    <3>1. i - (lo - 1) \in 1..(hi - lo - d + 1) /\ i \in 1..(hi - d)
          /\ ~(i <= lo - 1)
      BY <2>2, <1>1, <1>7
    <3>2. r[i] = b[i - (lo - 1)]
      BY <3>1, <1>7
    <3>3. r[i] = u[lo + d + (i - (lo - 1)) - 1]
      BY <3>1, <3>2, <1>3
    <3>4. lo + d + (i - (lo - 1)) - 1 = i + d
      BY <3>1, <1>1
    <3> QED
      BY <3>1, <3>3, <3>4, <2>2
  <2> QED
    BY <2>1, <2>2
<1>11. Picks(r, u)
  <2> HIDE DEF g
  <2> QED
    BY <1>8, <1>9, <1>10 DEF Picks
<1>12. ASSUME NEW i \in 1..Len(r)
       PROVE  \E j \in 1..Len(u) : (j < lo \/ (lo + d <= j /\ j <= hi)) /\ r[i] = u[j]
  <2>1. g[i] \in 1..Len(u) /\ (g[i] < lo \/ (lo + d <= g[i] /\ g[i] <= hi))
    BY <1>1, <1>7
  <2> QED
    BY <1>10, <2>1
<1>13. ASSUME NEW j \in 1..Len(u), j < lo \/ (lo + d <= j /\ j <= hi)
       PROVE  \E i \in 1..Len(r) : r[i] = u[j]
  <2> DEFINE i == IF j < lo THEN j ELSE j - d
  <2>1. i \in 1..Len(r) /\ g[i] = j
    BY <1>1, <1>7, <1>13
  <2> HIDE DEF g, i
  <2> QED
    BY <1>10, <2>1
<1> QED
  BY <1>0, <1>7, <1>11, <1>12, <1>13 DEF HasPieces, r

(* DropExcess leaves at most maxSize entries of the queue, in their order. *)
LEMMA DropExcessPicks ==
    ASSUME NEW E, NEW u \in Seq(E), NEW maxSize \in Nat
    PROVE  /\ DropExcess(u, maxSize) \in Seq(E)
           /\ Len(DropExcess(u, maxSize)) <= maxSize
           /\ Picks(DropExcess(u, maxSize), u)
<1>1. Len(u) \in Nat
  BY LenProperties
<1>2. CASE Len(u) <= maxSize
  <2>1. DropExcess(u, maxSize) = u
    BY <1>2 DEF DropExcess
  <2>2. Picks(u, u)
    <3> DEFINE g == [i \in 1..Len(u) |-> i]
    <3>1. g \in [1..Len(u) -> 1..Len(u)]
      OBVIOUS
    <3>2. \A i, j \in 1..Len(u) : i < j => g[i] < g[j]
      OBVIOUS
    <3>3. \A i \in 1..Len(u) : u[i] = u[g[i]]
      OBVIOUS
    <3> HIDE DEF g
    <3> QED
      BY <3>1, <3>2, <3>3 DEF Picks
  <2> QED
    BY <2>1, <2>2, <1>2
<1>3. CASE ~(Len(u) <= maxSize)
  <2> DEFINE category == {i \in 1..Len(u) :
                              u[i].priority = u[maxSize + 1].priority}
             lo == FirstOf(category)
             hi == LastOf(category)
  <2>1. maxSize + 1 \in category
    BY <1>1, <1>3
  <2>2. category \in SUBSET (1..Len(u)) /\ category \in SUBSET Nat /\ category # {}
    BY <2>1, <1>1
  <2> HIDE DEF category
  <2>3. lo \in category /\ hi \in category /\ lo <= maxSize + 1 /\ maxSize + 1 <= hi
    BY <2>1, <2>2, <1>1, FirstOfProperty, LastOfProperty
  <2>4. lo \in 1..Len(u) /\ hi \in 1..Len(u)
    BY <2>2, <2>3
  <2>5. DropExcess(u, maxSize)
          = SubSeq(u, 1, lo - 1) \o SubSeq(u, lo + hi - maxSize, hi)
    BY <1>3 DEF DropExcess, category
  <2> HIDE DEF lo, hi
  <2>6. lo + hi - maxSize \in Nat /\ lo <= lo + hi - maxSize /\ lo + hi - maxSize <= hi + 1
        /\ hi + lo - (lo + hi - maxSize) = maxSize
    BY <2>3, <2>4, <1>1
  <2>7. /\ DropExcess(u, maxSize) \in Seq(E)
        /\ Len(DropExcess(u, maxSize)) = hi + lo - (lo + hi - maxSize)
        /\ Picks(DropExcess(u, maxSize), u)
    <3> DEFINE mid == lo + hi - maxSize
               r == DropExcess(u, maxSize)
    <3>1. mid \in Nat /\ lo <= mid /\ mid <= hi + 1
          /\ r = SubSeq(u, 1, lo - 1) \o SubSeq(u, mid, hi)
      BY <2>5, <2>6
    <3> HIDE DEF mid, r
    <3>2. r \in Seq(E) /\ Len(r) = hi + lo - mid /\ Picks(r, u)
      BY <2>4, <3>1, TwoPieces
    <3> QED
      BY <3>2 DEF mid, r
  <2> QED
    BY <2>6, <2>7
<1> QED
  BY <1>2, <1>3

(* Subsequences of subsequences.                                           *)
LEMMA PicksTransitive ==
    ASSUME NEW r, NEW t, NEW s, Picks(r, t), Picks(t, s)
    PROVE  Picks(r, s)
<1>1. PICK g \in [1..Len(r) -> 1..Len(t)] :
          /\ \A i, j \in 1..Len(r) : i < j => g[i] < g[j]
          /\ \A i \in 1..Len(r) : r[i] = t[g[i]]
  BY DEF Picks
<1>2. PICK h \in [1..Len(t) -> 1..Len(s)] :
          /\ \A i, j \in 1..Len(t) : i < j => h[i] < h[j]
          /\ \A i \in 1..Len(t) : t[i] = s[h[i]]
  BY DEF Picks
<1> DEFINE f == [i \in 1..Len(r) |-> h[g[i]]]
<1>3. f \in [1..Len(r) -> 1..Len(s)]
  OBVIOUS
<1>4. \A i, j \in 1..Len(r) : i < j => f[i] < f[j]
  BY <1>1, <1>2
<1>5. \A i \in 1..Len(r) : r[i] = s[f[i]]
  BY <1>1, <1>2
<1> HIDE DEF f
<1> QED
  BY <1>3, <1>4, <1>5 DEF Picks

(* prune keeps at most maxSize of the entries, in their order.             *)
LEMMA PrunePicks ==
    ASSUME NEW E, NEW s \in Seq(E), NEW t, NEW maxSize \in Nat
    PROVE  /\ prune(s, t, maxSize) \in Seq(E)
           /\ Len(prune(s, t, maxSize)) <= maxSize
           /\ Picks(prune(s, t, maxSize), s)
<1> DEFINE K == {i \in 1..Len(s) : ~Outdated(s[i], t)}
           u == Usable(s, t)
<1>1. u = Keep(s, K)
  BY DEF Usable
<1>2. K \in SUBSET (1..Len(s))
  OBVIOUS
<1> HIDE DEF K, u
<1>3. u \in Seq(E) /\ Picks(u, s)
  BY <1>1, <1>2, KeepPicks
<1>4. /\ DropExcess(u, maxSize) \in Seq(E)
      /\ Len(DropExcess(u, maxSize)) <= maxSize
      /\ Picks(DropExcess(u, maxSize), u)
  BY <1>3, DropExcessPicks
<1>5. prune(s, t, maxSize) = DropExcess(u, maxSize)
  BY DEF prune, u
<1> QED
  BY <1>3, <1>4, <1>5, PicksTransitive

(* getFirst leaves a final part of the queue.                              *)
LEMMA StrippedPicks ==
    ASSUME NEW E, NEW s \in Seq(E), NEW t, NEW remove \in BOOLEAN
    PROVE  /\ Stripped(s, t, remove) \in Seq(E)
           /\ Len(Stripped(s, t, remove)) <= Len(s)
           /\ Picks(Stripped(s, t, remove), s)
<1> DEFINE good == {i \in 1..Len(s) : ~Outdated(s[i], t)}
           index == getFirstUsableIndex(s, t)
           gone == IF remove THEN index ELSE index - 1
           r == Stripped(s, t, remove)
<1>1. Len(s) \in Nat
  BY LenProperties
<1>2. good \in SUBSET Nat /\ good \in SUBSET (1..Len(s))
  BY <1>1
<1>3. index = IF good = {} THEN 0 ELSE FirstOf(good)
  BY DEF getFirstUsableIndex
<1> HIDE DEF good
<1>4. index \in 0..Len(s)
  <2>1. CASE good = {}
    BY <2>1, <1>1, <1>3
  <2>2. CASE good # {}
    <3>1. FirstOf(good) \in good
      BY <2>2, <1>2, FirstOfProperty
    <3>2. index \in 1..Len(s)
      BY <3>1, <2>2, <1>2, <1>3, Zenon
    <3> QED
      BY <3>2, <1>1
  <2> QED
    BY <2>1, <2>2
<1>5. r = IF index = 0 THEN <<>> ELSE SubSeq(s, gone + 1, Len(s))
  BY DEF Stripped
<1> HIDE DEF index, r
<1>6. CASE index = 0
  <2>1. r = <<>> /\ Len(r) = 0 /\ r \in Seq(E)
    BY <1>5, <1>6, EmptySeq
  <2>2. Picks(r, s)
    <3> DEFINE g == [i \in 1..Len(r) |-> i]
    <3>1. \A i \in 1..Len(r) : FALSE
      BY <2>1
    <3>2. g \in [1..Len(r) -> 1..Len(s)]
      BY <3>1
    <3> HIDE DEF g
    <3> QED
      BY <3>1, <3>2, Zenon DEF Picks
  <2> QED
    BY <2>1, <2>2, <1>1 DEF r
<1>7. CASE index # 0
  <2>1. gone + 1 \in 1..(Len(s) + 1)
    BY <1>1, <1>4, <1>7
  <2>2. r = SubSeq(s, gone + 1, Len(s))
    BY <1>5, <1>7
  <2>3. gone \in Nat
    BY <1>1, <1>4, <1>7
  <2> HIDE DEF gone
  <2>4. r \in Seq(E) /\ Len(r) = Len(s) - (gone + 1) + 1 /\ Picks(r, s)
    BY <2>1, <2>2, SubSeqPicks
  <2>5. Len(r) <= Len(s)
    BY <2>3, <2>4, <1>1
  <2> QED
    BY <2>4, <2>5 DEF r
<1> QED
  BY <1>6, <1>7

(* What prune and getFirst do preserves the order and drops entries only.  *)
LEMMA PicksKeepsInvariant ==
    ASSUME NEW s \in Seq(Entry), NEW r, Picks(r, s), Ordered(s), NEW bound \in Int,
           \A i \in 1..Len(s) : s[i].data < bound
    PROVE  /\ Ordered(r)
           /\ \A i \in 1..Len(r) : r[i].data < bound
<1>1. Ordered(r)
  BY PicksOrdered
<1>2. PICK g \in [1..Len(r) -> 1..Len(s)] : \A i \in 1..Len(r) : r[i] = s[g[i]]
  BY DEF Picks
<1> QED
  BY <1>1, <1>2

(***************************************************************************)
(* What is lost.  The messages of a queue as a set, and the ones that      *)
(* prune and getFirst do not keep.                                         *)
(***************************************************************************)
Elements(s) == {s[i] : i \in 1..Len(s)}

(* An ordered queue holds nothing twice.                                   *)
LEMMA OrderedDistinct ==
    ASSUME NEW s \in Seq(Queued), Ordered(s)
    PROVE  /\ \A i, j \in 1..Len(s) : s[i] = s[j] => i = j
           /\ Cardinality(Elements(s)) = Len(s)
<1> DEFINE n == Len(s)
<1>1. n \in Nat /\ DOMAIN s = 1..n /\ \A i \in 1..n : s[i] \in Queued
  BY LenProperties
<1>2. \A i \in 1..n : s[i].priority \in Int /\ s[i].data \in Int
  BY <1>1 DEF Queued
<1>3. \A i, j \in 1..n : i < j => s[i] # s[j]
  BY <1>1, <1>2 DEF Ordered, Precedes
<1>4. \A i, j \in 1..n : s[i] = s[j] => i = j
  BY <1>1, <1>3
<1>5. s \in [1..n -> Elements(s)]
  BY <1>1 DEF Elements
<1>6. \A e \in Elements(s) : \E i \in 1..n : s[i] = e
  BY DEF Elements
<1>7. s \in Bijection(1..n, Elements(s))
  BY <1>4, <1>5, <1>6 DEF Bijection, Injection, Surjection, IsInjective
<1>8. IsFiniteSet(1..n) /\ Cardinality(1..n) = n
  <2>1. IsFiniteSet(1..n) /\ Cardinality(1..n) = IF 1 > n THEN 0 ELSE n - 1 + 1
    BY <1>1, FS_Interval
  <2> QED
    BY <1>1, <2>1
<1>9. ExistsBijection(1..n, Elements(s))
  BY <1>7 DEF ExistsBijection
<1>10. Cardinality(Elements(s)) = n
  BY <1>8, <1>9, FS_Bijection
<1> QED
  BY <1>4, <1>10

(* The entries that are not outdated are kept, and no other.               *)
LEMMA UsableElements ==
    ASSUME NEW E, NEW s \in Seq(E), NEW t
    PROVE  Elements(Usable(s, t)) = {e \in Elements(s) : ~Outdated(e, t)}
<1> DEFINE n == Len(s)
           K == {i \in 1..n : ~Outdated(s[i], t)}
           c == Cardinality(K)
           g == [k \in 1..c |-> CHOOSE i \in K : Rank(K, i) = k]
           u == Usable(s, t)
<1>1. n \in Nat /\ K \in SUBSET (1..n)
  BY LenProperties
<1>2. IsFiniteSet(K) /\ c \in 0..n
  <2> HIDE DEF K, n
  <2> QED
    BY <1>1, RankProperties
<1>3. \A k \in 1..c : g[k] \in K /\ Rank(K, g[k]) = k
  <2> HIDE DEF K, n
  <2> QED
    BY <1>1, RankOnto
<1>4. u = [k \in 1..c |-> s[g[k]]]
  BY DEF Usable, Keep
<1>5. Len(u) = c
  <2> HIDE DEF K, n, c
  <2>1. u = Keep(s, K)
    BY DEF Usable, K, n
  <2> QED
    BY <1>1, <2>1, KeepPicks DEF c, n
<1> HIDE DEF g, u, c
<1>6. g \in [1..c -> K]
  BY <1>3 DEF g
<1>7. \A k, l \in 1..c : g[k] = g[l] => k = l
  BY <1>3
<1>8. \A i \in K : \E k \in 1..c : g[k] = i
  <2>1. IsFiniteSet(1..c) /\ Cardinality(1..c) = c
    <3>1. c \in Nat
      BY <1>1, <1>2
    <3>2. IsFiniteSet(1..c) /\ Cardinality(1..c) = IF 1 > c THEN 0 ELSE c - 1 + 1
      BY <3>1, FS_Interval
    <3> QED
      BY <3>1, <3>2
  <2> HIDE DEF K
  <2>2. g \in Injection(1..c, K)
    BY <1>6, <1>7 DEF Injection, IsInjective
  <2>3. g \in Surjection(1..c, K)
    BY <1>2, <2>1, <2>2, FS_Injection DEF c
  <2> QED
    BY <2>3 DEF Surjection
<1>9. \A k \in 1..c : u[k] = s[g[k]] /\ g[k] \in 1..n /\ ~Outdated(s[g[k]], t)
  BY <1>3, <1>4
<1>10. ASSUME NEW e \in Elements(u) PROVE e \in Elements(s) /\ ~Outdated(e, t)
  BY <1>5, <1>9, <1>10 DEF Elements
<1>11. ASSUME NEW e \in Elements(s), ~Outdated(e, t) PROVE e \in Elements(u)
  <2>1. PICK i \in 1..n : e = s[i]
    BY <1>11 DEF Elements
  <2>2. PICK k \in 1..c : g[k] = i
    BY <1>8, <1>11, <2>1
  <2> QED
    BY <1>5, <1>9, <2>1, <2>2 DEF Elements
<1> QED
  BY <1>10, <1>11 DEF u

(* Over the limit, what DropExcess drops is less worth keeping than all    *)
(* that it keeps: "Low priority elements are discarded, starting with the  *)
(* oldest ones".                                                           *)
LEMMA DropExcessLoses ==
    ASSUME NEW u \in Seq(Queued), Ordered(u), NEW maxSize \in Nat, Len(u) > maxSize
    PROVE  LET r == DropExcess(u, maxSize) IN
           /\ Len(r) = maxSize
           /\ \A d \in Elements(u) \ Elements(r), k \in Elements(r) : M!MoreWorthKeeping(k, d)
<1> DEFINE n == Len(u)
           p == u[maxSize + 1].priority
           category == {i \in 1..n : u[i].priority = p}
           lo == FirstOf(category)
           hi == LastOf(category)
           mid == lo + hi - maxSize
           r == DropExcess(u, maxSize)
<1>1. n \in Nat /\ \A i \in 1..n : u[i].priority \in Int /\ u[i].data \in Int
  <2>1. n \in Nat /\ \A i \in 1..n : u[i] \in Queued
    BY LenProperties
  <2> QED
    BY <2>1 DEF Queued
<1>2. maxSize + 1 \in category /\ p \in Int
  BY <1>1
<1>3. category \in SUBSET (1..n) /\ category \in SUBSET Nat /\ category # {}
  BY <1>1, <1>2
<1>4. \A i \in 1..n : i \in category <=> u[i].priority = p
  OBVIOUS
<1>5. ~(n <= maxSize)
  BY <1>1
<1>6. r = SubSeq(u, 1, lo - 1) \o SubSeq(u, mid, hi)
  BY <1>5 DEF DropExcess
<1> HIDE DEF category, p, n
<1>7. /\ lo \in category /\ \A j \in category : lo <= j
      /\ hi \in category /\ \A j \in category : j <= hi
  BY <1>1, <1>3, FirstOfProperty, LastOfProperty
<1>8. lo \in 1..n /\ hi \in 1..n /\ lo <= maxSize + 1 /\ maxSize + 1 <= hi
  BY <1>2, <1>3, <1>7
<1> HIDE DEF lo, hi
<1>9. mid \in Nat /\ lo <= mid /\ mid <= hi + 1 /\ hi + lo - mid = maxSize
  BY <1>1, <1>8
<1> HIDE DEF mid, r
<1>10. LET q == SubSeq(u, 1, lo - 1) \o SubSeq(u, mid, hi) IN
       Len(q) = hi + lo - mid /\ HasPieces(q, u, lo, mid, hi)
  BY <1>8, <1>9, TwoPieces DEF n
<1>11. Len(r) = maxSize /\ HasPieces(r, u, lo, mid, hi)
  BY <1>6, <1>9, <1>10
<1>12. \A i, j \in 1..n : i < j => Precedes(u[i], u[j])
  BY DEF Ordered, n
<1>13. \A i \in 1..n : i < lo => u[i].priority < p
  <2> SUFFICES ASSUME NEW i \in 1..n, i < lo PROVE u[i].priority < p
    OBVIOUS
  <2>1. i \notin category
    BY <1>1, <1>7, <1>8
  <2>2. u[lo].priority = p /\ u[i].priority # p
    BY <1>4, <1>7, <1>8, <2>1
  <2>3. Precedes(u[i], u[lo])
    BY <1>8, <1>12
  <2> QED
    BY <1>1, <1>2, <1>8, <2>2, <2>3 DEF Precedes
<1>14. \A i \in 1..n : i <= hi => u[i].priority <= p
  <2> SUFFICES ASSUME NEW i \in 1..n, i <= hi PROVE u[i].priority <= p
    OBVIOUS
  <2>1. u[hi].priority = p
    BY <1>4, <1>7, <1>8
  <2>2. i = hi \/ Precedes(u[i], u[hi])
    BY <1>1, <1>8, <1>12
  <2> QED
    BY <1>1, <1>2, <1>8, <2>1, <2>2 DEF Precedes
<1>15. \A i \in 1..n : hi < i => u[i].priority > p
  <2> SUFFICES ASSUME NEW i \in 1..n, hi < i PROVE u[i].priority > p
    OBVIOUS
  <2>1. i \notin category
    BY <1>1, <1>7, <1>8
  <2>2. u[hi].priority = p /\ u[i].priority # p
    BY <1>4, <1>7, <1>8, <2>1
  <2>3. Precedes(u[hi], u[i])
    BY <1>8, <1>12
  <2> QED
    BY <1>1, <1>2, <1>8, <2>2, <2>3 DEF Precedes
<1>16. \A i \in 1..n : lo <= i => u[i].priority >= p
  <2> SUFFICES ASSUME NEW i \in 1..n, lo <= i PROVE u[i].priority >= p
    OBVIOUS
  <2>1. u[lo].priority = p
    BY <1>4, <1>7, <1>8
  <2>2. i = lo \/ Precedes(u[lo], u[i])
    BY <1>1, <1>8, <1>12
  <2> QED
    BY <1>1, <1>2, <1>8, <2>1, <2>2 DEF Precedes
<1>17. ASSUME NEW d \in Elements(u) \ Elements(r), NEW k \in Elements(r)
       PROVE  M!MoreWorthKeeping(k, d)
  <2>1. PICK a \in 1..n : d = u[a]
    BY DEF Elements, n
  <2>2. PICK b \in 1..n : (b < lo \/ (mid <= b /\ b <= hi)) /\ k = u[b]
    <3>1. PICK i \in 1..Len(r) : k = r[i]
      BY DEF Elements
    <3>2. \E b \in 1..Len(u) : (b < lo \/ (mid <= b /\ b <= hi)) /\ r[i] = u[b]
      BY <1>11, <3>1 DEF HasPieces
    <3> QED
      BY <3>1, <3>2, Zenon DEF n
  <2>3. ~(a < lo \/ (mid <= a /\ a <= hi))
    BY <1>11, <2>1 DEF Elements, HasPieces, n
  <2>4. lo <= a /\ (a < mid \/ hi < a)
    BY <1>1, <1>8, <1>9, <2>3
  <2>5. CASE hi < a
    <3>1. d.priority > p
      BY <1>15, <2>1, <2>5
    <3>2. b <= hi
      BY <1>1, <1>8, <2>2
    <3>3. k.priority <= p
      BY <1>14, <2>2, <3>2
    <3>4. k.priority \in Int /\ d.priority \in Int
      BY <1>1, <2>1, <2>2
    <3> QED
      BY <1>2, <3>1, <3>3, <3>4 DEF M!MoreWorthKeeping
  <2>6. CASE ~(hi < a) /\ b < lo
    <3>1. k.priority < p /\ d.priority >= p
      BY <1>13, <1>16, <2>1, <2>2, <2>4, <2>6
    <3>2. k.priority \in Int /\ d.priority \in Int
      BY <1>1, <2>1, <2>2
    <3> QED
      BY <1>2, <3>1, <3>2 DEF M!MoreWorthKeeping
  <2>7. CASE ~(hi < a) /\ ~(b < lo)
    <3>1. a < b
      BY <1>9, <2>2, <2>4, <2>7
    <3>2. Precedes(d, k)
      BY <1>12, <2>1, <2>2, <3>1
    <3>3. k.priority <= p /\ d.priority >= p
      BY <1>14, <1>16, <2>1, <2>2, <2>4, <2>7
    <3>4. k.priority \in Int /\ d.priority \in Int /\ k.data \in Int /\ d.data \in Int
      BY <1>1, <2>1, <2>2
    <3> QED
      BY <1>2, <3>2, <3>3, <3>4 DEF M!MoreWorthKeeping, Precedes
  <2> QED
    BY <2>5, <2>6, <2>7
<1> QED
  BY <1>11, <1>17 DEF r

(* prune loses only outdated entries and, when the queue is full, the      *)
(* least worth keeping.                                                    *)
LEMMA PruneLoses ==
    ASSUME NEW s \in Seq(Queued), Ordered(s), NEW t, NEW maxSize \in Nat
    PROVE  LET r == prune(s, t, maxSize) IN
           /\ Elements(r) \subseteq Elements(s)
           /\ \A d \in Elements(s) \ Elements(r) :
                 \/ Outdated(d, t)
                 \/ /\ Cardinality(Elements(r)) = maxSize
                    /\ \A k \in Elements(r) : M!MoreWorthKeeping(k, d)
<1> DEFINE u == Usable(s, t)
           r == prune(s, t, maxSize)
           K == {i \in 1..Len(s) : ~Outdated(s[i], t)}
<1>1. u \in Seq(Queued) /\ Ordered(u) /\ Len(u) \in Nat
  <2>1. u = Keep(s, K) /\ K \in SUBSET (1..Len(s))
    BY DEF Usable
  <2> HIDE DEF K, u
  <2>2. u \in Seq(Queued) /\ Picks(u, s)
    BY <2>1, KeepPicks
  <2> QED
    BY <2>2, PicksOrdered, LenProperties
<1>2. Elements(u) = {e \in Elements(s) : ~Outdated(e, t)}
  BY UsableElements
<1>3. r = DropExcess(u, maxSize)
  BY DEF prune
<1> HIDE DEF u, r
<1>4. r \in Seq(Queued) /\ Picks(r, u)
  BY <1>1, <1>3, DropExcessPicks
<1>5. Elements(r) \subseteq Elements(u)
  BY <1>4 DEF Picks, Elements
<1>6. CASE Len(u) <= maxSize
  <2>1. r = u
    BY <1>3, <1>6 DEF DropExcess
  <2> QED
    BY <1>2, <2>1 DEF r
<1>7. CASE ~(Len(u) <= maxSize)
  <2>1. Len(u) > maxSize
    BY <1>1, <1>7
  <2>2. /\ Len(r) = maxSize
        /\ \A d \in Elements(u) \ Elements(r), k \in Elements(r) : M!MoreWorthKeeping(k, d)
    BY <1>1, <1>3, <2>1, DropExcessLoses
  <2>3. Ordered(r)
    BY <1>1, <1>4, PicksOrdered
  <2>4. Cardinality(Elements(r)) = maxSize
    BY <1>4, <2>2, <2>3, OrderedDistinct
  <2> QED
    BY <1>2, <1>5, <2>2, <2>4 DEF r
<1> QED
  BY <1>6, <1>7

(* getFirst throws away outdated entries, and hands out the first of the   *)
(* others.                                                                 *)
LEMMA StrippedLoses ==
    ASSUME NEW s \in Seq(Queued), Ordered(s), NEW t, NEW remove \in BOOLEAN
    PROVE  LET r == Stripped(s, t, remove)
               lost == Elements(s) \ Elements(r) IN
           /\ Elements(r) \subseteq Elements(s)
           /\ \/ \A d \in lost : Outdated(d, t)
              \/ /\ remove
                 /\ \E m \in lost :
                       /\ ~Outdated(m, t)
                       /\ \A d \in lost \ {m} : Outdated(d, t)
                       /\ \A d \in Elements(s) \ {m} : Outdated(d, t) \/ Precedes(m, d)
<1> DEFINE n == Len(s)
           good == {i \in 1..n : ~Outdated(s[i], t)}
           index == getFirstUsableIndex(s, t)
           gone == IF remove THEN index ELSE index - 1
           r == Stripped(s, t, remove)
           lost == Elements(s) \ Elements(r)
<1>1. n \in Nat /\ \A i \in 1..n : s[i] \in Queued
  BY LenProperties
<1>2. good \in SUBSET Nat /\ \A i \in 1..n : i \notin good => Outdated(s[i], t)
  BY <1>1
<1>3. index = IF good = {} THEN 0 ELSE FirstOf(good)
  BY DEF getFirstUsableIndex
<1>4. good \in SUBSET (1..n) /\ \A i \in good : ~Outdated(s[i], t)
  OBVIOUS
<1>5. r = IF index = 0 THEN <<>> ELSE SubSeq(s, gone + 1, n)
  BY DEF Stripped
<1>6. \A e \in Elements(s) : \E i \in 1..n : e = s[i]
  BY DEF Elements
<1> HIDE DEF good, index, r
<1>7. Elements(r) \subseteq Elements(s)
  <2>1. Picks(r, s)
    BY StrippedPicks DEF r
  <2> QED
    BY <2>1 DEF Picks, Elements
<1>8. CASE good = {}
  <2>1. \A d \in Elements(s) : Outdated(d, t)
    BY <1>2, <1>6, <1>8
  <2> QED
    BY <1>7, <2>1 DEF r
<1>9. CASE good # {}
  <2>1. index \in good /\ \A j \in good : index <= j
    BY <1>2, <1>3, <1>9, FirstOfProperty
  <2>2. index \in 1..n /\ ~Outdated(s[index], t) /\ \A i \in 1..n : i < index => Outdated(s[i], t)
    BY <1>1, <1>2, <1>4, <2>1
  <2>3. gone + 1 \in 1..(n + 1) /\ gone \in Nat /\ gone <= index /\ index <= gone + 1
    BY <1>1, <2>2
  <2>4. r = SubSeq(s, gone + 1, n)
    BY <1>1, <1>5, <2>2
  <2>5. (remove => gone = index) /\ (~remove => gone + 1 = index)
    BY <1>1, <2>2
  <2> HIDE DEF gone
  <2>6. Len(r) = n - gone /\ \A k \in 1..(n - gone) : r[k] = s[gone + k]
    <3>1. \A i \in (gone + 1)..n : s[i] \in Queued
      BY <1>1, <2>3
    <3>2. gone + 1 \in Int /\ n \in Int
      BY <1>1, <2>3
    <3>3. /\ Len(r) = (IF gone + 1 <= n THEN n - (gone + 1) + 1 ELSE 0)
          /\ \A k \in 1..(n - (gone + 1) + 1) : r[k] = s[gone + 1 + k - 1]
      BY <2>4, <3>1, <3>2, SubSeqProperties
    <3> HIDE DEF n
    <3> QED
      BY <1>1, <2>3, <3>3
  <2>7. \A i \in 1..n : i > gone => s[i] \in Elements(r)
    <3> SUFFICES ASSUME NEW i \in 1..n, i > gone PROVE s[i] \in Elements(r)
      OBVIOUS
    <3>1. i - gone \in 1..(n - gone) /\ gone + (i - gone) = i
      BY <1>1, <2>3
    <3>2. r[i - gone] = s[i]
      BY <2>6, <3>1
    <3> QED
      BY <2>6, <3>1, <3>2 DEF Elements
  <2>8. \A d \in lost : \E i \in 1..n : d = s[i] /\ i <= gone
    <3> SUFFICES ASSUME NEW d \in lost PROVE \E i \in 1..n : d = s[i] /\ i <= gone
      OBVIOUS
    <3>1. PICK i \in 1..n : d = s[i]
      BY <1>6
    <3>2. ~(i > gone)
      BY <2>7, <3>1
    <3> QED
      BY <1>1, <2>3, <3>1, <3>2
  <2>9. CASE ~remove
    <3>1. \A d \in lost : Outdated(d, t)
      <4> SUFFICES ASSUME NEW d \in lost PROVE Outdated(d, t)
        OBVIOUS
      <4>1. PICK i \in 1..n : d = s[i] /\ i <= gone
        BY <2>8
      <4>2. i < index
        BY <1>1, <2>2, <2>3, <2>5, <2>9, <4>1
      <4> QED
        BY <2>2, <4>1, <4>2
    <3> QED
      BY <1>7, <3>1 DEF r
  <2>10. CASE remove
    <3> DEFINE m == s[index]
    <3>1. gone = index
      BY <2>5, <2>10
    <3>2. m \in Elements(s)
      BY <2>2 DEF Elements
    <3>3. m \notin Elements(r)
      <4> SUFFICES ASSUME NEW k \in 1..Len(r), m = r[k] PROVE FALSE
        BY DEF Elements
      <4>1. k \in 1..(n - gone) /\ gone + k \in 1..n /\ index # gone + k
        BY <1>1, <2>2, <2>3, <2>6, <3>1
      <4>2. s[index] = s[gone + k]
        BY <2>6, <4>1
      <4> QED
        BY <2>2, <4>1, <4>2, OrderedDistinct
    <3>4. \A d \in lost \ {m} : Outdated(d, t)
      <4> SUFFICES ASSUME NEW d \in lost, d # m PROVE Outdated(d, t)
        OBVIOUS
      <4>1. PICK i \in 1..n : d = s[i] /\ i <= gone
        BY <2>8
      <4>2. i < index
        BY <1>1, <2>2, <3>1, <4>1
      <4> QED
        BY <2>2, <4>1, <4>2
    <3>5. \A d \in Elements(s) \ {m} : Outdated(d, t) \/ Precedes(m, d)
      <4> SUFFICES ASSUME NEW d \in Elements(s), d # m PROVE Outdated(d, t) \/ Precedes(m, d)
        OBVIOUS
      <4>1. PICK i \in 1..n : d = s[i]
        BY <1>6
      <4>2. i < index \/ index < i
        BY <1>1, <2>2, <4>1
      <4> QED
        BY <2>2, <4>1, <4>2 DEF Ordered
    <3>6. m \in lost /\ ~Outdated(m, t)
      BY <2>2, <3>2, <3>3
    <3> HIDE DEF m, lost
    <3>7. \E x \in lost : /\ ~Outdated(x, t)
                          /\ \A d \in lost \ {x} : Outdated(d, t)
                          /\ \A d \in Elements(s) \ {x} : Outdated(d, t) \/ Precedes(x, d)
      BY <3>4, <3>5, <3>6
    <3> QED
      BY <1>7, <2>10, <3>7 DEF r, lost
  <2> QED
    BY <2>9, <2>10
<1> QED
  BY <1>8, <1>9

(***************************************************************************)
(* prune in closed form and prune as loops                                 *)
(***************************************************************************)

(* The first loop of prune copies the entries that Usable keeps.           *)
LEMMA UsableLoopCopies ==
    ASSUME NEW E, NEW s \in Seq(E), NEW t
    PROVE  UsableLoop(s, t) = Usable(s, t)
<1> DEFINE Good(n) == {i \in 1..n : ~Outdated(s[i], t)}
           Round(f, n) == IF n = 0 THEN <<>>
                          ELSE IF Outdated(s[n], t) THEN f[n - 1]
                          ELSE Append(f[n - 1], s[n])
           kept == [n \in 0..Len(s) |-> Keep(s, Good(n))]
           copied == CHOOSE f : f = [n \in 0..Len(s) |-> Round(f, n)]
<1>0. Len(s) \in Nat
  BY LenProperties
<1>1. ASSUME NEW n \in 0..Len(s)
      PROVE  Keep(s, Good(n)) = Round(kept, n)
  <2>1. CASE n = 0
    <3>1. Good(n) = {}
      BY <2>1
    <3>2. Cardinality(Good(n)) = 0
      BY <3>1, FS_EmptySet
    <3> HIDE DEF Good
    <3>3. Keep(s, Good(n)) \in Seq(E) /\ Len(Keep(s, Good(n))) = 0
      BY <3>1, <3>2, KeepPicks
    <3>4. Keep(s, Good(n)) = <<>>
      BY <3>3, EmptySeq
    <3> QED
      BY <2>1, <3>4
  <2>2. CASE n # 0
    <3> DEFINE m == n - 1
    <3>1. m \in 0..(Len(s) - 1) /\ n = m + 1 /\ m \in 0..Len(s)
      BY <2>2, <1>0
    <3> HIDE DEF m
    <3>2. kept[m] = Keep(s, Good(m)) /\ Good(m) \in SUBSET (1..m)
      BY <3>1
    <3>3. CASE Outdated(s[n], t)
      <4>1. Good(n) = Good(m)
        BY <3>1, <3>3, <1>0
      <4> HIDE DEF Good, kept
      <4> QED
        BY <2>2, <3>2, <3>3, <4>1 DEF m
    <3>4. CASE ~Outdated(s[n], t)
      <4>1. Good(n) = Good(m) \cup {m + 1}
        BY <3>1, <3>4, <1>0
      <4> HIDE DEF Good, kept
      <4>2. Keep(s, Good(m) \cup {m + 1}) = Append(Keep(s, Good(m)), s[m + 1])
        BY <3>1, <3>2, KeepAppend
      <4>3. Round(kept, n) = Append(kept[n - 1], s[n])
        BY <2>2, <3>4
      <4> QED
        BY <3>1, <3>2, <4>1, <4>2, <4>3 DEF m
    <3> QED
      BY <3>3, <3>4
  <2> QED
    BY <2>1, <2>2
<1>2. kept = [n \in 0..Len(s) |-> Round(kept, n)]
  BY <1>1
<1>3. copied = [n \in 0..Len(s) |-> Round(copied, n)]
  <2> HIDE DEF kept, Round
  <2> QED
    BY <1>2
<1>4. UsableLoop(s, t) = copied[Len(s)]
  BY DEF UsableLoop
<1> HIDE DEF copied
<1>5. copied[Len(s)] = kept[Len(s)]
  <2> DEFINE Bad == {n \in 0..Len(s) : copied[n] # kept[n]}
  <2> SUFFICES ASSUME Bad # {} PROVE FALSE
    BY <1>0
  <2>1. PICK n \in Bad : \A k \in Bad : n <= k
    <3>1. Bad \in SUBSET Nat
      OBVIOUS
    <3> HIDE DEF Bad
    <3> QED
      BY <3>1, LeastElement
  <2>2. n \in 0..Len(s) /\ copied[n] = Round(copied, n) /\ kept[n] = Round(kept, n)
    <3> HIDE DEF kept, Round
    <3> QED
      BY <1>2, <1>3
  <2>3. CASE n = 0
    BY <2>2, <2>3
  <2>4. CASE n # 0
    <3>1. n - 1 \in 0..Len(s) /\ ~(n <= n - 1)
      BY <2>2, <2>4, <1>0
    <3>2. copied[n - 1] = kept[n - 1]
      BY <3>1, <2>1
    <3> QED
      BY <2>2, <3>2
  <2> QED
    BY <2>3, <2>4
<1>6. kept[Len(s)] = Usable(s, t)
  BY <1>0 DEF Usable
<1> QED
  BY <1>4, <1>5, <1>6

(* In an ordered queue the category of an entry holds every entry of its   *)
(* priority up to it: those before it are more important.                  *)
LEMMA CategoryStartProperty ==
    ASSUME NEW u \in Seq(Queued), Ordered(u), NEW n \in 1..Len(u)
    PROVE  /\ CategoryStart(u, n) \in 1..n
           /\ \A i \in CategoryStart(u, n)..n : u[i].priority = u[n].priority
           /\ \A i \in 1..(CategoryStart(u, n) - 1) : u[i].priority < u[n].priority
<1> DEFINE run == {i \in 1..n : \A j \in i..n : u[j].priority = u[n].priority}
           p == CategoryStart(u, n)
<1>1. /\ Len(u) \in Nat /\ n \in Nat
      /\ \A i \in 1..n : i \in 1..Len(u) /\ u[i].priority \in Int /\ u[i].data \in Int
  <2>1. Len(u) \in Nat /\ \A i \in 1..Len(u) : u[i] \in Queued
    BY LenProperties, ElementOfSeq
  <2>2. \A x \in Queued : x.priority \in Int /\ x.data \in Int
    BY DEF Queued
  <2>3. n \in Nat /\ \A i \in 1..n : i \in 1..Len(u)
    BY <2>1
  <2> QED
    BY <2>1, <2>2, <2>3, Zenon
<1>2. run \in SUBSET Nat /\ run \in SUBSET (1..n) /\ n \in run
  BY <1>1
<1>3. p = FirstOf(run)
  BY DEF CategoryStart
<1>4. p \in run /\ \A j \in run : p <= j
  <2> HIDE DEF run, p
  <2> QED
    BY <1>2, <1>3, FirstOfProperty
<1> HIDE DEF p
<1>5. p \in 1..n /\ \A i \in p..n : u[i].priority = u[n].priority
  BY <1>4
<1>6. ASSUME NEW i \in 1..(p - 1)
      PROVE  u[i].priority < u[n].priority
  <2>1. i \in 1..n /\ i < n /\ i < p
    BY <1>1, <1>5
  <2>2. Precedes(u[i], u[n])
    BY <2>1, <1>1 DEF Ordered
  <2>3. u[i].priority <= u[n].priority
    BY <2>1, <2>2, <1>1 DEF Precedes
  <2>4. CASE u[i].priority = u[n].priority
    <3>1. i \notin run
      <4> HIDE DEF run
      <4> QED
        BY <2>1, <1>4, <1>5
    <3>2. PICK j \in i..n : u[j].priority # u[n].priority
      BY <3>1, <2>1
    <3>3. j \in 1..n /\ i < j /\ j < n
      BY <2>1, <2>4, <3>2, <1>1
    <3>4. Precedes(u[i], u[j]) /\ Precedes(u[j], u[n])
      BY <3>3, <2>1, <1>1 DEF Ordered
    <3>5. u[i].priority <= u[j].priority /\ u[j].priority <= u[n].priority
      BY <3>3, <3>4, <2>1, <1>1 DEF Precedes
    <3> QED
      BY <3>2, <3>3, <3>5, <2>1, <2>4, <1>1
  <2> QED
    BY <2>1, <2>3, <2>4, <1>1
<1> QED
  BY <1>5, <1>6 DEF p

(* The second loop of prune leaves what DropExcess leaves of an ordered    *)
(* queue.                                                                  *)
LEMMA CategoryLoopDrops ==
    ASSUME NEW u \in Seq(Queued), Ordered(u), NEW maxSize \in Nat, Len(u) > maxSize
    PROVE  CategoryLoop(u, Len(u) - maxSize) = DropExcess(u, maxSize)
<1> DEFINE Same(n, m) == {i \in 1..n : u[i].priority = u[m + 1].priority}
           lo(n, m) == FirstOf(Same(n, m))
           hi(n, m) == LastOf(Same(n, m))
           Left(n, m) == SubSeq(u, 1, lo(n, m) - 1)
                           \o SubSeq(u, lo(n, m) + hi(n, m) - m, hi(n, m))
           Round(f, n, x) ==
             LET first == CategoryStart(u, n)
                 size  == n - first + 1
             IN  IF n = 0 THEN <<>>
                 ELSE IF size >= x
                 THEN SubSeq(u, 1, first - 1) \o SubSeq(u, first + x, n)
                 ELSE f[first - 1][x - size]
           left == [n \in 0..Len(u) |->
                      [x \in Nat \ {0} |-> IF x > n THEN <<>> ELSE Left(n, n - x)]]
           cut == CHOOSE f : f = [n \in 0..Len(u) |-> [x \in Nat \ {0} |-> Round(f, n, x)]]
<1>0. Len(u) \in Nat
  BY LenProperties
<1>1. ASSUME NEW n \in 0..Len(u), NEW x \in Nat \ {0}
      PROVE  left[n][x] = Round(left, n, x)
  <2> DEFINE p == CategoryStart(u, n)
             size == n - p + 1
  <2>1. left[n][x] = IF x > n THEN <<>> ELSE Left(n, n - x)
    <3> HIDE DEF Left
    <3> QED
      OBVIOUS
  <2>2. CASE n = 0
    <3> HIDE DEF Left, left
    <3> QED
      BY <2>1, <2>2
  <2>3. CASE n # 0
    <3>1. n \in 1..Len(u)
      BY <2>3, <1>0
    <3>2. /\ p \in 1..n
          /\ \A i \in p..n : u[i].priority = u[n].priority
          /\ \A i \in 1..(p - 1) : u[i].priority < u[n].priority
      BY <3>1, CategoryStartProperty
    <3>3. Round(left, n, x) = IF size >= x
                              THEN SubSeq(u, 1, p - 1) \o SubSeq(u, p + x, n)
                              ELSE left[p - 1][x - size]
      <4> HIDE DEF left
      <4> QED
        BY <2>3
    <3>4. u[n].priority \in Int
      <4>1. u[n] \in Queued
        BY <3>1, ElementOfSeq
      <4> QED
        BY <4>1 DEF Queued
    <3> HIDE DEF p
    <3>5. size \in 1..n /\ p - 1 \in 0..Len(u)
      BY <3>1, <3>2, <1>0
    <3>6. ~(size >= x) => /\ left[p - 1][x - size]
                               = IF x - size > p - 1 THEN <<>> ELSE Left(p - 1, p - 1 - (x - size))
                          /\ p - 1 - (x - size) = n - x
                          /\ x - size > p - 1 <=> x > n
      <4> SUFFICES ASSUME ~(size >= x)
                   PROVE  /\ left[p - 1][x - size]
                               = IF x - size > p - 1 THEN <<>> ELSE Left(p - 1, p - 1 - (x - size))
                          /\ p - 1 - (x - size) = n - x
                          /\ x - size > p - 1 <=> x > n
        OBVIOUS
      <4>1. x - size \in Nat \ {0}
        BY <3>1, <3>2, <3>5
      <4>2. p - 1 - (x - size) = n - x /\ (x - size > p - 1 <=> x > n)
        BY <3>1, <3>2, <3>5
      <4> HIDE DEF Left, size
      <4> QED
        BY <4>1, <4>2, <3>5
    <3>7. CASE x > n
      <4>1. ~(size >= x)
        BY <3>1, <3>5, <3>7
      <4> HIDE DEF Left, left, size, Round
      <4> QED
        BY <4>1, <3>3, <3>6, <3>7, <2>1
    <3>8. CASE ~(x > n) /\ size >= x
      <4> DEFINE m == n - x
      <4>1. m + 1 \in p..n /\ m \in Nat
        BY <3>1, <3>2, <3>8
      <4>2. u[m + 1].priority = u[n].priority
        BY <4>1, <3>2
      <4> HIDE DEF m
      <4>3. Same(n, m) = p..n
        <5>1. \A i \in 1..n : i \in p..n \/ i \in 1..(p - 1)
          BY <3>1, <3>2
        <5>2. \A i \in p..n : i \in 1..n
          BY <3>1, <3>2
        <5> QED
          BY <5>1, <5>2, <4>2, <3>2, <3>4
      <4>4. lo(n, m) = p
        <5>1. p..n \in SUBSET Nat /\ p \in p..n
          BY <3>1, <3>2
        <5>2. FirstOf(p..n) \in p..n /\ \A j \in p..n : FirstOf(p..n) <= j
          BY <5>1, FirstOfProperty
        <5>3. FirstOf(p..n) = p
          BY <5>1, <5>2, <3>2
        <5> QED
          BY <5>3, <4>3
      <4>5. hi(n, m) = n
        <5>1. p..n \in SUBSET (1..n) /\ n \in p..n /\ n \in Nat
          BY <3>1, <3>2
        <5>2. LastOf(p..n) \in p..n /\ \A j \in p..n : j <= LastOf(p..n)
          BY <5>1, LastOfProperty
        <5>3. LastOf(p..n) = n
          BY <5>1, <5>2, <3>2
        <5> QED
          BY <5>3, <4>3
      <4>6. p + n - m = p + x
        BY <3>1, <3>2 DEF m
      <4>7. Left(n, m) = SubSeq(u, 1, p - 1) \o SubSeq(u, p + x, n)
        <5> HIDE DEF lo, hi
        <5> QED
          BY <4>4, <4>5, <4>6
      <4> HIDE DEF Left, left, size, Round
      <4> QED
        BY <4>7, <3>3, <3>8, <2>1 DEF m
    <3>9. CASE ~(x > n) /\ ~(size >= x)
      <4> DEFINE m == n - x
      <4>1. m + 1 \in 1..(p - 1) /\ m \in Nat
        BY <3>1, <3>2, <3>9
      <4>2. u[m + 1].priority < u[n].priority /\ u[m + 1].priority \in Int
        <5>1. m + 1 \in 1..Len(u)
          BY <4>1, <3>1, <3>2, <1>0
        <5> HIDE DEF m
        <5>2. u[m + 1] \in Queued
          BY <5>1, ElementOfSeq
        <5>3. u[m + 1].priority \in Int
          BY <5>2 DEF Queued
        <5> QED
          BY <5>3, <4>1, <3>2
      <4> HIDE DEF m
      <4>3. Same(n, m) = Same(p - 1, m)
        <5>1. \A i \in 1..n : i \in p..n \/ i \in 1..(p - 1)
          BY <3>1, <3>2
        <5>2. \A i \in 1..(p - 1) : i \in 1..n
          BY <3>1, <3>2
        <5>3. \A i \in p..n : u[i].priority # u[m + 1].priority
          BY <4>2, <3>2, <3>4
        <5> QED
          BY <5>1, <5>2, <5>3
      <4>4. Left(n, m) = Left(p - 1, m)
        <5> HIDE DEF Same
        <5> QED
          BY <4>3
      <4> HIDE DEF Left, left, size, Round
      <4> QED
        BY <4>4, <3>3, <3>6, <3>9, <2>1 DEF m
    <3> QED
      BY <3>7, <3>8, <3>9
  <2> QED
    BY <2>2, <2>3
<1>2. left = [n \in 0..Len(u) |-> [x \in Nat \ {0} |-> Round(left, n, x)]]
  <2>1. left = [n \in 0..Len(u) |-> [x \in Nat \ {0} |-> left[n][x]]]
    <3> HIDE DEF Left
    <3> QED
      OBVIOUS
  <2> HIDE DEF left, Round
  <2> QED
    BY <1>1, <2>1
<1>3. cut = [n \in 0..Len(u) |-> [x \in Nat \ {0} |-> Round(cut, n, x)]]
  <2> HIDE DEF left, Round
  <2> QED
    BY <1>2
<1>4. CategoryLoop(u, Len(u) - maxSize) = cut[Len(u)][Len(u) - maxSize]
  BY DEF CategoryLoop
<1> HIDE DEF cut
<1>5. \A n \in 0..Len(u) : \A x \in Nat \ {0} : cut[n][x] = left[n][x]
  <2> DEFINE Bad == {n \in 0..Len(u) : \E x \in Nat \ {0} : cut[n][x] # left[n][x]}
  <2> HIDE DEF left
  <2> SUFFICES ASSUME Bad # {} PROVE FALSE
    OBVIOUS
  <2>1. PICK n \in Bad : \A k \in Bad : n <= k
    <3>1. Bad \in SUBSET Nat
      OBVIOUS
    <3> HIDE DEF Bad
    <3> QED
      BY <3>1, LeastElement
  <2>2. PICK x \in Nat \ {0} : cut[n][x] # left[n][x]
    OBVIOUS
  <2>3. n \in 0..Len(u)
    OBVIOUS
  <2>4. cut[n][x] = Round(cut, n, x) /\ left[n][x] = Round(left, n, x)
    <3> HIDE DEF Round
    <3> QED
      BY <1>1, <1>3, <2>3
  <2> DEFINE p == CategoryStart(u, n)
             size == n - p + 1
  <2>5. /\ n # 0 /\ ~(size >= x)
        /\ cut[p - 1][x - size] # left[p - 1][x - size]
    BY <2>2, <2>4
  <2>6. p \in 1..n
    <3>1. n \in 1..Len(u)
      BY <2>3, <2>5, <1>0
    <3> QED
      BY <3>1, CategoryStartProperty
  <2> HIDE DEF p
  <2>7. p - 1 \in 0..Len(u) /\ x - size \in Nat \ {0} /\ ~(n <= p - 1)
    BY <2>3, <2>5, <2>6, <1>0
  <2>8. p - 1 \notin Bad
    BY <2>1, <2>7
  <2> HIDE DEF size
  <2> QED
    BY <2>5, <2>7, <2>8
<1>6. left[Len(u)][Len(u) - maxSize] = DropExcess(u, maxSize)
  <2> DEFINE n == Len(u)
             x == Len(u) - maxSize
  <2>1. n \in 0..Len(u) /\ x \in Nat \ {0} /\ ~(x > n) /\ n - x = maxSize
    BY <1>0
  <2>2. left[n][x] = Left(n, n - x)
    <3> HIDE DEF Left, n, x
    <3> QED
      BY <2>1
  <2>3. Left(n, maxSize) = DropExcess(u, maxSize)
    <3>1. ~(Len(u) <= maxSize)
      BY <1>0
    <3> QED
      BY <3>1, Zenon DEF DropExcess
  <2> QED
    BY <2>1, <2>2, <2>3
<1>7. Len(u) \in 0..Len(u) /\ Len(u) - maxSize \in Nat \ {0}
  BY <1>0
<1> HIDE DEF left
<1> QED
  BY <1>4, <1>5, <1>6, <1>7

(* prune in closed form and prune as loops agree on an ordered queue.      *)
LEMMA PruneIsLoop ==
    ASSUME NEW s \in Seq(Queued), Ordered(s), NEW t, NEW maxSize \in Nat
    PROVE  prune(s, t, maxSize) = PruneLoop(s, t, maxSize)
<1> DEFINE K == {i \in 1..Len(s) : ~Outdated(s[i], t)}
           u == Usable(s, t)
<1>1. u = Keep(s, K) /\ K \in SUBSET (1..Len(s))
  BY DEF Usable
<1>2. UsableLoop(s, t) = u
  BY UsableLoopCopies
<1> HIDE DEF K, u
<1>3. u \in Seq(Queued) /\ Picks(u, s)
  BY <1>1, KeepPicks
<1>4. Ordered(u) /\ Len(u) \in Nat
  BY <1>3, PicksOrdered, LenProperties
<1>5. prune(s, t, maxSize) = DropExcess(u, maxSize)
  BY DEF prune, u
<1>6. PruneLoop(s, t, maxSize) = IF Len(u) - maxSize > 0
                                 THEN CategoryLoop(u, Len(u) - maxSize) ELSE u
  BY <1>2 DEF PruneLoop
<1>7. CASE Len(u) > maxSize
  <2>1. CategoryLoop(u, Len(u) - maxSize) = DropExcess(u, maxSize)
    BY <1>3, <1>4, <1>7, CategoryLoopDrops
  <2>2. Len(u) - maxSize > 0
    BY <1>4, <1>7
  <2> QED
    BY <2>1, <2>2, <1>5, <1>6
<1>8. CASE ~(Len(u) > maxSize)
  <2>1. ~(Len(u) - maxSize > 0) /\ Len(u) <= maxSize
    BY <1>4, <1>8
  <2> QED
    BY <2>1, <1>5, <1>6 DEF DropExcess
<1> QED
  BY <1>7, <1>8

(***************************************************************************)
(* The invariant of the queue                                              *)
(***************************************************************************)

(* Priorities and ages are numbers.                                        *)
LEMMA ConstantTypes ==
    (\A p \in Priorities : p \in Int) /\ (\A a \in Ages : a \in Nat)
BY QueueAssumption, Zenon

(* Entries have integer fields.                                            *)
LEMMA EntryIsQueued == Entry \in SUBSET Queued
<1> SUFFICES ASSUME NEW x \in Entry PROVE x \in Queued
  OBVIOUS
<1>1. x = [priority |-> x.priority, outdatedAt |-> x.outdatedAt, data |-> x.data]
  BY DEF Entry
<1>2. x.priority \in Int /\ x.outdatedAt \in Int /\ x.data \in Int
  BY ConstantTypes DEF Entry
<1> QED
  BY <1>1, <1>2 DEF Queued

(* The initial queue is empty.                                             *)
LEMMA QueueInitInv == QueueInit => QueueInv
<1> SUFFICES ASSUME QueueInit PROVE QueueInv
  OBVIOUS
<1>1. entries = <<>> /\ Len(entries) = 0 /\ entries \in Seq(Entry)
  BY EmptySeq DEF QueueInit
<1>2. QueueTypeOK
  BY <1>1 DEF QueueInit, QueueTypeOK
<1>3. InPriorityOrder
  BY <1>1 DEF InPriorityOrder, Ordered
<1>4. BoundedQueue
  BY <1>1, QueueAssumption DEF BoundedQueue
<1>5. ArrivalOrder
  BY <1>1 DEF QueueInit, ArrivalOrder
<1> QED
  BY <1>2, <1>3, <1>4, <1>5 DEF QueueInv

(* A step that only drops entries keeps the invariant.                     *)
LEMMA DropKeepsInv ==
    ASSUME QueueInv, entries' \in Seq(Entry), Len(entries') <= OverUse,
           Picks(entries', entries),
           UNCHANGED <<DataAvailable, Closed, now, puts, sender, closer>>
    PROVE  QueueInv'
<1>1. QueueTypeOK'
  BY DEF QueueInv, QueueTypeOK
<1>2. entries \in Seq(Entry) /\ Ordered(entries) /\ puts \in Int
  BY DEF QueueInv, QueueTypeOK, InPriorityOrder
<1>3. InPriorityOrder' /\ \A i \in 1..Len(entries') : entries'[i].data < puts
  BY <1>2, PicksKeepsInvariant DEF QueueInv, ArrivalOrder, InPriorityOrder
<1>4. BoundedQueue'
  BY DEF BoundedQueue
<1>5. ASSUME sender # NoPut
      PROVE  /\ sender.data < puts
             /\ \A i \in 1..Len(entries') : entries'[i].data < sender.data
  <2>1. sender.data \in Int
    BY <1>5 DEF QueueInv, QueueTypeOK, PutArg
  <2> QED
    BY <1>2, <1>5, <2>1, PicksKeepsInvariant DEF QueueInv, ArrivalOrder
<1> QED
  BY <1>1, <1>3, <1>4, <1>5 DEF QueueInv, ArrivalOrder

(* The critical section of Put keeps the invariant.                        *)
LEMMA PutInsertInv ==
    ASSUME QueueInv, PutInsert
    PROVE  QueueInv'
<1> DEFINE e == [priority   |-> sender.priority,
                 outdatedAt |-> now + sender.maxAge,
                 data       |-> sender.data]
           grown == Insert(entries, e)
<1>1. /\ entries \in Seq(Entry) /\ Ordered(entries)
      /\ Len(entries) \in Nat /\ Len(entries) <= OverUse
      /\ now \in Nat /\ puts \in Nat
  BY LenProperties DEF QueueInv, QueueTypeOK, InPriorityOrder, BoundedQueue
<1>2. sender \in PutArg
  BY DEF QueueInv, QueueTypeOK, PutInsert
<1>3. e \in Entry
  <2>1. sender.priority \in Priorities /\ sender.maxAge \in Ages /\ sender.data \in Nat
    BY <1>2 DEF PutArg
  <2>2. now + sender.maxAge \in Nat
    BY <2>1, <1>1, ConstantTypes
  <2> QED
    BY <2>1, <2>2 DEF Entry
<1>4. \A i \in 1..Len(entries) : entries[i].data < e.data
  BY DEF QueueInv, ArrivalOrder, PutInsert
<1>5. e.data < puts
  BY DEF QueueInv, ArrivalOrder, PutInsert
<1>6. entries' = IF Len(grown) > OverUse THEN prune(grown, now, MaxSize) ELSE grown
  BY DEF PutInsert
<1> HIDE DEF e
<1>7. /\ grown \in Seq(Entry) /\ Ordered(grown)
      /\ Len(grown) = Len(entries) + 1
      /\ \A i \in 1..Len(grown) :
            grown[i] = e \/ \E j \in 1..Len(entries) : grown[i] = entries[j]
  BY <1>1, <1>3, <1>4, EntryIsQueued, InsertOrdered
<1> HIDE DEF grown
<1>8. \A i \in 1..Len(grown) : grown[i].data < puts
  BY <1>5, <1>7 DEF QueueInv, ArrivalOrder
<1>9. /\ entries' \in Seq(Entry) /\ Ordered(entries')
      /\ Len(entries') <= OverUse
      /\ \A i \in 1..Len(entries') : entries'[i].data < puts
  <2>1. CASE Len(grown) > OverUse
    <3>1. /\ entries' \in Seq(Entry)
          /\ Len(entries') <= MaxSize
          /\ Picks(entries', grown)
      BY <2>1, <1>6, <1>7, PrunePicks, QueueAssumption
    <3>2. Len(entries') <= OverUse
      BY <3>1, LenProperties, QueueAssumption
    <3>3. Ordered(entries') /\ \A i \in 1..Len(entries') : entries'[i].data < puts
      <4>1. puts \in Int
        BY <1>1
      <4> QED
        BY <4>1, <3>1, <1>7, <1>8, PicksKeepsInvariant, Zenon
    <3> QED
      BY <3>1, <3>2, <3>3
  <2>2. CASE ~(Len(grown) > OverUse)
    BY <2>2, <1>1, <1>6, <1>7, <1>8, QueueAssumption
  <2> QED
    BY <2>1, <2>2
<1>10. QueueTypeOK'
  <2>1. DataAvailable' \in BOOLEAN
    BY DEF PutInsert, QueueInv, QueueTypeOK
  <2> QED
    BY <1>9, <2>1 DEF PutInsert, QueueInv, QueueTypeOK
<1>11. InPriorityOrder' /\ BoundedQueue'
  BY <1>9 DEF InPriorityOrder, BoundedQueue
<1>12. ArrivalOrder'
  BY <1>9 DEF PutInsert, ArrivalOrder
<1> QED
  BY <1>10, <1>11, <1>12 DEF QueueInv

(* Every step keeps the invariant.                                         *)
LEMMA QueueNextInv == QueueInv /\ [QueueNext]_queueVars => QueueInv'
<1> SUFFICES ASSUME QueueInv, [QueueNext]_queueVars PROVE QueueInv'
  OBVIOUS
<1>0. /\ entries \in Seq(Entry) /\ Len(entries) \in Nat
      /\ Len(entries) <= OverUse /\ puts \in Nat
  BY LenProperties DEF QueueInv, QueueTypeOK, BoundedQueue
<1>1. ASSUME NEW p \in Priorities, NEW a \in Ages, PutCheck(p, a)
      PROVE  QueueInv'
  <2>1. sender' \in PutArg \cup {NoPut} /\ puts' \in Nat
    BY <1>0, <1>1 DEF PutCheck, PutArg
  <2>2. QueueTypeOK' /\ InPriorityOrder' /\ BoundedQueue'
    BY <1>1, <2>1 DEF PutCheck, QueueInv, QueueTypeOK, InPriorityOrder, BoundedQueue
  <2>3. \A i \in 1..Len(entries) : entries[i].data \in Nat /\ entries[i].data < puts
    <3>1. \A i \in 1..Len(entries) : entries[i] \in Entry
      BY <1>0, ElementOfSeq, Zenon
    <3> QED
      BY <3>1 DEF QueueInv, ArrivalOrder, Entry
  <2>4. ArrivalOrder'
    BY <1>0, <1>1, <2>3 DEF PutCheck, ArrivalOrder, NoPut
  <2> QED
    BY <2>2, <2>4 DEF QueueInv
<1>2. CASE PutInsert
  BY <1>2, PutInsertInv
<1>3. CASE PeekFirst
  <2>1. /\ entries' \in Seq(Entry) /\ Len(entries') <= Len(entries)
        /\ Picks(entries', entries)
    BY <1>0, <1>3, StrippedPicks DEF PeekFirst
  <2>2. Len(entries') <= OverUse
    BY <2>1, <1>0, LenProperties, QueueAssumption
  <2> QED
    BY <1>3, <2>1, <2>2, DropKeepsInv DEF PeekFirst
<1>4. CASE PopFirst
  <2>1. /\ entries' \in Seq(Entry) /\ Len(entries') <= Len(entries)
        /\ Picks(entries', entries)
    BY <1>0, <1>4, StrippedPicks DEF PopFirst
  <2>2. Len(entries') <= OverUse
    BY <2>1, <1>0, LenProperties, QueueAssumption
  <2> QED
    BY <1>4, <2>1, <2>2, DropKeepsInv DEF PopFirst
<1>5. CASE GetQueueDump
  <2>1. /\ entries' \in Seq(Entry) /\ Len(entries') <= MaxSize
        /\ Picks(entries', entries)
    BY <1>0, <1>5, PrunePicks, QueueAssumption DEF GetQueueDump
  <2>2. Len(entries') <= OverUse
    BY <2>1, LenProperties, QueueAssumption
  <2> QED
    BY <1>5, <2>1, <2>2, DropKeepsInv DEF GetQueueDump
<1>6. CASE Receive
  BY <1>6 DEF Receive, QueueInv, QueueTypeOK, InPriorityOrder, BoundedQueue,
              ArrivalOrder
<1>7. ASSUME NEW c \in Closers, CloseFlag(c) \/ CloseNotify(c)
      PROVE  QueueInv'
  BY <1>7 DEF CloseFlag, CloseNotify, QueueInv, QueueTypeOK, InPriorityOrder,
              BoundedQueue, ArrivalOrder
<1>8. CASE Tick
  BY <1>8 DEF Tick, QueueInv, QueueTypeOK, InPriorityOrder, BoundedQueue,
              ArrivalOrder
<1>9. CASE UNCHANGED queueVars
  BY <1>9 DEF queueVars, QueueInv, QueueTypeOK, InPriorityOrder, BoundedQueue,
              ArrivalOrder
<1> QED
  BY <1>1, <1>2, <1>3, <1>4, <1>5, <1>6, <1>7, <1>8, <1>9 DEF QueueNext

(***************************************************************************)
(* Whatever the senders, the reader, the statistics and the closers do, in *)
(* whatever order, the queue keeps its type, is ordered by priority and    *)
(* arrival, and holds at most OverUse entries: for every size, set of      *)
(* priorities and ages.                                                    *)
(***************************************************************************)
THEOREM QueueInvariant == QueueSpec => []QueueInv
BY QueueInitInv, QueueNextInv, PTL DEF QueueSpec

(* The properties the model checker checks on small queues.                *)
THEOREM QueueCorrect ==
    QueueSpec => [](QueueTypeOK /\ InPriorityOrder /\ BoundedQueue)
<1>1. QueueInv => QueueTypeOK /\ InPriorityOrder /\ BoundedQueue
  BY DEF QueueInv
<1> QED
  BY <1>1, QueueInvariant, PTL

(* Every queue that Put or GetQueueDump prunes is ordered, so the closed   *)
(* form computes on it what the loops of prune compute.                    *)
THEOREM QueuePrunesAsCoded == QueueSpec => []PruneMatchesLoop
<1>1. ASSUME QueueInv PROVE PruneMatchesLoop
  <2>1. entries \in Seq(Entry) /\ Ordered(entries) /\ MaxSize \in Nat
    BY <1>1, QueueAssumption DEF QueueInv, QueueTypeOK, InPriorityOrder
  <2>2. \A s \in Seq(Entry) : s \in Seq(Queued)
    BY EntryIsQueued
  <2>3. prune(entries, now, MaxSize) = PruneLoop(entries, now, MaxSize)
    BY <2>1, <2>2, PruneIsLoop
  <2>4. ASSUME sender # NoPut
        PROVE  LET grown == Insert(entries, [priority   |-> sender.priority,
                                             outdatedAt |-> now + sender.maxAge,
                                             data       |-> sender.data])
               IN  prune(grown, now, MaxSize) = PruneLoop(grown, now, MaxSize)
    <3> DEFINE e == [priority   |-> sender.priority,
                     outdatedAt |-> now + sender.maxAge,
                     data       |-> sender.data]
               grown == Insert(entries, e)
    <3>1. e \in Entry
      <4>1. sender \in PutArg /\ now \in Nat
        BY <1>1, <2>4 DEF QueueInv, QueueTypeOK
      <4>2. sender.priority \in Priorities /\ sender.maxAge \in Ages /\ sender.data \in Nat
        BY <4>1 DEF PutArg
      <4>3. now + sender.maxAge \in Nat
        BY <4>1, <4>2, ConstantTypes
      <4> QED
        BY <4>2, <4>3 DEF Entry
    <3>2. \A i \in 1..Len(entries) : entries[i].data < e.data
      BY <1>1, <2>4 DEF QueueInv, ArrivalOrder
    <3> HIDE DEF e
    <3>3. grown \in Seq(Entry) /\ Ordered(grown)
      BY <2>1, <3>1, <3>2, EntryIsQueued, InsertOrdered
    <3> HIDE DEF grown
    <3>4. prune(grown, now, MaxSize) = PruneLoop(grown, now, MaxSize)
      BY <2>1, <2>2, <3>3, PruneIsLoop
    <3> QED
      BY <3>4 DEF grown, e
  <2> QED
    BY <2>3, <2>4 DEF PruneMatchesLoop
<1> QED
  BY <1>1, QueueInvariant, PTL

(***************************************************************************)
(* The queue implements the mailbox                                        *)
(***************************************************************************)

(* The mailbox counts like the queue.                                      *)
LEMMA SameCardinality == ASSUME NEW S PROVE M!Cardinality(S) = Cardinality(S)
BY Zenon DEF M!Cardinality, Cardinality, M!IsFiniteSet, IsFiniteSet

(* What the mailbox may lose, in terms of the queue.                       *)
LEMMA LosesAllowed ==
    ASSUME NEW lost, NEW kept,
           \A d \in lost :
              \/ Outdated(d, now)
              \/ Cardinality(kept) = MaxSize /\ \A k \in kept : M!MoreWorthKeeping(k, d)
    PROVE  M!MayLose(lost, kept)
BY SameCardinality DEF M!MayLose, M!Expired, Outdated

(* Dropping entries the way the mailbox allows.                            *)
LEMMA CleanStep ==
    ASSUME Elements(entries') \subseteq Elements(entries),
           \A d \in Elements(entries) \ Elements(entries') :
              \/ Outdated(d, now)
              \/ /\ Cardinality(Elements(entries')) = MaxSize
                 /\ \A k \in Elements(entries') : M!MoreWorthKeeping(k, d),
           UNCHANGED <<now, sender>>
    PROVE  M!Clean
<1>1. Held = Elements(entries) /\ Held' = Elements(entries')
  BY DEF Held, Elements
<1>2. UNCHANGED <<Offered, now>>
  BY DEF Offered
<1>3. M!MayLose(Elements(entries) \ Elements(entries'), Elements(entries'))
  BY LosesAllowed
<1>4. M!MayLose(Held \ Held', Held')
  BY <1>1, <1>3
<1> QED
  BY <1>1, <1>2, <1>4 DEF M!Clean

(* getFirst: what is thrown away is outdated, what is handed out is the    *)
(* best.                                                                   *)
LEMMA FirstStep ==
    ASSUME QueueInv, NEW remove \in BOOLEAN, entries' = Stripped(entries, now, remove),
           UNCHANGED <<now, sender>>
    PROVE  M!Clean \/ M!Take
<1> DEFINE lost == Elements(entries) \ Elements(entries')
<1>1. entries \in Seq(Queued) /\ Ordered(entries)
  BY EntryIsQueued, SeqMonotonic DEF QueueInv, QueueTypeOK, InPriorityOrder
<1>2. /\ Elements(entries') \subseteq Elements(entries)
      /\ \/ \A d \in lost : Outdated(d, now)
         \/ \E m \in lost :
               /\ ~Outdated(m, now)
               /\ \A d \in lost \ {m} : Outdated(d, now)
               /\ \A d \in Elements(entries) \ {m} : Outdated(d, now) \/ Precedes(m, d)
  BY <1>1, StrippedLoses
<1>3. CASE \A d \in lost : Outdated(d, now)
  BY <1>2, <1>3, CleanStep
<1>4. ASSUME NEW m \in lost, ~Outdated(m, now), \A d \in lost \ {m} : Outdated(d, now),
             \A d \in Elements(entries) \ {m} : Outdated(d, now) \/ Precedes(m, d)
      PROVE  M!Take
  <2>1. Held = Elements(entries) /\ Held' = Elements(entries')
    BY DEF Held, Elements
  <2>2. UNCHANGED <<Offered, now>>
    BY DEF Offered
  <2>3. M!FirstOut(m)
    BY <1>4, <2>1 DEF M!FirstOut, M!Expired, Outdated, Precedes
  <2>4. ~M!Expired(m) /\ \A d \in lost \ {m} : M!Expired(d)
    BY <1>4 DEF M!Expired, Outdated
  <2> QED
    BY <1>2, <2>1, <2>2, <2>3, <2>4 DEF M!Take
<1> QED
  BY <1>2, <1>3, <1>4

(* Put's critical section deposits the message.                            *)
LEMMA DepositStep ==
    ASSUME QueueInv, PutInsert
    PROVE  M!Deposit
<1> DEFINE e == [priority   |-> sender.priority,
                 outdatedAt |-> now + sender.maxAge,
                 data       |-> sender.data]
           grown == Insert(entries, e)
<1>1. entries \in Seq(Entry) /\ Ordered(entries) /\ now \in Nat
  BY DEF QueueInv, QueueTypeOK, InPriorityOrder
<1>2. e \in Entry
  <2>1. sender \in PutArg
    BY DEF QueueInv, QueueTypeOK, PutInsert
  <2>2. sender.priority \in Priorities /\ sender.maxAge \in Ages /\ sender.data \in Nat
    BY <2>1 DEF PutArg
  <2>3. now + sender.maxAge \in Nat
    BY <1>1, <2>2, ConstantTypes
  <2> QED
    BY <2>2, <2>3 DEF Entry
<1>3. \A i \in 1..Len(entries) : entries[i].data < e.data
  BY DEF QueueInv, ArrivalOrder, PutInsert
<1>4. /\ entries' = IF Len(grown) > OverUse THEN prune(grown, now, MaxSize) ELSE grown
      /\ sender # NoPut /\ sender' = NoPut /\ now' = now
  BY DEF PutInsert
<1>5. Offered = {sender} /\ Offered' = {}
  BY <1>4 DEF Offered
<1>6. M!Deposit <=> \E x \in {e} :
          /\ Held' \subseteq Held \cup {x}
          /\ M!MayLose((Held \cup {x}) \ Held', Held')
  BY <1>4, <1>5 DEF M!Deposit
<1> HIDE DEF e
<1>7. /\ grown \in Seq(Entry) /\ Ordered(grown)
      /\ \A i \in 1..Len(grown) :
            grown[i] = e \/ \E j \in 1..Len(entries) : grown[i] = entries[j]
      /\ \E i \in 1..Len(grown) : grown[i] = e
      /\ \A j \in 1..Len(entries) : \E i \in 1..Len(grown) : grown[i] = entries[j]
  BY <1>1, <1>2, <1>3, EntryIsQueued, InsertOrdered
<1> HIDE DEF grown
<1>8. Elements(grown) = Held \cup {e}
  <2>1. \A x \in Elements(grown) : x \in Held \cup {e}
    BY <1>7 DEF Elements, Held
  <2>2. \A x \in Held \cup {e} : x \in Elements(grown)
    BY <1>7 DEF Elements, Held
  <2> QED
    BY <2>1, <2>2
<1>9. Held' = Elements(entries')
  BY DEF Held, Elements
<1>10. CASE Len(grown) > OverUse
  <2>1. grown \in Seq(Queued) /\ MaxSize \in Nat
    BY <1>7, EntryIsQueued, SeqMonotonic, QueueAssumption
  <2>2. entries' = prune(grown, now, MaxSize)
    BY <1>4, <1>10
  <2>3. /\ Elements(entries') \subseteq Elements(grown)
        /\ \A d \in Elements(grown) \ Elements(entries') :
              \/ Outdated(d, now)
              \/ /\ Cardinality(Elements(entries')) = MaxSize
                 /\ \A k \in Elements(entries') : M!MoreWorthKeeping(k, d)
    BY <1>7, <2>1, <2>2, PruneLoses
  <2>4. M!MayLose((Held \cup {e}) \ Held', Held')
    <3>1. M!MayLose(Elements(grown) \ Elements(entries'), Elements(entries'))
      BY <2>3, LosesAllowed
    <3> QED
      BY <1>8, <1>9, <3>1
  <2> QED
    BY <1>6, <1>8, <1>9, <2>3, <2>4
<1>11. CASE ~(Len(grown) > OverUse)
  <2>1. Held' = Held \cup {e}
    BY <1>4, <1>8, <1>9, <1>11
  <2>2. M!MayLose((Held \cup {e}) \ Held', Held')
    BY <2>1 DEF M!MayLose
  <2> QED
    BY <1>6, <2>1, <2>2
<1> QED
  BY <1>10, <1>11

(* Every step of the queue is a step of the mailbox, or none.              *)
LEMMA MailboxStep == QueueInv /\ [QueueNext]_queueVars => [M!Next]_(M!mailboxVars)
<1> SUFFICES ASSUME QueueInv, [QueueNext]_queueVars PROVE [M!Next]_(M!mailboxVars)
  OBVIOUS
<1>1. UNCHANGED <<entries, sender, now>> => UNCHANGED M!mailboxVars
  BY DEF M!mailboxVars, Held, Offered
<1>2. ASSUME NEW p \in Priorities, NEW a \in Ages, PutCheck(p, a)
      PROVE  [M!Next]_(M!mailboxVars)
  <2>1. UNCHANGED <<Held, now>> /\ Offered = {} /\ sender = NoPut
    BY <1>2 DEF PutCheck, Held, Offered
  <2>2. CASE Closed
    BY <1>1, <1>2, <2>1, <2>2 DEF PutCheck
  <2>3. CASE ~Closed
    <3>1. sender' = [priority |-> p, maxAge |-> a, data |-> puts] /\ puts \in Nat
      BY <1>2, <2>3 DEF PutCheck, QueueInv, QueueTypeOK
    <3>2. sender'.data = puts /\ NoPut.data = -1
      BY <3>1 DEF NoPut
    <3>3. sender' # NoPut
      BY <3>1, <3>2
    <3>4. Offered' = {sender'}
      BY <3>3 DEF Offered
    <3>5. Cardinality(Offered') = 1
      BY <3>4, FS_Singleton
    <3> QED
      <4>1. M!Offer
        BY <2>1, <3>5, SameCardinality DEF M!Offer
      <4> QED
        BY <4>1 DEF M!Next
  <2> QED
    BY <2>2, <2>3
<1>3. CASE PutInsert
  BY <1>3, DepositStep DEF M!Next
<1>4. CASE PeekFirst
  BY <1>4, FirstStep DEF PeekFirst, M!Next
<1>5. CASE PopFirst
  BY <1>5, FirstStep DEF PopFirst, M!Next
<1>6. CASE GetQueueDump
  <2>1. entries \in Seq(Queued) /\ Ordered(entries) /\ MaxSize \in Nat
    BY EntryIsQueued, SeqMonotonic, QueueAssumption DEF QueueInv, QueueTypeOK, InPriorityOrder
  <2>2. entries' = prune(entries, now, MaxSize) /\ UNCHANGED <<now, sender>>
    BY <1>6 DEF GetQueueDump
  <2>3. M!Clean
    BY <2>1, <2>2, PruneLoses, CleanStep
  <2> QED
    BY <2>3 DEF M!Next
<1>7. CASE Receive
  BY <1>1, <1>7 DEF Receive
<1>8. ASSUME NEW c \in Closers, CloseFlag(c) \/ CloseNotify(c)
      PROVE  [M!Next]_(M!mailboxVars)
  BY <1>1, <1>8 DEF CloseFlag, CloseNotify
<1>9. CASE Tick
  BY <1>9 DEF Tick, M!Next, M!Tick, Held, Offered
<1>10. CASE UNCHANGED queueVars
  BY <1>1, <1>10 DEF queueVars
<1> QED
  BY <1>2, <1>3, <1>4, <1>5, <1>6, <1>7, <1>8, <1>9, <1>10 DEF QueueNext

(***************************************************************************)
(* The queue is a mailbox, whatever its size: Put and prune lose only      *)
(* outdated messages and, at the limit, the ones least worth keeping;      *)
(* getFirst throws away outdated messages only and hands out the most      *)
(* important of the others, the oldest first (the comment above prune in   *)
(* messagequeue.go).                                                       *)
(***************************************************************************)
THEOREM QueueIsMailbox == QueueSpec => ImplementsMailbox
<1>1. QueueInit => M!Init
  <2> SUFFICES ASSUME QueueInit PROVE M!Init
    OBVIOUS
  <2>1. entries = <<>> /\ Len(entries) = 0
    BY EmptySeq DEF QueueInit
  <2>2. Held = {}
    BY <2>1 DEF Held
  <2> QED
    BY <2>2 DEF QueueInit, M!Init, Offered
<1> QED
  BY <1>1, MailboxStep, QueueInvariant, PTL DEF QueueSpec, ImplementsMailbox, M!Spec

===============================================================================
