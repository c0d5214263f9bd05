------------------------ MODULE TrafficDisplaysProofs ------------------------
(***************************************************************************)
(* Proofs about TrafficDisplays, for any craft, limits and bounds.         *)
(*                                                                         *)
(* The invariant of each part is inductive by itself, given what the parts *)
(* before it say: FeedTypeOK for the server's table and the wire, ListInv  *)
(* for the page Traffic and MapInv for the page Map.                       *)
(***************************************************************************)
EXTENDS TrafficDisplays, TLAPS, FiniteSetTheorems, SequenceTheorems, WellFoundedInduction

-------------------------------------------------------------------------------
(* Sequences and sets.                                                     *)

(* A non-empty set of natural numbers has a smallest element.              *)
LEMMA SmallestNumber ==
    ASSUME NEW S \in SUBSET Nat, S # {}
    PROVE  Min(S) \in S /\ \A n \in S : Min(S) <= n
<1>1. PICK m \in S : \A n \in S : ~(<<n, m>> \in OpToRel(<, Nat))
  BY NatLessThanWellFounded, WFMin
<1>2. \A n \in S : ~(n < m)
  BY <1>1 DEF OpToRel
<1>3. \A n \in S : m <= n
  BY <1>2
<1> QED
  BY <1>3 DEF Min

(* SetToSeq lists the elements of a finite set.                            *)
LEMMA ListsSet ==
    ASSUME NEW S, IsFiniteSet(S)
    PROVE  SetToSeq(S) \in [1..Cardinality(S) -> S] /\ Cardinality(S) \in Nat
<1> DEFINE c == Cardinality(S)
<1>1. c \in Nat
  BY FS_CardinalityType
<1>2. IsFiniteSet(1..c) /\ Cardinality(1..c) = c
  <2>1. Cardinality(1..c) = IF 1 > c THEN 0 ELSE c - 1 + 1
    BY <1>1, FS_Interval
  <2>2. IsFiniteSet(1..c)
    BY <1>1, FS_Interval
  <2> QED
    BY <1>1, <2>1, <2>2
<1>3. ExistsBijection(1..c, S)
  BY <1>2, FS_SameCardinalityBij
<1>4. \E f \in [1..c -> S] : IsInjective(f)
  BY <1>3 DEF ExistsBijection, Bijection, Injection
<1> QED
  BY <1>1, <1>4 DEF SetToSeq

(* isSameAircraft divides the aircraft into classes.                       *)
LEMMA SameIsEquivalence ==
    ASSUME NEW a, NEW b, NEW c
    PROVE  /\ isSameAircraft(a, a)
           /\ isSameAircraft(a, b) => isSameAircraft(b, a)
           /\ isSameAircraft(a, b) /\ isSameAircraft(b, c) => isSameAircraft(a, c)
BY Zenon DEF isSameAircraft

(* IndexIn finds an aircraft of a list, and 0 says that there is none.     *)
LEMMA IndexInFacts ==
    ASSUME NEW S, NEW list \in Seq(S), NEW id
    PROVE  LET i == IndexIn(list, id) IN
           /\ i = 0 \/ i \in 1..Len(list)
           /\ i = 0 => \A j \in 1..Len(list) : ~isSameAircraft(list[j].id, id)
           /\ i # 0 => isSameAircraft(list[i].id, id)
<1> DEFINE I == {j \in 1..Len(list) : isSameAircraft(list[j].id, id)}
           i == IF I # {} THEN Min(I) ELSE 0
<1>1. IndexIn(list, id) = i
  BY DEF IndexIn, SelectInSeq
<1>2. I \in SUBSET Nat
  BY LenProperties
<1>3. I # {} => Min(I) \in I
  BY <1>2, SmallestNumber
<1>4. i = 0 => I = {}
  <2>1. 0 \notin I
    BY LenProperties
  <2> QED
    BY <1>3, <2>1
<1>5. i # 0 => i \in I
  BY <1>3
<1>6. I # {} => i \in I
  BY <1>3
<1> HIDE DEF i
<1> QED
  BY <1>1, <1>4, <1>5

-------------------------------------------------------------------------------
(* The feed.                                                               *)

(* The texts of an entry are messages, and there is one.                   *)
LEMMA JsonFacts ==
    ASSUME NEW c \in Craft, NEW e \in Entries
    PROVE  Json(c, e) \subseteq Messages /\ Json(c, e) # {}
<1> DEFINE vessel == c \in Ais
           pos == e.pos
           alts == {b \in BOOLEAN : e.pos => ~b}
           Text(a) == [id |-> c, ais |-> vessel, Age |-> e.Age, pos |-> pos, altAged |-> a]
<1>1. e.Age \in 0..Cap /\ pos \in BOOLEAN
  BY DEF Entries
<1>2. vessel \in BOOLEAN
  OBVIOUS
<1>3. alts \subseteq BOOLEAN /\ FALSE \in alts
  BY Zenon
<1>4. Json(c, e) = {Text(a) : a \in alts}
  BY Zenon DEF Json
<1> HIDE DEF vessel, alts, pos
<1>5. \A a \in BOOLEAN : Text(a) \in Messages
  BY <1>1, <1>2 DEF Messages
<1> HIDE DEF Text
<1> QED
  BY <1>3, <1>4, <1>5, Zenon

LEMMA CapFacts == Cap \in Nat /\ 0 \in 0..Cap /\ ServerMax \in 0..Cap
BY FeedAssumption DEF Cap

LEMMA FeedInitInv == FeedInit => FeedTypeOK
<1> SUFFICES ASSUME FeedInit PROVE FeedTypeOK
  OBVIOUS
<1>1. Absent \in Entries
  BY CapFacts DEF Absent, Entries
<1>2. sinceSend \in 0..(Period + Jitter) /\ wire \in Seq(Messages)
  BY FeedAssumption DEF FeedInit
<1> QED
  BY <1>1, <1>2 DEF FeedInit, FeedTypeOK

(* A broadcast adds messages to the wire.                                  *)
LEMMA BroadcastTypes ==
    ASSUME FeedTypeOK, NEW msgs \in Seq(Messages), registerTrafficUpdate(msgs)
    PROVE  wire' \in Seq(Messages)
<1>1. wire \in Seq(Messages)
  BY DEF FeedTypeOK
<1>2. wire \o msgs \in Seq(Messages)
  BY <1>1, ConcatProperties
<1> QED
  BY <1>1, <1>2 DEF registerTrafficUpdate

(* A target is heard.                                                      *)
LEMMA HeardTypes ==
    ASSUME FeedTypeOK, NEW c \in Craft, NEW e \in Entries, Heard(c, e)
    PROVE  FeedTypeOK'
<1>1. [e EXCEPT !.in = TRUE] \in Entries
  BY DEF Entries
<1>2. traffic' \in [Craft -> Entries]
  BY <1>1 DEF Heard, FeedTypeOK
<1>3. PICK m \in Json(c, e) : registerTrafficUpdate(<<m>>)
  BY DEF Heard
<1>4. <<m>> \in Seq(Messages)
  BY <1>3, JsonFacts
<1>5. wire' \in Seq(Messages)
  BY <1>3, <1>4, BroadcastTypes
<1> QED
  BY <1>2, <1>5 DEF Heard, FeedTypeOK

(* The once-a-second update.                                               *)
LEMMA UpdateTypes ==
    ASSUME FeedTypeOK, sendTrafficUpdates
    PROVE  FeedTypeOK'
<1> DEFINE aged == [c \in Craft |-> IF c \in Kept THEN [traffic[c] EXCEPT !.Age = traffic[c].since]
                                                  ELSE Absent]
           still == {c \in Kept : aged[c].Age > Quiet}
           quiet == SetToSeq(still)
           n == Cardinality(still)
<1>1. Absent \in Entries
  BY CapFacts DEF Absent, Entries
<1>2. \A c \in Craft : [traffic[c] EXCEPT !.Age = traffic[c].since] \in Entries
  BY DEF FeedTypeOK, Entries
<1>3. aged \in [Craft -> Entries]
  BY <1>1, <1>2
<1>4. quiet \in [1..n -> still] /\ n \in Nat /\ still \subseteq Craft
  <2>1. still \subseteq Craft
    BY DEF Kept
  <2>2. IsFiniteSet(still)
    BY <2>1, FeedAssumption, FS_Subset
  <2> QED
    BY <2>1, <2>2, ListsSet
<1>5. /\ traffic' = aged /\ sinceSend' = 0 /\ UNCHANGED conn
      /\ \E msgs \in [DOMAIN quiet -> UNION {Json(c, aged[c]) : c \in Kept}] :
            /\ \A i \in DOMAIN quiet : msgs[i] \in Json(quiet[i], aged[quiet[i]])
            /\ registerTrafficUpdate(msgs)
  BY DEF sendTrafficUpdates
<1> HIDE DEF aged, still, quiet, n
<1>6. PICK msgs \in [DOMAIN quiet -> UNION {Json(c, aged[c]) : c \in Kept}] :
            /\ \A i \in DOMAIN quiet : msgs[i] \in Json(quiet[i], aged[quiet[i]])
            /\ registerTrafficUpdate(msgs)
  BY <1>5
<1>7. DOMAIN msgs = 1..n /\ DOMAIN quiet = 1..n
  BY <1>4, <1>6
<1>8. \A i \in 1..n : quiet[i] \in Craft /\ aged[quiet[i]] \in Entries
  BY <1>3, <1>4
<1>9. \A i \in 1..n : msgs[i] \in Messages
  BY <1>6, <1>7, <1>8, JsonFacts
<1>10. msgs \in Seq(Messages)
  BY <1>4, <1>6, <1>7, <1>9
<1>11. wire' \in Seq(Messages)
  BY <1>6, <1>10, BroadcastTypes
<1> QED
  BY <1>3, <1>5, <1>11, FeedAssumption DEF FeedTypeOK

(* A new socket gets what is known.                                        *)
LEMMA HelloTypes ==
    ASSUME FeedTypeOK, handleTrafficWS
    PROVE  FeedTypeOK'
<1> DEFINE seen == {c \in Craft : traffic[c].in /\ traffic[c].pos}
           known == SetToSeq(seen)
           n == Cardinality(seen)
           Text(c) == CHOOSE m \in Json(c, traffic[c]) : TRUE
<1>1. known \in [1..n -> seen] /\ n \in Nat /\ seen \subseteq Craft
  <2>1. IsFiniteSet(seen)
    BY FeedAssumption, FS_Subset
  <2> QED
    BY <2>1, ListsSet
<1>2. \A c \in Craft : Text(c) \in Messages
  <2>1. \A c \in Craft : traffic[c] \in Entries
    BY DEF FeedTypeOK
  <2> QED
    BY <2>1, JsonFacts
<1>3. /\ conn' = "open" /\ UNCHANGED <<traffic, sinceSend>>
      /\ wire' = [i \in DOMAIN known |-> Text(known[i])]
  BY DEF handleTrafficWS
<1> HIDE DEF seen, known, n, Text
<1>4. wire' \in Seq(Messages)
  BY <1>1, <1>2, <1>3
<1> QED
  BY <1>3, <1>4 DEF FeedTypeOK

(* Time passes in the table.                                               *)
LEMMA FeedTickTypes ==
    ASSUME FeedTypeOK, FeedTick
    PROVE  FeedTypeOK'
<1>1. \A c \in Craft : [traffic[c] EXCEPT !.since = Sat(@ + 1)] \in Entries
  <2>1. \A k \in 0..Cap : Sat(k + 1) \in 0..Cap
    BY CapFacts DEF Sat
  <2> HIDE DEF Sat
  <2> QED
    BY <2>1 DEF FeedTypeOK, Entries
<1> DEFINE New(c) == [traffic[c] EXCEPT !.since = Sat(@ + 1)]
<1>2. traffic' = [c \in Craft |-> IF traffic[c].in THEN New(c) ELSE traffic[c]]
  BY DEF FeedTick
<1>3. \A c \in Craft : New(c) \in Entries
  BY <1>1
<1> HIDE DEF New
<1>4. traffic' \in [Craft -> Entries]
  BY <1>2, <1>3 DEF FeedTypeOK
<1>5. sinceSend' \in 0..(Period + Jitter)
  BY FeedAssumption DEF FeedTypeOK, FeedTick
<1> QED
  BY <1>4, <1>5 DEF FeedTypeOK, FeedTick

LEMMA FeedStep == FeedTypeOK /\ (FeedNext \/ FeedTick \/ UNCHANGED feedVars) => FeedTypeOK'
<1> SUFFICES ASSUME FeedTypeOK, FeedNext \/ FeedTick \/ UNCHANGED feedVars PROVE FeedTypeOK'
  OBVIOUS
<1>1. \A c \in Craft : traffic[c] \in Entries
  BY DEF FeedTypeOK
<1>2. ASSUME NEW c \in Craft, HearPosition(c) PROVE FeedTypeOK'
  <2>1. [traffic[c] EXCEPT !.since = 0, !.pos = TRUE] \in Entries
    BY <1>1, CapFacts DEF Entries
  <2> QED
    BY <1>2, <2>1, HeardTypes DEF HearPosition
<1>3. ASSUME NEW c \in Craft, HearUatFrame(c) PROVE FeedTypeOK'
  <2>1. [traffic[c] EXCEPT !.pos = FALSE] \in Entries
    BY <1>1 DEF Entries
  <2> QED
    BY <1>3, <2>1, HeardTypes DEF HearUatFrame
<1>4. ASSUME NEW c \in Craft, HearModeS(c) PROVE FeedTypeOK'
  <2>1. PICK t \in 0..traffic[c].since : Heard(c, [traffic[c] EXCEPT !.since = t])
    BY <1>4 DEF HearModeS
  <2>2. [traffic[c] EXCEPT !.since = t] \in Entries
    BY <1>1, <2>1, CapFacts DEF Entries
  <2> QED
    BY <2>1, <2>2, HeardTypes
<1>8. ASSUME NEW c \in Craft, HearOgn(c) PROVE FeedTypeOK'
  <2>1. PICK a \in 0..OgnMaxAge :
          a <= Cap /\ Heard(c, [traffic[c] EXCEPT !.since = a, !.Age = a, !.pos = TRUE])
    BY <1>8 DEF HearOgn
  <2>2. a \in 0..Cap
    BY <2>1, CapFacts, FeedAssumption
  <2>3. [traffic[c] EXCEPT !.since = a, !.Age = a, !.pos = TRUE] \in Entries
    BY <1>1, <2>2 DEF Entries
  <2> QED
    BY <2>1, <2>3, HeardTypes
<1>9. ASSUME NEW c \in Craft, HearShipData(c) PROVE FeedTypeOK'
  <2> DEFINE e == [traffic[c] EXCEPT !.in = TRUE, !.since = 0]
  <2>1. e \in Entries
    BY <1>1, CapFacts DEF Entries
  <2>2. CASE Heard(c, e)
    BY <2>1, <2>2, HeardTypes
  <2>3. CASE traffic' = [traffic EXCEPT ![c] = e] /\ UNCHANGED <<sinceSend, conn, wire>>
    BY <2>1, <2>3 DEF FeedTypeOK
  <2> QED
    BY <1>9, <2>2, <2>3 DEF HearShipData
<1>10. CASE WriteFails
  <2>1. PICK k \in 1..Len(wire) : wire' = SubSeq(wire, 1, k - 1)
    BY <1>10 DEF WriteFails
  <2>2. wire \in Seq(Messages) /\ Len(wire) \in Nat
    BY DEF FeedTypeOK
  <2>3. SubSeq(wire, 1, k - 1) \in Seq(Messages)
    BY <2>1, <2>2, SubSeqProperties
  <2> QED
    BY <1>10, <2>1, <2>3 DEF WriteFails, FeedTypeOK
<1>5. ASSUME NEW c \in Craft, removeTarget(c) PROVE FeedTypeOK'
  <2> DEFINE e == [traffic[c] EXCEPT !.Age = ServerMax, !.pos = FALSE]
  <2>1. e \in Entries
    BY <1>1, CapFacts DEF Entries
  <2>2. Absent \in Entries
    BY CapFacts DEF Absent, Entries
  <2>3. /\ traffic' = [traffic EXCEPT ![c] = Absent] /\ UNCHANGED <<sinceSend, conn>>
        /\ \E m \in Json(c, e) : registerTrafficUpdate(<<m>>)
    BY <1>5 DEF removeTarget
  <2> HIDE DEF e
  <2>4. PICK m \in Json(c, e) : registerTrafficUpdate(<<m>>)
    BY <2>3
  <2>5. <<m>> \in Seq(Messages)
    BY <2>1, <2>4, JsonFacts
  <2>6. wire' \in Seq(Messages)
    BY <2>4, <2>5, BroadcastTypes
  <2>7. traffic' \in [Craft -> Entries]
    BY <2>2, <2>3 DEF FeedTypeOK
  <2> QED
    BY <2>3, <2>6, <2>7 DEF FeedTypeOK
<1>6. CASE Drop
  BY <1>6 DEF Drop, FeedTypeOK
<1>7. CASE UNCHANGED feedVars
  BY <1>7 DEF feedVars, FeedTypeOK
<1> QED
  BY <1>2, <1>3, <1>4, <1>5, <1>6, <1>7, <1>8, <1>9, <1>10, UpdateTypes, HelloTypes,
     FeedTickTypes DEF FeedNext

-------------------------------------------------------------------------------
(* Lists of aircraft.                                                      *)

(* A list with a new first element.                                        *)
LEMMA AddedInFront ==
    ASSUME NEW S, NEW s \in Seq(S), NEW x \in S
    PROVE  /\ <<x>> \o s \in Seq(S) /\ Len(<<x>> \o s) = Len(s) + 1 /\ Len(s) \in Nat
           /\ (<<x>> \o s)[1] = x
           /\ \A i \in 2..(Len(s) + 1) : (<<x>> \o s)[i] = s[i - 1]
<1> DEFINE h == <<x>>
<1>1. h \in Seq(S) /\ Len(h) = 1 /\ h[1] = x /\ Len(s) \in Nat
  BY LenProperties
<1> HIDE DEF h
<1>2. /\ h \o s \in Seq(S) /\ Len(h \o s) = Len(h) + Len(s)
      /\ \A i \in 1..(Len(h) + Len(s)) : (h \o s)[i] = IF i <= Len(h) THEN h[i] ELSE s[i - Len(h)]
  BY <1>1, ConcatProperties
<1>3. Len(h \o s) = Len(s) + 1 /\ (h \o s)[1] = x
  BY <1>1, <1>2
<1>4. \A i \in 2..(Len(s) + 1) : (h \o s)[i] = s[i - 1]
  BY <1>1, <1>2
<1> QED
  BY <1>1, <1>2, <1>3, <1>4 DEF h

(* A list without its element i.                                           *)
LEMMA SplicedOut ==
    ASSUME NEW S, NEW s \in Seq(S), NEW i \in 1..Len(s)
    PROVE  /\ RemoveAt(s, i) \in Seq(S) /\ Len(RemoveAt(s, i)) = Len(s) - 1 /\ Len(s) \in Nat
           /\ \A k \in 1..(Len(s) - 1) : RemoveAt(s, i)[k] = s[IF k < i THEN k ELSE k + 1]
<1>1. Len(s) \in Nat /\ \A j \in 1..Len(s) : s[j] \in S
  BY LenProperties
<1> DEFINE a == SubSeq(s, 1, i - 1)
           b == SubSeq(s, i + 1, Len(s))
<1>2. a \in Seq(S) /\ Len(a) = i - 1 /\ \A k \in 1..(i - 1) : a[k] = s[k]
  <2>1. \A j \in 1..(i - 1) : s[j] \in S
    BY <1>1
  <2>2. i - 1 \in Int /\ 1 \in Int
    BY <1>1
  <2>3. /\ a \in Seq(S) /\ Len(a) = (IF 1 <= i - 1 THEN i - 1 - 1 + 1 ELSE 0)
        /\ \A k \in 1..(i - 1 - 1 + 1) : a[k] = s[1 + k - 1]
    BY <2>1, <2>2, SubSeqProperties
  <2> HIDE DEF a
  <2> QED
    BY <1>1, <2>3
<1>3. b \in Seq(S) /\ Len(b) = Len(s) - i /\ \A k \in 1..(Len(s) - i) : b[k] = s[i + k]
  <2>1. \A j \in (i + 1)..Len(s) : s[j] \in S
    BY <1>1
  <2>2. i + 1 \in Int /\ Len(s) \in Int
    BY <1>1
  <2>3. /\ b \in Seq(S) /\ Len(b) = (IF i + 1 <= Len(s) THEN Len(s) - (i + 1) + 1 ELSE 0)
        /\ \A k \in 1..(Len(s) - (i + 1) + 1) : b[k] = s[i + 1 + k - 1]
    BY <2>1, <2>2, SubSeqProperties
  <2> HIDE DEF b
  <2> QED
    BY <1>1, <2>3
<1> HIDE DEF a, b
<1>4. /\ a \o b \in Seq(S) /\ Len(a \o b) = Len(a) + Len(b)
      /\ \A k \in 1..(Len(a) + Len(b)) : (a \o b)[k] = IF k <= Len(a) THEN a[k] ELSE b[k - Len(a)]
  BY <1>2, <1>3, ConcatProperties
<1>5. Len(a) + Len(b) = Len(s) - 1
  BY <1>1, <1>2, <1>3
<1>6. \A k \in 1..(Len(s) - 1) : (a \o b)[k] = s[IF k < i THEN k ELSE k + 1]
  <2> SUFFICES ASSUME NEW k \in 1..(Len(s) - 1)
               PROVE  (a \o b)[k] = s[IF k < i THEN k ELSE k + 1]
    OBVIOUS
  <2>1. CASE k < i
    BY <1>1, <1>2, <1>4, <1>5, <2>1
  <2>2. CASE ~(k < i)
    <3>1. (a \o b)[k] = b[k - Len(a)] /\ k - Len(a) \in 1..(Len(s) - i)
      BY <1>1, <1>2, <1>4, <1>5, <2>2
    <3>2. i + (k - Len(a)) = k + 1
      BY <1>1, <1>2
    <3> QED
      BY <1>3, <2>2, <3>1, <3>2
  <2> QED
    BY <2>1, <2>2
<1> QED
  BY <1>1, <1>4, <1>5, <1>6 DEF RemoveAt, a, b

(* The elements of new are the elements of s at the positions `left`, each *)
(* once.                                                                   *)
IsPart(new, s, left) ==
    /\ \E at \in [DOMAIN new -> left] :
          /\ \A k \in DOMAIN new : new[k] = s[at[k]]
          /\ \A k, l \in DOMAIN new : at[k] = at[l] => k = l
    /\ \A i \in left : \E k \in DOMAIN new : new[k] = s[i]

(* What remains of a list.                                                 *)
LEMMA RemainingFacts ==
    ASSUME NEW S, NEW s \in Seq(S), NEW left \in SUBSET (DOMAIN s), NEW new \in Remaining(s, left)
    PROVE  new \in Seq(S) /\ IsPart(new, s, left)
<1> DEFINE n == Len(s)
           m == Cardinality(left)
<1>1. n \in Nat /\ DOMAIN s = 1..n /\ \A i \in 1..n : s[i] \in S
  BY LenProperties
<1>2. m \in Nat /\ left \subseteq 1..n /\ IsFiniteSet(left)
  <2>1. IsFiniteSet(1..n)
    BY <1>1, FS_Interval
  <2> QED
    BY <1>1, <2>1, FS_Subset, FS_CardinalityType
<1>3. PICK at \in [1..m -> left] :
          /\ \A k, l \in DOMAIN at : k < l => at[k] < at[l]
          /\ new = [k \in DOMAIN at |-> s[at[k]]]
  BY DEF Remaining
<1> HIDE DEF n, m
<1>4. /\ DOMAIN at = 1..m /\ DOMAIN new = 1..m /\ new = [k \in 1..m |-> s[at[k]]]
      /\ \A k \in 1..m : at[k] \in left /\ at[k] \in 1..n /\ new[k] = s[at[k]]
      /\ \A k, l \in 1..m : k < l => at[k] < at[l]
  BY <1>2, <1>3
<1>5. new \in Seq(S)
  BY <1>1, <1>2, <1>4
<1>6. \A k, l \in 1..m : at[k] = at[l] => k = l
  BY <1>1, <1>2, <1>4
<1>7. \A i \in left : \E k \in 1..m : at[k] = i
  <2>1. IsFiniteSet(1..m) /\ Cardinality(1..m) = m
    <3>1. IsFiniteSet(1..m) /\ Cardinality(1..m) = IF 1 > m THEN 0 ELSE m - 1 + 1
      BY <1>2, FS_Interval
    <3> QED
      BY <1>2, <3>1
  <2>2. at \in Injection(1..m, left)
    BY <1>3, <1>4, <1>6 DEF Injection, IsInjective
  <2>3. at \in Surjection(1..m, left)
    BY <1>2, <2>1, <2>2, FS_Injection DEF m
  <2> QED
    BY <2>3 DEF Surjection
<1>8. at \in [DOMAIN new -> left]
  BY <1>3, <1>4
<1>9. \E f \in [DOMAIN new -> left] :
          /\ \A k \in DOMAIN new : new[k] = s[f[k]]
          /\ \A k, l \in DOMAIN new : f[k] = f[l] => k = l
  <2> WITNESS at \in [DOMAIN new -> left]
  <2> QED
    BY <1>4, <1>6
<1>10. \A i \in left : \E k \in DOMAIN new : new[k] = s[i]
  BY <1>4, <1>7
<1> QED
  BY <1>5, <1>9, <1>10 DEF IsPart

-------------------------------------------------------------------------------
(* The page Traffic.                                                       *)

Lines == [id : Craft, ais : {FALSE}, Age : 0..Cap, altAged : BOOLEAN]

(* No aircraft is in a list twice.                                         *)
OnceOnly(l) == \A i, j \in DOMAIN l : isSameAircraft(l[i].id, l[j].id) => i = j

(* No aircraft is in both lists.                                           *)
Apart(l, r) == \A i \in DOMAIN l, j \in DOMAIN r : ~isSameAircraft(l[i].id, r[j].id)

ListInv ==
    /\ data_list \in Seq(Lines) /\ data_list_invalid \in Seq(Lines)
    /\ OnceOnly(data_list) /\ OnceOnly(data_list_invalid)
    /\ Apart(data_list, data_list_invalid)

LEMMA ListInitInv == PageInit => ListInv
BY EmptySeq DEF PageInit, ListInv, OnceOnly, Apart

(* The list new comes from l by a message about id, which belongs there or *)
(* not.                                                                    *)
Follows(new, l, id, belongs) ==
    \A k \in DOMAIN new :
        \/ belongs /\ new[k].id = id
        \/ ~isSameAircraft(new[k].id, id) /\ \E j \in DOMAIN l : new[k].id = l[j].id

(* A message leaves each aircraft in a list once, and the one it is about  *)
(* only where it belongs.                                                  *)
LEMMA ListedFacts ==
    ASSUME NEW list \in Seq(Lines), OnceOnly(list), NEW m \in Messages, NEW belongs \in BOOLEAN,
           NEW new, new = Listed(list, m, belongs)
    PROVE  new \in Seq(Lines) /\ OnceOnly(new) /\ Follows(new, list, m.id, belongs)
<1> DEFINE i == IndexIn(list, m.id)
           x == setAircraft(m)
           n == Len(list)
<1>1. x \in Lines /\ x.id = m.id
  BY DEF setAircraft, Lines, Messages
<1>2. n \in Nat /\ DOMAIN list = 1..n /\ \A j \in 1..n : list[j] \in Lines
  BY LenProperties
<1>3. /\ i = 0 \/ i \in 1..n
      /\ i = 0 => \A j \in 1..n : ~isSameAircraft(list[j].id, m.id)
      /\ i # 0 => isSameAircraft(list[i].id, m.id)
  BY IndexInFacts
<1>4. /\ belongs /\ i = 0 => new = <<x>> \o list
      /\ belongs /\ i # 0 => new = ReplaceAt(list, i, x)
      /\ ~belongs /\ i = 0 => new = list
      /\ ~belongs /\ i # 0 => new = RemoveAt(list, i)
  BY DEF Listed
<1>5. \A j \in 1..n : i # 0 /\ j # i => ~isSameAircraft(list[j].id, m.id)
  BY <1>2, <1>3, SameIsEquivalence DEF OnceOnly
<1> HIDE DEF i, x, n
<1>6. CASE belongs /\ i = 0
  <2>1. /\ new \in Seq(Lines) /\ Len(new) = n + 1 /\ new[1] = x
        /\ \A k \in 2..(n + 1) : new[k] = list[k - 1]
    <3>1. new = <<x>> \o list
      BY <1>4, <1>6
    <3>2. /\ <<x>> \o list \in Seq(Lines) /\ Len(<<x>> \o list) = Len(list) + 1
          /\ (<<x>> \o list)[1] = x
          /\ \A k \in 2..(Len(list) + 1) : (<<x>> \o list)[k] = list[k - 1]
      BY <1>1, AddedInFront
    <3> QED
      BY <3>1, <3>2, Zenon DEF n
  <2>2. DOMAIN new = 1..(n + 1)
    BY <2>1, LenProperties
  <2>3. \A k \in 2..(n + 1) : k - 1 \in 1..n
    BY <1>2
  <2>4. \A k \in 1..(n + 1) :
           \/ k = 1 /\ new[k].id = m.id
           \/ /\ k \in 2..(n + 1) /\ ~isSameAircraft(new[k].id, m.id)
              /\ new[k].id = list[k - 1].id /\ k - 1 \in 1..n
    <3> SUFFICES ASSUME NEW k \in 1..(n + 1)
                 PROVE  \/ k = 1 /\ new[k].id = m.id
                        \/ /\ k \in 2..(n + 1) /\ ~isSameAircraft(new[k].id, m.id)
                           /\ new[k].id = list[k - 1].id /\ k - 1 \in 1..n
      OBVIOUS
    <3>1. k = 1 \/ k \in 2..(n + 1)
      BY <1>2
    <3>2. CASE k = 1
      BY <1>1, <2>1, <3>2
    <3>3. CASE k \in 2..(n + 1)
      <4>1. new[k] = list[k - 1] /\ k - 1 \in 1..n
        BY <2>1, <2>3, <3>3
      <4> QED
        BY <1>3, <1>6, <3>3, <4>1
    <3> QED
      BY <3>1, <3>2, <3>3
  <2>5. OnceOnly(new)
    <3> SUFFICES ASSUME NEW k \in 1..(n + 1), NEW l \in 1..(n + 1),
                        isSameAircraft(new[k].id, new[l].id)
                 PROVE  k = l
      BY <2>2 DEF OnceOnly
    <3>1. isSameAircraft(new[l].id, new[k].id)
      BY SameIsEquivalence
    <3>2. CASE k # 1 /\ l # 1
      <4>1. k - 1 = l - 1
        BY <1>2, <2>4, <3>2 DEF OnceOnly
      <4> QED
        BY <1>2, <4>1
    <3>3. CASE k = 1 \/ l = 1
      BY <1>2, <2>4, <3>1, <3>3
    <3> QED
      BY <3>2, <3>3
  <2> QED
    BY <1>2, <1>6, <2>1, <2>2, <2>4, <2>5 DEF Follows
<1>7. CASE belongs /\ i # 0
  <2>1. new = [list EXCEPT ![i] = x] /\ i \in 1..n
    BY <1>3, <1>4, <1>7 DEF ReplaceAt
  <2>2. new \in Seq(Lines) /\ DOMAIN new = 1..n
    BY <1>1, <1>2, <2>1
  <2>3. new[i] = x /\ \A k \in 1..n : k # i => new[k] = list[k]
    BY <1>2, <2>1
  <2>4. OnceOnly(new)
    <3> SUFFICES ASSUME NEW k \in 1..n, NEW l \in 1..n, isSameAircraft(new[k].id, new[l].id)
                 PROVE  k = l
      BY <2>2 DEF OnceOnly
    <3>1. isSameAircraft(new[l].id, new[k].id)
      BY SameIsEquivalence
    <3>2. CASE k # i /\ l # i
      BY <1>2, <2>3, <3>2 DEF OnceOnly
    <3>3. CASE k = i \/ l = i
      BY <1>1, <1>5, <1>7, <2>3, <3>1, <3>3
    <3> QED
      BY <3>2, <3>3
  <2> QED
    BY <1>1, <1>2, <1>5, <1>7, <2>2, <2>3, <2>4 DEF Follows
<1>8. CASE ~belongs /\ i = 0
  BY <1>2, <1>3, <1>4, <1>8 DEF Follows
<1>9. CASE ~belongs /\ i # 0
  <2> DEFINE At(k) == IF k < i THEN k ELSE k + 1
  <2>1. i \in 1..n
    BY <1>3, <1>9
  <2>2. /\ new \in Seq(Lines) /\ Len(new) = n - 1
        /\ \A k \in 1..(n - 1) : new[k] = list[At(k)]
    BY <1>4, <1>9, <2>1, SplicedOut DEF n
  <2>3. DOMAIN new = 1..(n - 1)
    BY <2>2, LenProperties
  <2>4. \A k \in 1..(n - 1) : At(k) \in 1..n /\ At(k) # i
    BY <1>2, <2>1
  <2>5. \A k, l \in 1..(n - 1) : At(k) = At(l) => k = l
    BY <1>2, <2>1
  <2> HIDE DEF At
  <2>6. OnceOnly(new)
    BY <1>2, <2>2, <2>3, <2>4, <2>5 DEF OnceOnly
  <2>7. \A k \in 1..(n - 1) : /\ ~isSameAircraft(new[k].id, m.id)
                              /\ \E j \in 1..n : new[k].id = list[j].id
    BY <1>5, <1>9, <2>2, <2>4
  <2> QED
    BY <1>2, <2>2, <2>3, <2>6, <2>7 DEF Follows
<1> QED
  BY <1>6, <1>7, <1>8, <1>9

(* A message reaches the page.                                             *)
LEMMA ListMessage ==
    ASSUME ListInv, NEW m \in Messages, onmessage(m)
    PROVE  ListInv'
<1> DEFINE pos == m.pos
           not == ~m.pos
<1>1. pos \in BOOLEAN /\ not \in BOOLEAN
  BY DEF Messages
<1>2. /\ data_list' = Listed(data_list, m, pos)
      /\ data_list_invalid' = Listed(data_list_invalid, m, not)
  BY DEF onmessage
<1>3. ~(pos /\ not)
  OBVIOUS
<1> HIDE DEF pos, not
<1>4. /\ data_list' \in Seq(Lines) /\ OnceOnly(data_list')
      /\ Follows(data_list', data_list, m.id, pos)
  BY <1>1, <1>2, ListedFacts DEF ListInv
<1>5. /\ data_list_invalid' \in Seq(Lines) /\ OnceOnly(data_list_invalid')
      /\ Follows(data_list_invalid', data_list_invalid, m.id, not)
  BY <1>1, <1>2, ListedFacts DEF ListInv
<1>6. Apart(data_list', data_list_invalid')
  <2> SUFFICES ASSUME NEW k \in DOMAIN data_list', NEW l \in DOMAIN data_list_invalid',
                      isSameAircraft(data_list'[k].id, data_list_invalid'[l].id)
               PROVE  FALSE
    BY DEF Apart
  <2>1. isSameAircraft(data_list_invalid'[l].id, data_list'[k].id)
    BY SameIsEquivalence
  <2>2. data_list'[k].id # m.id \/ data_list_invalid'[l].id # m.id
    BY <1>3, <1>4, <1>5, SameIsEquivalence DEF Follows
  <2>3. data_list'[k].id # m.id /\ data_list_invalid'[l].id # m.id
    BY <1>4, <1>5, <2>1, <2>2, SameIsEquivalence DEF Follows
  <2> QED
    BY <1>4, <1>5, <2>3 DEF ListInv, Apart, Follows
<1> QED
  BY <1>4, <1>5, <1>6 DEF ListInv, OnceOnly, Apart

(* A part of a list has nobody twice, if the list has not, and parts of    *)
(* two lists have nobody in common, if the lists have not.                 *)
LEMMA PartOnceOnly ==
    ASSUME NEW s, NEW left \in SUBSET (DOMAIN s), NEW new, IsPart(new, s, left), OnceOnly(s)
    PROVE  OnceOnly(new)
<1>1. PICK at \in [DOMAIN new -> left] :
          /\ \A k \in DOMAIN new : new[k] = s[at[k]]
          /\ \A k, l \in DOMAIN new : at[k] = at[l] => k = l
  BY DEF IsPart
<1> SUFFICES ASSUME NEW k \in DOMAIN new, NEW l \in DOMAIN new,
                    isSameAircraft(new[k].id, new[l].id)
             PROVE  k = l
  BY DEF OnceOnly
<1>2. at[k] \in DOMAIN s /\ at[l] \in DOMAIN s /\ new[k] = s[at[k]] /\ new[l] = s[at[l]]
  BY <1>1
<1>3. at[k] = at[l]
  BY <1>2 DEF OnceOnly
<1> QED
  BY <1>1, <1>3

LEMMA PartsApart ==
    ASSUME NEW s, NEW left \in SUBSET (DOMAIN s), NEW new, IsPart(new, s, left),
           NEW t, NEW right \in SUBSET (DOMAIN t), NEW rest, IsPart(rest, t, right), Apart(s, t)
    PROVE  Apart(new, rest)
<1> SUFFICES ASSUME NEW k \in DOMAIN new, NEW l \in DOMAIN rest
             PROVE  ~isSameAircraft(new[k].id, rest[l].id)
  BY DEF Apart
<1>1. PICK i \in DOMAIN s : new[k] = s[i]
  BY DEF IsPart
<1>2. PICK j \in DOMAIN t : rest[l] = t[j]
  BY DEF IsPart
<1> QED
  BY <1>1, <1>2 DEF Apart

(* Old entries are removed.                                                *)
LEMMA ListClear ==
    ASSUME ListInv, clearStaleTraffic
    PROVE  ListInv'
<1>1. PICK L \in SUBSET (DOMAIN data_list), R \in SUBSET (DOMAIN data_list_invalid) :
          data_list' \in Remaining(data_list, L)
          /\ data_list_invalid' \in Remaining(data_list_invalid, R)
  <2> DEFINE L == {i \in DOMAIN data_list : ~isTrafficAged(data_list[i].ais, data_list[i].Age)}
             R == {i \in DOMAIN data_list_invalid :
                      /\ ~isTrafficAged(data_list_invalid[i].ais, data_list_invalid[i].Age)
                      /\ ~data_list_invalid[i].altAged}
  <2>1. data_list' \in Remaining(data_list, L)
        /\ data_list_invalid' \in Remaining(data_list_invalid, R)
    BY DEF clearStaleTraffic
  <2>2. L \in SUBSET (DOMAIN data_list) /\ R \in SUBSET (DOMAIN data_list_invalid)
    OBVIOUS
  <2> QED
    BY <2>1, <2>2
<1>2. data_list' \in Seq(Lines) /\ IsPart(data_list', data_list, L)
  BY <1>1, RemainingFacts DEF ListInv
<1>3. data_list_invalid' \in Seq(Lines) /\ IsPart(data_list_invalid', data_list_invalid, R)
  BY <1>1, RemainingFacts DEF ListInv
<1>4. OnceOnly(data_list')
  BY <1>1, <1>2, PartOnceOnly DEF ListInv
<1>5. OnceOnly(data_list_invalid')
  BY <1>1, <1>3, PartOnceOnly DEF ListInv
<1>6. Apart(data_list', data_list_invalid')
  BY <1>1, <1>2, <1>3, PartsApart DEF ListInv
<1> QED
  BY <1>2, <1>3, <1>4, <1>5, <1>6 DEF ListInv, OnceOnly, Apart

-------------------------------------------------------------------------------
(* The page Map.                                                           *)

Drawn == [id : Craft, ais : BOOLEAN, Age : Nat, said : Nat, elapsed : 0..Cap,
          ageReceived : Nat, points : {1, 2}]

(* The Age that the next update starts from.                               *)
Base(ac) == IF ac.ageReceived = 0 THEN ac.Age ELSE ac.ageReceived

(* It is at least what the message said; an Age of 0, remembered late, may *)
(* add the time since.                                                     *)
Honest(ac) == ac.said <= Base(ac) /\ Base(ac) <= ac.said + ac.elapsed

Marked(l, c) == \E i \in DOMAIN l : isSameAircraft(l[i].id, c)
Trailed(l, c) == \E i \in DOMAIN l : isSameAircraft(l[i].id, c) /\ l[i].points = 2

MapInv ==
    /\ aircraft \in Seq(Drawn) /\ OnceOnly(aircraft)
    /\ \A i \in DOMAIN aircraft : Honest(aircraft[i])
    /\ aircraftSymbols = [c \in Craft |-> IF Marked(aircraft, c) THEN 1 ELSE 0]
    /\ aircraftTrails = [c \in Craft |-> IF Trailed(aircraft, c) THEN 1 ELSE 0]

LEMMA MapInitInv == MapInit(Craft) => MapInv
BY EmptySeq DEF MapInit, MapInv, OnceOnly, Marked, Trailed

(* A new object.                                                           *)
LEMMA FreshFacts ==
    ASSUME NEW m \in Messages, NEW points \in {1, 2}
    PROVE  /\ Fresh(m, points) \in Drawn /\ Honest(Fresh(m, points))
           /\ Fresh(m, points).id = m.id /\ Fresh(m, points).points = points
<1>1. m.id \in Craft /\ m.ais \in BOOLEAN /\ m.Age \in Nat /\ 0 \in 0..Cap
  BY CapFacts DEF Messages
<1> QED
  BY <1>1 DEF Fresh, Drawn, Honest, Base

(* What updateAges does to an object.                                      *)
LEMMA UpdatedFacts ==
    ASSUME NEW ac \in Drawn, Honest(ac)
    PROVE  LET new == updateAge(ac) IN
           /\ new \in Drawn /\ Honest(new)
           /\ new.id = ac.id /\ new.points = ac.points
           /\ new.said + new.elapsed <= new.Age
           /\ new.Age <= new.said + 2 * new.elapsed
<1> DEFINE r == Base(ac)
           new == updateAge(ac)
<1>1. /\ ac.Age \in Nat /\ ac.said \in Nat /\ ac.elapsed \in Nat /\ ac.ageReceived \in Nat
      /\ r \in Nat
  BY CapFacts DEF Drawn, Base
<1>2. new = [ac EXCEPT !.ageReceived = r, !.Age = r + ac.elapsed]
  BY DEF updateAge, Base
<1>3. r + ac.elapsed \in Nat /\ ac.said <= r /\ r <= ac.said + ac.elapsed
  BY <1>1 DEF Honest
<1> HIDE DEF r, new
<1>4. new \in Drawn
  BY <1>1, <1>2, <1>3 DEF Drawn
<1>5. /\ new.ageReceived = r /\ new.Age = r + ac.elapsed /\ new.said = ac.said
      /\ new.elapsed = ac.elapsed /\ new.id = ac.id /\ new.points = ac.points
  BY <1>2 DEF Drawn
<1>6. Honest(new)
  BY <1>1, <1>3, <1>5 DEF Honest, Base
<1>7. new.said + new.elapsed <= new.Age /\ new.Age <= new.said + 2 * new.elapsed
  BY <1>1, <1>3, <1>5
<1> QED
  BY <1>4, <1>5, <1>6, <1>7 DEF new

(* A message about an aircraft that is not on the map.                     *)
LEMMA MapNew ==
    ASSUME MapInv, NEW m \in Messages, NEW moved \in BOOLEAN, onMessage(m, moved),
           IndexIn(aircraft, m.id) = 0
    PROVE  MapInv'
<1> DEFINE n == Len(aircraft)
           x == Fresh(m, 1)
<1>1. x \in Drawn /\ Honest(x) /\ x.id = m.id /\ x.points = 1
  BY FreshFacts
<1>2. n \in Nat /\ DOMAIN aircraft = 1..n /\ aircraft \in Seq(Drawn)
  BY LenProperties DEF MapInv
<1>3. \A j \in 1..n : ~isSameAircraft(aircraft[j].id, m.id)
  BY <1>2, IndexInFacts
<1>4. CASE UNCHANGED mapVars
  BY <1>4 DEF mapVars, MapInv, OnceOnly, Marked, Trailed
<1>5. CASE /\ aircraft' = Append(aircraft, x)
           /\ aircraftSymbols' = [c \in DOMAIN aircraftSymbols |-> aircraftSymbols[c] +
                 (IF isSameAircraft(c, m.id) THEN 1 ELSE 0)]
           /\ aircraftTrails' = [c \in DOMAIN aircraftTrails |-> aircraftTrails[c] + 0]
  <2> HIDE DEF x, n
  <2>1. /\ aircraft' \in Seq(Drawn) /\ Len(aircraft') = n + 1
        /\ \A k \in 1..n : aircraft'[k] = aircraft[k]
        /\ aircraft'[n + 1] = x
    BY <1>1, <1>2, <1>5, AppendProperties DEF n
  <2>2. DOMAIN aircraft' = 1..(n + 1)
    BY <2>1, LenProperties
  <2>3. \A k \in 1..(n + 1) : k \in 1..n \/ k = n + 1
    BY <1>2
  <2>4. n + 1 \in 1..(n + 1) /\ \A k \in 1..n : k \in 1..(n + 1)
    BY <1>2
  <2>5. OnceOnly(aircraft')
    <3> SUFFICES ASSUME NEW k \in 1..(n + 1), NEW l \in 1..(n + 1),
                        isSameAircraft(aircraft'[k].id, aircraft'[l].id)
                 PROVE  k = l
      BY <2>2 DEF OnceOnly
    <3>1. isSameAircraft(aircraft'[l].id, aircraft'[k].id)
      BY SameIsEquivalence
    <3>2. CASE k \in 1..n /\ l \in 1..n
      BY <1>2, <2>1, <3>2 DEF OnceOnly, MapInv
    <3>3. CASE k = n + 1 \/ l = n + 1
      BY <1>1, <1>3, <2>1, <2>3, <3>1, <3>3
    <3> QED
      BY <2>3, <3>2, <3>3
  <2>6. \A k \in DOMAIN aircraft' : Honest(aircraft'[k])
    BY <1>1, <1>2, <2>1, <2>2, <2>3 DEF MapInv
  <2>7. \A c \in Craft : Marked(aircraft', c) <=> Marked(aircraft, c) \/ isSameAircraft(m.id, c)
    BY <1>1, <1>2, <2>1, <2>2, <2>3, <2>4 DEF Marked
  <2>8. \A c \in Craft : isSameAircraft(m.id, c) => ~Marked(aircraft, c)
    BY <1>2, <1>3, SameIsEquivalence DEF Marked
  <2>9. \A c \in Craft : Trailed(aircraft', c) <=> Trailed(aircraft, c)
    BY <1>1, <1>2, <2>1, <2>2, <2>3, <2>4 DEF Trailed
  <2>10. \A c \in Craft : isSameAircraft(m.id, c) <=> isSameAircraft(c, m.id)
    BY SameIsEquivalence
  <2>11. aircraftSymbols' = [c \in Craft |-> IF Marked(aircraft', c) THEN 1 ELSE 0]
    BY <1>5, <2>7, <2>8, <2>10 DEF MapInv
  <2>12. aircraftTrails' = [c \in Craft |-> IF Trailed(aircraft', c) THEN 1 ELSE 0]
    BY <1>5, <2>9 DEF MapInv
  <2> QED
    BY <2>1, <2>5, <2>6, <2>11, <2>12 DEF MapInv, OnceOnly, Marked, Trailed
<1> QED
  BY <1>4, <1>5 DEF onMessage

(* A message about an aircraft that is on the map.                         *)
LEMMA MapKnown ==
    ASSUME MapInv, NEW m \in Messages, NEW moved \in BOOLEAN, onMessage(m, moved),
           IndexIn(aircraft, m.id) # 0
    PROVE  MapInv'
<1> DEFINE n == Len(aircraft)
           i == IndexIn(aircraft, m.id)
           old == aircraft[i]
           points == IF moved \/ old.points = 2 THEN 2 ELSE 1
           x == Fresh(m, points)
<1>1. x \in Drawn /\ Honest(x) /\ x.id = m.id /\ x.points = points
  BY FreshFacts
<1>2. n \in Nat /\ DOMAIN aircraft = 1..n /\ aircraft \in Seq(Drawn)
  BY LenProperties DEF MapInv
<1>3. i \in 1..n /\ isSameAircraft(old.id, m.id)
  BY <1>2, IndexInFacts
<1>4. old.points \in {1, 2} /\ points \in {1, 2} /\ (old.points = 2 => points = 2)
  <2>1. old \in Drawn
    BY <1>2, <1>3
  <2>2. old.points \in {1, 2}
    BY <2>1 DEF Drawn
  <2> HIDE DEF old
  <2> QED
    BY <2>2
<1>5. CASE UNCHANGED mapVars
  BY <1>5 DEF mapVars, MapInv, OnceOnly, Marked, Trailed
<1>6. CASE /\ aircraft' = ReplaceAt(aircraft, i, x)
           /\ aircraftSymbols' = [c \in DOMAIN aircraftSymbols |-> aircraftSymbols[c] + 0]
           /\ aircraftTrails' = [c \in DOMAIN aircraftTrails |-> aircraftTrails[c] +
                 (IF isSameAircraft(c, m.id) /\ points = 2 /\ old.points = 1 THEN 1 ELSE 0)]
  <2> HIDE DEF n, i, points, x
  <2>1. aircraft' = [aircraft EXCEPT ![i] = x]
    BY <1>6 DEF ReplaceAt
  <2>2. aircraft' \in Seq(Drawn) /\ DOMAIN aircraft' = 1..n
    <3>1. aircraft' \in [1..n -> Drawn]
      BY <1>1, <1>2, <1>3, <2>1
    <3> QED
      BY <1>2, <3>1
  <2>3. aircraft'[i] = x /\ \A k \in 1..n : k # i => aircraft'[k] = aircraft[k]
    BY <1>2, <1>3, <2>1
  <2>4. \A k \in 1..n : \A c : isSameAircraft(aircraft'[k].id, c) <=> isSameAircraft(aircraft[k].id, c)
    <3> SUFFICES ASSUME NEW k \in 1..n, NEW c
                 PROVE  isSameAircraft(aircraft'[k].id, c) <=> isSameAircraft(aircraft[k].id, c)
      OBVIOUS
    <3>1. CASE k = i
      BY <1>1, <1>3, <2>3, <3>1, SameIsEquivalence
    <3>2. CASE k # i
      BY <2>3, <3>2
    <3> QED
      BY <3>1, <3>2
  <2>5. OnceOnly(aircraft')
    <3> SUFFICES ASSUME NEW k \in 1..n, NEW l \in 1..n,
                        isSameAircraft(aircraft'[k].id, aircraft'[l].id)
                 PROVE  k = l
      BY <2>2 DEF OnceOnly
    <3>1. isSameAircraft(aircraft[k].id, aircraft'[l].id)
      BY <2>4
    <3>2. isSameAircraft(aircraft'[l].id, aircraft[k].id)
      BY <3>1, SameIsEquivalence
    <3>3. isSameAircraft(aircraft[l].id, aircraft[k].id)
      BY <2>4, <3>2
    <3> QED
      BY <1>2, <3>3 DEF MapInv, OnceOnly
  <2>6. \A k \in DOMAIN aircraft' : Honest(aircraft'[k])
    BY <1>1, <1>2, <2>2, <2>3 DEF MapInv
  <2>7. \A c \in Craft : Marked(aircraft', c) <=> Marked(aircraft, c)
    BY <1>2, <2>2, <2>4 DEF Marked
  <2>8. aircraftSymbols' = [c \in Craft |-> IF Marked(aircraft', c) THEN 1 ELSE 0]
    BY <1>6, <2>7 DEF MapInv
  <2>9. \A c \in Craft : aircraftTrails'[c] = IF Trailed(aircraft', c) THEN 1 ELSE 0
    <3> SUFFICES ASSUME NEW c \in Craft
                 PROVE  aircraftTrails'[c] = IF Trailed(aircraft', c) THEN 1 ELSE 0
      OBVIOUS
    <3>1. aircraftTrails[c] = IF Trailed(aircraft, c) THEN 1 ELSE 0
      BY DEF MapInv
    <3>2. aircraftTrails'[c] = aircraftTrails[c] +
             (IF isSameAircraft(c, m.id) /\ points = 2 /\ old.points = 1 THEN 1 ELSE 0)
      BY <1>6 DEF MapInv
    <3>3. CASE isSameAircraft(c, m.id)
      <4>1. \A k \in 1..n : isSameAircraft(aircraft[k].id, c) => k = i
        BY <1>2, <1>3, <3>3, SameIsEquivalence DEF MapInv, OnceOnly
      <4>2. isSameAircraft(aircraft[i].id, c) /\ isSameAircraft(aircraft'[i].id, c)
        BY <1>3, <2>4, <3>3, SameIsEquivalence
      <4>3. Trailed(aircraft, c) <=> old.points = 2
        BY <1>2, <1>3, <4>1, <4>2 DEF Trailed
      <4>4. Trailed(aircraft', c) <=> points = 2
        BY <1>1, <1>3, <2>2, <2>3, <2>4, <4>1, <4>2 DEF Trailed
      <4> HIDE DEF old
      <4> QED
        BY <1>4, <3>1, <3>2, <3>3, <4>3, <4>4
    <3>4. CASE ~isSameAircraft(c, m.id)
      <4>1. ~isSameAircraft(aircraft[i].id, c) /\ ~isSameAircraft(aircraft'[i].id, c)
        BY <1>1, <1>3, <2>3, <2>4, <3>4, SameIsEquivalence
      <4>2. Trailed(aircraft', c) <=> Trailed(aircraft, c)
        BY <1>2, <2>2, <2>3, <4>1 DEF Trailed
      <4> QED
        BY <3>1, <3>2, <3>4, <4>2
    <3> QED
      BY <3>3, <3>4
  <2>10. aircraftTrails' = [c \in Craft |-> IF Trailed(aircraft', c) THEN 1 ELSE 0]
    <3>1. DOMAIN aircraftTrails = Craft
      BY DEF MapInv
    <3>2. aircraftTrails' = [c \in Craft |-> aircraftTrails'[c]]
      BY <1>6, <3>1
    <3> QED
      BY <2>9, <3>2
  <2> QED
    BY <2>2, <2>5, <2>6, <2>8, <2>10 DEF MapInv, OnceOnly, Marked, Trailed
<1> QED
  BY <1>5, <1>6 DEF onMessage

(* The second's update: what is left was given its age, and what is gone   *)
(* is gone from the layers.                                                *)
LEMMA MapUpdate ==
    ASSUME MapInv, update
    PROVE  /\ MapInv'
           /\ \A k \in DOMAIN aircraft' :
                 /\ aircraft'[k].said + aircraft'[k].elapsed <= aircraft'[k].Age
                 /\ aircraft'[k].Age <= aircraft'[k].said + 2 * aircraft'[k].elapsed
<1> DEFINE n == Len(aircraft)
           aged == [i \in DOMAIN aircraft |-> updateAge(aircraft[i])]
           gone == {i \in DOMAIN aged : isTrafficAged(aged[i].ais, aged[i].Age)}
           left == DOMAIN aged \ gone
           Gone(c) == \E i \in gone : isSameAircraft(aged[i].id, c)
           Trail(c) == \E i \in gone : isSameAircraft(aged[i].id, c) /\ aged[i].points = 2
<1>1. /\ aircraft' \in Remaining(aged, left)
      /\ aircraftSymbols' = [c \in DOMAIN aircraftSymbols |->
                aircraftSymbols[c] - (IF Gone(c) THEN 1 ELSE 0)]
      /\ aircraftTrails' = [c \in DOMAIN aircraftTrails |->
                aircraftTrails[c] - (IF Trail(c) THEN 1 ELSE 0)]
  BY DEF update
<1>2. /\ n \in Nat /\ DOMAIN aircraft = 1..n
      /\ \A i \in 1..n : aircraft[i] \in Drawn /\ Honest(aircraft[i])
  BY LenProperties DEF MapInv
<1>3. DOMAIN aged = 1..n /\ \A i \in 1..n : aged[i] = updateAge(aircraft[i])
  BY <1>2
<1>4. \A i \in 1..n :
         /\ aged[i] \in Drawn /\ Honest(aged[i])
         /\ aged[i].id = aircraft[i].id /\ aged[i].points = aircraft[i].points
         /\ aged[i].said + aged[i].elapsed <= aged[i].Age
         /\ aged[i].Age <= aged[i].said + 2 * aged[i].elapsed
  BY <1>2, <1>3, UpdatedFacts
<1>5. aged = [i \in 1..n |-> aged[i]]
  BY <1>2, <1>3
<1>6. gone \subseteq 1..n /\ left \subseteq 1..n /\ (\A i \in 1..n : i \in gone \/ i \in left)
      /\ \A i \in gone : i \notin left
  BY <1>3
<1> HIDE DEF aged, gone, left
<1>7. aged \in Seq(Drawn)
  <2>1. [i \in 1..n |-> aged[i]] \in Seq(Drawn)
    BY <1>2, <1>4
  <2> QED
    BY <1>5, <2>1
<1>8. aircraft' \in Seq(Drawn) /\ IsPart(aircraft', aged, left)
  BY <1>1, <1>3, <1>6, <1>7, RemainingFacts
<1>9. PICK at \in [DOMAIN aircraft' -> left] :
          /\ \A k \in DOMAIN aircraft' : aircraft'[k] = aged[at[k]]
          /\ \A k, l \in DOMAIN aircraft' : at[k] = at[l] => k = l
  BY <1>8 DEF IsPart
<1>10. \A k \in DOMAIN aircraft' : at[k] \in left /\ at[k] \in 1..n
  BY <1>6, <1>9
<1>11. \A i \in left : \E k \in DOMAIN aircraft' : aircraft'[k] = aged[i]
  BY <1>8 DEF IsPart
<1>12. \A i, j \in 1..n : isSameAircraft(aged[i].id, aged[j].id) => i = j
  BY <1>2, <1>4 DEF MapInv, OnceOnly
<1>13. OnceOnly(aircraft')
  BY <1>9, <1>10, <1>12 DEF OnceOnly
<1>14. \A k \in DOMAIN aircraft' : Honest(aircraft'[k])
  BY <1>4, <1>9, <1>10
<1>15. \A k \in DOMAIN aircraft' :
          /\ aircraft'[k].said + aircraft'[k].elapsed <= aircraft'[k].Age
          /\ aircraft'[k].Age <= aircraft'[k].said + 2 * aircraft'[k].elapsed
  BY <1>4, <1>9, <1>10
<1>16. \A c \in Craft : Marked(aircraft', c) <=> \E i \in left : isSameAircraft(aged[i].id, c)
  BY <1>9, <1>10, <1>11 DEF Marked
<1>17. \A c \in Craft : Trailed(aircraft', c) <=>
           \E i \in left : isSameAircraft(aged[i].id, c) /\ aged[i].points = 2
  BY <1>9, <1>10, <1>11 DEF Trailed
<1>18. \A c, i, j : i \in 1..n /\ j \in 1..n /\ isSameAircraft(aged[i].id, c)
                       /\ isSameAircraft(aged[j].id, c) => i = j
  BY <1>12, SameIsEquivalence
<1>19. \A c \in Craft : /\ Marked(aircraft, c) <=> Gone(c) \/ Marked(aircraft', c)
                        /\ ~(Gone(c) /\ Marked(aircraft', c))
  <2>1. \A c \in Craft : Marked(aircraft, c) <=> \E i \in 1..n : isSameAircraft(aged[i].id, c)
    BY <1>2, <1>4 DEF Marked
  <2> QED
    BY <1>6, <1>16, <1>18, <2>1
<1>20. \A c \in Craft : /\ Trailed(aircraft, c) <=> Trail(c) \/ Trailed(aircraft', c)
                        /\ ~(Trail(c) /\ Trailed(aircraft', c))
  <2>1. \A c \in Craft : Trailed(aircraft, c) <=>
            \E i \in 1..n : isSameAircraft(aged[i].id, c) /\ aged[i].points = 2
    BY <1>2, <1>4 DEF Trailed
  <2> QED
    BY <1>6, <1>17, <1>18, <2>1
<1> HIDE DEF Gone, Trail
<1>21. aircraftSymbols' = [c \in Craft |-> IF Marked(aircraft', c) THEN 1 ELSE 0]
  BY <1>1, <1>19 DEF MapInv
<1>22. aircraftTrails' = [c \in Craft |-> IF Trailed(aircraft', c) THEN 1 ELSE 0]
  BY <1>1, <1>20 DEF MapInv
<1> QED
  BY <1>8, <1>13, <1>14, <1>15, <1>21, <1>22 DEF MapInv, OnceOnly, Marked, Trailed

(* The browser's clock.                                                    *)
LEMMA MapTime ==
    ASSUME MapInv, MapTick(Cap)
    PROVE  MapInv'
<1> DEFINE n == Len(aircraft)
           New(i) == [aircraft[i] EXCEPT !.elapsed = IF @ < Cap THEN @ + 1 ELSE @]
<1>1. n \in Nat /\ DOMAIN aircraft = 1..n
      /\ \A i \in 1..n : aircraft[i] \in Drawn /\ Honest(aircraft[i])
  BY LenProperties DEF MapInv
<1>2. aircraft' = [i \in 1..n |-> New(i)] /\ UNCHANGED <<aircraftSymbols, aircraftTrails>>
  BY <1>1 DEF MapTick
<1>3. \A i \in 1..n : /\ New(i) \in Drawn /\ New(i).id = aircraft[i].id
                      /\ New(i).points = aircraft[i].points
  BY <1>1, CapFacts DEF Drawn
<1>4. \A i \in 1..n : Honest(New(i))
  <2> SUFFICES ASSUME NEW i \in 1..n PROVE Honest(New(i))
    OBVIOUS
  <2>1. /\ New(i).said = aircraft[i].said /\ New(i).Age = aircraft[i].Age
        /\ New(i).ageReceived = aircraft[i].ageReceived
        /\ New(i).elapsed = IF aircraft[i].elapsed < Cap THEN aircraft[i].elapsed + 1
                                                         ELSE aircraft[i].elapsed
    BY <1>1 DEF Drawn
  <2>2. /\ aircraft[i].said \in Nat /\ aircraft[i].elapsed \in Nat
        /\ aircraft[i].Age \in Nat /\ aircraft[i].ageReceived \in Nat
    BY <1>1, CapFacts DEF Drawn
  <2> HIDE DEF New
  <2> QED
    BY <1>1, <2>1, <2>2, CapFacts DEF Honest, Base
<1> HIDE DEF New
<1>5. aircraft' \in Seq(Drawn) /\ DOMAIN aircraft' = 1..n
  BY <1>1, <1>2, <1>3
<1>6. \A i \in 1..n : aircraft'[i].id = aircraft[i].id /\ aircraft'[i].points = aircraft[i].points
                      /\ Honest(aircraft'[i])
  BY <1>2, <1>3, <1>4
<1>7. OnceOnly(aircraft')
  BY <1>1, <1>5, <1>6 DEF MapInv, OnceOnly
<1>8. \A c \in Craft : /\ Marked(aircraft', c) <=> Marked(aircraft, c)
                       /\ Trailed(aircraft', c) <=> Trailed(aircraft, c)
  BY <1>1, <1>5, <1>6 DEF Marked, Trailed
<1>9. /\ aircraftSymbols' = [c \in Craft |-> IF Marked(aircraft', c) THEN 1 ELSE 0]
      /\ aircraftTrails' = [c \in Craft |-> IF Trailed(aircraft', c) THEN 1 ELSE 0]
  BY <1>2, <1>8 DEF MapInv
<1> QED
  BY <1>5, <1>6, <1>7, <1>9 DEF MapInv, OnceOnly, Marked, Trailed

-------------------------------------------------------------------------------
(* The displays.                                                           *)

DisplaysInv == FeedTypeOK /\ ListInv /\ MapInv

LEMMA DisplaysStep == DisplaysInv /\ [Next]_vars => DisplaysInv'
<1> SUFFICES ASSUME DisplaysInv, [Next]_vars PROVE DisplaysInv'
  OBVIOUS
<1>1. UNCHANGED pageVars => ListInv'
  BY DEF DisplaysInv, ListInv, pageVars, OnceOnly, Apart
<1>2. UNCHANGED mapVars => MapInv'
  BY DEF DisplaysInv, MapInv, mapVars, OnceOnly, Marked, Trailed
<1>3. UNCHANGED feedVars => FeedTypeOK'
  BY FeedStep DEF DisplaysInv
<1>4. CASE Server
  BY <1>1, <1>2, <1>4, FeedStep DEF Server, DisplaysInv
<1>5. CASE Deliver
  <2>1. wire \in Seq(Messages) /\ wire # <<>>
    BY <1>5 DEF Deliver, DisplaysInv, FeedTypeOK
  <2>2. Head(wire) \in Messages /\ Tail(wire) \in Seq(Messages)
    BY <2>1, HeadTailProperties
  <2>3. FeedTypeOK'
    BY <1>5, <2>2 DEF Deliver, DisplaysInv, FeedTypeOK
  <2>4. CASE onmessage(Head(wire)) /\ UNCHANGED mapVars
    BY <1>2, <2>2, <2>3, <2>4, ListMessage DEF DisplaysInv
  <2>5. ASSUME NEW moved \in BOOLEAN, onMessage(Head(wire), moved), UNCHANGED pageVars
        PROVE  DisplaysInv'
    BY <1>1, <2>2, <2>3, <2>5, MapNew, MapKnown DEF DisplaysInv
  <2> QED
    BY <1>5, <2>4, <2>5 DEF Deliver
<1>6. CASE Clear
  BY <1>2, <1>3, <1>6, ListClear DEF Clear, DisplaysInv
<1>7. CASE Update
  BY <1>1, <1>3, <1>7, MapUpdate DEF Update, DisplaysInv
<1>8. CASE Tick
  BY <1>1, <1>8, FeedStep, MapTime DEF Tick, DisplaysInv
<1>9. CASE UNCHANGED vars
  BY <1>1, <1>2, <1>3, <1>9 DEF vars, DisplaysInv
<1> QED
  BY <1>4, <1>5, <1>6, <1>7, <1>8, <1>9 DEF Next

(* The messages, the two lists of the page Traffic and the objects, marks  *)
(* and trails of the page Map stay what DisplaysInv says, for any craft,   *)
(* limits and length of the wire (traffic.go, traffic.js, map.js).         *)
THEOREM DisplaysInvariant == Spec => []DisplaysInv
<1>1. Init => DisplaysInv
  BY FeedInitInv, ListInitInv, MapInitInv DEF Init, DisplaysInv
<1>2. DisplaysInv /\ [Next]_vars => DisplaysInv'
  BY DisplaysStep
<1> QED
  BY <1>1, <1>2, PTL DEF Spec

(* No aircraft is listed twice, in one list, across the two, or on the map *)
(* (the searches of socket.onmessage and $scope.onMessage).                *)
THEOREM NoneListedTwice == Spec => []ListedOnce
<1>1. DisplaysInv => ListedOnce
  <2> SUFFICES ASSUME DisplaysInv PROVE ListedOnce
    OBVIOUS
  <2>1. OnceOnly(aircraft)
    BY DEF DisplaysInv, MapInv
  <2>2. OnceOnly(data_list \o data_list_invalid)
    <3> DEFINE a == data_list
               b == data_list_invalid
               all == a \o b
               n == Len(a)
    <3>1. /\ a \in Seq(Lines) /\ b \in Seq(Lines) /\ OnceOnly(a) /\ OnceOnly(b) /\ Apart(a, b)
          /\ DOMAIN a = 1..Len(a) /\ DOMAIN b = 1..Len(b) /\ Len(a) \in Nat /\ Len(b) \in Nat
      BY LenProperties DEF DisplaysInv, ListInv
    <3>2. /\ all \in Seq(Lines) /\ Len(all) = Len(a) + Len(b)
          /\ \A i \in 1..(Len(a) + Len(b)) : all[i] = IF i <= Len(a) THEN a[i] ELSE b[i - Len(a)]
      BY <3>1, ConcatProperties
    <3>3. DOMAIN all = 1..(Len(a) + Len(b))
      BY <3>2, LenProperties
    <3> HIDE DEF a, b, all
    <3> SUFFICES ASSUME NEW i \in 1..(Len(a) + Len(b)), NEW j \in 1..(Len(a) + Len(b)),
                        isSameAircraft(all[i].id, all[j].id)
                 PROVE  i = j
      BY <3>3 DEF OnceOnly, all, a, b
    <3>4. \A k \in 1..(n + Len(b)) : \/ k \in 1..n /\ all[k] = a[k]
                                     \/ k - n \in 1..Len(b) /\ all[k] = b[k - n] /\ k > n
      BY <3>1, <3>2
    <3>5. CASE i <= n /\ j <= n
      BY <3>1, <3>4, <3>5 DEF OnceOnly
    <3>6. CASE i > n /\ j > n
      <4>1. i - n \in DOMAIN b /\ all[i] = b[i - n] /\ j - n \in DOMAIN b /\ all[j] = b[j - n]
        BY <3>1, <3>4, <3>6
      <4>2. i - n = j - n
        BY <3>1, <4>1 DEF OnceOnly
      <4> QED
        BY <3>1, <4>2
    <3>7. CASE i <= n /\ j > n
      <4>1. i \in 1..n /\ all[i] = a[i]
        BY <3>1, <3>4, <3>7
      <4>2. j - n \in 1..Len(b) /\ all[j] = b[j - n]
        BY <3>1, <3>4, <3>7
      <4> QED
        BY <3>1, <4>1, <4>2 DEF Apart
    <3>8. CASE i > n /\ j <= n
      <4>1. isSameAircraft(all[j].id, all[i].id)
        BY SameIsEquivalence
      <4> QED
        BY <3>1, <3>4, <3>8, <4>1 DEF Apart
    <3> QED
      BY <3>1, <3>5, <3>6, <3>7, <3>8
  <2> QED
    BY <2>1, <2>2 DEF ListedOnce, OnceOnly
<1> QED
  BY <1>1, DisplaysInvariant, PTL

(* Each aircraft of the map has one marker, and one trail once it has      *)
(* moved; a marker or a trail without an aircraft does not stay behind     *)
(* ($scope.removeStaleTraffic).                                            *)
THEOREM MapHasNoGhosts == Spec => []NoGhostOnMap
<1>1. DisplaysInv => NoGhostOnMap
  <2> SUFFICES ASSUME DisplaysInv, NEW c \in Craft
               PROVE  /\ aircraftSymbols[c] = (IF OnMap(c) THEN 1 ELSE 0)
                      /\ aircraftTrails[c] =
                            (IF OnMap(c) /\ aircraft[IndexIn(aircraft, c)].points = 2
                             THEN 1 ELSE 0)
    BY DEF NoGhostOnMap
  <2> DEFINE i == IndexIn(aircraft, c)
             n == Len(aircraft)
  <2>1. aircraft \in Seq(Drawn) /\ DOMAIN aircraft = 1..n /\ OnceOnly(aircraft)
    BY LenProperties DEF DisplaysInv, MapInv
  <2>2. /\ i = 0 \/ i \in 1..n
        /\ i = 0 => \A j \in 1..n : ~isSameAircraft(aircraft[j].id, c)
        /\ i # 0 => isSameAircraft(aircraft[i].id, c)
    BY <2>1, IndexInFacts
  <2>3. \A j \in 1..n : isSameAircraft(aircraft[j].id, c) => i # 0 /\ j = i
    BY <2>1, <2>2, SameIsEquivalence DEF OnceOnly
  <2>4. OnMap(c) <=> i # 0
    BY DEF OnMap
  <2> HIDE DEF i
  <2>5. Marked(aircraft, c) <=> OnMap(c)
    BY <2>1, <2>2, <2>3, <2>4 DEF Marked
  <2>6. Trailed(aircraft, c) <=> OnMap(c) /\ aircraft[i].points = 2
    BY <2>1, <2>2, <2>3, <2>4 DEF Trailed
  <2>7. /\ aircraftSymbols[c] = (IF Marked(aircraft, c) THEN 1 ELSE 0)
        /\ aircraftTrails[c] = (IF Trailed(aircraft, c) THEN 1 ELSE 0)
    BY DEF DisplaysInv, MapInv
  <2> QED
    BY <2>5, <2>6, <2>7 DEF i
<1> QED
  BY <1>1, DisplaysInvariant, PTL

(* The Age that an update of the map computes is never below the true one  *)
(* and exceeds it by no more than the time since the message, although     *)
(* updateAges remembers an Age of 0 a second time.                         *)
THEOREM MapAgesHonest == Spec => MapAgeHonest
<1>1. DisplaysInv /\ [Next]_vars =>
         [Update => \A i \in DOMAIN aircraft' :
              LET ac == aircraft'[i] IN
              /\ ac.said + ac.elapsed <= ac.Age
              /\ ac.Age <= ac.said + 2 * ac.elapsed]_vars
  BY MapUpdate DEF Update, DisplaysInv
<1> QED
  BY <1>1, DisplaysInvariant, PTL DEF Spec, MapAgeHonest

===============================================================================
