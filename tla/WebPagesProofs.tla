---------------------------- MODULE WebPagesProofs ----------------------------
(***************************************************************************)
(* The sockets of the web pages, for every set of pages and every number   *)
(* of visits and of lost connections.  The theorems about the behaviours   *)
(* are in WebInterfaceProofs.                                              *)
(***************************************************************************)
EXTENDS WebPages, TLAPS, FiniteSetTheorems, SequenceTheorems

Sockets == [state : {"connecting", "open", "closing", "closed"}, slot : Slots, scope : Visits]
Missing == {Undefined, Null}

PagesTypeOK ==
    /\ visits \in Seq(Pages) /\ Shown \in 0..MaxVisits
    /\ ref \in [Visits -> [Slots -> Int]]
    /\ ConnectState \in [Visits -> {"Disconnected", "Connected"}]
    /\ sockets \in Seq(Sockets)
    /\ timers \in [Visits -> 0..1]

(* A $scope that is not there yet has nothing.                             *)
NotYetVisited ==
    \A v \in Visits : v > Shown => timers[v] = 0 /\ \A s \in Slots : ref[v][s] = Undefined

(* The socket that a $scope holds has its handlers.                        *)
HoldsItsOwn ==
    \A v \in Visits : \A s \in Slots : ref[v][s] > 0 =>
        /\ ref[v][s] \in DOMAIN sockets
        /\ sockets[ref[v][s]].scope = v /\ sockets[ref[v][s]].slot = s

OnItsPage ==
    \A n \in DOMAIN sockets :
        sockets[n].scope <= Shown /\ sockets[n].slot \in Slot[visits[sockets[n].scope]]

(* A $scope has one socket of a kind that is not closed.                   *)
OneSocket ==
    \A n, m \in DOMAIN sockets :
        /\ sockets[n].state # "closed" /\ sockets[m].state # "closed"
        /\ sockets[n].scope = sockets[m].scope /\ sockets[n].slot = sockets[m].slot
        => n = m

(* While a $scope waits to connect again it has no socket.                 *)
Reconnecting == {"home", "gps", "developer"}

WaitsAlone ==
    \A v \in Visits : timers[v] > 0 =>
        /\ v <= Shown /\ visits[v] \in Reconnecting
        /\ \A s \in Slot[visits[v]] : ref[v][s] \in Missing
        /\ \A n \in DOMAIN sockets : sockets[n].scope = v => sockets[n].state = "closed"

(* Only pages that were left close their sockets.                          *)
ClosingIsLeft ==
    \A n \in DOMAIN sockets : sockets[n].state = "closing" => sockets[n].scope < Shown

(* The $scope of the page that is shown knows the state of its socket.     *)
ScopeHonest == Shown > 0 => (ConnectState[Shown] = "Connected" <=> SocketOpen)

PagesInv ==
    /\ PagesTypeOK /\ NotYetVisited /\ HoldsItsOwn /\ OnItsPage /\ OneSocket
    /\ WaitsAlone /\ ClosingIsLeft /\ OneOwner /\ ScopeHonest

-------------------------------------------------------------------------------
(* Every page has one socket whose state it shows, or none; the pages that *)
(* connect again have one only.                                            *)
LEMMA SlotFacts ==
    /\ \A p \in Pages : Slot[p] \subseteq Slots /\ IsFiniteSet(Slot[p])
    /\ \A p \in Pages : \A s, t \in Slot[p] \ {"sit_socket"} : s = t
    /\ Slot["home"] = {"socket"} /\ Slot["gps"] = {"socket"} /\ Slot["developer"] = {"local"}
<1>1. DOMAIN Slot = {"home", "gps", "developer", "traffic", "weather", "map", "radar", "towers"}
  BY DEF Slot
<1>2. /\ Slot["home"] = {"socket"} /\ Slot["gps"] = {"socket"} /\ Slot["developer"] = {"local"}
      /\ Slot["traffic"] = {"socket"} /\ Slot["weather"] = {"socket"} /\ Slot["map"] = {"socket"}
      /\ Slot["radar"] = {"rsocket", "sit_socket"} /\ Slot["towers"] = {}
  BY DEF Slot
<1>3. \A p \in DOMAIN Slot : \A s, t \in Slot[p] \ {"sit_socket"} : s = t
  BY <1>1, <1>2
<1>4. \A p \in DOMAIN Slot : Slot[p] \subseteq Slots
  BY DEF Slots
<1>5. \A p \in DOMAIN Slot : IsFiniteSet(Slot[p])
  <2>1. /\ IsFiniteSet({}) /\ IsFiniteSet({"socket"}) /\ IsFiniteSet({"local"})
        /\ IsFiniteSet({"rsocket"})
    BY FS_EmptySet, FS_Singleton
  <2>2. {"rsocket", "sit_socket"} = {"rsocket"} \cup {"sit_socket"}
    OBVIOUS
  <2>3. IsFiniteSet({"rsocket", "sit_socket"})
    BY <2>1, <2>2, FS_AddElement
  <2> QED
    BY <1>1, <1>2, <2>1, <2>3
<1> QED
  BY <1>2, <1>3, <1>4, <1>5, PagesAssumption

(* SetToSeq lists every element of a finite set once.                      *)
LEMMA SetToSeqLists ==
    ASSUME NEW S, IsFiniteSet(S)
    PROVE  /\ SetToSeq(S) \in [1..Cardinality(S) -> S] /\ Cardinality(S) \in Nat
           /\ \A i, j \in 1..Cardinality(S) : SetToSeq(S)[i] = SetToSeq(S)[j] => i = j
           /\ \A s \in S : \E i \in 1..Cardinality(S) : SetToSeq(S)[i] = s
<1> DEFINE c == Cardinality(S)
           q == SetToSeq(S)
<1>1. c \in Nat
  BY FS_CardinalityType
<1>2. IsFiniteSet(1..c) /\ Cardinality(1..c) = c
  <2>1. Cardinality(1..c) = IF 1 > c THEN 0 ELSE c - 1 + 1
    BY <1>1, FS_Interval
  <2>2. IsFiniteSet(1..c)
    BY <1>1, FS_Interval
  <2> QED
    BY <1>1, <2>1, <2>2
<1>3. \E f \in [1..c -> S] : IsInjective(f)
  <2>1. ExistsBijection(1..c, S)
    BY <1>2, FS_SameCardinalityBij
  <2> QED
    BY <2>1 DEF ExistsBijection, Bijection, Injection
<1>4. q \in [1..c -> S] /\ IsInjective(q)
  BY <1>3 DEF SetToSeq
<1>5. q \in Injection(1..c, S)
  BY <1>4 DEF Injection
<1>6. q \in Surjection(1..c, S)
  BY <1>2, <1>5, FS_Injection
<1>7. \A s \in S : \E i \in 1..c : q[i] = s
  BY <1>6 DEF Surjection
<1>8. \A i, j \in 1..c : q[i] = q[j] => i = j
  BY <1>4 DEF IsInjective
<1> QED
  BY <1>1, <1>4, <1>7, <1>8

(* connect for a $scope that lacks all sockets of its page: it gets them,  *)
(* and no other socket changes hands.                                      *)
LEMMA ConnectsAll ==
    ASSUME NEW v \in Visits, NEW p \in Pages, NEW old \in Seq(Sockets),
           NEW oldRef \in [Visits -> [Slots -> Int]],
           \A s \in Slot[p] : oldRef[v][s] \in Missing, connect(v, p, old, oldRef)
    PROVE  /\ sockets' \in Seq(Sockets) /\ Len(old) \in Nat /\ Len(sockets') \in Nat
           /\ Len(old) <= Len(sockets')
           /\ \A n \in 1..Len(old) : sockets'[n] = old[n]
           /\ \A n \in (Len(old) + 1)..Len(sockets') :
                 /\ sockets'[n].state = "connecting" /\ sockets'[n].scope = v
                 /\ sockets'[n].slot \in Slot[p] /\ ref'[v][sockets'[n].slot] = n
           /\ ref' \in [Visits -> [Slots -> Int]]
           /\ \A w \in Visits \ {v} : ref'[w] = oldRef[w]
           /\ \A s \in Slots \ Slot[p] : ref'[v][s] = oldRef[v][s]
           /\ \A s \in Slot[p] : /\ ref'[v][s] \in (Len(old) + 1)..Len(sockets')
                                 /\ sockets'[ref'[v][s]].slot = s
           /\ ConnectState' = [ConnectState EXCEPT ![v] = "Disconnected"]
<1> DEFINE S == Slot[p]
           c == Cardinality(S)
           lacking == {s \in Slot[p] : oldRef[v][s] \in {Undefined, Null}}
           missing == SetToSeq(lacking)
           new == [i \in DOMAIN missing |->
                      [state |-> "connecting", slot |-> missing[i], scope |-> v]]
           Number(s) == Len(old) + CHOOSE i \in DOMAIN missing : missing[i] = s
           held == [s \in Slots |-> IF s \in ToSet(missing) THEN Number(s) ELSE window[s]]
           mine == {held[s] : s \in S}
           all == old \o new
<1>1. lacking = S
  BY DEF Missing
<1>2. S \subseteq Slots /\ IsFiniteSet(S)
  BY SlotFacts
<1>3. /\ ref' = [oldRef EXCEPT ![v] = [s \in Slots |->
                   IF s \in ToSet(missing) THEN Number(s) ELSE oldRef[v][s]]]
      /\ sockets' = [n \in DOMAIN all |->
                       IF n \in mine THEN [all[n] EXCEPT !.scope = v] ELSE all[n]]
      /\ ConnectState' = [ConnectState EXCEPT ![v] = "Disconnected"]
  BY DEF connect
<1>4. /\ missing \in [1..c -> S] /\ c \in Nat
      /\ \A i, j \in 1..c : missing[i] = missing[j] => i = j
      /\ \A s \in S : \E i \in 1..c : missing[i] = s
  <2>1. missing = SetToSeq(S)
    BY <1>1
  <2> HIDE DEF S, missing
  <2> QED
    BY <1>2, <2>1, SetToSeqLists
<1> HIDE DEF missing, lacking, c, S
<1>5. DOMAIN missing = 1..c /\ ToSet(missing) = S
  BY <1>4 DEF ToSet
<1>6. /\ new \in Seq(Sockets) /\ Len(new) = c
      /\ \A i \in 1..c : new[i] = [state |-> "connecting", slot |-> missing[i], scope |-> v]
  BY <1>2, <1>4, <1>5 DEF Sockets
<1>7. \A s \in S : \E i \in 1..c : Number(s) = Len(old) + i /\ missing[i] = s
  BY <1>4, <1>5
<1>8. \A i \in 1..c : Number(missing[i]) = Len(old) + i
  BY <1>4, <1>5
<1> HIDE DEF new, Number
<1>9. Len(old) \in Nat
  BY LenProperties
<1>10. /\ all \in Seq(Sockets) /\ Len(all) = Len(old) + c
       /\ \A n \in 1..(Len(old) + c) : all[n] = IF n <= Len(old) THEN old[n] ELSE new[n - Len(old)]
  BY <1>6, ConcatProperties
<1>11. DOMAIN all = 1..(Len(old) + c)
  BY <1>10, LenProperties
<1> HIDE DEF all
<1>12. \A n \in mine : \E i \in 1..c : n = Len(old) + i
  <2>1. \A s \in S : held[s] = Number(s)
    BY <1>2, <1>5
  <2> HIDE DEF held
  <2> QED
    BY <1>7, <2>1
<1> HIDE DEF mine
<1>13. \A n \in DOMAIN all : n \in mine => [all[n] EXCEPT !.scope = v] = all[n]
  <2> SUFFICES ASSUME NEW n \in DOMAIN all, n \in mine PROVE [all[n] EXCEPT !.scope = v] = all[n]
    OBVIOUS
  <2>1. PICK i \in 1..c : n = Len(old) + i
    BY <1>12
  <2>2. all[n] = new[i]
    BY <1>4, <1>9, <1>10, <1>11, <2>1
  <2>3. all[n] = [state |-> "connecting", slot |-> missing[i], scope |-> v]
    BY <1>6, <2>2
  <2> QED
    BY <2>3
<1>14. sockets' = [n \in DOMAIN all |-> all[n]]
  BY <1>3, <1>13
<1>15. sockets' = all
  BY <1>10, <1>11, <1>14, LenProperties
<1>16. \A n \in 1..Len(old) : all[n] = old[n]
  BY <1>4, <1>9, <1>10
<1>17. /\ ref' \in [Visits -> [Slots -> Int]]
       /\ \A w \in Visits \ {v} : ref'[w] = oldRef[w]
       /\ ref'[v] = [s \in Slots |-> IF s \in S THEN Number(s) ELSE oldRef[v][s]]
  <2>1. \A s \in S : Number(s) \in Int
    BY <1>4, <1>7, <1>9
  <2>2. [s \in Slots |-> IF s \in S THEN Number(s) ELSE oldRef[v][s]] \in [Slots -> Int]
    BY <2>1
  <2> QED
    BY <1>3, <1>5, <2>2
<1>18. \A s \in S : /\ ref'[v][s] \in (Len(old) + 1)..Len(all) /\ all[ref'[v][s]].slot = s
  <2> SUFFICES ASSUME NEW s \in S
               PROVE  ref'[v][s] \in (Len(old) + 1)..Len(all) /\ all[ref'[v][s]].slot = s
    OBVIOUS
  <2>1. PICK i \in 1..c : Number(s) = Len(old) + i /\ missing[i] = s
    BY <1>7
  <2>2. ref'[v][s] = Len(old) + i
    BY <1>2, <1>17, <2>1
  <2>3. /\ Len(old) + i \in 1..(Len(old) + c) /\ ~(Len(old) + i <= Len(old))
        /\ Len(old) + i - Len(old) = i
    BY <1>4, <1>9
  <2>4. all[Len(old) + i] = new[i]
    BY <1>10, <2>3
  <2>5. new[i].slot = s
    BY <1>6, <2>1
  <2> QED
    BY <1>4, <1>9, <1>10, <2>2, <2>4, <2>5
<1>19. ASSUME NEW n \in (Len(old) + 1)..Len(all)
       PROVE  /\ all[n].state = "connecting" /\ all[n].scope = v
              /\ all[n].slot \in S /\ ref'[v][all[n].slot] = n
  <2>1. n - Len(old) \in 1..c /\ all[n] = new[n - Len(old)]
    <3>1. n \in 1..(Len(old) + c) /\ ~(n <= Len(old)) /\ n - Len(old) \in 1..c
      BY <1>4, <1>9, <1>10
    <3> QED
      BY <1>10, <3>1
  <2>2. all[n] = [state |-> "connecting", slot |-> missing[n - Len(old)], scope |-> v]
    BY <1>6, <2>1
  <2>3. missing[n - Len(old)] \in S
    BY <1>4, <2>1
  <2>4. Number(missing[n - Len(old)]) = n
    BY <1>8, <1>9, <2>1
  <2> QED
    BY <1>2, <1>17, <2>2, <2>3, <2>4
<1>20. Len(all) \in Nat /\ Len(old) <= Len(all)
  BY <1>4, <1>9, <1>10
<1>21. /\ sockets' \in Seq(Sockets) /\ Len(old) \in Nat /\ Len(sockets') \in Nat
       /\ Len(old) <= Len(sockets')
  BY <1>9, <1>10, <1>15, <1>20
<1>22. \A s \in Slots \ S : ref'[v][s] = oldRef[v][s]
  BY <1>17
<1>23. \A n \in 1..Len(old) : sockets'[n] = old[n]
  BY <1>15, <1>16
<1>24. \A n \in (Len(old) + 1)..Len(sockets') :
          /\ sockets'[n].state = "connecting" /\ sockets'[n].scope = v
          /\ sockets'[n].slot \in S /\ ref'[v][sockets'[n].slot] = n
  BY <1>15, <1>19
<1>25. \A s \in S : ref'[v][s] \in (Len(old) + 1)..Len(sockets') /\ sockets'[ref'[v][s]].slot = s
  BY <1>15, <1>18
<1> QED
  BY <1>3, <1>17, <1>21, <1>22, <1>23, <1>24, <1>25 DEF S

-------------------------------------------------------------------------------
LEMMA PagesInitInv == PagesInit => PagesInv
<1> SUFFICES ASSUME PagesInit PROVE PagesInv
  OBVIOUS
<1>1. /\ visits = <<>> /\ sockets = <<>> /\ timers = [v \in Visits |-> 0]
      /\ ref = [v \in Visits |-> [s \in Slots |-> Undefined]]
      /\ ConnectState = [v \in Visits |-> "Disconnected"]
  BY DEF PagesInit
<1>2. DOMAIN sockets = {} /\ Shown = 0 /\ visits \in Seq(Pages) /\ sockets \in Seq(Sockets)
  BY <1>1 DEF Shown
<1>3. PagesTypeOK
  <2>1. ref \in [Visits -> [Slots -> Int]]
    BY <1>1 DEF Undefined
  <2>2. ConnectState \in [Visits -> {"Disconnected", "Connected"}] /\ timers \in [Visits -> 0..1]
    BY <1>1
  <2> QED
    BY <1>2, <2>1, <2>2, PagesAssumption DEF PagesTypeOK
<1>4. NotYetVisited /\ HoldsItsOwn /\ WaitsAlone
  BY <1>1 DEF NotYetVisited, HoldsItsOwn, WaitsAlone, Undefined
<1>5. OnItsPage /\ OneSocket /\ ClosingIsLeft /\ OneOwner
  BY <1>2 DEF OnItsPage, OneSocket, ClosingIsLeft, OneOwner
<1>6. ScopeHonest
  BY <1>2 DEF ScopeHonest, SocketOpen
<1> QED
  BY <1>3, <1>4, <1>5, <1>6 DEF PagesInv

(* An event of one socket.                                                 *)
LEMMA StateChange ==
    ASSUME PagesTypeOK, NEW n \in DOMAIN sockets,
           NEW x \in {"connecting", "open", "closing", "closed"},
           sockets' = [sockets EXCEPT ![n].state = x]
    PROVE  /\ sockets' \in Seq(Sockets) /\ DOMAIN sockets' = DOMAIN sockets
           /\ \A m \in DOMAIN sockets :
                 /\ sockets'[m].scope = sockets[m].scope /\ sockets'[m].slot = sockets[m].slot
                 /\ sockets[m].scope \in Visits /\ sockets[m].slot \in Slots
                 /\ m # n => sockets'[m].state = sockets[m].state
           /\ sockets'[n].state = x
<1> DEFINE y == [sockets[n] EXCEPT !.state = x]
<1>1. /\ sockets \in Seq(Sockets) /\ DOMAIN sockets = 1..Len(sockets)
      /\ \A m \in DOMAIN sockets : sockets[m] \in Sockets
  BY LenProperties DEF PagesTypeOK
<1>2. y \in Sockets /\ y.state = x /\ y.scope = sockets[n].scope /\ y.slot = sockets[n].slot
  BY <1>1 DEF Sockets
<1>3. sockets' = [sockets EXCEPT ![n] = y]
  OBVIOUS
<1> HIDE DEF y
<1>4. sockets' \in Seq(Sockets) /\ DOMAIN sockets' = DOMAIN sockets
  BY <1>1, <1>2, <1>3
<1>5. \A m \in DOMAIN sockets : sockets'[m] = IF m = n THEN y ELSE sockets[m]
  BY <1>3
<1>6. \A m \in DOMAIN sockets : sockets[m].scope \in Visits /\ sockets[m].slot \in Slots
  BY <1>1 DEF Sockets
<1> QED
  BY <1>2, <1>4, <1>5, <1>6

(* The page that is shown looks at its own sockets.                        *)
LEMMA LooksAtItsOwn ==
    ASSUME PagesInv, Shown > 0, NEW s \in Slot[visits[Shown]], ref[Shown][s] > 0
    PROVE  /\ Shown \in Visits /\ s \in Slots /\ ref[Shown][s] \in DOMAIN sockets
           /\ sockets[ref[Shown][s]].scope = Shown /\ sockets[ref[Shown][s]].slot = s
<1>1. Shown \in Visits /\ visits[Shown] \in Pages
  BY PagesAssumption, LenProperties DEF PagesInv, PagesTypeOK, Shown, Visits
<1>2. s \in Slots
  BY <1>1, SlotFacts
<1> QED
  BY <1>1, <1>2 DEF PagesInv, HoldsItsOwn

LEMMA OpenStep ==
    ASSUME PagesInv, NEW n \in DOMAIN sockets, onopen(n)
    PROVE  PagesInv'
<1> DEFINE v == sockets[n].scope
<1>0. PagesTypeOK
  BY DEF PagesInv
<1>1. /\ sockets[n].state = "connecting" /\ sockets' = [sockets EXCEPT ![n].state = "open"]
      /\ UNCHANGED <<visits, ref, timers>> /\ Shown' = Shown
  BY DEF onopen, Shown
<1>2. ConnectState' = IF sockets[n].slot = "sit_socket" THEN ConnectState
                      ELSE [ConnectState EXCEPT ![v] = "Connected"]
  BY DEF onopen
<1>3. /\ sockets' \in Seq(Sockets) /\ DOMAIN sockets' = DOMAIN sockets
      /\ \A m \in DOMAIN sockets :
            /\ sockets'[m].scope = sockets[m].scope /\ sockets'[m].slot = sockets[m].slot
            /\ sockets[m].scope \in Visits /\ sockets[m].slot \in Slots
            /\ m # n => sockets'[m].state = sockets[m].state
      /\ sockets'[n].state = "open"
  BY <1>0, <1>1, StateChange
<1>4. ConnectState' \in [Visits -> {"Disconnected", "Connected"}]
  BY <1>0, <1>2, <1>3 DEF PagesTypeOK
<1>5. PagesTypeOK' /\ NotYetVisited' /\ HoldsItsOwn' /\ OnItsPage'
  <2>1. PagesTypeOK'
    BY <1>0, <1>1, <1>3, <1>4 DEF PagesTypeOK
  <2>2. NotYetVisited'
    BY <1>1 DEF PagesInv, NotYetVisited
  <2>3. HoldsItsOwn' /\ OnItsPage'
    BY <1>1, <1>3 DEF PagesInv, HoldsItsOwn, OnItsPage
  <2> QED
    BY <2>1, <2>2, <2>3
<1>6. OneSocket' /\ WaitsAlone' /\ ClosingIsLeft'
  <2>1. OneSocket'
    BY <1>1, <1>3 DEF PagesInv, OneSocket
  <2>2. WaitsAlone'
    BY <1>1, <1>3 DEF PagesInv, WaitsAlone
  <2>3. ClosingIsLeft'
    BY <1>1, <1>3 DEF PagesInv, ClosingIsLeft
  <2> QED
    BY <2>1, <2>2, <2>3
<1>7. OneOwner'
  BY <1>1, <1>3 DEF PagesInv, OneOwner, Live
<1>8. ScopeHonest'
  <2> SUFFICES ASSUME Shown > 0
               PROVE  ConnectState'[Shown] = "Connected" <=>
                         \E s \in Slot[visits[Shown]] \ {"sit_socket"} :
                            ref[Shown][s] > 0 /\ sockets'[ref[Shown][s]].state = "open"
    BY <1>1 DEF ScopeHonest, SocketOpen
  <2>1. ConnectState[Shown] = "Connected" <=>
            \E s \in Slot[visits[Shown]] \ {"sit_socket"} :
                ref[Shown][s] > 0 /\ sockets[ref[Shown][s]].state = "open"
    BY DEF PagesInv, ScopeHonest, SocketOpen
  <2>2. CASE v = Shown /\ sockets[n].slot # "sit_socket"
    <3>1. sockets[n].slot \in Slot[visits[Shown]] /\ ref[Shown][sockets[n].slot] = n
      BY <1>1, <2>2 DEF PagesInv, OnItsPage, OneOwner, Live
    <3>2. n > 0
      BY <1>0, LenProperties DEF PagesTypeOK
    <3>3. ConnectState'[Shown] = "Connected"
      BY <1>0, <1>2, <1>3, <2>2 DEF PagesTypeOK
    <3> QED
      BY <1>3, <2>2, <3>1, <3>2, <3>3
  <2>3. CASE ~(v = Shown /\ sockets[n].slot # "sit_socket")
    <3>1. ConnectState'[Shown] = ConnectState[Shown]
      BY <1>0, <1>2, <1>3, <2>3 DEF PagesTypeOK
    <3>2. \A s \in Slot[visits[Shown]] \ {"sit_socket"} : ref[Shown][s] > 0 =>
              ref[Shown][s] # n /\ ref[Shown][s] \in DOMAIN sockets
      BY <2>3, LooksAtItsOwn
    <3> QED
      BY <1>3, <2>1, <3>1, <3>2
  <2> QED
    BY <2>2, <2>3
<1> QED
  BY <1>5, <1>6, <1>7, <1>8 DEF PagesInv

(* A socket is closed: its page, if it connects again, is left with none.  *)
LEMMA CloseStep ==
    ASSUME PagesInv, NEW n \in DOMAIN sockets, sockets[n].state # "closed", onclose(n)
    PROVE  PagesInv'
<1> DEFINE v == sockets[n].scope
           p == visits[v]
<1>0. PagesTypeOK
  BY DEF PagesInv
<1>1. sockets' = [sockets EXCEPT ![n].state = "closed"] /\ visits' = visits /\ Shown' = Shown
  BY DEF onclose, Shown
<1>2. /\ sockets' \in Seq(Sockets) /\ DOMAIN sockets' = DOMAIN sockets
      /\ \A m \in DOMAIN sockets :
            /\ sockets'[m].scope = sockets[m].scope /\ sockets'[m].slot = sockets[m].slot
            /\ sockets[m].scope \in Visits /\ sockets[m].slot \in Slots
            /\ m # n => sockets'[m].state = sockets[m].state
      /\ sockets'[n].state = "closed"
  BY <1>0, <1>1, StateChange
<1>3. v \in Visits /\ v <= Shown /\ sockets[n].slot \in Slot[p]
  BY <1>2 DEF PagesInv, OnItsPage
<1>4. \A m \in DOMAIN sockets : sockets'[m].state # "closed" => m # n /\ sockets[m].state # "closed"
  BY <1>2
<1>5. OnItsPage' /\ OneSocket' /\ ClosingIsLeft'
  <2>1. OnItsPage'
    BY <1>1, <1>2 DEF PagesInv, OnItsPage
  <2>2. OneSocket'
    BY <1>2, <1>4 DEF PagesInv, OneSocket
  <2>3. ClosingIsLeft'
    BY <1>1, <1>2 DEF PagesInv, ClosingIsLeft
  <2> QED
    BY <2>1, <2>2, <2>3
<1>6. ConnectState' = IF sockets[n].slot = "sit_socket" THEN ConnectState
                      ELSE [ConnectState EXCEPT ![v] = "Disconnected"]
  BY DEF onclose
<1>7. ConnectState' \in [Visits -> {"Disconnected", "Connected"}]
  BY <1>0, <1>3, <1>6 DEF PagesTypeOK
<1>8. CASE UNCHANGED <<ref, timers>>
  <2>1. PagesTypeOK' /\ NotYetVisited' /\ HoldsItsOwn'
    <3>1. PagesTypeOK'
      BY <1>0, <1>1, <1>2, <1>7, <1>8 DEF PagesTypeOK
    <3>2. NotYetVisited'
      BY <1>1, <1>8 DEF PagesInv, NotYetVisited
    <3>3. HoldsItsOwn'
      BY <1>2, <1>8 DEF PagesInv, HoldsItsOwn
    <3> QED
      BY <3>1, <3>2, <3>3
  <2>2. WaitsAlone' /\ OneOwner'
    <3>1. WaitsAlone'
      BY <1>1, <1>2, <1>8 DEF PagesInv, WaitsAlone
    <3>2. OneOwner'
      BY <1>2, <1>4, <1>8 DEF PagesInv, OneOwner, Live
    <3> QED
      BY <3>1, <3>2
  <2>3. ScopeHonest'
    <3> SUFFICES ASSUME Shown > 0
                 PROVE  ConnectState'[Shown] = "Connected" <=>
                           \E s \in Slot[visits[Shown]] \ {"sit_socket"} :
                              ref[Shown][s] > 0 /\ sockets'[ref[Shown][s]].state = "open"
      BY <1>1, <1>8 DEF ScopeHonest, SocketOpen
    <3>1. ConnectState[Shown] = "Connected" <=>
              \E s \in Slot[visits[Shown]] \ {"sit_socket"} :
                  ref[Shown][s] > 0 /\ sockets[ref[Shown][s]].state = "open"
      BY DEF PagesInv, ScopeHonest, SocketOpen
    <3>2. CASE v = Shown /\ sockets[n].slot # "sit_socket"
      <4>1. ConnectState'[Shown] = "Disconnected"
        BY <1>0, <1>3, <1>6, <3>2 DEF PagesTypeOK
      <4>2. sockets[n].state # "closing"
        BY <1>0, <3>2 DEF PagesInv, PagesTypeOK, ClosingIsLeft, Visits
      <4>3. Live(n)
        <5>1. sockets[n] \in Sockets
          BY <1>0, LenProperties DEF PagesTypeOK
        <5> QED
          BY <4>2, <5>1 DEF Live, Sockets
      <4>4. ref[Shown][sockets[n].slot] = n
        BY <3>2, <4>3 DEF PagesInv, OneOwner
      <4>5. \A s \in Slot[visits[Shown]] \ {"sit_socket"} : s = sockets[n].slot
        <5>1. p \in Pages
          BY <1>0, <1>3, LenProperties DEF PagesTypeOK, Shown, Visits
        <5> QED
          BY <1>3, <3>2, <5>1, SlotFacts
      <4> QED
        BY <1>2, <4>1, <4>4, <4>5
    <3>3. CASE ~(v = Shown /\ sockets[n].slot # "sit_socket")
      <4>1. ConnectState'[Shown] = ConnectState[Shown]
        BY <1>0, <1>3, <1>6, <3>3 DEF PagesTypeOK
      <4>2. \A s \in Slot[visits[Shown]] \ {"sit_socket"} : ref[Shown][s] > 0 =>
                ref[Shown][s] # n /\ ref[Shown][s] \in DOMAIN sockets
        BY <3>3, LooksAtItsOwn
      <4> QED
        BY <1>2, <3>1, <4>1, <4>2
    <3> QED
      BY <3>2, <3>3
  <2> QED
    BY <1>5, <2>1, <2>2, <2>3 DEF PagesInv
<1>9. ASSUME NEW s, Slot[p] = {s}, s # "sit_socket", p \in Reconnecting, TimeoutWithScope(v, s)
      PROVE  PagesInv'
  <2>0. s \in Slots /\ sockets[n].slot = s
    BY <1>2, <1>3, <1>9
  <2>1. timers[v] = 0
    <3>1. ~(timers[v] > 0)
      BY <1>3 DEF PagesInv, WaitsAlone
    <3>2. timers[v] \in 0..1
      BY <1>0, <1>3 DEF PagesTypeOK
    <3> QED
      BY <3>1, <3>2
  <2>2. timers' = [timers EXCEPT ![v] = 1] /\ ref' = [ref EXCEPT ![v][s] = Undefined]
    BY <1>0, <1>3, <1>9, <2>1 DEF TimeoutWithScope, PagesTypeOK
  <2>3. /\ ref' \in [Visits -> [Slots -> Int]] /\ timers' \in [Visits -> 0..1]
        /\ \A w \in Visits : \A t \in Slots :
              ref'[w][t] = IF w = v /\ t = s THEN Undefined ELSE ref[w][t]
    <3>1. timers' \in [Visits -> 0..1]
      BY <1>0, <1>3, <2>2 DEF PagesTypeOK
    <3> DEFINE r == [ref[v] EXCEPT ![s] = Undefined]
    <3>2. ref[v] \in [Slots -> Int]
      BY <1>0, <1>3 DEF PagesTypeOK
    <3>3. r \in [Slots -> Int] /\ \A t \in Slots : r[t] = IF t = s THEN Undefined ELSE ref[v][t]
      BY <2>0, <3>2 DEF Undefined
    <3>4. ref' = [ref EXCEPT ![v] = r]
      BY <2>2
    <3> HIDE DEF r
    <3> QED
      BY <1>0, <1>3, <3>1, <3>3, <3>4 DEF PagesTypeOK
  <2>4. \A w \in Visits : timers'[w] = IF w = v THEN 1 ELSE timers[w]
    BY <1>0, <2>2 DEF PagesTypeOK
  <2>5. PagesTypeOK'
    BY <1>0, <1>1, <1>2, <1>7, <2>3 DEF PagesTypeOK
  <2>6. NotYetVisited'
    BY <1>0, <1>1, <1>3, <2>3, <2>4 DEF PagesInv, PagesTypeOK, NotYetVisited, Visits
  <2>7. HoldsItsOwn'
    <3> SUFFICES ASSUME NEW w \in Visits, NEW t \in Slots, ref'[w][t] > 0
                 PROVE  /\ ref'[w][t] \in DOMAIN sockets
                        /\ sockets'[ref'[w][t]].scope = w /\ sockets'[ref'[w][t]].slot = t
      BY <1>2 DEF HoldsItsOwn
    <3>1. ref'[w][t] = ref[w][t]
      BY <2>3 DEF Undefined
    <3>2. /\ ref[w][t] \in DOMAIN sockets
          /\ sockets[ref[w][t]].scope = w /\ sockets[ref[w][t]].slot = t
      BY <3>1 DEF PagesInv, HoldsItsOwn
    <3> QED
      BY <1>2, <3>1, <3>2
  <2>8. \A m \in DOMAIN sockets : sockets[m].scope = v /\ sockets[m].state # "closed" => m = n
    <3>1. \A m \in DOMAIN sockets : sockets[m].scope = v => sockets[m].slot = s
      BY <1>9 DEF PagesInv, OnItsPage
    <3> QED
      BY <2>0, <3>1 DEF PagesInv, OneSocket
  <2>9. WaitsAlone'
    <3> SUFFICES ASSUME NEW w \in Visits, timers'[w] > 0
                 PROVE  /\ w <= Shown /\ visits[w] \in Reconnecting
                        /\ \A t \in Slot[visits[w]] : ref'[w][t] \in Missing
                        /\ \A m \in DOMAIN sockets : sockets'[m].scope = w => sockets'[m].state = "closed"
      BY <1>1, <1>2 DEF WaitsAlone
    <3>1. CASE w = v
      <4>1. \A t \in Slot[visits[w]] : ref'[w][t] \in Missing
        BY <1>3, <1>9, <2>0, <2>3, <3>1 DEF Missing
      <4> QED
        BY <1>2, <1>3, <1>9, <2>8, <3>1, <4>1
    <3>2. CASE w # v
      <4>1. timers[w] > 0
        BY <2>4, <3>2
      <4>2. /\ w <= Shown /\ visits[w] \in Reconnecting
            /\ \A t \in Slot[visits[w]] : ref[w][t] \in Missing
            /\ \A m \in DOMAIN sockets : sockets[m].scope = w => sockets[m].state = "closed"
        BY <4>1 DEF PagesInv, WaitsAlone
      <4>3. Slot[visits[w]] \subseteq Slots
        BY <4>2, SlotFacts DEF Reconnecting, Slots, Slot
      <4> QED
        BY <1>2, <1>4, <2>3, <3>2, <4>2, <4>3
    <3> QED
      BY <3>1, <3>2
  <2>10. OneOwner'
    <3> SUFFICES ASSUME NEW m \in DOMAIN sockets, Live(m)'
                 PROVE  ref'[sockets'[m].scope][sockets'[m].slot] = m
      BY <1>2 DEF OneOwner
    <3>1. m # n /\ Live(m)
      BY <1>2 DEF Live
    <3>2. sockets[m].scope # v
      BY <2>8, <3>1 DEF Live
    <3>3. ref[sockets[m].scope][sockets[m].slot] = m
      BY <3>1 DEF PagesInv, OneOwner
    <3> QED
      BY <1>2, <2>3, <3>2, <3>3
  <2>11. ScopeHonest'
    <3> SUFFICES ASSUME Shown > 0
                 PROVE  ConnectState'[Shown] = "Connected" <=>
                           \E t \in Slot[visits[Shown]] \ {"sit_socket"} :
                              ref'[Shown][t] > 0 /\ sockets'[ref'[Shown][t]].state = "open"
      BY <1>1 DEF ScopeHonest, SocketOpen
    <3>0. Shown \in Visits
      BY <1>0 DEF PagesTypeOK, Visits
    <3>1. CASE v = Shown
      <4>1. ConnectState'[Shown] = "Disconnected"
        BY <1>0, <1>3, <1>6, <1>9, <2>0, <3>1 DEF PagesTypeOK
      <4>2. \A t \in Slot[visits[Shown]] : ref'[Shown][t] = Undefined
        BY <1>9, <2>0, <2>3, <3>0, <3>1
      <4> QED
        BY <4>1, <4>2 DEF Undefined
    <3>2. CASE v # Shown
      <4>1. ConnectState'[Shown] = ConnectState[Shown]
        BY <1>0, <1>3, <1>6, <3>0, <3>2 DEF PagesTypeOK
      <4>2. ConnectState[Shown] = "Connected" <=>
                \E t \in Slot[visits[Shown]] \ {"sit_socket"} :
                    ref[Shown][t] > 0 /\ sockets[ref[Shown][t]].state = "open"
        BY DEF PagesInv, ScopeHonest, SocketOpen
      <4>3. Slot[visits[Shown]] \subseteq Slots
        BY <1>0, <3>0, SlotFacts, LenProperties DEF PagesTypeOK, Shown, Visits
      <4>4. \A t \in Slot[visits[Shown]] : ref'[Shown][t] = ref[Shown][t]
        BY <2>3, <3>0, <3>2, <4>3
      <4>5. \A t \in Slot[visits[Shown]] : ref[Shown][t] > 0 =>
                ref[Shown][t] # n /\ ref[Shown][t] \in DOMAIN sockets
        BY <3>2, LooksAtItsOwn
      <4> QED
        BY <1>2, <4>1, <4>2, <4>4, <4>5
    <3> QED
      BY <3>1, <3>2
  <2> QED
    BY <1>5, <2>5, <2>6, <2>7, <2>9, <2>10, <2>11 DEF PagesInv
<1>10. \/ UNCHANGED <<ref, timers>>
       \/ p \in {"home", "gps"} /\ TimeoutWithScope(v, "socket")
       \/ p = "developer" /\ TimeoutWithScope(v, "local")
  BY DEF onclose, HomeOnClose, GpsOnClose, DeveloperOnClose, TrafficOnClose, WeatherOnClose,
         MapOnClose, RadarOnClose, TimeoutWithoutScope
<1> HIDE DEF p, v
<1>11. CASE p \in {"home", "gps"} /\ TimeoutWithScope(v, "socket")
  BY <1>9, <1>11, SlotFacts DEF Reconnecting
<1>12. CASE p = "developer" /\ TimeoutWithScope(v, "local")
  BY <1>9, <1>12, SlotFacts DEF Reconnecting
<1> QED
  BY <1>8, <1>10, <1>11, <1>12

(* A timer of a page that waits to connect again.                          *)
LEMMA TimeoutStep ==
    ASSUME PagesInv, NEW v \in Visits, Timeout(v)
    PROVE  PagesInv'
<1> DEFINE p == visits[v]
           k == Len(sockets)
<1>0. PagesTypeOK
  BY DEF PagesInv
<1>1. /\ timers[v] > 0 /\ timers' = [timers EXCEPT ![v] = timers[v] - 1]
      /\ connect(v, p, sockets, ref) /\ visits' = visits /\ Shown' = Shown
  BY DEF Timeout, Shown
<1>2. /\ v <= Shown /\ p \in Reconnecting /\ \A s \in Slot[p] : ref[v][s] \in Missing
      /\ \A n \in DOMAIN sockets : sockets[n].scope = v => sockets[n].state = "closed"
  BY <1>1 DEF PagesInv, WaitsAlone
<1>3. /\ p \in Pages /\ sockets \in Seq(Sockets) /\ ref \in [Visits -> [Slots -> Int]]
      /\ DOMAIN sockets = 1..k
  BY <1>0, <1>2, LenProperties DEF PagesTypeOK, Shown, Visits
<1>4. /\ sockets' \in Seq(Sockets) /\ k \in Nat /\ Len(sockets') \in Nat /\ k <= Len(sockets')
      /\ \A n \in 1..k : sockets'[n] = sockets[n]
      /\ \A n \in (k + 1)..Len(sockets') :
            /\ sockets'[n].state = "connecting" /\ sockets'[n].scope = v
            /\ sockets'[n].slot \in Slot[p] /\ ref'[v][sockets'[n].slot] = n
      /\ ref' \in [Visits -> [Slots -> Int]]
      /\ \A w \in Visits \ {v} : ref'[w] = ref[w]
      /\ \A s \in Slots \ Slot[p] : ref'[v][s] = ref[v][s]
      /\ \A s \in Slot[p] : ref'[v][s] \in (k + 1)..Len(sockets') /\ sockets'[ref'[v][s]].slot = s
      /\ ConnectState' = [ConnectState EXCEPT ![v] = "Disconnected"]
  BY <1>1, <1>2, <1>3, ConnectsAll
<1>5. /\ DOMAIN sockets' = 1..Len(sockets')
      /\ \A n \in DOMAIN sockets' : n \in DOMAIN sockets \/ n \in (k + 1)..Len(sockets')
      /\ \A n \in DOMAIN sockets : n \in DOMAIN sockets' /\ sockets'[n] = sockets[n]
      /\ \A n \in (k + 1)..Len(sockets') : n \in DOMAIN sockets'
  <2>1. DOMAIN sockets' = 1..Len(sockets')
    BY <1>4, LenProperties
  <2> QED
    BY <1>3, <1>4, <2>1
<1> DEFINE Fresh == (k + 1)..Len(sockets')
<1> HIDE DEF k, p
<1>6. \A w \in Visits : timers'[w] = IF w = v THEN timers[v] - 1 ELSE timers[w]
  BY <1>0, <1>1 DEF PagesTypeOK
<1>7. timers[v] = 1 /\ timers'[v] = 0
  BY <1>0, <1>1, <1>6 DEF PagesTypeOK
<1>8. PagesTypeOK'
  <2>1. timers' \in [Visits -> 0..1]
    BY <1>0, <1>1, <1>7 DEF PagesTypeOK
  <2>2. ConnectState' \in [Visits -> {"Disconnected", "Connected"}]
    BY <1>0, <1>4 DEF PagesTypeOK
  <2> QED
    BY <1>0, <1>1, <1>4, <2>1, <2>2 DEF PagesTypeOK
<1>9. NotYetVisited'
  <2> SUFFICES ASSUME NEW w \in Visits, w > Shown
               PROVE  timers'[w] = 0 /\ \A s \in Slots : ref'[w][s] = Undefined
    BY <1>1 DEF NotYetVisited
  <2>1. w # v
    BY <1>0, <1>2 DEF PagesTypeOK, Visits
  <2> QED
    <3>1. timers[w] = 0 /\ \A s \in Slots : ref[w][s] = Undefined
      BY DEF PagesInv, NotYetVisited
    <3>2. timers'[w] = timers[w] /\ ref'[w] = ref[w]
      BY <1>4, <1>6, <2>1
    <3> QED
      BY <3>1, <3>2
<1>10. HoldsItsOwn'
  <2> SUFFICES ASSUME NEW w \in Visits, NEW s \in Slots, ref'[w][s] > 0
               PROVE  /\ ref'[w][s] \in DOMAIN sockets'
                      /\ sockets'[ref'[w][s]].scope = w /\ sockets'[ref'[w][s]].slot = s
    BY DEF HoldsItsOwn
  <2>1. CASE w = v /\ s \in Slot[p]
    BY <1>4, <1>5, <2>1
  <2>2. CASE ~(w = v /\ s \in Slot[p])
    <3>1. ref'[w][s] = ref[w][s]
      BY <1>4, <2>2
    <3>2. /\ ref[w][s] \in DOMAIN sockets
          /\ sockets[ref[w][s]].scope = w /\ sockets[ref[w][s]].slot = s
      BY <3>1 DEF PagesInv, HoldsItsOwn
    <3> QED
      BY <1>5, <3>1, <3>2
  <2> QED
    BY <2>1, <2>2
<1>11. OnItsPage'
  <2> SUFFICES ASSUME NEW n \in DOMAIN sockets'
               PROVE  /\ sockets'[n].scope <= Shown
                      /\ sockets'[n].slot \in Slot[visits[sockets'[n].scope]]
    BY <1>1 DEF OnItsPage
  <2>1. CASE n \in DOMAIN sockets
    BY <1>5, <2>1 DEF PagesInv, OnItsPage
  <2>2. CASE n \in Fresh
    BY <1>2, <1>4, <2>2 DEF p
  <2> QED
    BY <1>5, <2>1, <2>2
<1>12. ASSUME NEW n \in DOMAIN sockets', sockets'[n].state # "closed", sockets'[n].scope = v
       PROVE  n \in Fresh
  BY <1>2, <1>5, <1>12
<1>13. ASSUME NEW n \in DOMAIN sockets', sockets'[n].scope # v
       PROVE  n \in DOMAIN sockets /\ sockets'[n] = sockets[n]
  BY <1>4, <1>5, <1>13
<1>14. OneSocket'
  <2> SUFFICES ASSUME NEW n \in DOMAIN sockets', NEW m \in DOMAIN sockets',
                      sockets'[n].state # "closed", sockets'[m].state # "closed",
                      sockets'[n].scope = sockets'[m].scope, sockets'[n].slot = sockets'[m].slot
               PROVE  n = m
    BY DEF OneSocket
  <2>1. CASE sockets'[n].scope = v
    <3>1. n \in Fresh /\ m \in Fresh
      BY <1>12, <2>1
    <3> QED
      BY <1>4, <3>1
  <2>2. CASE sockets'[n].scope # v
    <3>1. n \in DOMAIN sockets /\ m \in DOMAIN sockets /\ sockets'[n] = sockets[n] /\ sockets'[m] = sockets[m]
      BY <1>13, <2>2
    <3> QED
      BY <3>1 DEF PagesInv, OneSocket
  <2> QED
    BY <2>1, <2>2
<1>15. WaitsAlone'
  <2> SUFFICES ASSUME NEW w \in Visits, timers'[w] > 0
               PROVE  /\ w <= Shown /\ visits[w] \in Reconnecting
                      /\ \A s \in Slot[visits[w]] : ref'[w][s] \in Missing
                      /\ \A n \in DOMAIN sockets' : sockets'[n].scope = w => sockets'[n].state = "closed"
    BY <1>1 DEF WaitsAlone
  <2>1. w # v /\ timers[w] > 0
    BY <1>6, <1>7
  <2>2. /\ w <= Shown /\ visits[w] \in Reconnecting
        /\ \A s \in Slot[visits[w]] : ref[w][s] \in Missing
        /\ \A n \in DOMAIN sockets : sockets[n].scope = w => sockets[n].state = "closed"
    BY <2>1 DEF PagesInv, WaitsAlone
  <2>3. ref'[w] = ref[w]
    BY <1>4, <2>1
  <2>4. \A n \in DOMAIN sockets' : sockets'[n].scope = w =>
            n \in DOMAIN sockets /\ sockets'[n] = sockets[n]
    BY <1>13, <2>1
  <2> QED
    BY <2>2, <2>3, <2>4
<1>16. ClosingIsLeft'
  <2> SUFFICES ASSUME NEW n \in DOMAIN sockets', sockets'[n].state = "closing"
               PROVE  sockets'[n].scope < Shown
    BY <1>1 DEF ClosingIsLeft
  <2>1. n \in DOMAIN sockets
    BY <1>4, <1>5
  <2> QED
    BY <1>5, <2>1 DEF PagesInv, ClosingIsLeft
<1>17. OneOwner'
  <2> SUFFICES ASSUME NEW n \in DOMAIN sockets', sockets'[n].state \in {"connecting", "open"}
               PROVE  ref'[sockets'[n].scope][sockets'[n].slot] = n
    BY DEF OneOwner, Live
  <2>1. CASE sockets'[n].scope = v
    BY <1>4, <1>12, <2>1
  <2>2. CASE sockets'[n].scope # v
    <3>1. n \in DOMAIN sockets /\ sockets'[n] = sockets[n]
      BY <1>13, <2>2
    <3>2. ref[sockets[n].scope][sockets[n].slot] = n
      BY <3>1 DEF PagesInv, OneOwner, Live
    <3>3. sockets[n].scope \in Visits
      <4>1. sockets[n] \in Sockets
        BY <1>3, <3>1, LenProperties
      <4> QED
        BY <4>1 DEF Sockets
    <3>4. ref'[sockets[n].scope] = ref[sockets[n].scope]
      BY <1>4, <2>2, <3>1, <3>3
    <3> QED
      BY <3>1, <3>2, <3>4
  <2> QED
    BY <2>1, <2>2
<1>18. ScopeHonest'
  <2> SUFFICES ASSUME Shown > 0
               PROVE  ConnectState'[Shown] = "Connected" <=>
                         \E s \in Slot[visits[Shown]] \ {"sit_socket"} :
                            ref'[Shown][s] > 0 /\ sockets'[ref'[Shown][s]].state = "open"
    BY <1>1 DEF ScopeHonest, SocketOpen
  <2>0. Shown \in Visits
    BY <1>0 DEF PagesTypeOK, Visits
  <2>1. CASE v = Shown
    <3>1. ConnectState'[Shown] = "Disconnected"
      BY <1>0, <1>4, <2>1 DEF PagesTypeOK
    <3>2. \A s \in Slot[visits[Shown]] : sockets'[ref'[Shown][s]].state = "connecting"
      BY <1>4, <2>1 DEF p
    <3> QED
      BY <3>1, <3>2
  <2>2. CASE v # Shown
    <3>1. ConnectState'[Shown] = ConnectState[Shown] /\ ref'[Shown] = ref[Shown]
      BY <1>0, <1>4, <2>0, <2>2 DEF PagesTypeOK
    <3>2. ConnectState[Shown] = "Connected" <=>
              \E s \in Slot[visits[Shown]] \ {"sit_socket"} :
                  ref[Shown][s] > 0 /\ sockets[ref[Shown][s]].state = "open"
      BY DEF PagesInv, ScopeHonest, SocketOpen
    <3>3. \A s \in Slot[visits[Shown]] : ref[Shown][s] > 0 => ref[Shown][s] \in DOMAIN sockets
      BY LooksAtItsOwn
    <3> QED
      BY <1>5, <3>1, <3>2, <3>3
  <2> QED
    BY <2>1, <2>2
<1> QED
  BY <1>8, <1>9, <1>10, <1>11, <1>14, <1>15, <1>16, <1>17, <1>18 DEF PagesInv

(* onExit of the page that is left: its sockets are closing, and it holds  *)
(* none of them any more.                                                  *)
LEMMA ExitFacts ==
    ASSUME PagesInv, NEW p \in Pages, Go(p)
    PROVE  \E old \in Seq(Sockets), oldRef \in [Visits -> [Slots -> Int]] :
              /\ connect(Shown + 1, p, old, oldRef) /\ Shown + 1 \in Visits
              /\ DOMAIN old = DOMAIN sockets /\ Len(old) = Len(sockets)
              /\ \A n \in DOMAIN sockets :
                    /\ old[n].scope = sockets[n].scope /\ old[n].slot = sockets[n].slot
                    /\ old[n].state # sockets[n].state =>
                          old[n].state = "closing" /\ sockets[n].scope = Shown
                    /\ sockets[n].state = "closed" => old[n].state = "closed"
                    /\ old[n].state \in {"connecting", "open"} =>
                          oldRef[sockets[n].scope][sockets[n].slot] = n
                    /\ sockets[n].scope = Shown /\ sockets[n].slot # "local" =>
                          old[n].state \notin {"connecting", "open"}
              /\ \A w \in Visits : \A s \in Slots : oldRef[w][s] \in {ref[w][s], Null}
              /\ \A w \in Visits : w > Shown => oldRef[w] = ref[w]
<1> DEFINE k == Len(sockets)
           left == IF Shown = 0 THEN {} ELSE
                   {s \in onExit(visits[Shown]) : ref[Shown][s] \notin {Undefined, Null}}
           gone(n) == Live(n) /\ \E s \in left : n = ref[Shown][s]
           old == [n \in DOMAIN sockets |->
                     IF gone(n) THEN [sockets[n] EXCEPT !.state = "closing"] ELSE sockets[n]]
           oldRef == [w \in Visits |-> [s \in Slots |->
                        IF w = Shown /\ s \in left THEN Null ELSE ref[w][s]]]
<1>0. PagesTypeOK
  BY DEF PagesInv
<1>1. connect(Shown + 1, p, old, oldRef) /\ Shown < MaxVisits
  BY DEF Go
<1>2. Shown + 1 \in Visits /\ Shown \in Nat
  BY <1>0, <1>1, PagesAssumption DEF PagesTypeOK, Visits
<1>3. /\ sockets \in Seq(Sockets) /\ DOMAIN sockets = 1..k /\ k \in Nat
      /\ \A n \in DOMAIN sockets : sockets[n] \in Sockets /\ n > 0
  BY <1>0, LenProperties DEF PagesTypeOK
<1>4. \A s \in left : s \in Slots /\ Shown \in Visits
  <2> SUFFICES ASSUME NEW s \in left PROVE s \in Slots /\ Shown \in Visits
    OBVIOUS
  <2>1. Shown # 0 /\ s \in Slot[visits[Shown]]
    BY DEF onExit
  <2>2. visits[Shown] \in Pages /\ Shown \in Visits
    BY <1>0, <2>1, LenProperties DEF PagesTypeOK, Shown, Visits
  <2> QED
    BY <2>1, <2>2, SlotFacts
<1> HIDE DEF left
<1>5. \A n \in DOMAIN sockets : gone(n) =>
          sockets[n].scope = Shown /\ sockets[n].slot \in left /\ sockets[n].state # "closed"
  BY <1>3, <1>4 DEF PagesInv, HoldsItsOwn, Live
<1>6. \A n \in DOMAIN sockets : /\ [sockets[n] EXCEPT !.state = "closing"] \in Sockets
                                /\ [sockets[n] EXCEPT !.state = "closing"].state = "closing"
                                /\ [sockets[n] EXCEPT !.state = "closing"].scope = sockets[n].scope
                                /\ [sockets[n] EXCEPT !.state = "closing"].slot = sockets[n].slot
  BY <1>3 DEF Sockets
<1>7. oldRef \in [Visits -> [Slots -> Int]]
  BY <1>0 DEF PagesTypeOK, Null
<1>8. \A w \in Visits : \A s \in Slots :
          oldRef[w][s] = IF w = Shown /\ s \in left THEN Null ELSE ref[w][s]
  OBVIOUS
<1>9. \A w \in Visits : w > Shown => oldRef[w] = ref[w]
  <2> SUFFICES ASSUME NEW w \in Visits, w > Shown PROVE oldRef[w] = ref[w]
    OBVIOUS
  <2>1. w # Shown
    BY <1>2
  <2>2. oldRef[w] = [s \in Slots |-> ref[w][s]]
    BY <2>1
  <2>3. ref[w] \in [Slots -> Int]
    BY <1>0 DEF PagesTypeOK
  <2> QED
    BY <2>2, <2>3
<1> HIDE DEF oldRef
<1>10. old \in Seq(Sockets) /\ DOMAIN old = DOMAIN sockets
  BY <1>3, <1>6
<1>11. Len(old) = k
  BY <1>3, <1>10, LenProperties
<1>12. \A n \in DOMAIN sockets : old[n] =
          IF gone(n) THEN [sockets[n] EXCEPT !.state = "closing"] ELSE sockets[n]
  OBVIOUS
<1> HIDE DEF old
<1>13. ASSUME NEW n \in DOMAIN sockets
       PROVE  /\ old[n].scope = sockets[n].scope /\ old[n].slot = sockets[n].slot
              /\ old[n].state # sockets[n].state =>
                    old[n].state = "closing" /\ sockets[n].scope = Shown
              /\ sockets[n].state = "closed" => old[n].state = "closed"
  <2>1. CASE gone(n)
    BY <1>5, <1>6, <1>12, <2>1
  <2>2. CASE ~gone(n)
    BY <1>12, <2>2
  <2> QED
    BY <2>1, <2>2
<1>14. ASSUME NEW n \in DOMAIN sockets, old[n].state \in {"connecting", "open"}
       PROVE  oldRef[sockets[n].scope][sockets[n].slot] = n
  <2>1. ~gone(n) /\ Live(n)
    BY <1>6, <1>12, <1>14 DEF Live
  <2>2. ref[sockets[n].scope][sockets[n].slot] = n
    BY <2>1 DEF PagesInv, OneOwner
  <2>3. ~(sockets[n].scope = Shown /\ sockets[n].slot \in left)
    BY <2>1, <2>2
  <2>4. sockets[n].scope \in Visits /\ sockets[n].slot \in Slots
    BY <1>3 DEF Sockets
  <2> QED
    BY <1>8, <2>2, <2>3, <2>4
<1>15. \A w \in Visits : \A s \in Slots : oldRef[w][s] \in {ref[w][s], Null}
  BY <1>8
<1>16. ASSUME NEW n \in DOMAIN sockets, sockets[n].scope = Shown, sockets[n].slot # "local"
       PROVE  old[n].state \notin {"connecting", "open"}
  <2>1. CASE Live(n)
    <3>1. /\ ref[Shown][sockets[n].slot] = n /\ n > 0 /\ sockets[n].scope \in Visits
          /\ sockets[n].slot \in Slot[visits[Shown]]
      BY <1>3, <1>16, <2>1 DEF PagesInv, OneOwner, OnItsPage, Sockets
    <3>2. sockets[n].slot \in left
      BY <1>16, <3>1 DEF left, onExit, Undefined, Null, Visits
    <3>3. gone(n)
      BY <2>1, <3>1, <3>2
    <3> QED
      BY <1>6, <1>12, <3>3
  <2>2. CASE ~Live(n)
    <3>1. old[n] = sockets[n]
      BY <1>12, <2>2
    <3> QED
      BY <2>2, <3>1 DEF Live
  <2> QED
    BY <2>1, <2>2
<1> HIDE DEF gone
<1>17. \A n \in DOMAIN sockets :
          /\ old[n].scope = sockets[n].scope /\ old[n].slot = sockets[n].slot
          /\ old[n].state # sockets[n].state =>
                old[n].state = "closing" /\ sockets[n].scope = Shown
          /\ sockets[n].state = "closed" => old[n].state = "closed"
          /\ old[n].state \in {"connecting", "open"} =>
                oldRef[sockets[n].scope][sockets[n].slot] = n
          /\ sockets[n].scope = Shown /\ sockets[n].slot # "local" =>
                old[n].state \notin {"connecting", "open"}
  BY <1>13, <1>14, <1>16
<1> HIDE DEF k
<1> QED
  BY <1>1, <1>2, <1>7, <1>9, <1>10, <1>11, <1>15, <1>17, Zenon DEF k

(* Another page.                                                           *)
LEMMA GoStep ==
    ASSUME PagesInv, NEW p \in Pages, Go(p)
    PROVE  PagesInv'
<1> DEFINE k == Len(sockets)
           v == Shown + 1
<1>0. PagesTypeOK
  BY DEF PagesInv
<1>1. PICK old \in Seq(Sockets), oldRef \in [Visits -> [Slots -> Int]] :
          /\ connect(v, p, old, oldRef) /\ v \in Visits
          /\ DOMAIN old = DOMAIN sockets /\ Len(old) = k
          /\ \A n \in DOMAIN sockets :
                /\ old[n].scope = sockets[n].scope /\ old[n].slot = sockets[n].slot
                /\ old[n].state # sockets[n].state =>
                      old[n].state = "closing" /\ sockets[n].scope = Shown
                /\ sockets[n].state = "closed" => old[n].state = "closed"
                /\ old[n].state \in {"connecting", "open"} =>
                      oldRef[sockets[n].scope][sockets[n].slot] = n
                /\ sockets[n].scope = Shown /\ sockets[n].slot # "local" =>
                      old[n].state \notin {"connecting", "open"}
          /\ \A w \in Visits : \A s \in Slots : oldRef[w][s] \in {ref[w][s], Null}
          /\ \A w \in Visits : w > Shown => oldRef[w] = ref[w]
  BY ExitFacts
<1>2. /\ Shown \in Nat /\ v > Shown /\ visits' = Append(visits, p) /\ timers' = timers
      /\ visits \in Seq(Pages)
  BY <1>0 DEF Go, PagesTypeOK
<1>3. /\ visits' \in Seq(Pages) /\ Shown' = v /\ visits'[v] = p
      /\ \A w \in 1..Shown : visits'[w] = visits[w]
  BY <1>2, AppendProperties DEF Shown
<1>4. DOMAIN sockets = 1..k /\ \A n \in DOMAIN sockets : sockets[n] \in Sockets
  BY <1>0, LenProperties DEF PagesTypeOK
<1>5. timers[v] = 0 /\ \A s \in Slots : oldRef[v][s] = Undefined
  <2>1. oldRef[v] = ref[v]
    BY <1>1, <1>2
  <2>2. timers[v] = 0 /\ \A s \in Slots : ref[v][s] = Undefined
    BY <1>1, <1>2 DEF PagesInv, NotYetVisited
  <2> QED
    BY <2>1, <2>2
<1>6. \A s \in Slot[p] : s \in Slots /\ oldRef[v][s] \in Missing
  BY <1>5, SlotFacts DEF Missing
<1>7. /\ sockets' \in Seq(Sockets) /\ k \in Nat /\ Len(sockets') \in Nat /\ k <= Len(sockets')
      /\ \A n \in 1..k : sockets'[n] = old[n]
      /\ \A n \in (k + 1)..Len(sockets') :
            /\ sockets'[n].state = "connecting" /\ sockets'[n].scope = v
            /\ sockets'[n].slot \in Slot[p] /\ ref'[v][sockets'[n].slot] = n
      /\ ref' \in [Visits -> [Slots -> Int]]
      /\ \A w \in Visits \ {v} : ref'[w] = oldRef[w]
      /\ \A s \in Slots \ Slot[p] : ref'[v][s] = oldRef[v][s]
      /\ \A s \in Slot[p] : ref'[v][s] \in (k + 1)..Len(sockets') /\ sockets'[ref'[v][s]].slot = s
      /\ ConnectState' = [ConnectState EXCEPT ![v] = "Disconnected"]
  <2> HIDE DEF v
  <2> QED
    BY <1>1, <1>6, ConnectsAll
<1>8. /\ DOMAIN sockets' = 1..Len(sockets')
      /\ \A n \in DOMAIN sockets' : n \in DOMAIN sockets \/ n \in (k + 1)..Len(sockets')
      /\ \A n \in DOMAIN sockets : n \in DOMAIN sockets' /\ sockets'[n] = old[n]
      /\ \A n \in (k + 1)..Len(sockets') : n \in DOMAIN sockets'
  <2>1. DOMAIN sockets' = 1..Len(sockets')
    BY <1>7, LenProperties
  <2> QED
    BY <1>4, <1>7, <2>1
<1> DEFINE Fresh == (k + 1)..Len(sockets')
(* What was there, in the new state.                                       *)
<1>9. ASSUME NEW n \in DOMAIN sockets
      PROVE  /\ sockets'[n].scope = sockets[n].scope /\ sockets'[n].slot = sockets[n].slot
             /\ sockets[n].scope \in Visits /\ sockets[n].slot \in Slots
             /\ sockets[n].scope \in 1..Shown /\ sockets[n].scope # v
             /\ sockets[n].slot \in Slot[visits[sockets[n].scope]]
             /\ sockets'[n].state # sockets[n].state =>
                   sockets'[n].state = "closing" /\ sockets[n].scope = Shown
             /\ sockets'[n].state # "closed" => sockets[n].state # "closed"
  <2>1. sockets[n].scope \in Visits /\ sockets[n].slot \in Slots
    BY <1>4 DEF Sockets
  <2>2. /\ sockets[n].scope <= Shown /\ sockets[n].slot \in Slot[visits[sockets[n].scope]]
    BY DEF PagesInv, OnItsPage
  <2>3. sockets[n].scope \in 1..Shown /\ sockets[n].scope # v
    BY <1>2, <2>1, <2>2 DEF Visits
  <2>4. sockets'[n] = old[n]
    BY <1>8
  <2> QED
    BY <1>1, <2>1, <2>2, <2>3, <2>4
<1> HIDE DEF k, v
<1>10. PagesTypeOK'
  <2>1. ConnectState' \in [Visits -> {"Disconnected", "Connected"}]
    BY <1>0, <1>1, <1>7 DEF PagesTypeOK
  <2>2. Shown' \in 0..MaxVisits
    BY <1>1, <1>3 DEF Visits
  <2> QED
    BY <1>0, <1>2, <1>3, <1>7, <2>1, <2>2 DEF PagesTypeOK
<1>11. NotYetVisited'
  <2> SUFFICES ASSUME NEW w \in Visits, w > v
               PROVE  timers'[w] = 0 /\ \A s \in Slots : ref'[w][s] = Undefined
    BY <1>3 DEF NotYetVisited
  <2>1. w > Shown /\ w # v
    BY <1>1, <1>2 DEF Visits
  <2>2. timers[w] = 0 /\ \A s \in Slots : ref[w][s] = Undefined
    BY <2>1 DEF PagesInv, NotYetVisited
  <2>3. ref'[w] = oldRef[w] /\ oldRef[w] = ref[w]
    BY <1>1, <1>7, <2>1
  <2> QED
    BY <1>2, <2>2, <2>3
<1>12. HoldsItsOwn'
  <2> SUFFICES ASSUME NEW w \in Visits, NEW s \in Slots, ref'[w][s] > 0
               PROVE  /\ ref'[w][s] \in DOMAIN sockets'
                      /\ sockets'[ref'[w][s]].scope = w /\ sockets'[ref'[w][s]].slot = s
    BY DEF HoldsItsOwn
  <2>1. CASE w = v /\ s \in Slot[p]
    BY <1>7, <1>8, <2>1
  <2>2. CASE w = v /\ s \notin Slot[p]
    <3>1. ref'[w][s] = Undefined
      BY <1>5, <1>7, <2>2
    <3> QED
      BY <3>1 DEF Undefined
  <2>3. CASE w # v
    <3>1. ref'[w][s] = oldRef[w][s] /\ oldRef[w][s] \in {ref[w][s], Null}
      BY <1>1, <1>7, <2>3
    <3>2. ref'[w][s] = ref[w][s]
      BY <3>1 DEF Null
    <3>3. /\ ref[w][s] \in DOMAIN sockets
          /\ sockets[ref[w][s]].scope = w /\ sockets[ref[w][s]].slot = s
      BY <3>2 DEF PagesInv, HoldsItsOwn
    <3> QED
      BY <1>8, <1>9, <3>2, <3>3
  <2> QED
    BY <2>1, <2>2, <2>3
<1>13. OnItsPage'
  <2> SUFFICES ASSUME NEW n \in DOMAIN sockets'
               PROVE  /\ sockets'[n].scope <= v
                      /\ sockets'[n].slot \in Slot[visits'[sockets'[n].scope]]
    BY <1>3 DEF OnItsPage
  <2>1. CASE n \in DOMAIN sockets
    <3>1. /\ sockets'[n].scope \in 1..Shown /\ sockets'[n].slot = sockets[n].slot
          /\ sockets'[n].scope = sockets[n].scope
          /\ sockets[n].slot \in Slot[visits[sockets[n].scope]]
      BY <1>9, <2>1
    <3>2. visits'[sockets'[n].scope] = visits[sockets[n].scope]
      BY <1>3, <3>1
    <3>3. sockets'[n].scope <= v
      BY <1>1, <1>2, <3>1 DEF Visits
    <3> QED
      BY <3>1, <3>2, <3>3
  <2>2. CASE n \in Fresh
    <3>1. sockets'[n].scope = v /\ sockets'[n].slot \in Slot[p]
      BY <1>7, <2>2
    <3>2. v <= v
      BY <1>1 DEF Visits
    <3> QED
      BY <1>3, <3>1, <3>2
  <2> QED
    BY <1>8, <2>1, <2>2
<1>14. ASSUME NEW n \in DOMAIN sockets'
       PROVE  sockets'[n].scope = v <=> n \in Fresh
  <2>1. n \in DOMAIN sockets => sockets'[n].scope # v /\ n \notin Fresh
    BY <1>4, <1>7, <1>9
  <2>2. n \in Fresh => sockets'[n].scope = v
    BY <1>7
  <2> QED
    BY <1>8, <2>1, <2>2
<1>15. OneSocket'
  <2> SUFFICES ASSUME NEW n \in DOMAIN sockets', NEW m \in DOMAIN sockets',
                      sockets'[n].state # "closed", sockets'[m].state # "closed",
                      sockets'[n].scope = sockets'[m].scope, sockets'[n].slot = sockets'[m].slot
               PROVE  n = m
    BY DEF OneSocket
  <2>1. CASE sockets'[n].scope = v
    <3>1. n \in Fresh /\ m \in Fresh
      BY <1>14, <2>1
    <3> QED
      BY <1>7, <3>1
  <2>2. CASE sockets'[n].scope # v
    <3>1. n \in DOMAIN sockets /\ m \in DOMAIN sockets
      BY <1>8, <1>14, <2>2
    <3>2. /\ sockets[n].state # "closed" /\ sockets[m].state # "closed"
          /\ sockets[n].scope = sockets[m].scope /\ sockets[n].slot = sockets[m].slot
      BY <1>9, <3>1
    <3> QED
      BY <3>1, <3>2 DEF PagesInv, OneSocket
  <2> QED
    BY <2>1, <2>2
<1>16. WaitsAlone'
  <2> SUFFICES ASSUME NEW w \in Visits, timers[w] > 0
               PROVE  /\ w <= v /\ visits'[w] \in Reconnecting
                      /\ \A s \in Slot[visits'[w]] : ref'[w][s] \in Missing
                      /\ \A n \in DOMAIN sockets' : sockets'[n].scope = w => sockets'[n].state = "closed"
    BY <1>2, <1>3 DEF WaitsAlone
  <2>1. w # v
    BY <1>5
  <2>2. /\ w <= Shown /\ visits[w] \in Reconnecting
        /\ \A s \in Slot[visits[w]] : ref[w][s] \in Missing
        /\ \A n \in DOMAIN sockets : sockets[n].scope = w => sockets[n].state = "closed"
    BY DEF PagesInv, WaitsAlone
  <2>3. w <= v /\ visits'[w] = visits[w] /\ visits[w] \in Pages
    BY <1>1, <1>2, <1>3, <2>2, LenProperties DEF Visits, Shown
  <2>4. \A s \in Slot[visits[w]] : ref'[w][s] \in Missing
    <3>1. ref'[w] = oldRef[w] /\ Slot[visits[w]] \subseteq Slots
      BY <1>7, <2>1, <2>3, SlotFacts
    <3>2. \A s \in Slots : oldRef[w][s] \in {ref[w][s], Null}
      BY <1>1
    <3> QED
      BY <2>2, <3>1, <3>2 DEF Missing
  <2>5. ASSUME NEW n \in DOMAIN sockets', sockets'[n].scope = w
        PROVE  sockets'[n].state = "closed"
    <3>1. n \in DOMAIN sockets
      BY <1>8, <1>14, <2>1, <2>5
    <3>2. sockets[n].state = "closed"
      BY <1>9, <2>2, <2>5, <3>1
    <3> QED
      BY <1>9, <3>1, <3>2
  <2> QED
    BY <2>2, <2>3, <2>4, <2>5
<1>17. ClosingIsLeft'
  <2> SUFFICES ASSUME NEW n \in DOMAIN sockets', sockets'[n].state = "closing"
               PROVE  sockets'[n].scope < v
    BY <1>3 DEF ClosingIsLeft
  <2>1. n \in DOMAIN sockets
    BY <1>7, <1>8
  <2>2. sockets'[n].scope \in 1..Shown
    BY <1>9, <2>1
  <2> QED
    BY <1>1, <1>2, <2>2 DEF Visits
<1>18. OneOwner'
  <2> SUFFICES ASSUME NEW n \in DOMAIN sockets', sockets'[n].state \in {"connecting", "open"}
               PROVE  ref'[sockets'[n].scope][sockets'[n].slot] = n
    BY DEF OneOwner, Live
  <2>1. CASE n \in Fresh
    BY <1>7, <2>1
  <2>2. CASE n \in DOMAIN sockets
    <3>1. oldRef[sockets[n].scope][sockets[n].slot] = n
      BY <1>1, <1>8, <2>2
    <3>2. ref'[sockets[n].scope] = oldRef[sockets[n].scope]
      BY <1>7, <1>9, <2>2
    <3> QED
      BY <1>9, <2>2, <3>1, <3>2
  <2> QED
    BY <1>8, <2>1, <2>2
<1>19. ScopeHonest'
  <2>1. ConnectState'[v] = "Disconnected"
    BY <1>0, <1>1, <1>7 DEF PagesTypeOK
  <2>2. \A s \in Slot[p] : sockets'[ref'[v][s]].state = "connecting"
    BY <1>7
  <2> QED
    BY <1>3, <2>1, <2>2 DEF ScopeHonest, SocketOpen
<1> QED
  BY <1>10, <1>11, <1>12, <1>13, <1>15, <1>16, <1>17, <1>18, <1>19 DEF PagesInv

(* Every step of the pages and their sockets keeps the invariant.          *)
LEMMA PagesStep == PagesInv /\ [PagesNext]_pagesVars => PagesInv'
<1> SUFFICES ASSUME PagesInv, [PagesNext]_pagesVars PROVE PagesInv'
  OBVIOUS
<1>1. ASSUME NEW n \in DOMAIN sockets, Drop(n) \/ CloseDone(n) PROVE PagesInv'
  <2>1. onclose(n) /\ sockets[n].state # "closed"
    BY <1>1 DEF Drop, CloseDone, Live
  <2> QED
    BY <2>1, CloseStep
<1>2. CASE UNCHANGED pagesVars
  BY <1>2 DEF pagesVars, PagesInv, PagesTypeOK, NotYetVisited, HoldsItsOwn, OnItsPage, OneSocket,
              WaitsAlone, ClosingIsLeft, OneOwner, Live, ScopeHonest, SocketOpen, Shown
<1>3. CASE Render
  BY <1>3 DEF Render, PagesInv, PagesTypeOK, NotYetVisited, HoldsItsOwn, OnItsPage, OneSocket,
              WaitsAlone, ClosingIsLeft, OneOwner, Live, ScopeHonest, SocketOpen, Shown
<1> QED
  BY <1>1, <1>2, <1>3, GoStep, OpenStep, TimeoutStep DEF PagesNext

-------------------------------------------------------------------------------
(* What the view of the page that is shown says.                           *)

(* The view does not say "Connected" unless ConnectState does.             *)
ViewFollows == Shown > 0 /\ label = "Connected" => ConnectState[Shown] = "Connected"

(* No page at the start.                                                   *)
LEMMA ViewInit == PagesInit => ViewFollows
BY DEF PagesInit, ViewFollows

(* Every step keeps it: where ConnectState goes back, a digest follows, or *)
(* there is no socket of which the view could have said "Connected".       *)
LEMMA ViewStep == PagesInv /\ ViewFollows /\ [PagesNext]_pagesVars => ViewFollows'
<1> SUFFICES ASSUME PagesInv, ViewFollows, [PagesNext]_pagesVars, Shown' > 0, label' = "Connected"
             PROVE  ConnectState'[Shown'] = "Connected"
  BY DEF ViewFollows
<1>0. /\ ConnectState \in [Visits -> {"Disconnected", "Connected"}] /\ Shown \in 0..MaxVisits
      /\ \A n \in DOMAIN sockets : sockets[n].scope \in Visits
  <2>1. \A n \in DOMAIN sockets : sockets[n] \in Sockets
    BY LenProperties DEF PagesInv, PagesTypeOK
  <2> QED
    BY <2>1 DEF PagesInv, PagesTypeOK, Sockets
<1>1. ASSUME NEW p \in Pages, Go(p) PROVE FALSE
  BY <1>1 DEF Go
<1>2. ASSUME NEW n \in DOMAIN sockets, onopen(n) PROVE ConnectState'[Shown'] = "Connected"
  <2>1. Shown' = Shown /\ Shown \in Visits
    BY <1>0, <1>2, PagesAssumption DEF onopen, Shown, Visits
  <2>2. CASE sockets[n].scope = Shown /\ visits[Shown] = "map"
    <3>1. sockets[n].slot \in Slot["map"]
      BY <2>2 DEF PagesInv, OnItsPage
    <3>2. sockets[n].slot # "sit_socket"
      BY <3>1 DEF Slot
    <3> QED
      BY <1>0, <1>2, <2>1, <2>2, <3>2 DEF onopen
  <2>3. CASE ~(sockets[n].scope = Shown /\ visits[Shown] = "map")
    <3>1. ConnectState[Shown] = "Connected"
      BY <1>2, <2>1, <2>3 DEF onopen, ViewFollows
    <3> QED
      BY <1>0, <1>2, <2>1, <3>1 DEF onopen
  <2> QED
    BY <2>2, <2>3
<1>3. ASSUME NEW n \in DOMAIN sockets, onclose(n) PROVE ConnectState'[Shown'] = "Connected"
  <2>1. Shown' = Shown /\ Shown \in Visits
    BY <1>0, <1>3, PagesAssumption DEF onclose, Shown, Visits
  <2>2. \/ ConnectState' = ConnectState /\ label' = label
        \/ /\ ConnectState' = [ConnectState EXCEPT ![sockets[n].scope] = "Disconnected"]
           /\ label' = IF sockets[n].scope = Shown THEN "Disconnected" ELSE label
    BY <1>3 DEF onclose
  <2> QED
    BY <1>0, <2>1, <2>2 DEF ViewFollows
<1>4. ASSUME NEW v \in Visits, Timeout(v) PROVE ConnectState'[Shown'] = "Connected"
  <2>1. /\ Shown' = Shown /\ label' = label /\ timers[v] > 0
        /\ ConnectState' = [ConnectState EXCEPT ![v] = "Disconnected"]
    BY <1>4 DEF Timeout, connect, Shown
  <2>2. Shown \in Visits /\ ConnectState[Shown] = "Connected"
    BY <1>0, <2>1, PagesAssumption DEF ViewFollows, Visits
  <2>3. v # Shown
    <3> SUFFICES ASSUME v = Shown PROVE FALSE
      OBVIOUS
    <3>1. \A s \in Slot[visits[Shown]] : ref[Shown][s] \in Missing
      BY <2>1 DEF PagesInv, WaitsAlone
    <3>2. ~SocketOpen
      BY <3>1 DEF SocketOpen, Missing, Undefined, Null
    <3> QED
      BY <2>2, <3>2 DEF PagesInv, ScopeHonest, Visits
  <2> QED
    BY <1>0, <2>1, <2>2, <2>3
<1>5. CASE Render
  BY <1>5 DEF Render, Shown
<1>6. CASE UNCHANGED pagesVars
  BY <1>6 DEF pagesVars, ViewFollows, Shown
<1> QED
  BY <1>1, <1>2, <1>3, <1>4, <1>5, <1>6 DEF PagesNext, Drop, CloseDone

-------------------------------------------------------------------------------
(***************************************************************************)
(* What the liveness of the pages rests on, beyond PagesInv: the safety    *)
(* parts of ShownPageReconnects and LeftPageLetsGo.                        *)
(***************************************************************************)

(* A page that connects again waits for its timer or has a socket whose    *)
(* onclose is still to come.                                               *)
NeverCutOff ==
    \A v \in 1..Shown : visits[v] \in Reconnecting =>
        \/ timers[v] > 0
        \/ \E n \in DOMAIN sockets : sockets[n].scope = v /\ sockets[n].state # "closed"

(* The sockets of a page that was left, and does not connect again, are    *)
(* closed or closing: onExit has forgotten none of them.                   *)
LeftIsClosing ==
    \A n \in DOMAIN sockets :
        (sockets[n].scope < Shown /\ visits[sockets[n].scope] \notin Reconnecting) => ~Live(n)

(* While Status, GPS/AHRS or Developer is shown it says "Connected", its   *)
(* socket is about to open or to fail, or a timer will make one.           *)
ShownWaitsForSomething ==
    (Shown > 0 /\ visits[Shown] \in Reconnecting) =>
        \/ ConnectState[Shown] = "Connected"
        \/ timers[Shown] > 0
        \/ \E n \in DOMAIN sockets : sockets[n].scope = Shown /\ sockets[n].state = "connecting"

(* A page that was left and does not connect again has sockets that are    *)
(* closed or closing, and no timer: it gets no other.                      *)
LeftPageIsLeft ==
    \A v \in 1..Shown : (v < Shown /\ visits[v] \notin Reconnecting) =>
        /\ timers[v] = 0
        /\ \A n \in DOMAIN sockets : sockets[n].scope = v => sockets[n].state \in {"closing", "closed"}

PagesGoOn == NeverCutOff /\ LeftIsClosing

(* No page at the start.                                                   *)
LEMMA GoOnInit == PagesInit => PagesGoOn
BY DEF PagesInit, PagesGoOn, NeverCutOff, LeftIsClosing, Shown

(* A socket opens, which was about to.                                     *)
LEMMA GoOnOpen ==
    ASSUME PagesInv, PagesGoOn, NEW n \in DOMAIN sockets, onopen(n)
    PROVE  PagesGoOn'
<1>1. /\ sockets[n].state = "connecting" /\ sockets' = [sockets EXCEPT ![n].state = "open"]
      /\ UNCHANGED <<visits, timers>> /\ Shown' = Shown
  BY DEF onopen, Shown
<1>2. /\ DOMAIN sockets' = DOMAIN sockets
      /\ \A m \in DOMAIN sockets : /\ sockets'[m].scope = sockets[m].scope
                                   /\ m # n => sockets'[m].state = sockets[m].state
      /\ sockets'[n].state = "open"
  BY <1>1, StateChange DEF PagesInv
<1>3. NeverCutOff'
  BY <1>1, <1>2 DEF PagesGoOn, NeverCutOff
<1>4. LeftIsClosing'
  BY <1>1, <1>2 DEF PagesGoOn, LeftIsClosing, Live
<1> QED
  BY <1>3, <1>4 DEF PagesGoOn

(* A socket is closed: its page, if it connects again, sets its timer.     *)
LEMMA GoOnClose ==
    ASSUME PagesInv, PagesGoOn, NEW n \in DOMAIN sockets, onclose(n)
    PROVE  PagesGoOn'
<1> DEFINE v == sockets[n].scope
           p == visits[v]
<1>1. sockets' = [sockets EXCEPT ![n].state = "closed"] /\ visits' = visits /\ Shown' = Shown
  BY DEF onclose, Shown
<1>2. /\ DOMAIN sockets' = DOMAIN sockets
      /\ \A m \in DOMAIN sockets : /\ sockets'[m].scope = sockets[m].scope
                                   /\ m # n => sockets'[m].state = sockets[m].state
      /\ sockets'[n].state = "closed" /\ sockets[n].scope \in Visits
  BY <1>1, StateChange DEF PagesInv
<1>3. timers \in [Visits -> 0..1]
  BY DEF PagesInv, PagesTypeOK
<1>4. /\ \A w \in Visits : timers[w] > 0 => timers'[w] > 0
      /\ p \in Reconnecting => timers'[v] > 0
  <2>1. sockets[n].slot \in Slot[p]
    BY DEF PagesInv, OnItsPage
  <2>2. p \in Reconnecting => sockets[n].slot # "sit_socket"
    BY <2>1, SlotFacts DEF Reconnecting
  <2>3. \/ UNCHANGED timers /\ p \notin Reconnecting
        \/ timers' = [timers EXCEPT ![v] = timers[v] + 1]
    BY <2>2 DEF onclose, HomeOnClose, GpsOnClose, DeveloperOnClose, TrafficOnClose,
       WeatherOnClose, MapOnClose, RadarOnClose, TimeoutWithoutScope, TimeoutWithScope,
       Reconnecting
  <2> HIDE DEF p, v
  <2>4. v \in Visits
    BY <1>2 DEF v
  <2> QED
    BY <1>3, <2>3, <2>4
<1> HIDE DEF p
<1>5. NeverCutOff'
  <2> SUFFICES ASSUME NEW w \in 1..Shown, visits[w] \in Reconnecting
               PROVE  timers'[w] > 0 \/ \E m \in DOMAIN sockets' :
                                          sockets'[m].scope = w /\ sockets'[m].state # "closed"
    BY <1>1 DEF NeverCutOff
  <2>1. w \in Visits
    BY PagesAssumption DEF PagesInv, PagesTypeOK, Visits
  <2>2. CASE w = v
    BY <1>4, <2>2 DEF p
  <2>3. CASE timers[w] > 0
    BY <1>4, <2>1, <2>3
  <2>4. CASE w # v /\ timers[w] <= 0
    <3>1. PICK m \in DOMAIN sockets : sockets[m].scope = w /\ sockets[m].state # "closed"
      BY <1>3, <2>1, <2>4 DEF PagesGoOn, NeverCutOff
    <3> QED
      BY <1>2, <2>4, <3>1
  <2> QED
    BY <1>3, <2>1, <2>2, <2>3, <2>4
<1>6. LeftIsClosing'
  BY <1>1, <1>2 DEF PagesGoOn, LeftIsClosing, Live
<1> QED
  BY <1>5, <1>6 DEF PagesGoOn

(* A timer makes the socket that its page lacks, and no other.             *)
LEMMA GoOnTimeout ==
    ASSUME PagesInv, PagesGoOn, NEW v \in Visits, Timeout(v)
    PROVE  PagesGoOn'
<1> DEFINE p == visits[v]
           k == Len(sockets)
<1>0. PagesTypeOK
  BY DEF PagesInv
<1>1. /\ timers[v] > 0 /\ timers' = [timers EXCEPT ![v] = timers[v] - 1]
      /\ connect(v, p, sockets, ref) /\ visits' = visits /\ Shown' = Shown
  BY DEF Timeout, Shown
<1>2. v <= Shown /\ p \in Reconnecting /\ \A s \in Slot[p] : ref[v][s] \in Missing
  BY <1>1 DEF PagesInv, WaitsAlone
<1>3. /\ p \in Pages /\ sockets \in Seq(Sockets) /\ ref \in [Visits -> [Slots -> Int]]
      /\ DOMAIN sockets = 1..k
  BY <1>0, <1>2, LenProperties DEF PagesTypeOK, Shown, Visits
<1>4. /\ sockets' \in Seq(Sockets) /\ k \in Nat /\ Len(sockets') \in Nat /\ k <= Len(sockets')
      /\ \A n \in 1..k : sockets'[n] = sockets[n]
      /\ \A n \in (k + 1)..Len(sockets') :
            sockets'[n].state = "connecting" /\ sockets'[n].scope = v
      /\ \A s \in Slot[p] : ref'[v][s] \in (k + 1)..Len(sockets')
  BY <1>1, <1>2, <1>3, ConnectsAll
<1>5. DOMAIN sockets' = 1..Len(sockets')
  BY <1>4, LenProperties
<1> HIDE DEF k, p
<1>6. \A w \in Visits : w # v => timers'[w] = timers[w]
  BY <1>0, <1>1 DEF PagesTypeOK
<1>7. PICK s : s \in Slot[p]
  BY <1>2, SlotFacts DEF Reconnecting
<1>8. NeverCutOff'
  <2> SUFFICES ASSUME NEW w \in 1..Shown, visits[w] \in Reconnecting
               PROVE  timers'[w] > 0 \/ \E m \in DOMAIN sockets' :
                                          sockets'[m].scope = w /\ sockets'[m].state # "closed"
    BY <1>1 DEF NeverCutOff
  <2>1. w \in Visits
    BY <1>0, PagesAssumption DEF PagesTypeOK, Visits
  <2>2. CASE w = v
    <3>1. ref'[v][s] \in DOMAIN sockets' /\ ref'[v][s] \in (k + 1)..Len(sockets')
      BY <1>4, <1>5, <1>7
    <3> QED
      BY <1>4, <2>2, <3>1
  <2>3. CASE w # v
    <3>1. timers[w] > 0 \/ \E m \in DOMAIN sockets :
                             sockets[m].scope = w /\ sockets[m].state # "closed"
      BY DEF PagesGoOn, NeverCutOff
    <3>2. \A m \in DOMAIN sockets : m \in DOMAIN sockets' /\ sockets'[m] = sockets[m]
      BY <1>3, <1>4, <1>5
    <3> QED
      BY <1>6, <2>1, <2>3, <3>1, <3>2
  <2> QED
    BY <2>2, <2>3
<1>9. LeftIsClosing'
  <2> SUFFICES ASSUME NEW n \in DOMAIN sockets', sockets'[n].scope < Shown,
                      visits[sockets'[n].scope] \notin Reconnecting
               PROVE  ~Live(n)'
    BY <1>1 DEF LeftIsClosing
  <2>1. n \notin (k + 1)..Len(sockets')
    BY <1>2, <1>4 DEF p
  <2>2. n \in DOMAIN sockets /\ sockets'[n] = sockets[n]
    BY <1>3, <1>4, <1>5, <2>1
  <2> QED
    BY <2>2 DEF PagesGoOn, LeftIsClosing, Live
<1> QED
  BY <1>8, <1>9 DEF PagesGoOn

(* Only Developer, which connects again, keeps its socket in a variable of *)
(* its own, which onExit cannot reach.                                     *)
LEMMA LocalIsDeveloper == \A p \in Pages : "local" \in Slot[p] => p = "developer"
<1>1. \A p \in DOMAIN Slot : "local" \in Slot[p] => p = "developer"
  BY DEF Slot
<1> QED
  BY <1>1, PagesAssumption

(* Another page: onExit closes what the old one has, unless it is          *)
(* Developer, and the controller of the new one connects.                  *)
LEMMA GoOnGo ==
    ASSUME PagesInv, PagesGoOn, NEW p \in Pages, Go(p)
    PROVE  PagesGoOn'
<1> DEFINE k == Len(sockets)
           v == Shown + 1
<1>0. PagesTypeOK
  BY DEF PagesInv
<1>1. PICK old \in Seq(Sockets), oldRef \in [Visits -> [Slots -> Int]] :
          /\ connect(v, p, old, oldRef) /\ v \in Visits
          /\ DOMAIN old = DOMAIN sockets /\ Len(old) = k
          /\ \A n \in DOMAIN sockets :
                /\ old[n].scope = sockets[n].scope
                /\ old[n].state # sockets[n].state => old[n].state = "closing"
                /\ sockets[n].scope = Shown /\ sockets[n].slot # "local" =>
                      old[n].state \notin {"connecting", "open"}
          /\ \A w \in Visits : w > Shown => oldRef[w] = ref[w]
  BY ExitFacts
<1>2. /\ Shown \in Nat /\ v > Shown /\ visits' = Append(visits, p) /\ timers' = timers
      /\ visits \in Seq(Pages)
  BY <1>0 DEF Go, PagesTypeOK
<1>3. /\ Shown' = v /\ visits'[v] = p
      /\ \A w \in 1..Shown : visits'[w] = visits[w]
  BY <1>2, AppendProperties DEF Shown
<1>4. DOMAIN sockets = 1..k /\ \A n \in DOMAIN sockets : sockets[n] \in Sockets
  BY <1>0, LenProperties DEF PagesTypeOK
<1>5. \A s \in Slot[p] : s \in Slots /\ oldRef[v][s] \in Missing
  <2>1. oldRef[v] = ref[v]
    BY <1>1, <1>2
  <2>2. \A s \in Slots : ref[v][s] = Undefined
    BY <1>1, <1>2 DEF PagesInv, NotYetVisited
  <2> QED
    BY <2>1, <2>2, SlotFacts DEF Missing
<1>6. /\ sockets' \in Seq(Sockets) /\ k \in Nat /\ Len(sockets') \in Nat /\ k <= Len(sockets')
      /\ \A n \in 1..k : sockets'[n] = old[n]
      /\ \A n \in (k + 1)..Len(sockets') :
            sockets'[n].state = "connecting" /\ sockets'[n].scope = v
      /\ \A s \in Slot[p] : ref'[v][s] \in (k + 1)..Len(sockets')
  <2> HIDE DEF v
  <2> QED
    BY <1>1, <1>5, ConnectsAll
<1>7. DOMAIN sockets' = 1..Len(sockets')
  BY <1>6, LenProperties
<1>8. ASSUME NEW n \in DOMAIN sockets
      PROVE  /\ n \in DOMAIN sockets' /\ sockets'[n] = old[n]
             /\ sockets[n].scope \in 1..Shown
             /\ sockets[n].slot \in Slot[visits[sockets[n].scope]]
  <2>1. sockets[n].scope \in Visits
    BY <1>4 DEF Sockets
  <2>2. sockets[n].scope <= Shown /\ sockets[n].slot \in Slot[visits[sockets[n].scope]]
    BY DEF PagesInv, OnItsPage
  <2> QED
    BY <1>2, <1>4, <1>6, <1>7, <2>1, <2>2 DEF Visits
<1> HIDE DEF k, v
<1>9. NeverCutOff'
  <2> SUFFICES ASSUME NEW w \in 1..v, visits'[w] \in Reconnecting
               PROVE  timers'[w] > 0 \/ \E m \in DOMAIN sockets' :
                                          sockets'[m].scope = w /\ sockets'[m].state # "closed"
    BY <1>3 DEF NeverCutOff
  <2>1. CASE w = v
    <3>1. PICK s : s \in Slot[p]
      BY <1>3, <2>1, SlotFacts DEF Reconnecting
    <3>2. ref'[v][s] \in DOMAIN sockets' /\ ref'[v][s] \in (k + 1)..Len(sockets')
      BY <1>6, <1>7, <3>1
    <3> QED
      BY <1>6, <2>1, <3>2
  <2>2. CASE w # v
    <3>1. w \in 1..Shown
      BY <1>2, <2>2 DEF v
    <3>2. timers[w] > 0 \/ \E m \in DOMAIN sockets :
                             sockets[m].scope = w /\ sockets[m].state # "closed"
      BY <1>3, <3>1 DEF PagesGoOn, NeverCutOff
    <3>3. \A m \in DOMAIN sockets : /\ m \in DOMAIN sockets'
                                    /\ sockets'[m].scope = sockets[m].scope
                                    /\ sockets[m].state # "closed" => sockets'[m].state # "closed"
      BY <1>1, <1>8
    <3> QED
      BY <1>2, <3>2, <3>3
  <2> QED
    BY <2>1, <2>2
<1>10. LeftIsClosing'
  <2> SUFFICES ASSUME NEW n \in DOMAIN sockets', sockets'[n].scope < v,
                      visits'[sockets'[n].scope] \notin Reconnecting
               PROVE  sockets'[n].state \notin {"connecting", "open"}
    BY <1>3 DEF LeftIsClosing, Live
  <2>1. n \notin (k + 1)..Len(sockets')
    BY <1>1, <1>6 DEF Visits
  <2>2. n \in DOMAIN sockets
    BY <1>4, <1>6, <1>7, <2>1
  <2>3. /\ sockets'[n] = old[n] /\ sockets[n].scope \in 1..Shown
        /\ sockets'[n].scope = sockets[n].scope
        /\ sockets[n].slot \in Slot[visits[sockets[n].scope]]
        /\ visits[sockets[n].scope] \notin Reconnecting
    BY <1>1, <1>3, <1>8, <2>2
  <2>4. CASE sockets[n].scope = Shown
    <3>1. visits[Shown] \in Pages
      BY <1>2, <2>3, <2>4, LenProperties DEF Shown
    <3>2. sockets[n].slot # "local"
      BY <2>3, <2>4, <3>1, LocalIsDeveloper DEF Reconnecting
    <3> QED
      BY <1>1, <2>2, <2>3, <2>4, <3>2
  <2>5. CASE sockets[n].scope # Shown
    <3>1. sockets[n].scope < Shown
      BY <1>2, <2>3, <2>5
    <3>2. ~Live(n)
      BY <2>2, <2>3, <3>1 DEF PagesGoOn, LeftIsClosing
    <3> QED
      BY <1>1, <2>2, <2>3, <3>2 DEF Live
  <2> QED
    BY <2>4, <2>5
<1> QED
  BY <1>9, <1>10 DEF PagesGoOn

(* Every step keeps it.                                                    *)
LEMMA GoOnStep == PagesInv /\ PagesGoOn /\ [PagesNext]_pagesVars => PagesGoOn'
<1> SUFFICES ASSUME PagesInv, PagesGoOn, [PagesNext]_pagesVars PROVE PagesGoOn'
  OBVIOUS
<1>1. ASSUME NEW n \in DOMAIN sockets, Drop(n) \/ CloseDone(n) PROVE PagesGoOn'
  BY <1>1, GoOnClose DEF Drop, CloseDone
<1>2. CASE UNCHANGED pagesVars
  BY <1>2 DEF pagesVars, PagesGoOn, NeverCutOff, LeftIsClosing, Live, Shown
<1>3. CASE Render
  BY <1>3 DEF Render, PagesGoOn, NeverCutOff, LeftIsClosing, Live, Shown
<1> QED
  BY <1>1, <1>2, <1>3, GoOnGo, GoOnOpen, GoOnTimeout DEF PagesNext

(* What it means for the page that is shown.                               *)
LEMMA ShownWaits == PagesInv /\ PagesGoOn => ShownWaitsForSomething
<1> SUFFICES ASSUME PagesInv, PagesGoOn, Shown > 0, visits[Shown] \in Reconnecting,
                    timers[Shown] <= 0,
                    NEW n \in DOMAIN sockets, sockets[n].scope = Shown, sockets[n].state # "closed"
             PROVE  \/ ConnectState[Shown] = "Connected"
                    \/ sockets[n].state = "connecting"
  <2>1. PagesInv /\ Shown > 0 => Shown \in 1..Shown /\ timers[Shown] \in 0..1
    BY DEF PagesInv, PagesTypeOK, Visits
  <2> QED
    BY <2>1 DEF PagesGoOn, NeverCutOff, ShownWaitsForSomething
<1>1. sockets[n] \in Sockets /\ n > 0 /\ Shown \in Nat
  BY LenProperties DEF PagesInv, PagesTypeOK
<1>2. sockets[n].state # "closing"
  BY <1>1 DEF PagesInv, ClosingIsLeft
<1>3. CASE sockets[n].state = "open"
  <2>1. sockets[n].slot \in Slot[visits[Shown]] /\ ref[Shown][sockets[n].slot] = n
    BY <1>3 DEF PagesInv, OnItsPage, OneOwner, Live
  <2>2. sockets[n].slot # "sit_socket"
    BY <2>1, SlotFacts DEF Reconnecting
  <2> QED
    BY <1>1, <1>3, <2>1, <2>2 DEF PagesInv, ScopeHonest, SocketOpen
<1> QED
  BY <1>1, <1>2, <1>3 DEF Sockets

(* What it means for a page that was left.                                 *)
LEMMA LeftLetsGo == PagesInv /\ PagesGoOn => LeftPageIsLeft
<1> SUFFICES ASSUME PagesInv, PagesGoOn, NEW v \in 1..Shown, v < Shown,
                    visits[v] \notin Reconnecting
             PROVE  /\ timers[v] = 0
                    /\ \A n \in DOMAIN sockets : sockets[n].scope = v =>
                          sockets[n].state \in {"closing", "closed"}
  BY DEF LeftPageIsLeft
<1>1. v \in Visits /\ timers[v] \in 0..1
  <2>1. v \in Visits
    BY PagesAssumption DEF PagesInv, PagesTypeOK, Visits
  <2> QED
    BY <2>1 DEF PagesInv, PagesTypeOK
<1>2. timers[v] = 0
  BY <1>1 DEF PagesInv, WaitsAlone
<1>3. \A n \in DOMAIN sockets : sockets[n] \in Sockets
  BY LenProperties DEF PagesInv, PagesTypeOK
<1> QED
  BY <1>2, <1>3 DEF PagesGoOn, LeftIsClosing, Live, Sockets

===============================================================================
