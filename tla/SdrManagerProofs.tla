--------------------------- MODULE SdrManagerProofs ---------------------------
(***************************************************************************)
(* That no dongle has two readers, that tags are honoured, and what the    *)
(* shutdowns of the receivers rest on, for every set of dongles, tags and  *)
(* settings.                                                               *)
(*                                                                         *)
(* The first two are not inductive by themselves: they rest on what        *)
(* configDevices has done with the dongles it has looked at, and on the    *)
(* shutdowns that come before it.                                          *)
(***************************************************************************)
EXTENDS SdrManager, TLAPS, FiniteSetTheorems

(* The number of dongles before d, and the dongles that are devices.       *)
Before(d) == Cardinality({e \in plugged : e < d})
Devices == {dev[p] : p \in Protocols} \ {nil}

(* Only the receiver that the watcher is shutting down has a closed        *)
(* closeCh, and it still has its device and the flag that asked for this.  *)
OneShutdown ==
    \A p \in closeCh :
        /\ watcher.pc \in {"kill", "flags", "reconf"}
        /\ p = This
        /\ MustStop(watcher.pc, p)

(* Before configDevices begins every device has been taken away.           *)
TakenAway ==
    At("reconf") => \A i \in 1..(watcher.k - 1) : dev[Order[i]] = nil

(* While it runs, the dongles that are devices or set aside are ones it    *)
(* has looked at, none is both, and one that is set aside was not wanted   *)
(* by the receiver of its tag.                                             *)
HandedOut ==
    /\ watcher.pc \notin {"tagged", "untagged"} => unusedIDs = {}
    /\ At("tagged") => \A d \in Devices \cup unusedIDs : Before(d) < watcher.k - 1
    /\ Devices \cap unusedIDs = {}
    /\ \A d \in unusedIDs : Tag[d] \in prev.enabled => dev[Tag[d]] # nil

SdrInv == SdrTypeOK /\ OneReaderPerDongle /\ OneShutdown /\ TakenAway /\ HandedOut

-------------------------------------------------------------------------------
(* The watcher's loops run over the receivers.                             *)
LEMMA OrderFacts ==
    /\ Len(Order) = 4
    /\ Order[1] = "UAT" /\ Order[2] = "ES" /\ Order[3] = "OGN" /\ Order[4] = "AIS"
    /\ \A i \in 1..4 : Order[i] \in Protocols
    /\ \A p \in Protocols : \E i \in 1..4 : Order[i] = p
BY DEF Order, Protocols

(* The dongles before one are finitely many.                               *)
LEMMA BeforeIsNat ==
    ASSUME plugged \subseteq Dongles, NEW d
    PROVE  Before(d) \in Nat
<1>1. {e \in plugged : e < d} \subseteq Dongles
  OBVIOUS
<1>2. IsFiniteSet({e \in plugged : e < d})
  BY <1>1, SdrAssumption, FS_Subset
<1> QED
  BY <1>2, FS_CardinalityType DEF Before

(* What Capture counts.                                                    *)
LEMMA Counted ==
    ASSUME plugged \subseteq Dongles, radio \in BOOLEAN
    PROVE  /\ InterfaceCount \in 0..(Cardinality(Dongles) + 1)
           /\ Least(MaxCount, Cardinality(plugged)) \in 0..MaxCount
<1>1. /\ Cardinality(plugged) \in Nat /\ Cardinality(Dongles) \in Nat
      /\ Cardinality(plugged) <= Cardinality(Dongles)
  BY SdrAssumption, FS_Subset, FS_CardinalityType
<1> QED
  BY <1>1, SdrAssumption DEF InterfaceCount, Least

(* A receiver that loop 2 finds for a dongle is one that may take it.      *)
LEMMA FirstTakerTakes ==
    ASSUME NEW d, Takers(d) # {}
    PROVE  FirstTaker(d) \in Takers(d)
<1> DEFINE Is(i) == /\ Order[i] \in Takers(d)
                    /\ \A j \in 1..(i - 1) : Order[j] \notin Takers(d)
<1>1. Takers(d) \subseteq Protocols
  BY DEF Takers
<1>2. \E i \in 1..4 : Order[i] \in Takers(d)
  BY <1>1, OrderFacts
<1>3. \E i \in 1..4 : Is(i)
  <2>1. CASE Order[1] \in Takers(d)
    <3>1. Is(1) BY <2>1
    <3> QED BY <3>1
  <2>2. CASE Order[1] \notin Takers(d) /\ Order[2] \in Takers(d)
    <3>1. Is(2) BY <2>2
    <3> QED BY <3>1
  <2>3. CASE Order[1] \notin Takers(d) /\ Order[2] \notin Takers(d) /\ Order[3] \in Takers(d)
    <3>1. Is(3) BY <2>3
    <3> QED BY <3>1
  <2>4. CASE \A i \in 1..3 : Order[i] \notin Takers(d)
    <3>1. Order[4] \in Takers(d)
      BY <1>2, <2>4
    <3>2. Is(4) BY <2>4, <3>1
    <3> QED BY <3>2
  <2> QED
    BY <2>1, <2>2, <2>3, <2>4
<1>4. FirstTaker(d) = Order[CHOOSE i \in 1..4 : Is(i)]
  BY OrderFacts DEF FirstTaker
<1> HIDE DEF Is
<1>5. Is(CHOOSE i \in 1..4 : Is(i))
  BY <1>3
<1> QED
  BY <1>4, <1>5 DEF Is

-------------------------------------------------------------------------------
(* The invariant holds at the start.                                       *)
LEMMA InitInv == Init => SdrInv
<1> SUFFICES ASSUME Init PROVE SdrInv
  OBVIOUS
<1>1. SdrTypeOK
  <2>1. prev \in [count : 0..(Cardinality(Dongles) + 1), dongles : 0..MaxCount,
                  enabled : Settings \cup {{}}]
    BY SdrAssumption, FS_CardinalityType DEF Init
  <2>2. watcher \in [pc : {"top"}, k : {1}]
    BY DEF Init
  <2>3. /\ changes \in 0..MaxChanges
        /\ dev \in [Protocols -> Dongles \cup {nil}]
        /\ reader \in [Protocols -> Active \cup {"none"}]
        /\ shutdownFlag \in [Protocols -> BOOLEAN]
    BY SdrAssumption DEF Init
  <2>4. /\ radio \in BOOLEAN /\ gpsClock \in BOOLEAN
        /\ sdrconfig \in BOOLEAN /\ sdrShutdown \in BOOLEAN
    BY Zenon DEF Init
  <2> QED
    BY <2>1, <2>2, <2>3, <2>4, OrderFacts DEF Init, SdrTypeOK, At
<1>2. OneReaderPerDongle /\ OneShutdown /\ TakenAway
  BY DEF Init, OneReaderPerDongle, OneShutdown, TakenAway, At, Active
<1>3. HandedOut
  BY DEF Init, HandedOut, At, Devices
<1> QED
  BY <1>1, <1>2, <1>3 DEF SdrInv

(* Every action keeps the types.                                           *)
LEMMA TypeStep ==
    ASSUME SdrTypeOK, [Next]_vars
    PROVE  SdrTypeOK'
<1> USE OrderFacts, SdrAssumption DEF SdrTypeOK, At, Active, env, receivers, loop
<1>1. CASE ChangeSettings
  BY <1>1 DEF ChangeSettings
<1>2. CASE PlugOrUnplug
  BY <1>2 DEF PlugOrUnplug
<1>3. CASE RadioFoundOrLost
  <2>1. radio' \in BOOLEAN
    BY <1>3, Zenon DEF RadioFoundOrLost
  <2> QED
    BY <1>3, <2>1 DEF RadioFoundOrLost
<1>4. CASE GPSClockValid
  BY <1>4 DEF GPSClockValid
<1>5. ASSUME NEW p \in Protocols,
             ReaderStart(p) \/ ReaderFailed(p) \/ ChildDied(p) \/ ReaderClosed(p)
      PROVE  SdrTypeOK'
  <2>1. CASE ReaderStart(p)
    BY <2>1 DEF ReaderStart, ReaderTo
  <2>2. CASE ReaderFailed(p)
    <3>1. PICK q \in Protocols : shutdownFlag' = [shutdownFlag EXCEPT ![q] = TRUE]
      BY <2>2 DEF ReaderFailed, Protocols
    <3>2. shutdownFlag' \in [Protocols -> BOOLEAN]
      BY <3>1
    <3> QED
      BY <2>2, <3>2 DEF ReaderFailed, ReaderTo
  <2>3. CASE ChildDied(p)
    BY <2>3 DEF ChildDied, ReaderTo
  <2>4. CASE ReaderClosed(p)
    BY <2>4 DEF ReaderClosed, ReaderTo
  <2> QED
    BY <1>5, <2>1, <2>2, <2>3, <2>4
<1>6. CASE ReadSyncFailed
  BY <1>6 DEF ReadSyncFailed, ReaderTo, Protocols
<1>7. CASE OGNRestart
  BY <1>7 DEF OGNRestart, ReaderTo, Protocols
<1>8. CASE WatcherTop
  BY <1>8 DEF WatcherTop, Goto
<1>9. CASE Capture
  <2>1. prev' \in [count : 0..(Cardinality(Dongles) + 1), dongles : 0..MaxCount,
                   enabled : Settings \cup {{}}]
    BY <1>9, Counted DEF Capture
  <2>2. watcher' \in [pc : {"top", "reconf"}, k : {1}]
    BY <1>9 DEF Capture, Goto
  <2> QED
    BY <1>9, <2>1, <2>2 DEF Capture
<1>10. ASSUME NEW pc \in {"kill", "flags", "reconf"},
             ShutdownBegin(pc) \/ ShutdownEnd(pc) \/ ShutdownSkip(pc)
      PROVE  SdrTypeOK'
  <2>1. This \in Protocols
    BY <1>10 DEF ShutdownBegin, ShutdownEnd, ShutdownSkip, This
  <2>2. CASE ShutdownBegin(pc)
    BY <2>1, <2>2 DEF ShutdownBegin
  <2>3. CASE ShutdownEnd(pc) \/ ShutdownSkip(pc)
    <3>1. /\ watcher' \in [pc : {"kill", "done", "flags", "capture", "reconf", "tagged"}, k : Nat]
          /\ watcher'.k \in 1..(IF watcher'.pc = "tagged" THEN 1 ELSE 4)
      BY <2>3 DEF ShutdownEnd, ShutdownSkip, Advance, After
    <3>2. shutdownFlag' \in [Protocols -> BOOLEAN]
      <4>1. [shutdownFlag EXCEPT ![This] = FALSE] \in [Protocols -> BOOLEAN]
        BY <2>1
      <4> QED
        BY <2>3, <4>1 DEF ShutdownEnd, ShutdownSkip
    <3>3. dev' \in [Protocols -> Dongles \cup {nil}]
      BY <2>1, <2>3 DEF ShutdownEnd, ShutdownSkip
    <3>4. CASE ShutdownEnd(pc)
      BY <2>1, <3>4, <3>1, <3>2, <3>3 DEF ShutdownEnd
    <3>5. CASE ShutdownSkip(pc)
      BY <2>1, <3>5, <3>1, <3>2, <3>3 DEF ShutdownSkip
    <3> QED
      BY <2>3, <3>4, <3>5
  <2> QED
    BY <1>10, <2>2, <2>3
<1>11. CASE Tagged \/ SerialUnreadable
  <2>1. /\ watcher' \in [pc : {"tagged"}, k : Nat]
        /\ watcher'.k \in 1..(MaxCount + 1)
    BY <1>11 DEF Tagged, SerialUnreadable, NextDongle
  <2>2. CASE SerialUnreadable
    BY <2>1, <2>2 DEF SerialUnreadable, NextDongle
  <2>3. CASE Tagged
    <3>1. PICK d \in DeviceAt(watcher.k) :
            IF Tag[d] \in prev.enabled /\ dev[Tag[d]] = nil
            THEN /\ Create(Tag[d], d) \/ UNCHANGED <<dev, reader>>
                 /\ UNCHANGED unusedIDs
            ELSE unusedIDs' = unusedIDs \cup {d} /\ UNCHANGED <<dev, reader>>
      BY <2>3 DEF Tagged
    <3>2. d \in Dongles
      BY DEF DeviceAt
    <3>3. Tag[d] \in prev.enabled => Tag[d] \in Protocols
      BY <3>2
    <3> QED
      BY <2>1, <2>3, <3>1, <3>2, <3>3 DEF Tagged, NextDongle, Create
  <2> QED
    BY <1>11, <2>2, <2>3
<1>12. CASE TaggedDone
  BY <1>12 DEF TaggedDone, Goto
<1>13. CASE Untagged
  <2>1. PICK d \in unusedIDs :
          /\ unusedIDs' = unusedIDs \ {d}
          /\ (Takers(d) # {} /\ Create(FirstTaker(d), d)) \/ UNCHANGED <<dev, reader>>
    BY <1>13 DEF Untagged
  <2>2. Takers(d) # {} => FirstTaker(d) \in Protocols
    BY FirstTakerTakes DEF Takers
  <2> QED
    BY <1>13, <2>1, <2>2 DEF Untagged, Create
<1>14. CASE Configured
  BY <1>14 DEF Configured, Goto
<1>15. CASE sdrKill
  BY <1>15 DEF sdrKill
<1>16. CASE sdrKillReturns
  BY <1>16 DEF sdrKillReturns
<1>17. CASE UNCHANGED vars
  BY <1>17 DEF vars
<1> QED
  BY <1>1, <1>2, <1>3, <1>4, <1>5, <1>6, <1>7, <1>8, <1>9, <1>10, <1>11, <1>12,
     <1>13, <1>14, <1>15, <1>16, <1>17 DEF Next, WatcherStep

-------------------------------------------------------------------------------
(* What a read() does on its own leaves devices and watcher alone, and     *)
(* never makes an ended one active again.                                  *)
LEMMA ReaderStep ==
    ASSUME SdrInv, SdrTypeOK', NEW p \in Protocols, NEW s,
           reader[p] \in Active, ReaderTo(p, s),
           \A q \in Protocols : shutdownFlag[q] => shutdownFlag'[q]
    PROVE  SdrInv'
<1> USE DEF SdrInv, ReaderTo, env, loop
<1>1. OneReaderPerDongle'
  BY DEF OneReaderPerDongle, SdrTypeOK
<1>2. OneShutdown' /\ TakenAway'
  BY DEF OneShutdown, TakenAway, At, This, MustStop, SdrTypeOK
<1>3. HandedOut'
  BY DEF HandedOut, At, Devices, Before
<1> QED
  BY <1>1, <1>2, <1>3

(* A step that changes neither devices nor readers, and leads the watcher  *)
(* to a place where it neither shuts down nor hands out anything.          *)
LEMMA WatcherMoves ==
    ASSUME SdrInv, SdrTypeOK', UNCHANGED <<dev, closeCh, reader, unusedIDs>>,
           closeCh = {}, unusedIDs = {}, watcher'.pc # "tagged",
           watcher'.pc = "reconf" => watcher'.k = 1
    PROVE  SdrInv'
<1>1. OneReaderPerDongle' /\ OneShutdown'
  BY DEF SdrInv, OneReaderPerDongle, OneShutdown
<1>2. TakenAway'
  BY DEF TakenAway, At
<1>3. HandedOut'
  BY DEF HandedOut, At
<1> QED
  BY <1>1, <1>2, <1>3 DEF SdrInv

(* One that does not change what the invariant is about.                   *)
LEMMA ElsewhereStep ==
    ASSUME SdrInv, SdrTypeOK', UNCHANGED <<dev, closeCh, reader, shutdownFlag, loop>>,
           At("tagged") => UNCHANGED plugged
    PROVE  SdrInv'
<1>1. OneReaderPerDongle' /\ OneShutdown' /\ TakenAway'
  BY DEF SdrInv, OneReaderPerDongle, OneShutdown, TakenAway, At, This, MustStop, loop
<1>2. HandedOut'
  BY DEF SdrInv, HandedOut, At, Devices, Before, loop
<1> QED
  BY <1>1, <1>2 DEF SdrInv

(* shutdown() of a receiver.                                               *)
LEMMA ShutdownStep ==
    ASSUME SdrInv, SdrTypeOK', NEW pc \in {"kill", "flags", "reconf"},
           ShutdownBegin(pc) \/ ShutdownEnd(pc) \/ ShutdownSkip(pc)
    PROVE  SdrInv'
<1>1. /\ watcher.pc = pc /\ watcher.k \in 1..4 /\ This \in Protocols
      /\ unusedIDs = {}
  BY OrderFacts DEF SdrInv, SdrTypeOK, HandedOut, At, This, ShutdownBegin, ShutdownEnd,
                    ShutdownSkip
<1>2. CASE ShutdownBegin(pc)
  <2>1. OneReaderPerDongle' /\ TakenAway'
    BY <1>2 DEF SdrInv, ShutdownBegin, OneReaderPerDongle, TakenAway, At, loop
  <2>2. OneShutdown'
    BY <1>1, <1>2 DEF SdrInv, ShutdownBegin, OneShutdown, MustStop, This, loop
  <2>3. HandedOut'
    BY <1>1, <1>2 DEF SdrInv, ShutdownBegin, HandedOut, At, Devices, loop
  <2> QED
    BY <2>1, <2>2, <2>3 DEF SdrInv
<1>3. CASE ShutdownEnd(pc) \/ ShutdownSkip(pc)
  <2>1. /\ dev' \in [Protocols -> Dongles \cup {nil}]
        /\ \A p \in Protocols : dev'[p] = dev[p] \/ (p = This /\ dev'[p] = nil)
        /\ reader' = reader
        /\ \A p \in Protocols : dev'[p] # dev[p] => reader[p] \notin Active
    <3>1. dev \in [Protocols -> Dongles \cup {nil}]
      BY DEF SdrInv, SdrTypeOK
    <3>2. CASE ShutdownEnd(pc)
      BY <1>1, <3>1, <3>2 DEF ShutdownEnd
    <3>3. CASE ShutdownSkip(pc)
      BY <3>1, <3>3 DEF ShutdownSkip
    <3> QED
      BY <1>3, <3>2, <3>3
  <2>2. closeCh' = {}
    <3>1. closeCh \subseteq {This}
      BY DEF SdrInv, OneShutdown
    <3>2. CASE ShutdownEnd(pc)
      BY <3>1, <3>2 DEF ShutdownEnd
    <3>3. CASE ShutdownSkip(pc)
      <4>1. This \notin closeCh
        BY <1>1, <3>3 DEF SdrInv, OneShutdown, ShutdownSkip
      <4> QED
        BY <3>1, <3>3, <4>1 DEF ShutdownSkip
    <3> QED
      BY <1>3, <3>2, <3>3
  <2>3. dev'[This] = nil \/ pc = "flags"
    BY <1>1, <1>3 DEF SdrInv, SdrTypeOK, ShutdownEnd, ShutdownSkip, MustStop
  <2>4. watcher' = IF watcher.k < 4 THEN [pc |-> pc, k |-> watcher.k + 1]
                   ELSE [pc |-> After[pc], k |-> 1]
    BY <1>3, OrderFacts DEF ShutdownEnd, ShutdownSkip, Advance
  <2>5. /\ watcher'.pc = "reconf" => pc = "reconf" /\ watcher'.k = watcher.k + 1
        /\ watcher'.pc = "tagged" => pc = "reconf" /\ watcher.k = 4
        /\ watcher'.pc # "untagged"
    BY <1>1, <2>4 DEF After
  <2>6. OneReaderPerDongle' /\ OneShutdown'
    BY <2>1, <2>2 DEF SdrInv, OneReaderPerDongle, OneShutdown
  <2>7. pc = "reconf" => \A i \in 1..watcher.k : dev'[Order[i]] = nil
    <3> SUFFICES ASSUME pc = "reconf", NEW i \in 1..watcher.k
                 PROVE  dev'[Order[i]] = nil
      OBVIOUS
    <3>1. Order[i] \in Protocols
      BY <1>1, OrderFacts
    <3>2. CASE i = watcher.k
      BY <2>3, <3>2 DEF This
    <3>3. CASE i # watcher.k
      <4>1. dev[Order[i]] = nil
        BY <1>1, <3>3 DEF SdrInv, TakenAway, At
      <4> QED
        BY <2>1, <3>1, <4>1
    <3> QED
      BY <3>2, <3>3
  <2>8. TakenAway'
    BY <1>1, <2>5, <2>7 DEF TakenAway, At
  <2>9. unusedIDs' = {}
    BY <1>1, <1>3 DEF ShutdownEnd, ShutdownSkip
  <2>10. watcher'.pc = "tagged" => Devices' = {}
    BY <2>5, <2>7, OrderFacts DEF Devices
  <2>11. HandedOut'
    BY <2>9, <2>10 DEF HandedOut, At
  <2> QED
    BY <2>6, <2>8, <2>11 DEF SdrInv
<1> QED
  BY <1>2, <1>3

(* A dongle that is neither a device nor set aside becomes the device of a *)
(* receiver that has none.                                                 *)
LEMMA CreateStep ==
    ASSUME SdrInv, SdrTypeOK', NEW p \in Protocols, NEW d \in Dongles,
           dev[p] = nil, d \notin Devices, Create(p, d),
           unusedIDs' \subseteq unusedIDs \ {d},
           watcher.pc \in {"tagged", "untagged"}, watcher'.pc = watcher.pc,
           UNCHANGED <<closeCh, prev>>
    PROVE  /\ OneReaderPerDongle' /\ OneShutdown' /\ TakenAway'
           /\ Devices' \subseteq Devices \cup {d}
           /\ Devices' \cap unusedIDs' = {}
           /\ \A u \in unusedIDs' : Tag[u] \in prev'.enabled => dev'[Tag[u]] # nil
<1>1. /\ dev \in [Protocols -> Dongles \cup {nil}] /\ d # nil
      /\ dev' = [dev EXCEPT ![p] = d]
      /\ reader' = [reader EXCEPT ![p] = "start"]
      /\ reader \in [Protocols -> Active \cup {"none"}]
  BY SdrAssumption DEF SdrInv, SdrTypeOK, Create
<1>2. \A q \in Protocols : dev[q] # d
  BY <1>1 DEF Devices
<1>3. OneReaderPerDongle'
  BY <1>1, <1>2 DEF SdrInv, OneReaderPerDongle
<1>4. OneShutdown' /\ TakenAway'
  BY DEF SdrInv, OneShutdown, TakenAway, At
<1>5. Devices' \subseteq Devices \cup {d}
  BY <1>1 DEF Devices
<1>6. Devices' \cap unusedIDs' = {}
  BY <1>5 DEF SdrInv, HandedOut
<1>7. ASSUME NEW u \in unusedIDs', Tag[u] \in prev'.enabled
      PROVE  dev'[Tag[u]] # nil
  <2>1. dev[Tag[u]] # nil
    BY <1>7 DEF SdrInv, HandedOut
  <2>2. Tag[u] \in Protocols \cup {"none"}
    BY <1>7, SdrAssumption DEF SdrInv, SdrTypeOK
  <2> QED
    BY <1>1, <2>1, <2>2
<1> QED
  BY <1>3, <1>4, <1>5, <1>6, <1>7

(* Loop 1 of configDevices: the next dongle is a new one.                  *)
LEMMA TaggedStep ==
    ASSUME SdrInv, SdrTypeOK', Tagged
    PROVE  SdrInv'
<1>1. PICK d \in DeviceAt(watcher.k) :
        IF Tag[d] \in prev.enabled /\ dev[Tag[d]] = nil
        THEN /\ Create(Tag[d], d) \/ UNCHANGED <<dev, reader>>
             /\ UNCHANGED unusedIDs
        ELSE unusedIDs' = unusedIDs \cup {d} /\ UNCHANGED <<dev, reader>>
  BY DEF Tagged
<1>2. d \in Dongles /\ Before(d) = watcher.k - 1
  BY DEF DeviceAt, Before, SdrInv, SdrTypeOK
<1>3. /\ At("tagged") /\ watcher.k \in Nat
      /\ watcher'.pc = "tagged" /\ watcher'.k = watcher.k + 1
      /\ UNCHANGED <<plugged, closeCh, prev>>
  BY DEF Tagged, NextDongle, SdrInv, SdrTypeOK, At, env
<1>4. d \notin Devices \cup unusedIDs
  BY <1>2, <1>3 DEF SdrInv, HandedOut
<1>5. \A e \in Devices \cup unusedIDs \cup {d} : Before(e)' < watcher'.k - 1
  <2>1. \A e : Before(e)' = Before(e) /\ Before(e) \in Nat
    BY <1>3, BeforeIsNat DEF Before, SdrInv, SdrTypeOK
  <2> QED
    BY <1>2, <1>3, <2>1 DEF SdrInv, HandedOut
<1>6. CASE Tag[d] \in prev.enabled /\ dev[Tag[d]] = nil /\ Create(Tag[d], d)
  <2>1. Tag[d] \in Protocols
    BY <1>2, <1>6, SdrAssumption DEF SdrInv, SdrTypeOK
  <2>2. unusedIDs' = unusedIDs /\ unusedIDs' \subseteq unusedIDs \ {d}
    BY <1>1, <1>4, <1>6
  <2>3. /\ OneReaderPerDongle' /\ OneShutdown' /\ TakenAway'
        /\ Devices' \subseteq Devices \cup {d}
        /\ Devices' \cap unusedIDs' = {}
        /\ \A u \in unusedIDs' : Tag[u] \in prev'.enabled => dev'[Tag[u]] # nil
    BY <1>2, <1>3, <1>4, <1>6, <2>1, <2>2, CreateStep DEF At
  <2>4. HandedOut'
    BY <1>3, <1>5, <2>2, <2>3 DEF HandedOut, At
  <2> QED
    BY <2>3, <2>4 DEF SdrInv
<1>7. CASE UNCHANGED <<dev, reader>>
  <2>1. OneReaderPerDongle' /\ OneShutdown' /\ TakenAway'
    BY <1>3, <1>7 DEF SdrInv, OneReaderPerDongle, OneShutdown, TakenAway, At
  <2>2. Devices' = Devices
    BY <1>7 DEF Devices
  <2>3. unusedIDs' \subseteq unusedIDs \cup {d}
    BY <1>1
  <2>4. \A u \in unusedIDs' : Tag[u] \in prev'.enabled => dev'[Tag[u]] # nil
    BY <1>1, <1>3, <1>7 DEF SdrInv, HandedOut
  <2>5. HandedOut'
    BY <1>3, <1>4, <1>5, <2>2, <2>3, <2>4 DEF SdrInv, HandedOut, At
  <2> QED
    BY <2>1, <2>5 DEF SdrInv
<1> QED
  BY <1>1, <1>6, <1>7

(* Loop 2: a dongle that was set aside is handed out at most once.         *)
LEMMA UntaggedStep ==
    ASSUME SdrInv, SdrTypeOK', Untagged
    PROVE  SdrInv'
<1>1. PICK d \in unusedIDs :
        /\ unusedIDs' = unusedIDs \ {d}
        /\ (Takers(d) # {} /\ Create(FirstTaker(d), d)) \/ UNCHANGED <<dev, reader>>
  BY DEF Untagged
<1>2. /\ watcher.pc = "untagged" /\ d \in Dongles /\ d \notin Devices
      /\ UNCHANGED <<closeCh, prev, watcher>>
  BY DEF Untagged, At, SdrInv, SdrTypeOK, HandedOut
<1>3. CASE Takers(d) # {} /\ Create(FirstTaker(d), d)
  <2>1. FirstTaker(d) \in Protocols /\ dev[FirstTaker(d)] = nil
    BY <1>3, FirstTakerTakes DEF Takers
  <2>2. /\ OneReaderPerDongle' /\ OneShutdown' /\ TakenAway'
        /\ Devices' \cap unusedIDs' = {}
        /\ \A u \in unusedIDs' : Tag[u] \in prev'.enabled => dev'[Tag[u]] # nil
    BY <1>1, <1>2, <1>3, <2>1, CreateStep
  <2> QED
    BY <1>2, <2>2 DEF SdrInv, HandedOut, At
<1>4. CASE UNCHANGED <<dev, reader>>
  <2>1. OneReaderPerDongle' /\ OneShutdown' /\ TakenAway'
    BY <1>2, <1>4 DEF SdrInv, OneReaderPerDongle, OneShutdown, TakenAway, At
  <2>2. HandedOut'
    BY <1>1, <1>2, <1>4 DEF SdrInv, HandedOut, At, Devices
  <2> QED
    BY <2>1, <2>2 DEF SdrInv
<1> QED
  BY <1>1, <1>3, <1>4

(* Every step keeps the invariant.                                         *)
LEMMA NextInv == SdrInv /\ [Next]_vars => SdrInv'
<1> SUFFICES ASSUME SdrInv, [Next]_vars PROVE SdrInv'
  OBVIOUS
<1>0. SdrTypeOK'
  BY TypeStep DEF SdrInv
<1>1. CASE ChangeSettings
  BY <1>0, <1>1, ElsewhereStep DEF ChangeSettings, receivers
<1>2. CASE PlugOrUnplug
  BY <1>0, <1>2, ElsewhereStep DEF PlugOrUnplug, receivers, At
<1>3. CASE RadioFoundOrLost
  BY <1>0, <1>3, ElsewhereStep DEF RadioFoundOrLost, receivers
<1>4. CASE GPSClockValid
  BY <1>0, <1>4, ElsewhereStep DEF GPSClockValid, receivers
<1>5. ASSUME NEW p \in Protocols,
             ReaderStart(p) \/ ReaderFailed(p) \/ ChildDied(p) \/ ReaderClosed(p)
      PROVE  SdrInv'
  <2>1. reader[p] \in Active
    BY <1>5 DEF ReaderStart, ReaderFailed, ChildDied, ReaderClosed, Active
  <2>2. \E s : ReaderTo(p, s)
    BY <1>5 DEF ReaderStart, ReaderFailed, ChildDied, ReaderClosed
  <2>3. \A q \in Protocols : shutdownFlag[q] => shutdownFlag'[q]
    <3>1. CASE ReaderFailed(p)
      BY <3>1 DEF ReaderFailed, SdrInv, SdrTypeOK
    <3>2. CASE UNCHANGED shutdownFlag
      BY <3>2
    <3> QED
      BY <1>5, <3>1, <3>2 DEF ReaderStart, ChildDied, ReaderClosed
  <2> QED
    BY <1>0, <2>1, <2>2, <2>3, ReaderStep
<1>6. CASE ReadSyncFailed
  <2>1. \A q \in Protocols : shutdownFlag[q] => shutdownFlag'[q]
    BY <1>6 DEF ReadSyncFailed, SdrInv, SdrTypeOK
  <2> QED
    BY <1>0, <1>6, <2>1, ReaderStep DEF ReadSyncFailed, Protocols, Active
<1>7. CASE OGNRestart
  BY <1>0, <1>7, ReaderStep DEF OGNRestart, Protocols, Active
<1>8. CASE WatcherTop
  <2>1. closeCh = {} /\ unusedIDs = {}
    BY <1>8 DEF WatcherTop, At, SdrInv, OneShutdown, HandedOut
  <2> QED
    BY <1>0, <1>8, <2>1, WatcherMoves DEF WatcherTop, Goto, receivers
<1>9. CASE Capture
  <2>1. closeCh = {} /\ unusedIDs = {}
    BY <1>9 DEF Capture, At, SdrInv, OneShutdown, HandedOut
  <2>2. watcher' \in [pc : {"top", "reconf"}, k : {1}]
    BY <1>9 DEF Capture, Goto
  <2> QED
    BY <1>0, <1>9, <2>1, <2>2, WatcherMoves DEF Capture, receivers
<1>10. ASSUME NEW pc \in {"kill", "flags", "reconf"},
              ShutdownBegin(pc) \/ ShutdownEnd(pc) \/ ShutdownSkip(pc)
       PROVE  SdrInv'
  BY <1>0, <1>10, ShutdownStep
<1>11. CASE Tagged
  BY <1>0, <1>11, TaggedStep
<1>12. CASE SerialUnreadable
  <2>1. /\ watcher.pc = "tagged" /\ watcher'.pc = "tagged" /\ watcher.k \in Nat
        /\ watcher'.k = watcher.k + 1
        /\ UNCHANGED <<dev, reader, unusedIDs, plugged, closeCh, prev>>
    BY <1>12 DEF SerialUnreadable, NextDongle, At, SdrInv, SdrTypeOK, env
  <2>2. OneReaderPerDongle' /\ OneShutdown' /\ TakenAway'
    BY <2>1 DEF SdrInv, OneReaderPerDongle, OneShutdown, TakenAway, At
  <2>3. \A d \in Devices \cup unusedIDs : Before(d) \in Nat /\ Before(d) < watcher.k - 1
    BY <2>1, BeforeIsNat DEF SdrInv, SdrTypeOK, HandedOut, At
  <2>4. HandedOut'
    BY <2>1, <2>3 DEF SdrInv, HandedOut, At, Devices, Before
  <2> QED
    BY <1>0, <2>2, <2>4 DEF SdrInv
<1>13. CASE TaggedDone
  <2>1. /\ watcher.pc = "tagged" /\ watcher'.pc = "untagged"
        /\ UNCHANGED <<dev, reader, unusedIDs, closeCh, prev>>
    BY <1>13 DEF TaggedDone, Goto, At, receivers
  <2>2. OneReaderPerDongle' /\ OneShutdown' /\ TakenAway'
    BY <2>1 DEF SdrInv, OneReaderPerDongle, OneShutdown, TakenAway, At
  <2>3. HandedOut'
    BY <2>1 DEF SdrInv, HandedOut, At, Devices
  <2> QED
    BY <1>0, <2>2, <2>3 DEF SdrInv
<1>14. CASE Untagged
  BY <1>0, <1>14, UntaggedStep
<1>15. CASE Configured
  <2>1. closeCh = {} /\ unusedIDs = {}
    BY <1>15 DEF Configured, At, SdrInv, OneShutdown
  <2> QED
    BY <1>0, <1>15, <2>1, WatcherMoves DEF Configured, Goto, receivers
<1>16. CASE sdrKill
  BY <1>0, <1>16, ElsewhereStep DEF sdrKill, receivers, env
<1>17. CASE sdrKillReturns
  BY <1>0, <1>17, ElsewhereStep DEF sdrKillReturns, receivers, env
<1>18. CASE UNCHANGED vars
  BY <1>0, <1>18, ElsewhereStep DEF vars, receivers, env
<1> QED
  BY <1>1, <1>2, <1>3, <1>4, <1>5, <1>6, <1>7, <1>8, <1>9, <1>10, <1>11, <1>12,
     <1>13, <1>14, <1>15, <1>16, <1>17, <1>18 DEF Next, WatcherStep

(***************************************************************************)
(* However settings and dongles change, children die and are restarted,    *)
(* and shutdowns overlap with them, the variables keep their types, one    *)
(* receiver at a time is shut down, and configDevices begins without       *)
(* devices and hands out each dongle it has looked at at most once.        *)
(***************************************************************************)
THEOREM SdrInvariant == Spec => []SdrInv
BY InitInv, NextInv, PTL DEF Spec

(* No dongle has two readers, and no reader outlives its receiver's        *)
(* device: whatever the number of dongles and their tags (configDevices,   *)
(* shutdown, read in sdr.go).                                              *)
THEOREM NoSharedDongle == Spec => []OneReaderPerDongle
<1>1. SdrInv => OneReaderPerDongle
  BY DEF SdrInv
<1> QED
  BY <1>1, SdrInvariant, PTL

(* The action of TagsHonoured, for one step.                               *)
TagKept ==
    \A p \in Protocols :
       LET t == Tag[dev'[p]] IN
       (dev[p] = nil /\ dev'[p] # nil /\ t \notin {p, "none"}) =>
          /\ t \notin prev.enabled \/ dev[t] # nil
          /\ {p, t} # {"UAT", "ES"}

(* Only configDevices makes a device.                                      *)
LEMMA OnlyConfigDevicesCreates ==
    ASSUME SdrInv, [Next]_vars, NEW p \in Protocols, dev[p] = nil, dev'[p] # nil
    PROVE  Tagged \/ Untagged
<1> USE DEF env, receivers, loop
<1>1. CASE ChangeSettings \/ PlugOrUnplug \/ RadioFoundOrLost \/ GPSClockValid
  BY <1>1 DEF ChangeSettings, PlugOrUnplug, RadioFoundOrLost, GPSClockValid
<1>2. ASSUME NEW q \in Protocols,
             ReaderStart(q) \/ ReaderFailed(q) \/ ChildDied(q) \/ ReaderClosed(q)
      PROVE  FALSE
  BY <1>2 DEF ReaderStart, ReaderFailed, ChildDied, ReaderClosed, ReaderTo
<1>3. CASE ReadSyncFailed \/ OGNRestart
  BY <1>3 DEF ReadSyncFailed, OGNRestart, ReaderTo
<1>4. ASSUME NEW pc \in {"kill", "flags", "reconf"},
             ShutdownBegin(pc) \/ ShutdownEnd(pc) \/ ShutdownSkip(pc)
      PROVE  FALSE
  <2>1. CASE ShutdownBegin(pc) \/ ShutdownSkip(pc)
    BY <2>1 DEF ShutdownBegin, ShutdownSkip
  <2>2. CASE ShutdownEnd(pc)
    BY <2>2 DEF ShutdownEnd, SdrInv, SdrTypeOK
  <2> QED
    BY <1>4, <2>1, <2>2
<1>5. CASE WatcherTop \/ Capture \/ SerialUnreadable \/ TaggedDone \/ Configured
  BY <1>5 DEF WatcherTop, Capture, SerialUnreadable, TaggedDone, Configured
<1>6. CASE sdrKill \/ sdrKillReturns \/ UNCHANGED vars
  BY <1>6 DEF sdrKill, sdrKillReturns, vars
<1> QED
  BY <1>1, <1>2, <1>3, <1>4, <1>5, <1>6 DEF Next, WatcherStep

(* A dongle goes to a receiver other than its tag's only if that one is    *)
(* disabled or has a dongle; UAT and ES dongles are never exchanged.       *)
LEMMA TagStep ==
    ASSUME SdrInv, [Next]_vars
    PROVE  TagKept
<1> SUFFICES ASSUME NEW p \in Protocols, dev[p] = nil, dev'[p] # nil,
                    Tag[dev'[p]] \notin {p, "none"}
             PROVE  /\ Tag[dev'[p]] \notin prev.enabled \/ dev[Tag[dev'[p]]] # nil
                    /\ {p, Tag[dev'[p]]} # {"UAT", "ES"}
  BY DEF TagKept
<1>1. dev \in [Protocols -> Dongles \cup {nil}]
  BY DEF SdrInv, SdrTypeOK
<1>2. CASE Tagged
  <2>1. PICK d \in DeviceAt(watcher.k) :
          IF Tag[d] \in prev.enabled /\ dev[Tag[d]] = nil
          THEN Create(Tag[d], d) \/ UNCHANGED dev
          ELSE UNCHANGED dev
    BY <1>2 DEF Tagged
  <2>2. dev' = [dev EXCEPT ![Tag[d]] = d]
    BY <2>1 DEF Create
  <2>3. Tag[d] = p /\ dev'[p] = d
    BY <1>1, <2>2
  <2> QED
    BY <2>3
<1>3. CASE Untagged
  <2>1. PICK d \in unusedIDs : Takers(d) # {} /\ Create(FirstTaker(d), d)
    BY <1>3 DEF Untagged
  <2>2. FirstTaker(d) \in Takers(d)
    BY <2>1, FirstTakerTakes
  <2>3. dev' = [dev EXCEPT ![FirstTaker(d)] = d]
    BY <2>1 DEF Create
  <2>4. p = FirstTaker(d) /\ dev'[p] = d
    BY <1>1, <2>3
  <2>5. Tag[d] \in prev.enabled => dev[Tag[d]] # nil
    BY DEF SdrInv, HandedOut
  <2>6. /\ p = "UAT" => Tag[d] # "ES"
        /\ p = "ES" => Tag[d] # "UAT"
    BY <2>2, <2>4 DEF Takers
  <2> QED
    BY <2>4, <2>5, <2>6
<1> QED
  BY <1>2, <1>3, OnlyConfigDevicesCreates

(* What TagsHonoured says holds of every step, for every tagging of the    *)
(* dongles and all settings (the two loops of configDevices).              *)
THEOREM TagsAlwaysHonoured == Spec => TagsHonoured
<1>1. SdrInv /\ [Next]_vars => [TagKept]_vars
  BY TagStep
<1>2. [][TagKept]_vars => TagsHonoured
  BY DEF TagsHonoured, TagKept
<1> QED
  BY <1>1, <1>2, SdrInvariant, PTL DEF Spec

-------------------------------------------------------------------------------
(***************************************************************************)
(* What the shutdowns rest on, beyond SdrInv: the safety parts of          *)
(* ShutdownEnds, FailedIsShutDown and KillReturns.                         *)
(***************************************************************************)

(* The loop that sdrKill asks for has taken away the devices it has come   *)
(* past, and the watcher enters it for sdrKill only.                       *)
KillTakesAway ==
    /\ At("kill") => \A i \in 1..(watcher.k - 1) : dev[Order[i]] = nil
    /\ At("done") => \A p \in Protocols : dev[p] = nil
    /\ watcher.pc \in {"kill", "done"} => sdrShutdown

(* Only OGN waits for the clock or starts over, and the flag of a read()   *)
(* that could not start its child stands until it has ended.               *)
ReaderAsks ==
    /\ \A p \in Protocols : reader[p] \in {"gps", "restart"} => p = "OGN"
    /\ \A p \in Protocols \ {"AIS"} : reader[p] = "failed" => shutdownFlag[p]

KillInv == KillTakesAway /\ ReaderAsks

(* Once sdrWatcher has returned, which it does for sdrKill only, there is  *)
(* no device and no read() left, and the polling sdrKill sees it.          *)
NothingLeft ==
    At("done") => /\ sdrShutdown
                  /\ \A p \in Protocols : dev[p] = nil /\ reader[p] = "none"

(* The shutdown() that the watcher waits in is the one of the receiver it  *)
(* has come to, and its read() has ended or can go on: it finds closeCh    *)
(* closed, or gets there after its start or the pause of OGN.              *)
ShutdownNeverStuck ==
    \A p \in closeCh :
        /\ watcher.pc \in {"kill", "flags", "reconf"} /\ p = This
        /\ \/ reader[p] = "none"
           \/ reader[p] \in {"start", "gps", "run", "failed"}
           \/ p = "OGN" /\ reader[p] = "restart"

(* A read() that could not start its child has a device and its flag set:  *)
(* the next look at the flags shuts it down.  (AIS is left out, as in      *)
(* FailedIsShutDown.)                                                      *)
FailedIsAskedFor ==
    \A p \in Protocols \ {"AIS"} : reader[p] = "failed" => MustStop("flags", p)

(* Nothing is being killed and nothing waits at the start.                 *)
LEMMA KillInit == Init => KillInv
BY DEF Init, KillInv, KillTakesAway, ReaderAsks, At

(* A step of a read(), and none of the watcher's.                          *)
LEMMA KillReaderStep ==
    ASSUME SdrInv, KillInv, NEW p \in Protocols, NEW s, ReaderTo(p, s),
           s \in {"gps", "restart"} => p = "OGN",
           s = "failed" /\ p # "AIS" => shutdownFlag'[p],
           \A q \in Protocols : shutdownFlag[q] => shutdownFlag'[q]
    PROVE  KillInv'
<1>1. KillTakesAway'
  BY DEF KillInv, KillTakesAway, ReaderTo, At, loop
<1>2. /\ reader' = [reader EXCEPT ![p] = s]
      /\ reader \in [Protocols -> Active \cup {"none"}]
  BY DEF ReaderTo, SdrInv, SdrTypeOK
<1>3. ReaderAsks'
  BY <1>2 DEF KillInv, ReaderAsks
<1> QED
  BY <1>1, <1>3 DEF KillInv

(* A step that touches neither the receivers nor the watcher, and does not *)
(* call sdrKill off.                                                       *)
LEMMA KillElsewhere ==
    ASSUME KillInv, UNCHANGED <<dev, reader, shutdownFlag, watcher>>,
           sdrShutdown => sdrShutdown'
    PROVE  KillInv'
BY DEF KillInv, KillTakesAway, ReaderAsks, At

(* The watcher moves on without touching a receiver, and enters the loop   *)
(* of sdrKill at its first receiver and for sdrKill only.                  *)
LEMMA KillWatcherMoves ==
    ASSUME KillInv, UNCHANGED <<dev, reader, shutdownFlag, sdrShutdown>>,
           watcher'.pc # "done",
           watcher'.pc = "kill" => watcher'.k = 1 /\ sdrShutdown
    PROVE  KillInv'
BY DEF KillInv, KillTakesAway, ReaderAsks, At

(* shutdown() of a receiver takes its device away, in the loop of sdrKill  *)
(* one after the other.                                                    *)
LEMMA KillShutdownStep ==
    ASSUME SdrInv, KillInv, NEW pc \in {"kill", "flags", "reconf"},
           ShutdownEnd(pc) \/ ShutdownSkip(pc)
    PROVE  KillInv'
<1>1. /\ watcher.pc = pc /\ watcher.k \in 1..4 /\ This \in Protocols
      /\ dev \in [Protocols -> Dongles \cup {nil}]
      /\ reader \in [Protocols -> Active \cup {"none"}]
      /\ shutdownFlag \in [Protocols -> BOOLEAN]
  BY OrderFacts DEF SdrInv, SdrTypeOK, At, This, ShutdownEnd, ShutdownSkip
<1>2. /\ \A p \in Protocols : dev[p] = nil => dev'[p] = nil
      /\ pc = "kill" => dev'[This] = nil
  BY <1>1 DEF ShutdownEnd, ShutdownSkip, MustStop
<1>3. watcher' = IF watcher.k < 4 THEN [pc |-> pc, k |-> watcher.k + 1]
                 ELSE [pc |-> After[pc], k |-> 1]
  BY OrderFacts DEF ShutdownEnd, ShutdownSkip, Advance
<1>4. /\ watcher'.pc = "kill" => pc = "kill" /\ watcher'.k = watcher.k + 1
      /\ watcher'.pc = "done" => pc = "kill" /\ watcher.k = 4
  BY <1>1, <1>3 DEF After
<1>5. pc = "kill" => \A i \in 1..watcher.k : dev'[Order[i]] = nil
  <2> SUFFICES ASSUME pc = "kill", NEW i \in 1..watcher.k
               PROVE  dev'[Order[i]] = nil
    OBVIOUS
  <2>1. Order[i] \in Protocols
    BY <1>1, OrderFacts
  <2>2. CASE i = watcher.k
    BY <1>2, <2>2 DEF This
  <2>3. CASE i # watcher.k
    <3>1. dev[Order[i]] = nil
      BY <1>1, <2>3 DEF KillInv, KillTakesAway, At
    <3> QED
      BY <1>2, <2>1, <3>1
  <2> QED
    BY <2>2, <2>3
<1>6. sdrShutdown' = sdrShutdown /\ reader' = reader
  BY DEF ShutdownEnd, ShutdownSkip
<1>7. KillTakesAway'
  <2>1. At("kill")' => \A i \in 1..(watcher'.k - 1) : dev'[Order[i]] = nil
    BY <1>1, <1>4, <1>5 DEF At
  <2>2. At("done")' => \A p \in Protocols : dev'[p] = nil
    BY <1>4, <1>5, OrderFacts DEF At
  <2>3. watcher'.pc \in {"kill", "done"} => sdrShutdown'
    BY <1>1, <1>4, <1>6 DEF KillInv, KillTakesAway
  <2> QED
    BY <2>1, <2>2, <2>3 DEF KillTakesAway
<1>8. \A p \in Protocols : reader[p] = "failed" /\ shutdownFlag[p] => shutdownFlag'[p]
  <2> SUFFICES ASSUME NEW p \in Protocols, reader[p] = "failed", shutdownFlag[p]
               PROVE  shutdownFlag'[p]
    OBVIOUS
  <2>1. reader[p] \in Active /\ dev[p] # nil
    BY DEF Active, SdrInv, OneReaderPerDongle
  <2>2. p # This \/ pc # "flags"
    BY <2>1 DEF ShutdownEnd, ShutdownSkip, MustStop
  <2> QED
    BY <1>1, <2>2 DEF ShutdownEnd, ShutdownSkip
<1>9. ReaderAsks'
  BY <1>6, <1>8 DEF KillInv, ReaderAsks
<1> QED
  BY <1>7, <1>9 DEF KillInv

(* configDevices gives a receiver a device and starts its read().          *)
LEMMA KillCreateStep ==
    ASSUME SdrInv, KillInv, Tagged \/ Untagged
    PROVE  KillInv'
<1>1. /\ watcher.pc \in {"tagged", "untagged"} /\ watcher'.pc = watcher.pc
      /\ UNCHANGED <<shutdownFlag, sdrShutdown>>
  BY DEF Tagged, Untagged, NextDongle, At, SdrInv, SdrTypeOK
<1>2. reader' = reader \/ \E p : reader' = [reader EXCEPT ![p] = "start"]
  BY DEF Tagged, Untagged, Create
<1>3. reader \in [Protocols -> Active \cup {"none"}]
  BY DEF SdrInv, SdrTypeOK
<1>4. \A p \in Protocols : reader'[p] \in {reader[p], "start"}
  BY <1>2, <1>3
<1>5. ReaderAsks'
  BY <1>1, <1>4 DEF KillInv, ReaderAsks
<1>6. KillTakesAway'
  BY <1>1 DEF KillTakesAway, At
<1> QED
  BY <1>5, <1>6 DEF KillInv

(* Every step keeps it.                                                    *)
LEMMA KillStep == SdrInv /\ KillInv /\ [Next]_vars => KillInv'
<1> SUFFICES ASSUME SdrInv, KillInv, [Next]_vars PROVE KillInv'
  OBVIOUS
<1>0. /\ shutdownFlag \in [Protocols -> BOOLEAN]
      /\ sdrShutdown \in BOOLEAN
  BY DEF SdrInv, SdrTypeOK
<1>1. CASE ChangeSettings \/ PlugOrUnplug \/ RadioFoundOrLost \/ GPSClockValid
           \/ sdrKillReturns \/ UNCHANGED vars
  BY <1>1, KillElsewhere DEF ChangeSettings, PlugOrUnplug, RadioFoundOrLost,
     GPSClockValid, sdrKillReturns, vars, receivers, loop
<1>2. CASE sdrKill
  BY <1>2, KillElsewhere DEF sdrKill, receivers, loop
<1>3. ASSUME NEW p \in Protocols, ReaderStart(p)
      PROVE  KillInv'
  BY <1>3, KillReaderStep DEF ReaderStart
<1>4. ASSUME NEW p \in Protocols, ReaderFailed(p)
      PROVE  KillInv'
  <2>1. /\ \A q \in Protocols : shutdownFlag[q] => shutdownFlag'[q]
        /\ p # "AIS" => shutdownFlag'[p]
    BY <1>0, <1>4 DEF ReaderFailed
  <2> QED
    BY <1>4, <2>1, KillReaderStep DEF ReaderFailed
<1>5. ASSUME NEW p \in Protocols, ChildDied(p)
      PROVE  KillInv'
  BY <1>5, KillReaderStep DEF ChildDied
<1>6. ASSUME NEW p \in Protocols, ReaderClosed(p)
      PROVE  KillInv'
  BY <1>6, KillReaderStep DEF ReaderClosed
<1>7. CASE ReadSyncFailed
  <2>1. \A q \in Protocols : shutdownFlag[q] => shutdownFlag'[q]
    BY <1>0, <1>7 DEF ReadSyncFailed
  <2> QED
    BY <1>7, <2>1, KillReaderStep DEF ReadSyncFailed, Protocols
<1>8. CASE OGNRestart
  BY <1>8, KillReaderStep DEF OGNRestart, Protocols
<1>9. CASE WatcherTop
  BY <1>9, KillWatcherMoves DEF WatcherTop, Goto, receivers
<1>10. CASE Capture
  <2>1. watcher'.pc \in {"top", "reconf"}
    BY <1>10 DEF Capture, Goto
  <2> QED
    BY <1>10, <2>1, KillWatcherMoves DEF Capture, receivers
<1>11. ASSUME NEW pc \in {"kill", "flags", "reconf"}, ShutdownBegin(pc)
       PROVE  KillInv'
  BY <1>11, KillElsewhere DEF ShutdownBegin, loop
<1>12. ASSUME NEW pc \in {"kill", "flags", "reconf"},
              ShutdownEnd(pc) \/ ShutdownSkip(pc)
       PROVE  KillInv'
  BY <1>12, KillShutdownStep
<1>13. CASE Tagged \/ Untagged
  BY <1>13, KillCreateStep
<1>14. CASE SerialUnreadable
  <2>1. watcher'.pc = "tagged"
    BY <1>14 DEF SerialUnreadable, NextDongle, At, SdrInv, SdrTypeOK
  <2> QED
    BY <1>14, <2>1, KillWatcherMoves DEF SerialUnreadable, NextDongle
<1>15. CASE TaggedDone \/ Configured
  BY <1>15, KillWatcherMoves DEF TaggedDone, Configured, Goto, receivers
<1> QED
  BY <1>1, <1>2, <1>3, <1>4, <1>5, <1>6, <1>7, <1>8, <1>9, <1>10, <1>11, <1>12,
     <1>13, <1>14, <1>15 DEF Next, WatcherStep

(* It holds in every state.                                                *)
LEMMA KillInvariant == Spec => []KillInv
BY KillInit, KillStep, SdrInvariant, PTL DEF Spec

(* sdrWatcher returns for sdrKill only, and leaves no device and no read() *)
(* behind, whatever settings, dongles and children did meanwhile: what     *)
(* sdrKill polls for has come about, and stays (the safety part of         *)
(* KillReturns).                                                           *)
THEOREM WatcherLeavesNothing == Spec => []NothingLeft
<1>1. SdrInv /\ KillInv => NothingLeft
  <2>1. SdrInv => \A p \in Protocols : reader[p] \in Active \cup {"none"}
                                       /\ (dev[p] = nil => reader[p] \notin Active)
    BY DEF SdrInv, SdrTypeOK, OneReaderPerDongle
  <2> QED
    BY <2>1 DEF KillInv, KillTakesAway, NothingLeft, At
<1> QED
  BY <1>1, SdrInvariant, KillInvariant, PTL

(* shutdown() always waits for a read() that has ended or can still go on  *)
(* to the closed closeCh (the safety part of ShutdownEnds).                *)
THEOREM ShutdownWaitsForSomebody == Spec => []ShutdownNeverStuck
<1>1. SdrInv /\ KillInv => ShutdownNeverStuck
  <2> SUFFICES ASSUME SdrInv, KillInv, NEW p \in closeCh
               PROVE  /\ watcher.pc \in {"kill", "flags", "reconf"} /\ p = This
                      /\ \/ reader[p] = "none"
                         \/ reader[p] \in {"start", "gps", "run", "failed"}
                         \/ p = "OGN" /\ reader[p] = "restart"
    BY DEF ShutdownNeverStuck
  <2>1. watcher.pc \in {"kill", "flags", "reconf"} /\ p = This
    BY DEF SdrInv, OneShutdown
  <2>2. p \in Protocols /\ reader[p] \in Active \cup {"none"}
    BY DEF SdrInv, SdrTypeOK
  <2>3. reader[p] = "restart" => p = "OGN"
    BY <2>2 DEF KillInv, ReaderAsks
  <2> QED
    BY <2>1, <2>2, <2>3 DEF Active
<1> QED
  BY <1>1, SdrInvariant, KillInvariant, PTL

(* The request of a read() that could not start its child is not lost,     *)
(* neither to another receiver's nor to the reset of the flags of          *)
(* receivers without a device (the safety part of FailedIsShutDown).       *)
THEOREM FailedStaysAskedFor == Spec => []FailedIsAskedFor
<1>1. SdrInv /\ KillInv => FailedIsAskedFor
  BY DEF SdrInv, OneReaderPerDongle, Active, KillInv, ReaderAsks, FailedIsAskedFor, MustStop
<1> QED
  BY <1>1, SdrInvariant, KillInvariant, PTL

===============================================================================
