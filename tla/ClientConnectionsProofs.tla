------------------------ MODULE ClientConnectionsProofs ------------------------
(***************************************************************************)
(* That what the registry holds works, that only serial outputs named by   *)
(* the settings file can miss a queue, and that a connection that has lost *)
(* its port leaves nothing behind, for every set of clients, addresses and *)
(* devices and every number of connections made.                           *)
(***************************************************************************)
EXTENDS ClientConnections, TLAPS

(* A connection that has been made, and the queue it was made with, unless *)
(* the settings named its device without one.                              *)
IsMade(c) == c[2] <= made[c[1]]
Config(c) == IF c[1] \in Devs THEN <<c[1], "settings">> ELSE <<c, "own">>
Lazy(c) == c[1] \in Devs /\ SerialOutputs[c[1]] = nil

(* Nothing is known yet of a connection that is still to be made.          *)
Unmade(c) ==
    /\ c \notin open /\ c \notin sending
    /\ writer[c] = "none" /\ listens[c] = nil
    /\ \A w \in Callers : closing[c][w] = "none"
    /\ <<c, "own">> \notin closedQueues

(* A connection keeps the queue it was made with, and its writer listens   *)
(* to that one.                                                            *)
Furnished(c) ==
    /\ queue[c] = Config(c)
    /\ c \notin sending
    /\ writer[c] # "lazy"
    /\ listens[c] \in {nil, Config(c)}
    /\ writer[c] \in {"wait", "check", "write", "close", "done"} => listens[c] = Config(c)

(* A serial connection never has the queue of another connection.          *)
SerialQueue(c) ==
    queue[c] \in {nil, <<c[1], "settings">>, <<c, "writer">>, <<c, "sendMsg">>}

(* A registered connection that is not being closed has its port and queue.*)
Served(c) ==
    (Registered(c) /\ ~InClose(c)) => c \in open /\ <<c, "own">> \notin closedQueues

ConnInv(c) ==
    /\ ~IsMade(c) => Unmade(c)
    /\ (IsMade(c) /\ ~Lazy(c)) => Furnished(c)
    /\ c[1] \in Devs => SerialQueue(c)
    /\ writer[c] = "done" => listens[c] \in closedQueues
    /\ closing[c]["writer"] # "none" => writer[c] = "close"
    /\ c[1] \notin Devs => Served(c)

(* The settings of a device that were made by serialOutWatcher have a      *)
(* queue; a device without settings has no connection.                     *)
SettingsInv ==
    \A d \in Devs :
        /\ SerialOutputs[d] \in {absent, nil, <<d, "settings">>}
        /\ SerialOutputs[d] = absent => made[d] = 0

(* A process that died had a device that the settings file named.          *)
DiedOfSettings == panicked => \E d \in Devs : SerialOutputs[d] = nil

RegistryInv ==
    /\ TypeOK /\ SettingsInv /\ DiedOfSettings
    /\ \A c \in Conns : ConnInv(c)

-------------------------------------------------------------------------------
(* A connection is a key and a number.                                     *)
LEMMA ConnFacts ==
    ASSUME NEW c \in Conns
    PROVE  c[1] \in Keys /\ c[2] \in 1..MaxMade /\ c = <<c[1], c[2]>>
BY DEF Conns

(* Queues are told apart by who made them.                                 *)
LEMMA QueueFacts ==
    ASSUME NEW c \in Conns
    PROVE  /\ <<c, "own">> \in Queues /\ <<c, "writer">> \in Queues
           /\ <<c, "sendMsg">> \in Queues
           /\ c[1] \in Devs => <<c[1], "settings">> \in Queues
           /\ Config(c) \in Queues /\ Config(c) # nil
           /\ Config(c) # <<c, "writer">> /\ Config(c) # <<c, "sendMsg">>
<1>1. /\ <<c, "own">> \in Queues /\ <<c, "writer">> \in Queues
      /\ <<c, "sendMsg">> \in Queues
      /\ c[1] \in Devs => <<c[1], "settings">> \in Queues
  BY DEF Queues
<1>2. Config(c) \in Queues
  BY <1>1 DEF Config
<1>3. Config(c) # <<c, "writer">> /\ Config(c) # <<c, "sendMsg">>
  BY DEF Config
<1> QED
  BY <1>1, <1>2, <1>3, RegistryAssumption

(* What Make does, per connection.                                         *)
LEMMA MakeFacts ==
    ASSUME TypeOK, NEW N \in SUBSET Keys, Make(N)
    PROVE  /\ made' \in [Keys -> 0..MaxMade]
           /\ \A k \in Keys : made'[k] = IF k \in N THEN made[k] + 1 ELSE made[k]
           /\ \A c \in Conns : c \in Made(N) <=> (c[1] \in N /\ c[2] = made[c[1]] + 1)
           /\ \A c \in Conns : writer'[c] = IF c \in Made(N) THEN "start" ELSE writer[c]
           /\ writer' \in [Conns -> {"none", "start", "lazy", "wait", "check", "write",
                                     "close", "done"}]
           /\ Made(N) \subseteq Conns
<1>1. /\ made \in [Keys -> 0..MaxMade] /\ MaxMade \in Nat
      /\ writer \in [Conns -> {"none", "start", "lazy", "wait", "check", "write",
                               "close", "done"}]
      /\ \A k \in N : made[k] < MaxMade
      /\ made' = [k \in Keys |-> IF k \in N THEN made[k] + 1 ELSE made[k]]
      /\ writer' = [c \in Conns |-> IF c \in Made(N) THEN "start" ELSE writer[c]]
  BY RegistryAssumption DEF TypeOK, Make
<1>2. made' \in [Keys -> 0..MaxMade]
  BY <1>1
<1>3. writer' \in [Conns -> {"none", "start", "lazy", "wait", "check", "write",
                             "close", "done"}]
  BY <1>1
<1>4. Made(N) \subseteq Conns
  BY <1>1 DEF Made, Conns
<1>5. ASSUME NEW c \in Conns PROVE c \in Made(N) <=> (c[1] \in N /\ c[2] = made[c[1]] + 1)
  BY ConnFacts DEF Made
<1> QED
  BY <1>1, <1>2, <1>3, <1>4, <1>5

(* The invariant holds at the start.                                       *)
LEMMA InitInv == Init => RegistryInv
<1> SUFFICES ASSUME Init PROVE RegistryInv
  OBVIOUS
<1>1. TypeOK
  <2>1. panicked \in BOOLEAN
    BY Zenon DEF Init
  <2>2. closing \in [Conns -> [Callers -> {"none", "port", "queue", "registry"}]]
    BY DEF Init
  <2> QED
    BY <2>1, <2>2, RegistryAssumption DEF Init, TypeOK
<1>2. SettingsInv /\ DiedOfSettings
  BY DEF Init, SettingsInv, DiedOfSettings, Keys
<1>3. ASSUME NEW c \in Conns PROVE ConnInv(c)
  <2>1. ~IsMade(c) /\ ~Registered(c) /\ c[1] \in Keys
    BY ConnFacts, RegistryAssumption DEF Init, IsMade, Registered
  <2>2. Unmade(c) /\ SerialQueue(c) /\ writer[c] # "done" /\ closing[c]["writer"] = "none"
    BY DEF Init, Unmade, SerialQueue, Callers
  <2> QED
    BY <2>1, <2>2 DEF ConnInv, Served
<1> QED
  BY <1>1, <1>2, <1>3 DEF RegistryInv

-------------------------------------------------------------------------------
(* Making connections.                                                     *)

(* refreshConnectedClients keeps the invariant.                            *)
LEMMA RefreshStep ==
    ASSUME RegistryInv, NEW leased \in SUBSET Clients, NEW failed \in SUBSET leased,
           refreshConnectedClients(leased, failed)
    PROVE  RegistryInv'
<1> DEFINE new == {k \in leased \ failed : clientConnections[k] = 0}
           gone == {c \in Clients \X (1..MaxMade) : c[1] \notin leased /\ Registered(c)}
<1>0. TypeOK /\ SettingsInv /\ DiedOfSettings /\ \A c \in Conns : ConnInv(c)
  BY DEF RegistryInv
<1>1. /\ Make(new)
      /\ clientConnections' =
              [k \in Keys |-> IF k \in new THEN made[k] + 1
                              ELSE IF k \in Clients \ leased THEN 0
                              ELSE clientConnections[k]]
      /\ queue' = [c \in Conns |-> IF c \in Made(new) THEN <<c, "own">> ELSE queue[c]]
      /\ open' = (open \cup Made(new)) \ gone
      /\ closedQueues' = closedQueues \cup {queue[c] : c \in gone}
      /\ DataAvailable' = DataAvailable \cup ({queue[c] : c \in gone} \ closedQueues)
      /\ UNCHANGED <<listens, closing, SerialOutputs, sending, panicked>>
  BY DEF refreshConnectedClients, CloseQueues
<1>2. new \in SUBSET Keys /\ gone \subseteq Conns /\ \A k \in new : k \notin Devs
  BY RegistryAssumption DEF Keys, Conns
<1>g. \A c \in gone : c \in Conns /\ c[1] \in Clients \ leased /\ c[1] \notin Devs /\ Registered(c)
  BY <1>2, RegistryAssumption
<1> HIDE DEF new, gone
<1>3. /\ made' \in [Keys -> 0..MaxMade]
      /\ \A k \in Keys : made'[k] = IF k \in new THEN made[k] + 1 ELSE made[k]
      /\ \A c \in Conns : c \in Made(new) <=> (c[1] \in new /\ c[2] = made[c[1]] + 1)
      /\ \A c \in Conns : writer'[c] = IF c \in Made(new) THEN "start" ELSE writer[c]
      /\ writer' \in [Conns -> {"none", "start", "lazy", "wait", "check", "write",
                                "close", "done"}]
      /\ Made(new) \subseteq Conns
  BY <1>0, <1>1, <1>2, MakeFacts
<1>4. ASSUME NEW c \in gone PROVE IsMade(c) /\ queue[c] = <<c, "own">>
  <2>1. IsMade(c)
    BY <1>0, <1>g, ConnFacts DEF TypeOK, IsMade, Registered
  <2> QED
    BY <1>0, <1>g, <2>1 DEF ConnInv, Furnished, Lazy, Config
<1>5. /\ closedQueues' = closedQueues \cup {<<c, "own">> : c \in gone}
      /\ DataAvailable' \subseteq DataAvailable \cup {<<c, "own">> : c \in gone}
  BY <1>1, <1>4
<1>6. TypeOK'
  <2>1. clientConnections' \in [Keys -> 0..MaxMade] /\ \A k \in Keys : clientConnections'[k] <= made'[k]
    <3>1. ASSUME NEW k \in Keys
          PROVE  clientConnections'[k] \in 0..MaxMade /\ clientConnections'[k] <= made'[k]
      <4>1. /\ made[k] \in 0..MaxMade /\ clientConnections[k] \in 0..MaxMade
            /\ clientConnections[k] <= made[k] /\ MaxMade \in Nat /\ made'[k] \in 0..MaxMade
        BY <1>0, <1>3, RegistryAssumption DEF TypeOK
      <4>2. CASE k \in new
        BY <1>1, <1>3, <4>1, <4>2
      <4>3. CASE k \notin new
        BY <1>1, <1>3, <4>1, <4>3
      <4> QED
        BY <4>2, <4>3
    <3>2. clientConnections' = [k \in Keys |-> clientConnections'[k]]
      BY <1>1
    <3> QED
      BY <3>1, <3>2
  <2>2. queue' \in [Conns -> Queues \cup {nil}]
    <3>1. \A c \in Conns : <<c, "own">> \in Queues
      BY QueueFacts
    <3>2. \A c \in Conns : queue[c] \in Queues \cup {nil}
      BY <1>0 DEF TypeOK
    <3> QED
      BY <1>1, <3>1, <3>2
  <2>3. open' \subseteq Conns /\ closedQueues' \subseteq Queues /\ DataAvailable' \subseteq Queues
    <3>1. \A c \in gone : <<c, "own">> \in Queues
      BY <1>g, QueueFacts
    <3>2. open \subseteq Conns /\ closedQueues \subseteq Queues /\ DataAvailable \subseteq Queues
      BY <1>0 DEF TypeOK
    <3> QED
      BY <1>1, <1>3, <1>5, <3>1, <3>2
  <2> QED
    BY <1>0, <1>1, <1>3, <2>1, <2>2, <2>3 DEF TypeOK
<1>7. SettingsInv' /\ DiedOfSettings'
  BY <1>0, <1>1, <1>2, <1>3 DEF SettingsInv, DiedOfSettings, Keys
<1>8. ASSUME NEW c \in Conns PROVE ConnInv(c)'
  <2>0. /\ ConnInv(c) /\ c[1] \in Keys /\ c[2] \in Nat /\ made[c[1]] \in Nat
        /\ c = <<c[1], c[2]>> /\ clientConnections[c[1]] \in Nat
        /\ clientConnections[c[1]] <= made[c[1]]
    BY <1>0, ConnFacts, RegistryAssumption DEF TypeOK
  <2>1. CASE c \in Made(new)
    <3>1. ~IsMade(c) /\ c[1] \notin Devs /\ c \notin gone
      BY <1>2, <1>3, <1>4, <2>0, <2>1 DEF IsMade
    <3>2. Unmade(c)
      BY <2>0, <3>1 DEF ConnInv
    <3>3. /\ queue'[c] = <<c, "own">> /\ writer'[c] = "start" /\ c \in open'
          /\ listens'[c] = nil /\ c \notin sending' /\ <<c, "own">> \notin closedQueues'
          /\ closing'[c]["writer"] = "none"
          /\ IsMade(c)'
      BY <1>1, <1>3, <1>5, <2>0, <2>1, <3>1, <3>2 DEF Unmade, IsMade, Callers
    <3> QED
      BY <3>1, <3>3 DEF ConnInv, Furnished, Served, Config
  <2>2. CASE c \in gone
    <3>1. /\ c \notin Made(new) /\ IsMade(c) /\ c[1] \notin Devs
          /\ clientConnections'[c[1]] = 0 /\ c[1] \notin new
      BY <1>1, <1>3, <1>4, <1>g, <2>0, <2>2 DEF new, IsMade
    <3>2. ~Registered(c)' /\ IsMade(c)' /\ queue'[c] = queue[c] /\ writer'[c] = writer[c]
      BY <1>1, <1>3, <2>0, <3>1, ConnFacts DEF Registered, IsMade
    <3>3. Furnished(c)
      BY <2>0, <3>1 DEF ConnInv, Lazy
    <3>4. Furnished(c)'
      BY <1>1, <3>2, <3>3 DEF Furnished, Config
    <3> QED
      BY <1>1, <2>0, <3>1, <3>2, <3>4 DEF ConnInv, Served
  <2>3. CASE c \notin Made(new) /\ c \notin gone
    <3>1. /\ queue'[c] = queue[c] /\ writer'[c] = writer[c]
          /\ c \in open' <=> c \in open
          /\ <<c, "own">> \in closedQueues' <=> <<c, "own">> \in closedQueues
      BY <1>1, <1>3, <1>5, <2>3
    <3>2. IsMade(c)' <=> IsMade(c)
      BY <1>3, <2>0, <2>3 DEF IsMade
    <3>3. Registered(c)' => Registered(c)
      BY <1>1, <1>3, <2>0, <2>3, ConnFacts DEF Registered
    <3>4. (Unmade(c) => Unmade(c)') /\ (Furnished(c) => Furnished(c)')
      BY <1>1, <3>1 DEF Unmade, Furnished, Config
    <3>5. (SerialQueue(c) => SerialQueue(c)') /\ (Lazy(c)' <=> Lazy(c)) /\ (InClose(c)' <=> InClose(c))
      BY <1>1, <3>1 DEF SerialQueue, Lazy, InClose
    <3>6. Served(c) => Served(c)'
      BY <3>1, <3>3, <3>5 DEF Served
    <3> QED
      BY <1>1, <2>0, <3>1, <3>2, <3>4, <3>5, <3>6 DEF ConnInv
  <2> QED
    BY <2>1, <2>2, <2>3
<1> QED
  BY <1>6, <1>7, <1>8 DEF RegistryInv

(* tcpNMEAOutListener keeps the invariant.                                 *)
LEMMA AcceptStep ==
    ASSUME RegistryInv, NEW r \in Remotes, tcpNMEAOutListener(r)
    PROVE  RegistryInv'
<1> DEFINE b == <<r, made[r] + 1>>
<1>0. TypeOK /\ SettingsInv /\ DiedOfSettings /\ \A c \in Conns : ConnInv(c)
  BY DEF RegistryInv
<1>1. /\ Make({r})
      /\ clientConnections' = [clientConnections EXCEPT ![r] = made[r] + 1]
      /\ queue' = [queue EXCEPT ![b] = <<b, "own">>]
      /\ open' = open \cup {b}
      /\ UNCHANGED <<listens, closing, closedQueues, DataAvailable, SerialOutputs, sending, panicked>>
  BY DEF tcpNMEAOutListener
<1>2. r \in Keys /\ r \notin Devs
  BY RegistryAssumption DEF Keys
<1>3. /\ made' \in [Keys -> 0..MaxMade]
      /\ \A k \in Keys : made'[k] = IF k = r THEN made[k] + 1 ELSE made[k]
      /\ \A c \in Conns : c \in Made({r}) <=> (c[1] = r /\ c[2] = made[c[1]] + 1)
      /\ \A c \in Conns : writer'[c] = IF c \in Made({r}) THEN "start" ELSE writer[c]
      /\ writer' \in [Conns -> {"none", "start", "lazy", "wait", "check", "write",
                                "close", "done"}]
  <2>1. {r} \in SUBSET Keys
    BY <1>2
  <2>2. \A k \in Keys : made'[k] = IF k \in {r} THEN made[k] + 1 ELSE made[k]
    BY <1>0, <1>1, <2>1, MakeFacts
  <2>3. \A c \in Conns : c \in Made({r}) <=> (c[1] \in {r} /\ c[2] = made[c[1]] + 1)
    BY <1>0, <1>1, <2>1, MakeFacts
  <2> QED
    BY <1>0, <1>1, <2>1, <2>2, <2>3, MakeFacts
<1>4. b \in Conns /\ Made({r}) = {b}
  <2>1. b \in Made({r}) /\ Made({r}) \subseteq Conns
    BY <1>0, <1>1, <1>2, MakeFacts DEF Made
  <2> QED
    BY <2>1 DEF Made
<1> HIDE DEF b
<1>5. b[1] = r /\ b[2] = made[r] + 1
  BY DEF b
<1>6. TypeOK'
  <2>1. /\ made[r] \in 0..MaxMade /\ MaxMade \in Nat /\ made'[r] = made[r] + 1
        /\ made'[r] \in 0..MaxMade
    BY <1>0, <1>2, <1>3, RegistryAssumption DEF TypeOK
  <2>2. clientConnections' \in [Keys -> 0..MaxMade]
    BY <1>0, <1>1, <1>2, <2>1 DEF TypeOK
  <2>3. \A k \in Keys : clientConnections'[k] <= made'[k]
    BY <1>0, <1>1, <1>2, <1>3, <2>1 DEF TypeOK
  <2>4. queue' \in [Conns -> Queues \cup {nil}]
    <3>1. <<b, "own">> \in Queues
      BY <1>4, QueueFacts
    <3> QED
      BY <1>0, <1>1, <3>1 DEF TypeOK
  <2> QED
    BY <1>0, <1>1, <1>3, <1>4, <2>2, <2>3, <2>4 DEF TypeOK
<1>7. SettingsInv' /\ DiedOfSettings'
  <2>1. Devs \subseteq Keys /\ \A d \in Devs : made'[d] = made[d]
    BY <1>2, <1>3 DEF Keys
  <2> QED
    BY <1>0, <1>1, <2>1 DEF SettingsInv, DiedOfSettings
<1>8. ASSUME NEW c \in Conns PROVE ConnInv(c)'
  <2>0. /\ ConnInv(c) /\ c[1] \in Keys /\ c[2] \in Nat /\ made[c[1]] \in Nat
        /\ queue \in [Conns -> Queues \cup {nil}]
        /\ clientConnections \in [Keys -> 0..MaxMade] /\ c = <<c[1], c[2]>>
    BY <1>0, ConnFacts, RegistryAssumption DEF TypeOK
  <2>1. CASE c = b
    <3>1. ~IsMade(c) /\ c[1] \notin Devs
      BY <1>2, <1>5, <2>0, <2>1 DEF IsMade
    <3>2. Unmade(c)
      BY <2>0, <3>1 DEF ConnInv
    <3>3. /\ queue'[c] = <<c, "own">> /\ writer'[c] = "start" /\ c \in open'
          /\ listens'[c] = nil /\ c \notin sending' /\ <<c, "own">> \notin closedQueues'
          /\ closing'[c]["writer"] = "none"
      BY <1>1, <1>3, <1>4, <2>0, <2>1, <3>1, <3>2 DEF Unmade, Callers
    <3>4. IsMade(c)'
      BY <1>3, <1>5, <2>0, <2>1 DEF IsMade
    <3> QED
      BY <3>1, <3>3, <3>4 DEF ConnInv, Furnished, Served, Config
  <2>2. CASE c # b
    <3>1. /\ queue'[c] = queue[c] /\ writer'[c] = writer[c] /\ (c \in open' <=> c \in open)
      BY <1>1, <1>3, <1>4, <2>0, <2>2
    <3>2. c[1] # r \/ c[2] # made[r] + 1
      BY <2>0, <2>2 DEF b
    <3>3. IsMade(c)' <=> IsMade(c)
      BY <1>3, <2>0, <3>2 DEF IsMade
    <3>4. Registered(c)' => Registered(c)
      BY <1>1, <1>2, <2>0, <3>2 DEF Registered
    <3>5. (Unmade(c) => Unmade(c)') /\ (Furnished(c) => Furnished(c)')
      BY <1>1, <3>1 DEF Unmade, Furnished, Config
    <3>6. (SerialQueue(c) => SerialQueue(c)') /\ (Lazy(c)' <=> Lazy(c)) /\ (InClose(c)' <=> InClose(c))
      BY <1>1, <3>1 DEF SerialQueue, Lazy, InClose
    <3>7. Served(c) => Served(c)'
      BY <1>1, <3>1, <3>4, <3>6 DEF Served
    <3> QED
      BY <1>1, <2>0, <3>1, <3>3, <3>5, <3>6, <3>7 DEF ConnInv
  <2> QED
    BY <2>1, <2>2
<1> QED
  BY <1>6, <1>7, <1>8 DEF RegistryInv

(* serialOutWatcher keeps the invariant.                                   *)
LEMMA WatcherStep ==
    ASSUME RegistryInv, NEW d \in Devs, NEW opened \in BOOLEAN, serialOutWatcher(d, opened)
    PROVE  RegistryInv'
<1> DEFINE config == IF SerialOutputs[d] = absent THEN <<d, "settings">> ELSE SerialOutputs[d]
           new == IF clientConnections[d] = 0 /\ opened THEN {d} ELSE {}
<1>0. TypeOK /\ SettingsInv /\ DiedOfSettings /\ \A c \in Conns : ConnInv(c)
  BY DEF RegistryInv
<1>1. /\ SerialOutputs' = [SerialOutputs EXCEPT ![d] = config]
      /\ Make(new)
      /\ clientConnections' = [k \in Keys |-> IF k \in new THEN made[k] + 1
                                              ELSE clientConnections[k]]
      /\ queue' = [c \in Conns |-> IF c \in Made(new) THEN config ELSE queue[c]]
      /\ open' = open \cup Made(new)
      /\ UNCHANGED <<listens, closing, closedQueues, DataAvailable, sending, panicked>>
  BY DEF serialOutWatcher
<1>2. new \in SUBSET Keys /\ new \subseteq {d} /\ d \in Keys
  BY DEF Keys
<1>3. /\ config = IF SerialOutputs[d] = nil THEN nil ELSE <<d, "settings">>
      /\ SerialOutputs[d] # nil => config = <<d, "settings">>
      /\ SerialOutputs[d] = nil => config = nil
      /\ SerialOutputs[d] \in {absent, nil, <<d, "settings">>}
      /\ SerialOutputs[d] = absent => made[d] = 0
  BY <1>0, RegistryAssumption DEF SettingsInv
<1> HIDE DEF new, config
<1>4. /\ made' \in [Keys -> 0..MaxMade]
      /\ \A k \in Keys : made'[k] = IF k \in new THEN made[k] + 1 ELSE made[k]
      /\ \A c \in Conns : c \in Made(new) <=> (c[1] \in new /\ c[2] = made[c[1]] + 1)
      /\ \A c \in Conns : writer'[c] = IF c \in Made(new) THEN "start" ELSE writer[c]
      /\ writer' \in [Conns -> {"none", "start", "lazy", "wait", "check", "write",
                                "close", "done"}]
      /\ Made(new) \subseteq Conns
  BY <1>0, <1>1, <1>2, MakeFacts
<1>5. config \in Queues \cup {nil} /\ config # absent /\ config \in {nil, <<d, "settings">>}
  <2>1. <<d, "settings">> \in Queues
    BY DEF Queues
  <2> QED
    BY <1>3, <2>1, RegistryAssumption
<1>6. TypeOK'
  <2>1. clientConnections' \in [Keys -> 0..MaxMade] /\ \A k \in Keys : clientConnections'[k] <= made'[k]
    <3>1. ASSUME NEW k \in Keys
          PROVE  clientConnections'[k] \in 0..MaxMade /\ clientConnections'[k] <= made'[k]
      <4>1. /\ made[k] \in 0..MaxMade /\ clientConnections[k] \in 0..MaxMade
            /\ clientConnections[k] <= made[k] /\ MaxMade \in Nat /\ made'[k] \in 0..MaxMade
        BY <1>0, <1>4, RegistryAssumption DEF TypeOK
      <4>2. CASE k \in new
        BY <1>1, <1>4, <4>1, <4>2
      <4>3. CASE k \notin new
        BY <1>1, <1>4, <4>1, <4>3
      <4> QED
        BY <4>2, <4>3
    <3>2. clientConnections' = [k \in Keys |-> clientConnections'[k]]
      BY <1>1
    <3> QED
      BY <3>1, <3>2
  <2>2. queue' \in [Conns -> Queues \cup {nil}]
    <3>1. \A c \in Conns : queue[c] \in Queues \cup {nil}
      BY <1>0 DEF TypeOK
    <3> QED
      BY <1>1, <1>5, <3>1
  <2>3. SerialOutputs' \in [Devs -> Queues \cup {absent, nil}]
    BY <1>0, <1>1, <1>5 DEF TypeOK
  <2> QED
    BY <1>0, <1>1, <1>4, <2>1, <2>2, <2>3 DEF TypeOK
<1>7. \A e \in Devs : SerialOutputs'[e] = IF e = d THEN config ELSE SerialOutputs[e]
  BY <1>0, <1>1 DEF TypeOK
<1>8. \A e \in Devs : SerialOutputs'[e] = nil <=> SerialOutputs[e] = nil
  BY <1>3, <1>7, RegistryAssumption DEF Queues
<1>9. SettingsInv' /\ DiedOfSettings'
  <2>1. ASSUME NEW e \in Devs
        PROVE  /\ SerialOutputs'[e] \in {absent, nil, <<e, "settings">>}
               /\ SerialOutputs'[e] = absent => made'[e] = 0
    <3>1. e \in Keys
      BY DEF Keys
    <3>2. CASE e = d
      BY <1>5, <1>7, <3>2
    <3>3. CASE e # d
      BY <1>0, <1>2, <1>4, <1>7, <3>1, <3>3 DEF SettingsInv
    <3> QED
      BY <3>2, <3>3
  <2> QED
    BY <1>0, <1>1, <1>8, <2>1 DEF SettingsInv, DiedOfSettings
<1>10. ASSUME NEW c \in Conns PROVE ConnInv(c)'
  <2>0. /\ ConnInv(c) /\ c[1] \in Keys /\ c[2] \in Nat /\ made[c[1]] \in Nat
        /\ c[2] >= 1
    BY <1>0, ConnFacts, RegistryAssumption DEF TypeOK
  <2>l. Lazy(c)' <=> Lazy(c)
    BY <1>8 DEF Lazy
  <2>1. CASE c \in Made(new)
    <3>1. ~IsMade(c) /\ c[1] = d
      BY <1>2, <1>4, <2>0, <2>1 DEF IsMade
    <3>2. Unmade(c)
      BY <2>0, <3>1 DEF ConnInv
    <3>3. /\ queue'[c] = config /\ writer'[c] = "start" /\ c \notin sending'
          /\ listens'[c] = nil /\ closing'[c]["writer"] = "none"
      BY <1>1, <1>4, <2>0, <2>1, <3>1, <3>2 DEF Unmade, Callers
    <3>4. IsMade(c)'
      BY <1>4, <2>0, <2>1 DEF IsMade
    <3>5. ~Lazy(c)' => Furnished(c)'
      BY <1>3, <2>l, <3>1, <3>3 DEF Lazy, Furnished, Config
    <3>6. SerialQueue(c)'
      BY <1>5, <3>1, <3>3 DEF SerialQueue
    <3> QED
      BY <3>1, <3>3, <3>4, <3>5, <3>6 DEF ConnInv
  <2>2. CASE c \notin Made(new)
    <3>1. /\ queue'[c] = queue[c] /\ writer'[c] = writer[c]
          /\ c \in open' <=> c \in open
      BY <1>1, <1>4, <2>2
    <3>2. IsMade(c)' <=> IsMade(c)
      BY <1>4, <2>0, <2>2 DEF IsMade
    <3>3. c[1] \notin Devs => (Registered(c)' <=> Registered(c))
      BY <1>1, <1>2, <2>0 DEF Registered
    <3>4. (Unmade(c) => Unmade(c)') /\ (Furnished(c) => Furnished(c)')
      BY <1>1, <3>1 DEF Unmade, Furnished, Config
    <3>5. (SerialQueue(c) => SerialQueue(c)') /\ (InClose(c)' <=> InClose(c))
      BY <1>1, <3>1 DEF SerialQueue, InClose
    <3>6. (c[1] \notin Devs /\ Served(c)) => Served(c)'
      BY <1>1, <3>1, <3>3, <3>5 DEF Served
    <3> QED
      BY <1>1, <2>0, <2>l, <3>1, <3>2, <3>4, <3>5, <3>6 DEF ConnInv
  <2> QED
    BY <2>1, <2>2
<1> QED
  BY <1>6, <1>9, <1>10 DEF RegistryInv

-------------------------------------------------------------------------------
(* The steps of one connection.                                            *)

(* The other connections notice only that theirs left the map.             *)
LEMMA Bystander ==
    ASSUME NEW c \in Conns, ConnInv(c), UNCHANGED <<made, SerialOutputs>>,
           queue'[c] = queue[c], writer'[c] = writer[c], listens'[c] = listens[c],
           closing'[c] = closing[c], c \in open' <=> c \in open, c \in sending' => c \in sending,
           closedQueues \subseteq closedQueues',
           <<c, "own">> \in closedQueues' => <<c, "own">> \in closedQueues,
           Registered(c)' => Registered(c)
    PROVE  ConnInv(c)'
<1>1. (Lazy(c)' <=> Lazy(c)) /\ (IsMade(c)' <=> IsMade(c)) /\ (InClose(c)' <=> InClose(c))
  BY DEF Lazy, IsMade, InClose
<1>2. (Unmade(c) => Unmade(c)') /\ (Furnished(c) => Furnished(c)')
  BY DEF Unmade, Furnished, Config
<1>3. (SerialQueue(c) => SerialQueue(c)') /\ (Served(c) => Served(c)')
  BY <1>1 DEF SerialQueue, Served
<1> QED
  BY <1>1, <1>2, <1>3 DEF ConnInv

(* A connection with a goroutine or a Close has been made; one without a   *)
(* queue is lazy.                                                          *)
LEMMA ActsWhenMade ==
    ASSUME NEW c \in Conns, ConnInv(c)
    PROVE  /\ writer[c] # "none" => IsMade(c)
           /\ \A w \in Callers : closing[c][w] # "none" => IsMade(c)
           /\ (IsMade(c) /\ queue[c] = nil) => Lazy(c)
           /\ c \in sending => Lazy(c)
           /\ writer[c] = "lazy" => Lazy(c)
<1>1. Config(c) # nil
  BY QueueFacts
<1> QED
  BY <1>1 DEF ConnInv, Unmade, Furnished

(* The goroutine of a connection keeps the invariant.                      *)
LEMMA WriterSteps ==
    ASSUME RegistryInv, NEW b \in Conns, WriterStep(b)
    PROVE  RegistryInv'
<1>0. TypeOK /\ SettingsInv /\ DiedOfSettings /\ \A c \in Conns : ConnInv(c)
  BY DEF RegistryInv
<1>t. /\ queue \in [Conns -> Queues \cup {nil}] /\ listens \in [Conns -> Queues \cup {nil}]
      /\ writer \in [Conns -> {"none", "start", "lazy", "wait", "check", "write",
                               "close", "done"}]
      /\ closing \in [Conns -> [Callers -> {"none", "port", "queue", "registry"}]]
      /\ "writer" \in Callers
  BY <1>0 DEF TypeOK, Callers
<1>b. ConnInv(b)
  BY <1>0
<1>u. /\ UNCHANGED <<clientConnections, made, open, closedQueues, SerialOutputs, sending, panicked>>
      /\ DataAvailable' \subseteq DataAvailable
  BY DEF WriterStep, WriterStart, WriterQueue, WriterWake, WriterReturn, WriterCollect,
         WriterWrote, OnError
<1>s. SettingsInv' /\ DiedOfSettings'
  BY <1>0, <1>u DEF SettingsInv, DiedOfSettings
<1>r. /\ Lazy(b)' <=> Lazy(b)
      /\ IsMade(b)' <=> IsMade(b)
      /\ Registered(b)' <=> Registered(b)
  BY <1>u DEF Lazy, IsMade, Registered
<1>o. ASSUME \A c \in Conns : c # b => /\ queue'[c] = queue[c] /\ writer'[c] = writer[c]
                                        /\ listens'[c] = listens[c] /\ closing'[c] = closing[c],
             ConnInv(b)',
             queue' \in [Conns -> Queues \cup {nil}], listens' \in [Conns -> Queues \cup {nil}],
             writer' \in [Conns -> {"none", "start", "lazy", "wait", "check", "write",
                                    "close", "done"}],
             closing' \in [Conns -> [Callers -> {"none", "port", "queue", "registry"}]]
      PROVE  RegistryInv'
  <2>1. ASSUME NEW c \in Conns, c # b PROVE ConnInv(c)'
    <3>1. Registered(c)' => Registered(c)
      BY <1>u DEF Registered
    <3> QED
      BY <1>0, <1>u, <1>o, <2>1, <3>1, Bystander
  <2>2. TypeOK'
    BY <1>0, <1>u, <1>o DEF TypeOK
  <2> QED
    BY <1>s, <1>o, <2>1, <2>2 DEF RegistryInv
<1>1. CASE WriterStart(b)
  <2>1. IsMade(b)
    BY <1>1, <1>b, ActsWhenMade DEF WriterStart
  <2>2. CASE queue[b] = nil
    <3>1. /\ writer' = [writer EXCEPT ![b] = "lazy"] /\ UNCHANGED <<listens, queue, closing>>
          /\ writer[b] = "start"
      BY <1>1, <2>2 DEF WriterStart
    <3>2. Lazy(b)
      BY <1>b, <2>1, <2>2, ActsWhenMade
    <3>3. ConnInv(b)'
      BY <1>b, <1>t, <1>u, <1>r, <2>1, <3>1, <3>2 DEF ConnInv, SerialQueue, Lazy
    <3> QED
      BY <1>t, <1>o, <3>1, <3>3
  <2>3. CASE queue[b] # nil
    <3>1. /\ writer' = [writer EXCEPT ![b] = "wait"] /\ listens' = [listens EXCEPT ![b] = queue[b]]
          /\ UNCHANGED <<queue, closing>> /\ writer[b] = "start"
      BY <1>1, <2>3 DEF WriterStart
    <3>2. Furnished(b) => Furnished(b)'
      BY <1>t, <1>u, <3>1 DEF Furnished, Config
    <3>3. (SerialQueue(b) => SerialQueue(b)') /\ (Served(b) => Served(b)')
      BY <1>u, <1>r, <3>1 DEF SerialQueue, Served, InClose
    <3>4. ConnInv(b)'
      BY <1>b, <1>t, <1>r, <2>1, <3>1, <3>2, <3>3 DEF ConnInv
    <3> QED
      BY <1>t, <1>o, <3>1, <3>4
  <2> QED
    BY <2>2, <2>3
<1>2. CASE WriterQueue(b)
  <2>1. /\ writer' = [writer EXCEPT ![b] = "wait"] /\ listens' = [listens EXCEPT ![b] = <<b, "writer">>]
        /\ queue' = [queue EXCEPT ![b] = <<b, "writer">>]
        /\ UNCHANGED closing /\ writer[b] = "lazy"
    BY <1>2 DEF WriterQueue
  <2>2. IsMade(b) /\ Lazy(b) /\ <<b, "writer">> \in Queues
    BY <1>b, <2>1, ActsWhenMade, QueueFacts
  <2>3. ConnInv(b)'
    BY <1>b, <1>t, <1>u, <1>r, <2>1, <2>2 DEF ConnInv, SerialQueue, Lazy
  <2> QED
    BY <1>t, <1>o, <2>1, <2>2, <2>3
<1>3. ASSUME NEW to \in {"wait", "check", "write", "done"}, writer' = [writer EXCEPT ![b] = to],
             UNCHANGED <<queue, closing>>, writer[b] \in {"wait", "check", "write"},
             listens' = listens \/ listens' = [listens EXCEPT ![b] = queue[b]],
             to = "done" => listens' = listens /\ listens[b] \in closedQueues
      PROVE  RegistryInv'
  <2>1. IsMade(b)
    BY <1>3, <1>b, ActsWhenMade
  <2>2. Furnished(b) => Furnished(b)'
    BY <1>t, <1>u, <1>3 DEF Furnished, Config
  <2>3. (SerialQueue(b) => SerialQueue(b)') /\ (Served(b) => Served(b)')
    BY <1>u, <1>r, <1>3 DEF SerialQueue, Served, InClose
  <2>4. ConnInv(b)'
    BY <1>b, <1>t, <1>u, <1>r, <1>3, <2>1, <2>2, <2>3 DEF ConnInv
  <2> QED
    BY <1>t, <1>o, <1>3, <2>4
<1>4. CASE WriterWake(b)
  BY <1>3, <1>4 DEF WriterWake
<1>5. CASE WriterReturn(b)
  BY <1>3, <1>5 DEF WriterReturn
<1>6. CASE WriterCollect(b)
  BY <1>3, <1>6 DEF WriterCollect
<1>8. CASE WriterWrote(b)
  BY <1>3, <1>8 DEF WriterWrote
<1>7. CASE OnError(b)
  <2>1. CASE b[1] \in Clients
    BY <1>3, <1>7, <2>1 DEF OnError
  <2>2. CASE b[1] \notin Clients
    <3>1. /\ writer' = [writer EXCEPT ![b] = "close"] /\ writer[b] = "write"
          /\ closing' = [closing EXCEPT ![b]["writer"] = "port"]
          /\ UNCHANGED <<queue, listens>>
      BY <1>7, <2>2 DEF OnError
    <3>2. IsMade(b) /\ closing'[b]["writer"] = "port"
      BY <1>b, <1>t, <3>1, ActsWhenMade
    <3>3. InClose(b)'
      BY <1>t, <3>2 DEF InClose
    <3>4. Furnished(b) => Furnished(b)'
      BY <1>t, <1>u, <3>1 DEF Furnished, Config
    <3>5. SerialQueue(b) => SerialQueue(b)'
      BY <1>u, <3>1 DEF SerialQueue
    <3>6. ConnInv(b)'
      BY <1>b, <1>t, <1>r, <3>1, <3>2, <3>3, <3>4, <3>5 DEF ConnInv, Served
    <3>7. closing' \in [Conns -> [Callers -> {"none", "port", "queue", "registry"}]]
      BY <1>t, <3>1
    <3> QED
      BY <1>t, <1>o, <3>1, <3>6, <3>7
  <2> QED
    BY <2>1, <2>2
<1> QED
  BY <1>1, <1>2, <1>4, <1>5, <1>6, <1>7, <1>8 DEF WriterStep

(* Close of a connection keeps the invariant, wherever it is interrupted.  *)
LEMMA CloseSteps ==
    ASSUME RegistryInv, NEW b \in Conns, CloseStep(b)
    PROVE  RegistryInv'
<1>0. TypeOK /\ SettingsInv /\ DiedOfSettings /\ \A c \in Conns : ConnInv(c)
  BY DEF RegistryInv
<1>t. /\ queue \in [Conns -> Queues \cup {nil}] /\ open \subseteq Conns
      /\ writer \in [Conns -> {"none", "start", "lazy", "wait", "check", "write",
                               "close", "done"}]
      /\ closing \in [Conns -> [Callers -> {"none", "port", "queue", "registry"}]]
      /\ clientConnections \in [Keys -> 0..MaxMade]
      /\ closedQueues \subseteq Queues /\ DataAvailable \subseteq Queues
      /\ b[1] \in Keys /\ b[2] \in 1..MaxMade /\ MaxMade \in Nat
  BY <1>0, ConnFacts, RegistryAssumption DEF TypeOK
<1>b. ConnInv(b)
  BY <1>0
<1>u. UNCHANGED <<made, queue, listens, SerialOutputs, sending>>
  BY DEF CloseStep, ClosePort, CloseQueue, CloseNilQueue, onConnectionClosed
<1>s. SettingsInv'
  BY <1>0, <1>u DEF SettingsInv
<1>r. /\ Lazy(b)' <=> Lazy(b)
      /\ IsMade(b)' <=> IsMade(b)
      /\ SerialQueue(b)' <=> SerialQueue(b)
  BY <1>u DEF Lazy, IsMade, SerialQueue
<1>o. ASSUME \A c \in Conns \ {b} :
                /\ writer'[c] = writer[c] /\ closing'[c] = closing[c] /\ (c \in open' <=> c \in open)
                /\ (<<c, "own">> \in closedQueues' => <<c, "own">> \in closedQueues),
             \A c \in Conns : Registered(c)' => Registered(c),
             closedQueues \subseteq closedQueues', ConnInv(b)', DiedOfSettings', TypeOK'
      PROVE  RegistryInv'
  <2>1. ASSUME NEW c \in Conns, c # b PROVE ConnInv(c)'
    <3>1. /\ writer'[c] = writer[c] /\ closing'[c] = closing[c] /\ (c \in open' <=> c \in open)
          /\ <<c, "own">> \in closedQueues' => <<c, "own">> \in closedQueues
      BY <1>o, <2>1
    <3>2. Registered(c)' => Registered(c)
      BY <1>o, <2>1
    <3>3. ConnInv(c) /\ queue'[c] = queue[c] /\ listens'[c] = listens[c]
      BY <1>0, <1>u
    <3> QED
      BY <1>u, <1>o, <3>1, <3>2, <3>3, Bystander
  <2> QED
    BY <1>s, <1>o, <2>1 DEF RegistryInv
<1>1. ASSUME NEW w \in Callers, ClosePort(b, w) PROVE RegistryInv'
  <2>1. /\ closing[b][w] = "port" /\ open' = open \ {b}
        /\ closing' = [closing EXCEPT ![b][w] = "queue"]
        /\ UNCHANGED <<clientConnections, writer, closedQueues, DataAvailable, panicked>>
    BY <1>1 DEF ClosePort
  <2>2. IsMade(b)
    BY <1>b, <2>1, ActsWhenMade
  <2>3. /\ InClose(b)'
        /\ closing'[b]["writer"] # "none" => closing[b]["writer"] # "none"
        /\ closing' \in [Conns -> [Callers -> {"none", "port", "queue", "registry"}]]
    BY <1>t, <2>1 DEF InClose, Callers
  <2>4. Furnished(b) => Furnished(b)'
    BY <1>u, <2>1 DEF Furnished, Config
  <2>5. ConnInv(b)'
    BY <1>b, <1>u, <1>r, <2>1, <2>2, <2>3, <2>4 DEF ConnInv, Served
  <2>6. TypeOK' /\ DiedOfSettings'
    BY <1>0, <1>u, <2>1, <2>3 DEF TypeOK, DiedOfSettings
  <2>7. \A c \in Conns : c # b => closing'[c] = closing[c] /\ (c \in open' <=> c \in open)
    BY <1>t, <2>1
  <2>8. \A c \in Conns : Registered(c)' => Registered(c)
    BY <2>1 DEF Registered
  <2> QED
    BY <1>o, <2>1, <2>5, <2>6, <2>7, <2>8
<1>2. ASSUME NEW w \in Callers, CloseQueue(b, w) PROVE RegistryInv'
  <2>1. /\ closing[b][w] = "queue" /\ queue[b] # nil
        /\ closedQueues' = closedQueues \cup {queue[b]}
        /\ DataAvailable' \subseteq DataAvailable \cup {queue[b]}
        /\ closing' = [closing EXCEPT ![b][w] = "registry"]
        /\ UNCHANGED <<clientConnections, writer, open, panicked>>
    BY <1>2 DEF CloseQueue, CloseQueues
  <2>2. IsMade(b)
    BY <1>b, <2>1, ActsWhenMade
  <2>3. /\ InClose(b)'
        /\ closing'[b]["writer"] # "none" => closing[b]["writer"] # "none"
        /\ closing' \in [Conns -> [Callers -> {"none", "port", "queue", "registry"}]]
    BY <1>t, <2>1 DEF InClose, Callers
  <2>4. Furnished(b) => Furnished(b)'
    BY <1>u, <2>1 DEF Furnished, Config
  <2>5. ConnInv(b)'
    BY <1>b, <1>u, <1>r, <2>1, <2>2, <2>3, <2>4 DEF ConnInv, Served
  <2>6. TypeOK' /\ DiedOfSettings'
    <3>1. closedQueues' \subseteq Queues /\ DataAvailable' \subseteq Queues
      BY <1>t, <2>1
    <3> QED
      BY <1>0, <1>u, <2>1, <2>3, <3>1 DEF TypeOK, DiedOfSettings
  <2>7. ASSUME NEW c \in Conns, c # b
        PROVE  closing'[c] = closing[c] /\ queue[b] # <<c, "own">>
    <3>1. closing'[c] = closing[c]
      BY <1>t, <2>1, <2>7
    <3>2. CASE b[1] \in Devs
      <4>1. queue[b] \in {nil, <<b[1], "settings">>, <<b, "writer">>, <<b, "sendMsg">>}
        BY <1>b, <3>2 DEF ConnInv, SerialQueue
      <4>2. <<c, "own">> # nil
        BY RegistryAssumption, QueueFacts
      <4> QED
        BY <3>1, <4>1, <4>2
    <3>3. CASE b[1] \notin Devs
      BY <1>b, <2>2, <2>7, <3>1, <3>3 DEF ConnInv, Furnished, Config, Lazy
    <3> QED
      BY <3>2, <3>3
  <2>8. \A c \in Conns : Registered(c)' => Registered(c)
    BY <2>1 DEF Registered
  <2> QED
    BY <1>o, <2>1, <2>5, <2>6, <2>7, <2>8
<1>3. ASSUME NEW w \in Callers, CloseNilQueue(b, w) PROVE RegistryInv'
  <2>1. /\ closing[b][w] = "queue" /\ queue[b] = nil /\ panicked' = TRUE
        /\ UNCHANGED <<clientConnections, writer, open, closing, closedQueues, DataAvailable>>
    BY <1>3 DEF CloseNilQueue
  <2>2. IsMade(b) /\ Lazy(b)
    BY <1>b, <2>1, ActsWhenMade
  <2>3. DiedOfSettings'
    BY <1>u, <2>2 DEF DiedOfSettings, Lazy
  <2>4. panicked' \in BOOLEAN
    BY <2>1, Zenon
  <2>5. TypeOK'
    BY <1>0, <1>u, <2>1, <2>4 DEF TypeOK
  <2>6. \A c \in Conns : Registered(c)' => Registered(c)
    BY <2>1 DEF Registered
  <2>7. ConnInv(b)'
    BY <1>b, <1>u, <2>1, <2>6, Bystander
  <2> QED
    BY <1>o, <2>1, <2>3, <2>5, <2>6, <2>7
<1>4. ASSUME NEW w \in Callers, onConnectionClosed(b, w) PROVE RegistryInv'
  <2>1. /\ closing[b][w] = "registry"
        /\ clientConnections' = [clientConnections EXCEPT ![b[1]] = 0]
        /\ closing' = [closing EXCEPT ![b][w] = "none"]
        /\ writer' = IF w = "writer" THEN [writer EXCEPT ![b] = "check"] ELSE writer
        /\ UNCHANGED <<open, closedQueues, DataAvailable, panicked>>
    BY <1>4 DEF onConnectionClosed
  <2>2. IsMade(b)
    BY <1>b, <2>1, ActsWhenMade
  <2>3. /\ closing' \in [Conns -> [Callers -> {"none", "port", "queue", "registry"}]]
        /\ w = "writer" => closing'[b]["writer"] = "none"
        /\ w # "writer" => closing'[b]["writer"] = closing[b]["writer"]
    BY <1>t, <2>1 DEF Callers
  <2>4. /\ writer' \in [Conns -> {"none", "start", "lazy", "wait", "check", "write",
                                  "close", "done"}]
        /\ w = "writer" => writer'[b] = "check" /\ writer[b] = "close"
        /\ w # "writer" => writer'[b] = writer[b]
    BY <1>b, <1>t, <2>1 DEF ConnInv
  <2>5. /\ clientConnections' \in [Keys -> 0..MaxMade]
        /\ \A k \in Keys : clientConnections'[k] = IF k = b[1] THEN 0 ELSE clientConnections[k]
    BY <1>t, <2>1
  <2>6. \A c \in Conns : Registered(c)' => Registered(c) /\ c[1] # b[1]
    BY <1>t, <2>5, ConnFacts DEF Registered
  <2>7. Furnished(b) => Furnished(b)'
    BY <1>u, <2>4 DEF Furnished, Config
  <2>8. ConnInv(b)'
    BY <1>b, <1>u, <1>r, <2>1, <2>2, <2>3, <2>4, <2>6, <2>7 DEF ConnInv, Served
  <2>9. TypeOK' /\ DiedOfSettings'
    <3>1. \A k \in Keys : clientConnections'[k] <= made'[k]
      BY <1>0, <1>u, <2>5, RegistryAssumption DEF TypeOK
    <3> QED
      BY <1>0, <1>u, <2>1, <2>3, <2>4, <2>5, <3>1 DEF TypeOK, DiedOfSettings
  <2>10. \A c \in Conns : c # b => closing'[c] = closing[c] /\ writer'[c] = writer[c]
    BY <1>t, <2>1
  <2> QED
    BY <1>o, <2>1, <2>6, <2>8, <2>9, <2>10
<1> QED
  BY <1>1, <1>2, <1>3, <1>4 DEF CloseStep

(* closeSerial and sendMsg keep the invariant.                             *)
LEMMA SharedSteps ==
    ASSUME RegistryInv, NEW b \in Conns,
           closeSerial(b) \/ SendStart(b) \/ SendQueue(b) \/ SendPut(b)
    PROVE  RegistryInv'
<1>0. TypeOK /\ SettingsInv /\ DiedOfSettings /\ \A c \in Conns : ConnInv(c)
  BY DEF RegistryInv
<1>t. /\ queue \in [Conns -> Queues \cup {nil}] /\ DataAvailable \subseteq Queues
      /\ closing \in [Conns -> [Callers -> {"none", "port", "queue", "registry"}]]
      /\ clientConnections \in [Keys -> 0..MaxMade]
      /\ b[1] \in Keys /\ b[2] \in 1..MaxMade /\ MaxMade \in Nat
  BY <1>0, ConnFacts, RegistryAssumption DEF TypeOK
<1>b. ConnInv(b)
  BY <1>0
<1>u. UNCHANGED <<made, open, writer, listens, closedQueues, SerialOutputs, panicked>>
  BY DEF closeSerial, SendStart, SendQueue, SendPut
<1>s. SettingsInv' /\ DiedOfSettings'
  BY <1>0, <1>u DEF SettingsInv, DiedOfSettings
<1>r. (Lazy(b)' <=> Lazy(b)) /\ (IsMade(b)' <=> IsMade(b))
  BY <1>u DEF Lazy, IsMade
<1>m. Registered(b) => IsMade(b)
  BY <1>0, <1>t DEF Registered, IsMade, TypeOK
<1>1. CASE closeSerial(b)
  <2>1. /\ b[1] \in Devs /\ Registered(b)
        /\ clientConnections' = [clientConnections EXCEPT ![b[1]] = 0]
        /\ closing' = [closing EXCEPT ![b]["closeSerial"] = "port"]
        /\ UNCHANGED <<queue, sending, DataAvailable>>
    BY <1>1 DEF closeSerial
  <2>2. /\ clientConnections' \in [Keys -> 0..MaxMade]
        /\ \A k \in Keys : clientConnections'[k] = IF k = b[1] THEN 0 ELSE clientConnections[k]
    BY <1>t, <2>1
  <2>3. /\ closing' \in [Conns -> [Callers -> {"none", "port", "queue", "registry"}]]
        /\ closing'[b]["writer"] = closing[b]["writer"]
        /\ \A c \in Conns : c # b => closing'[c] = closing[c]
    BY <1>t, <2>1 DEF Callers
  <2>4. \A c \in Conns : Registered(c)' => Registered(c)
    BY <1>t, <2>2, ConnFacts DEF Registered
  <2>5. ConnInv(b)'
    <3>1. (Furnished(b) => Furnished(b)') /\ (SerialQueue(b) => SerialQueue(b)')
      BY <1>u, <2>1 DEF Furnished, Config, SerialQueue
    <3> QED
      BY <1>b, <1>u, <1>r, <1>m, <2>1, <2>3, <3>1 DEF ConnInv
  <2>6. ASSUME NEW c \in Conns, c # b PROVE ConnInv(c)'
    BY <1>0, <1>u, <2>1, <2>3, <2>4, <2>6, Bystander
  <2>7. TypeOK'
    <3>1. \A k \in Keys : clientConnections'[k] <= made'[k]
      BY <1>0, <1>u, <2>2, RegistryAssumption DEF TypeOK
    <3> QED
      BY <1>0, <1>u, <2>1, <2>2, <2>3, <3>1 DEF TypeOK
  <2> QED
    BY <1>s, <2>5, <2>6, <2>7 DEF RegistryInv
<1>2. CASE SendStart(b)
  <2>1. /\ Registered(b) /\ queue[b] = nil /\ sending' = {b}
        /\ UNCHANGED <<clientConnections, queue, closing, DataAvailable>>
    BY <1>2 DEF SendStart
  <2>2. IsMade(b) /\ Lazy(b)
    BY <1>b, <1>m, <2>1, ActsWhenMade
  <2>3. \A c \in Conns : Registered(c)' => Registered(c)
    BY <2>1 DEF Registered
  <2>4. ConnInv(b)'
    <3>1. SerialQueue(b) => SerialQueue(b)'
      BY <2>1 DEF SerialQueue
    <3> QED
      BY <1>b, <1>u, <1>r, <2>1, <2>2, <3>1 DEF ConnInv, Lazy
  <2>5. ASSUME NEW c \in Conns, c # b PROVE ConnInv(c)'
    BY <1>0, <1>u, <2>1, <2>3, <2>5, Bystander
  <2>6. TypeOK'
    BY <1>0, <1>u, <2>1 DEF TypeOK
  <2> QED
    BY <1>s, <2>4, <2>5, <2>6 DEF RegistryInv
<1>3. CASE SendQueue(b)
  <2>1. /\ b \in sending /\ queue' = [queue EXCEPT ![b] = <<b, "sendMsg">>] /\ sending' = {}
        /\ DataAvailable' = DataAvailable \cup {<<b, "sendMsg">>}
        /\ UNCHANGED <<clientConnections, closing>>
    BY <1>3 DEF SendQueue
  <2>2. IsMade(b) /\ Lazy(b) /\ <<b, "sendMsg">> \in Queues
    BY <1>b, <2>1, ActsWhenMade, QueueFacts DEF ConnInv, Unmade
  <2>3. \A c \in Conns : Registered(c)' => Registered(c)
    BY <2>1 DEF Registered
  <2>4. ConnInv(b)'
    BY <1>b, <1>t, <1>u, <1>r, <2>1, <2>2 DEF ConnInv, SerialQueue, Lazy
  <2>5. ASSUME NEW c \in Conns, c # b PROVE ConnInv(c)'
    BY <1>0, <1>t, <1>u, <2>1, <2>3, <2>5, Bystander
  <2>6. TypeOK'
    <3>1. queue' \in [Conns -> Queues \cup {nil}] /\ DataAvailable' \subseteq Queues
      BY <1>t, <2>1, <2>2
    <3> QED
      BY <1>0, <1>u, <2>1, <3>1 DEF TypeOK
  <2> QED
    BY <1>s, <2>4, <2>5, <2>6 DEF RegistryInv
<1>4. CASE SendPut(b)
  <2>1. /\ queue[b] # nil /\ DataAvailable' = DataAvailable \cup {queue[b]}
        /\ UNCHANGED <<clientConnections, queue, closing, sending>>
    BY <1>4 DEF SendPut
  <2>2. ASSUME NEW c \in Conns PROVE ConnInv(c)'
    <3>1. Registered(c)' => Registered(c)
      BY <2>1 DEF Registered
    <3> QED
      BY <1>0, <1>u, <2>1, <3>1, Bystander
  <2>3. DataAvailable' \subseteq Queues
    BY <1>t, <2>1
  <2>4. TypeOK'
    BY <1>0, <1>u, <2>1, <2>3 DEF TypeOK
  <2> QED
    BY <1>s, <2>2, <2>4 DEF RegistryInv
<1> QED
  BY <1>1, <1>2, <1>3, <1>4

-------------------------------------------------------------------------------
(* THEOREM: in every reachable state a connection has the queue it was     *)
(* made with, its writer listens to that one, and what is registered and   *)
(* not being closed is open.                                               *)
THEOREM RegistryInvariant == Spec => []RegistryInv
<1>1. ASSUME RegistryInv, Next PROVE RegistryInv'
  BY <1>1, RefreshStep, AcceptStep, WatcherStep, WriterSteps, CloseSteps, SharedSteps
  DEF Next, Running
<1>2. ASSUME RegistryInv, UNCHANGED vars PROVE RegistryInv'
  <2>1. ASSUME NEW c \in Conns PROVE ConnInv(c)'
    <3>1. Registered(c)' => Registered(c)
      BY <1>2 DEF vars, Registered
    <3> QED
      BY <1>2, <3>1, Bystander DEF vars, RegistryInv
  <2>2. TypeOK' /\ SettingsInv' /\ DiedOfSettings'
    BY <1>2 DEF vars, RegistryInv, TypeOK, SettingsInv, DiedOfSettings
  <2> QED
    BY <2>1, <2>2 DEF RegistryInv
<1> QED
  BY InitInv, <1>1, <1>2, PTL DEF Spec

(* THEOREM: a UDP or TCP connection in the map has an open socket, an open *)
(* queue and a writer that runs, unless its Close is under way.            *)
THEOREM RegistryWorks == Spec => []RegisteredIsServed
<1>1. ASSUME RegistryInv PROVE RegisteredIsServed
  <2> SUFFICES ASSUME NEW c \in Conns, Registered(c), c[1] \notin Devs, ~InClose(c)
               PROVE  c \in open /\ queue[c] \notin closedQueues /\ writer[c] # "done"
    BY DEF RegisteredIsServed
  <2>1. ConnInv(c) /\ TypeOK /\ c[1] \in Keys /\ c[2] \in 1..MaxMade
    BY <1>1, ConnFacts DEF RegistryInv
  <2>2. IsMade(c)
    BY <2>1, RegistryAssumption DEF IsMade, Registered, TypeOK
  <2>3. Furnished(c) /\ Served(c) /\ Config(c) = <<c, "own">>
    BY <2>1, <2>2 DEF ConnInv, Lazy, Config
  <2> QED
    BY <2>1, <2>3 DEF ConnInv, Furnished, Served
<1> QED
  BY RegistryInvariant, <1>1, PTL

(* THEOREM: only a serial output that the settings file named can have an  *)
(* orphaned writer, or a Close that dereferences a missing queue.          *)
THEOREM OnlySettingsMissQueues == Spec => []LazyQueueOnlyFromSettings
<1>1. ASSUME RegistryInv PROVE LazyQueueOnlyFromSettings
  <2>1. ASSUME NEW c \in Conns, Orphaned(c) PROVE Lazy(c)
    <3>1. ConnInv(c) /\ <<c, "writer">> # nil /\ Config(c) # <<c, "writer">>
      BY <1>1, QueueFacts, RegistryAssumption DEF RegistryInv
    <3> QED
      BY <2>1, <3>1 DEF ConnInv, Unmade, Furnished, Orphaned
  <2> QED
    BY <1>1, <2>1 DEF LazyQueueOnlyFromSettings, Lazy, RegistryInv, DiedOfSettings
<1> QED
  BY RegistryInvariant, <1>1, PTL

-------------------------------------------------------------------------------
(***************************************************************************)
(* What Close rests on, beyond RegistryInv: the safety parts of            *)
(* ClosedWriterReturns and ClosedLeavesRegistry.                           *)
(***************************************************************************)

(* A connection that has lost its port.                                    *)
Closed(c) == IsMade(c) /\ c \notin open

(* The queues that c may have had.                                         *)
OwnQueues(c) == IF Lazy(c) THEN {<<c, "writer">>, <<c, "sendMsg">>} ELSE {Config(c)}

(* A connection that has lost its port is out of the map or about to be,   *)
(* and a queue of it is closed or about to be; closeSerial takes it out of *)
(* the map first.                                                          *)
ClosedFully(c) ==
    /\ Closed(c) =>
          /\ Registered(c) => \E w \in Callers : closing[c][w] \in {"queue", "registry"}
          /\ \/ \E w \in Callers : closing[c][w] = "queue"
             \/ OwnQueues(c) \cap closedQueues # {}
    /\ Registered(c) => closing[c]["closeSerial"] = "none"

(* The queue that a serial connection without one gets is the writer's, to *)
(* which the writer then listens, or sendMsg's.                            *)
LateQueue(c) ==
    Lazy(c) =>
        /\ queue[c] \in {nil, <<c, "writer">>, <<c, "sendMsg">>}
        /\ listens[c] \in {nil, <<c, "writer">>, <<c, "sendMsg">>}
        /\ writer[c] \in {"start", "lazy"} => listens[c] = nil
        /\ writer[c] \in {"wait", "check", "write", "close", "done"} =>
              listens[c] # nil /\ queue[c] # nil
        /\ queue[c] = <<c, "writer">> \/ <<c, "writer">> \in closedQueues =>
              listens[c] = <<c, "writer">>

(* A connection that has been made has a writer, and one that calls Close  *)
(* is in it.                                                               *)
WriterEnds(c) ==
    /\ IsMade(c) => writer[c] # "none"
    /\ writer[c] = "close" => closing[c]["writer"] # "none"

ClosingInv(c) == ClosedFully(c) /\ LateQueue(c) /\ WriterEnds(c)
AllClosing == \A c \in Conns : ClosingInv(c)

(* The token of a closed queue is in its channel, or a writer that took it *)
(* returns or has returned.                                                *)
TokenTaken ==
    \A q \in closedQueues \ DataAvailable :
        \E d \in Conns : listens[d] = q /\ writer[d] \in {"check", "done"}

(* A step towards the return of the writer of c can be taken: the writer   *)
(* is on its way to its queue, is woken and looks at it, writes (and       *)
(* fails), has a token waiting, or a Close of c is under way.              *)
WriterGoesOn(c) ==
    \/ writer[c] \in {"start", "lazy", "check", "write"}
    \/ writer[c] = "wait" /\ listens[c] \in DataAvailable
    \/ InClose(c)

(* A connection that has lost its port leaves nothing behind: its writer   *)
(* has returned or can go on, unless it was orphaned or, on the queue of a *)
(* serial output, robbed of its token; and if it is still in the map its   *)
(* Close is about to take it out.                                          *)
NothingLeftBehind ==
    \A c \in Conns : Closed(c) =>
        /\ \/ writer[c] = "done" \/ WriterGoesOn(c)
           \/ c[1] \in Devs /\ (Orphaned(c) \/ Robbed(c))
        /\ Registered(c) => InClose(c)

(* There is no connection at the start.                                    *)
LEMMA ClosingInit == Init => AllClosing
<1> SUFFICES ASSUME Init, NEW c \in Conns PROVE ClosingInv(c)
  BY DEF AllClosing
<1>1. ~IsMade(c) /\ ~Registered(c) /\ c[1] \in Keys
  BY ConnFacts, RegistryAssumption DEF Init, IsMade, Registered
<1>2. queue[c] = nil /\ listens[c] = nil /\ writer[c] = "none" /\ closedQueues = {}
  BY DEF Init
<1>3. <<c, "writer">> # nil
  BY QueueFacts, RegistryAssumption
<1>4. LateQueue(c)
  BY <1>2, <1>3 DEF LateQueue
<1> QED
  BY <1>1, <1>2, <1>4 DEF ClosingInv, ClosedFully, Closed, WriterEnds

(* A step of others leaves c's facts alone; it may close queues, but not   *)
(* the one that c's writer made.                                           *)
LEMMA ClosingBystander ==
    ASSUME NEW c \in Conns, ClosingInv(c),
           Lazy(c)' <=> Lazy(c), IsMade(c)' <=> IsMade(c),
           queue'[c] = queue[c], writer'[c] = writer[c], listens'[c] = listens[c],
           closing'[c] = closing[c], c \in open' <=> c \in open,
           closedQueues \subseteq closedQueues',
           <<c, "writer">> \in closedQueues' => <<c, "writer">> \in closedQueues,
           Registered(c)' => Registered(c)
    PROVE  ClosingInv(c)'
<1>1. (Closed(c)' <=> Closed(c)) /\ OwnQueues(c)' = OwnQueues(c)
  BY DEF Closed, OwnQueues, Config
<1>2. ClosedFully(c)'
  BY <1>1 DEF ClosingInv, ClosedFully
<1>3. LateQueue(c)'
  BY DEF ClosingInv, LateQueue
<1>4. WriterEnds(c)'
  BY DEF ClosingInv, WriterEnds
<1> QED
  BY <1>2, <1>3, <1>4 DEF ClosingInv

(* A connection is made: with its port open, and without a queue if it is  *)
(* lazy.                                                                   *)
LEMMA ClosingMade ==
    ASSUME NEW c \in Conns, ClosingInv(c), Unmade(c), Lazy(c)' <=> Lazy(c),
           c \in open', writer'[c] = "start", listens'[c] = listens[c],
           closing'[c] = closing[c], Lazy(c) => queue'[c] = nil,
           <<c, "writer">> \in closedQueues' => <<c, "writer">> \in closedQueues
    PROVE  ClosingInv(c)'
<1>1. listens[c] = nil /\ closing[c]["closeSerial"] = "none" /\ <<c, "writer">> # nil
  BY QueueFacts, RegistryAssumption DEF Unmade, Callers
<1>2. ClosedFully(c)' /\ WriterEnds(c)'
  BY <1>1 DEF ClosedFully, Closed, WriterEnds
<1>3. LateQueue(c)'
  BY <1>1 DEF ClosingInv, LateQueue
<1> QED
  BY <1>2, <1>3 DEF ClosingInv

(* A connection's queue is its own, or that of its device's settings: it   *)
(* is not the queue that another connection's writer made.                 *)
LEMMA QueueOfOther ==
    ASSUME RegistryInv, NEW b \in Conns, NEW c \in Conns, b # c, IsMade(b)
    PROVE  queue[b] # <<c, "writer">>
<1>1. ConnInv(b) /\ <<c, "writer">> # nil
  BY QueueFacts, RegistryAssumption DEF RegistryInv
<1>2. CASE b[1] \in Devs
  <2>1. queue[b] \in {nil, <<b[1], "settings">>, <<b, "writer">>, <<b, "sendMsg">>}
    BY <1>1, <1>2 DEF ConnInv, SerialQueue
  <2> QED
    BY <1>1, <2>1
<1>3. CASE b[1] \notin Devs
  BY <1>1, <1>3 DEF ConnInv, Furnished, Config, Lazy
<1> QED
  BY <1>2, <1>3

(* refreshConnectedClients closes the queues of the connections it takes   *)
(* out of the map.                                                         *)
LEMMA ClosingRefresh ==
    ASSUME RegistryInv, AllClosing, NEW leased \in SUBSET Clients,
           NEW failed \in SUBSET leased, refreshConnectedClients(leased, failed)
    PROVE  AllClosing'
<1> DEFINE new == {k \in leased \ failed : clientConnections[k] = 0}
           gone == {c \in Clients \X (1..MaxMade) : c[1] \notin leased /\ Registered(c)}
<1>0. TypeOK /\ \A c \in Conns : ConnInv(c) /\ ClosingInv(c)
  BY DEF RegistryInv, AllClosing
<1>1. /\ Make(new)
      /\ clientConnections' =
              [k \in Keys |-> IF k \in new THEN made[k] + 1
                              ELSE IF k \in Clients \ leased THEN 0
                              ELSE clientConnections[k]]
      /\ queue' = [c \in Conns |-> IF c \in Made(new) THEN <<c, "own">> ELSE queue[c]]
      /\ open' = (open \cup Made(new)) \ gone
      /\ closedQueues' = closedQueues \cup {queue[c] : c \in gone}
      /\ UNCHANGED <<listens, closing, SerialOutputs>>
  BY DEF refreshConnectedClients, CloseQueues
<1>2. new \in SUBSET Keys /\ gone \subseteq Conns /\ \A k \in new : k \notin Devs
  BY RegistryAssumption DEF Keys, Conns
<1>g. \A c \in gone : /\ c \in Conns /\ c[1] \in Clients \ leased /\ c[1] \notin new
                      /\ c[1] \notin Devs /\ Registered(c)
  BY <1>2, RegistryAssumption
<1> HIDE DEF new, gone
<1>3. /\ \A k \in Keys : made'[k] = IF k \in new THEN made[k] + 1 ELSE made[k]
      /\ \A c \in Conns : c \in Made(new) <=> (c[1] \in new /\ c[2] = made[c[1]] + 1)
      /\ \A c \in Conns : writer'[c] = IF c \in Made(new) THEN "start" ELSE writer[c]
  BY <1>0, <1>1, <1>2, MakeFacts
<1>4. ASSUME NEW c \in gone PROVE IsMade(c) /\ ~Lazy(c) /\ queue[c] = Config(c)
  <2>1. IsMade(c)
    BY <1>0, <1>g, ConnFacts DEF TypeOK, IsMade, Registered
  <2> QED
    BY <1>0, <1>g, <2>1 DEF ConnInv, Furnished, Lazy
<1> SUFFICES ASSUME NEW c \in Conns PROVE ClosingInv(c)'
  BY DEF AllClosing
<1>5. /\ ConnInv(c) /\ ClosingInv(c) /\ c[1] \in Keys /\ c[2] \in 1..MaxMade
      /\ made[c[1]] \in Nat /\ MaxMade \in Nat
      /\ clientConnections[c[1]] \in Nat /\ clientConnections[c[1]] <= made[c[1]]
  BY <1>0, ConnFacts, RegistryAssumption DEF TypeOK
<1>6. /\ Lazy(c)' <=> Lazy(c)
      /\ listens'[c] = listens[c] /\ closing'[c] = closing[c]
      /\ closedQueues \subseteq closedQueues'
  BY <1>1 DEF Lazy
<1>7. <<c, "writer">> \in closedQueues' => <<c, "writer">> \in closedQueues
  <2>1. ASSUME NEW b \in gone PROVE queue[b] # <<c, "writer">>
    <3>1. b[1] \notin Devs /\ queue[b] = <<b, "own">>
      BY <1>g, <1>4 DEF Config
    <3> QED
      BY <3>1
  <2> QED
    BY <1>1, <2>1
<1>8. CASE c \in Made(new)
  <2>1. ~IsMade(c) /\ c[1] \notin Devs /\ c \notin gone
    BY <1>2, <1>3, <1>4, <1>5, <1>8 DEF IsMade
  <2>2. Unmade(c) /\ c \in open' /\ writer'[c] = "start" /\ ~Lazy(c)
    BY <1>1, <1>3, <1>5, <1>8, <2>1 DEF ConnInv, Lazy
  <2> QED
    BY <1>5, <1>6, <1>7, <2>2, ClosingMade
<1>9. CASE c \in gone
  <2>1. /\ c \notin Made(new) /\ clientConnections'[c[1]] = 0 /\ ~Lazy(c)
        /\ IsMade(c) /\ Config(c) \in closedQueues'
    BY <1>1, <1>3, <1>4, <1>5, <1>g, <1>9
  <2>2. ~Registered(c)' /\ writer'[c] = writer[c] /\ ~Lazy(c)'
    BY <1>3, <1>5, <1>6, <2>1 DEF Registered
  <2>3. Config(c) \in OwnQueues(c)' \cap closedQueues'
    BY <2>1, <2>2 DEF OwnQueues, Config
  <2>4. ClosedFully(c)'
    BY <2>2, <2>3 DEF ClosedFully
  <2>5. LateQueue(c)' /\ WriterEnds(c)'
    BY <1>5, <1>6, <2>1, <2>2 DEF ClosingInv, LateQueue, WriterEnds
  <2> QED
    BY <2>4, <2>5 DEF ClosingInv
<1>10. CASE c \notin Made(new) /\ c \notin gone
  <2>1. /\ queue'[c] = queue[c] /\ writer'[c] = writer[c] /\ (c \in open' <=> c \in open)
    BY <1>1, <1>3, <1>10
  <2>2. IsMade(c)' <=> IsMade(c)
    BY <1>3, <1>5, <1>10 DEF IsMade
  <2>3. Registered(c)' => Registered(c)
    BY <1>1, <1>3, <1>5, <1>10 DEF Registered
  <2> QED
    BY <1>5, <1>6, <1>7, <2>1, <2>2, <2>3, ClosingBystander
<1> QED
  BY <1>8, <1>9, <1>10

(* tcpNMEAOutListener closes nothing.                                      *)
LEMMA ClosingAccept ==
    ASSUME RegistryInv, AllClosing, NEW r \in Remotes, tcpNMEAOutListener(r)
    PROVE  AllClosing'
<1> DEFINE b == <<r, made[r] + 1>>
<1>0. TypeOK /\ \A c \in Conns : ConnInv(c) /\ ClosingInv(c)
  BY DEF RegistryInv, AllClosing
<1>1. /\ Make({r})
      /\ clientConnections' = [clientConnections EXCEPT ![r] = made[r] + 1]
      /\ queue' = [queue EXCEPT ![b] = <<b, "own">>]
      /\ open' = open \cup {b}
      /\ UNCHANGED <<listens, closing, closedQueues, SerialOutputs>>
  BY DEF tcpNMEAOutListener
<1>2. r \in Keys /\ r \notin Devs /\ {r} \in SUBSET Keys
  BY RegistryAssumption DEF Keys
<1>3. /\ \A k \in Keys : made'[k] = IF k \in {r} THEN made[k] + 1 ELSE made[k]
      /\ \A c \in Conns : c \in Made({r}) <=> (c[1] \in {r} /\ c[2] = made[c[1]] + 1)
      /\ \A c \in Conns : writer'[c] = IF c \in Made({r}) THEN "start" ELSE writer[c]
  BY <1>0, <1>1, <1>2, MakeFacts
<1>4. Made({r}) = {b}
  BY DEF Made
<1>b. b[1] = r /\ b[2] = made[r] + 1
  OBVIOUS
<1> HIDE DEF b
<1> SUFFICES ASSUME NEW c \in Conns PROVE ClosingInv(c)'
  BY DEF AllClosing
<1>5. /\ ConnInv(c) /\ ClosingInv(c) /\ c[1] \in Keys /\ c[2] \in Nat /\ made[c[1]] \in Nat
      /\ queue \in [Conns -> Queues \cup {nil}]
      /\ clientConnections \in [Keys -> 0..MaxMade]
  BY <1>0, ConnFacts, RegistryAssumption DEF TypeOK
<1>6. /\ Lazy(c)' <=> Lazy(c)
      /\ listens'[c] = listens[c] /\ closing'[c] = closing[c] /\ closedQueues' = closedQueues
  BY <1>1 DEF Lazy
<1>7. CASE c = b
  <2>1. ~IsMade(c) /\ ~Lazy(c)
    BY <1>2, <1>5, <1>7, <1>b DEF IsMade, Lazy
  <2>2. Unmade(c) /\ c \in open' /\ writer'[c] = "start"
    BY <1>1, <1>3, <1>4, <1>5, <1>7, <2>1 DEF ConnInv
  <2> QED
    BY <1>5, <1>6, <2>1, <2>2, ClosingMade
<1>8. CASE c # b
  <2>1. /\ queue'[c] = queue[c] /\ writer'[c] = writer[c] /\ (c \in open' <=> c \in open)
    BY <1>1, <1>3, <1>4, <1>5, <1>8
  <2>2. ~(c[1] \in {r} /\ c[2] = made[c[1]] + 1)
    BY <1>3, <1>4, <1>8
  <2>3. IsMade(c)' <=> IsMade(c)
    BY <1>3, <1>5, <2>2 DEF IsMade
  <2>4. Registered(c)' => Registered(c)
    BY <1>1, <1>2, <1>5, <2>2 DEF Registered
  <2> QED
    BY <1>5, <1>6, <2>1, <2>3, <2>4, ClosingBystander
<1> QED
  BY <1>7, <1>8

(* serialOutWatcher closes nothing; a connection to a device that the      *)
(* settings file named is made without a queue.                            *)
LEMMA ClosingWatcher ==
    ASSUME RegistryInv, AllClosing, NEW d \in Devs, NEW opened \in BOOLEAN,
           serialOutWatcher(d, opened)
    PROVE  AllClosing'
<1> DEFINE config == IF SerialOutputs[d] = absent THEN <<d, "settings">> ELSE SerialOutputs[d]
           new == IF clientConnections[d] = 0 /\ opened THEN {d} ELSE {}
<1>0. TypeOK /\ SettingsInv /\ \A c \in Conns : ConnInv(c) /\ ClosingInv(c)
  BY DEF RegistryInv, AllClosing
<1>1. /\ SerialOutputs' = [SerialOutputs EXCEPT ![d] = config]
      /\ Make(new)
      /\ clientConnections' = [k \in Keys |-> IF k \in new THEN made[k] + 1
                                              ELSE clientConnections[k]]
      /\ queue' = [c \in Conns |-> IF c \in Made(new) THEN config ELSE queue[c]]
      /\ open' = open \cup Made(new)
      /\ UNCHANGED <<listens, closing, closedQueues>>
  BY DEF serialOutWatcher
<1>2. new \in SUBSET Keys /\ new \subseteq {d} /\ d \in Keys
  BY DEF Keys
<1>3. config = nil <=> SerialOutputs[d] = nil
  <2>1. <<d, "settings">> \in Queues
    BY DEF Queues
  <2> QED
    BY <2>1, RegistryAssumption
<1> HIDE DEF new, config
<1>4. /\ \A k \in Keys : made'[k] = IF k \in new THEN made[k] + 1 ELSE made[k]
      /\ \A c \in Conns : c \in Made(new) <=> (c[1] \in new /\ c[2] = made[c[1]] + 1)
      /\ \A c \in Conns : writer'[c] = IF c \in Made(new) THEN "start" ELSE writer[c]
  BY <1>0, <1>1, <1>2, MakeFacts
<1>5. \A e \in Devs : SerialOutputs'[e] = nil <=> SerialOutputs[e] = nil
  BY <1>0, <1>1, <1>3 DEF TypeOK
<1> SUFFICES ASSUME NEW c \in Conns PROVE ClosingInv(c)'
  BY DEF AllClosing
<1>6. /\ ConnInv(c) /\ ClosingInv(c) /\ c[1] \in Keys /\ c[2] \in Nat /\ made[c[1]] \in Nat
  BY <1>0, ConnFacts, RegistryAssumption DEF TypeOK
<1>7. /\ Lazy(c)' <=> Lazy(c)
      /\ listens'[c] = listens[c] /\ closing'[c] = closing[c] /\ closedQueues' = closedQueues
  BY <1>1, <1>5 DEF Lazy
<1>8. CASE c \in Made(new)
  <2>1. ~IsMade(c) /\ c[1] = d
    BY <1>2, <1>4, <1>6, <1>8 DEF IsMade
  <2>2. /\ Unmade(c) /\ c \in open' /\ writer'[c] = "start" /\ queue'[c] = config
    BY <1>1, <1>4, <1>6, <1>8, <2>1 DEF ConnInv
  <2>3. Lazy(c) => queue'[c] = nil
    BY <1>3, <2>1, <2>2 DEF Lazy
  <2> QED
    BY <1>6, <1>7, <2>2, <2>3, ClosingMade
<1>9. CASE c \notin Made(new)
  <2>1. /\ queue'[c] = queue[c] /\ writer'[c] = writer[c] /\ (c \in open' <=> c \in open)
    BY <1>1, <1>4, <1>9
  <2>2. IsMade(c)' <=> IsMade(c)
    BY <1>4, <1>6, <1>9 DEF IsMade
  <2>3. Registered(c)' => Registered(c)
    BY <1>1, <1>4, <1>6, <1>9 DEF Registered
  <2> QED
    BY <1>6, <1>7, <2>1, <2>2, <2>3, ClosingBystander
<1> QED
  BY <1>8, <1>9

(* The goroutine of a connection: its queue becomes the one it listens to, *)
(* and OnError enters Close.                                               *)
LEMMA ClosingWriter ==
    ASSUME RegistryInv, AllClosing, NEW b \in Conns, WriterStep(b)
    PROVE  AllClosing'
<1>0. TypeOK /\ ConnInv(b) /\ \A c \in Conns : ClosingInv(c)
  BY DEF RegistryInv, AllClosing
<1>t. /\ queue \in [Conns -> Queues \cup {nil}] /\ listens \in [Conns -> Queues \cup {nil}]
      /\ writer \in [Conns -> {"none", "start", "lazy", "wait", "check", "write",
                               "close", "done"}]
      /\ closing \in [Conns -> [Callers -> {"none", "port", "queue", "registry"}]]
      /\ "writer" \in Callers /\ "closeSerial" \in Callers
  BY <1>0 DEF TypeOK, Callers
<1>u. UNCHANGED <<clientConnections, made, open, closedQueues, SerialOutputs>>
  BY DEF WriterStep, WriterStart, WriterQueue, WriterWake, WriterReturn, WriterCollect,
         WriterWrote, OnError
<1>r. \A c \in Conns : /\ Lazy(c)' <=> Lazy(c)
                       /\ IsMade(c)' <=> IsMade(c)
                       /\ Registered(c)' <=> Registered(c)
                       /\ Closed(c)' <=> Closed(c)
                       /\ OwnQueues(c)' = OwnQueues(c)
  BY <1>u DEF Lazy, IsMade, Registered, Closed, OwnQueues, Config
<1>o. ASSUME \A c \in Conns : c # b => /\ queue'[c] = queue[c] /\ writer'[c] = writer[c]
                                        /\ listens'[c] = listens[c] /\ closing'[c] = closing[c],
             ClosingInv(b)'
      PROVE  AllClosing'
  <2>1. ASSUME NEW c \in Conns, c # b PROVE ClosingInv(c)'
    BY <1>0, <1>u, <1>r, <1>o, <2>1, ClosingBystander
  <2> QED
    BY <1>o, <2>1 DEF AllClosing
<1>f. ASSUME UNCHANGED closing PROVE ClosedFully(b)'
  BY <1>0, <1>u, <1>r, <1>f DEF ClosingInv, ClosedFully
<1>1. CASE WriterStart(b)
  <2>1. CASE queue[b] = nil
    <3>1. /\ writer' = [writer EXCEPT ![b] = "lazy"] /\ UNCHANGED <<listens, queue, closing>>
          /\ writer[b] = "start"
      BY <1>1, <2>1 DEF WriterStart
    <3>2. LateQueue(b)' /\ WriterEnds(b)'
      BY <1>0, <1>t, <1>u, <1>r, <3>1 DEF ClosingInv, LateQueue, WriterEnds
    <3> QED
      BY <1>t, <1>o, <1>f, <3>1, <3>2 DEF ClosingInv
  <2>2. CASE queue[b] # nil
    <3>1. /\ writer' = [writer EXCEPT ![b] = "wait"] /\ listens' = [listens EXCEPT ![b] = queue[b]]
          /\ UNCHANGED <<queue, closing>> /\ writer[b] = "start"
      BY <1>1, <2>2 DEF WriterStart
    <3>2. Lazy(b) => listens[b] = nil /\ queue[b] \in {<<b, "writer">>, <<b, "sendMsg">>}
                     /\ <<b, "writer">> \notin closedQueues
      <4>1. <<b, "writer">> # nil
        BY QueueFacts, RegistryAssumption
      <4> QED
        BY <1>0, <2>2, <3>1, <4>1 DEF ClosingInv, LateQueue
    <3>3. LateQueue(b)'
      BY <1>t, <1>u, <1>r, <2>2, <3>1, <3>2 DEF LateQueue
    <3>4. WriterEnds(b)'
      BY <1>t, <3>1 DEF WriterEnds
    <3> QED
      BY <1>t, <1>o, <1>f, <3>1, <3>3, <3>4 DEF ClosingInv
  <2> QED
    BY <2>1, <2>2
<1>2. CASE WriterQueue(b)
  <2>1. /\ writer' = [writer EXCEPT ![b] = "wait"] /\ listens' = [listens EXCEPT ![b] = <<b, "writer">>]
        /\ queue' = [queue EXCEPT ![b] = <<b, "writer">>]
        /\ UNCHANGED closing /\ writer[b] = "lazy"
    BY <1>2 DEF WriterQueue
  <2>2. <<b, "writer">> # nil
    BY QueueFacts, RegistryAssumption
  <2>3. LateQueue(b)'
    BY <1>t, <2>1, <2>2 DEF LateQueue
  <2>4. WriterEnds(b)'
    BY <1>t, <2>1 DEF WriterEnds
  <2> QED
    BY <1>t, <1>o, <1>f, <2>1, <2>3, <2>4 DEF ClosingInv
<1>3. ASSUME NEW to \in {"wait", "check", "write", "done"}, writer' = [writer EXCEPT ![b] = to],
             UNCHANGED <<queue, closing>>, writer[b] \in {"wait", "check", "write"},
             \/ listens' = listens
             \/ /\ listens[b] \notin closedQueues
                /\ listens' = [listens EXCEPT ![b] = queue[b]]
      PROVE  AllClosing'
  <2>1. LateQueue(b)'
    <3>1. CASE listens' = listens
      BY <1>0, <1>t, <1>u, <1>r, <1>3, <3>1 DEF ClosingInv, LateQueue
    <3>2. CASE listens[b] \notin closedQueues /\ listens' = [listens EXCEPT ![b] = queue[b]]
      BY <1>0, <1>t, <1>u, <1>r, <1>3, <3>2 DEF ClosingInv, LateQueue
    <3> QED
      BY <1>3, <3>1, <3>2
  <2>2. WriterEnds(b)'
    BY <1>t, <1>3 DEF WriterEnds
  <2> QED
    BY <1>t, <1>o, <1>f, <1>3, <2>1, <2>2 DEF ClosingInv
<1>4. CASE WriterWake(b)
  BY <1>3, <1>4 DEF WriterWake
<1>5. CASE WriterReturn(b)
  BY <1>3, <1>5 DEF WriterReturn
<1>6. CASE WriterCollect(b)
  BY <1>3, <1>6 DEF WriterCollect
<1>8. CASE WriterWrote(b)
  BY <1>3, <1>8 DEF WriterWrote
<1>7. CASE OnError(b)
  <2>1. CASE b[1] \in Clients
    BY <1>3, <1>7, <2>1 DEF OnError
  <2>2. CASE b[1] \notin Clients
    <3>1. /\ writer' = [writer EXCEPT ![b] = "close"] /\ writer[b] = "write"
          /\ closing' = [closing EXCEPT ![b]["writer"] = "port"]
          /\ UNCHANGED <<queue, listens>>
      BY <1>7, <2>2 DEF OnError
    <3>2. closing[b]["writer"] = "none"
      BY <1>0, <1>t, <3>1 DEF ConnInv
    <3>3. /\ closing'[b]["writer"] = "port"
          /\ \A w \in Callers : closing[b][w] # "none" => closing'[b][w] = closing[b][w]
          /\ closing'[b]["closeSerial"] = closing[b]["closeSerial"]
          /\ \A c \in Conns : c # b => closing'[c] = closing[c]
      BY <1>t, <3>1, <3>2
    <3>4. ClosedFully(b)'
      BY <1>0, <1>u, <1>r, <3>3 DEF ClosingInv, ClosedFully
    <3>5. LateQueue(b)'
      BY <1>0, <1>t, <1>u, <1>r, <3>1 DEF ClosingInv, LateQueue
    <3>6. WriterEnds(b)'
      BY <1>t, <3>1, <3>3 DEF WriterEnds
    <3> QED
      BY <1>t, <1>o, <3>1, <3>3, <3>4, <3>5, <3>6 DEF ClosingInv
  <2> QED
    BY <2>1, <2>2
<1> QED
  BY <1>1, <1>2, <1>4, <1>5, <1>6, <1>7, <1>8 DEF WriterStep

(* Close: the port, then the queue, then the map.                          *)
LEMMA ClosingClose ==
    ASSUME RegistryInv, AllClosing, NEW b \in Conns, CloseStep(b)
    PROVE  AllClosing'
<1>0. TypeOK /\ ConnInv(b) /\ \A c \in Conns : ClosingInv(c)
  BY DEF RegistryInv, AllClosing
<1>t. /\ open \subseteq Conns
      /\ writer \in [Conns -> {"none", "start", "lazy", "wait", "check", "write",
                               "close", "done"}]
      /\ closing \in [Conns -> [Callers -> {"none", "port", "queue", "registry"}]]
      /\ clientConnections \in [Keys -> 0..MaxMade]
      /\ b[1] \in Keys /\ b[2] \in 1..MaxMade /\ MaxMade \in Nat
      /\ "writer" \in Callers /\ "closeSerial" \in Callers
  BY <1>0, ConnFacts, RegistryAssumption DEF TypeOK, Callers
<1>u. UNCHANGED <<made, queue, listens, SerialOutputs>>
  BY DEF CloseStep, ClosePort, CloseQueue, CloseNilQueue, onConnectionClosed
<1>r. \A c \in Conns : /\ Lazy(c)' <=> Lazy(c)
                       /\ IsMade(c)' <=> IsMade(c)
                       /\ OwnQueues(c)' = OwnQueues(c)
  BY <1>u DEF Lazy, IsMade, OwnQueues, Config
<1>o. ASSUME \A c \in Conns \ {b} :
                /\ writer'[c] = writer[c] /\ closing'[c] = closing[c] /\ (c \in open' <=> c \in open)
                /\ (<<c, "writer">> \in closedQueues' => <<c, "writer">> \in closedQueues),
             \A c \in Conns : Registered(c)' => Registered(c),
             closedQueues \subseteq closedQueues', ClosingInv(b)'
      PROVE  AllClosing'
  <2>1. ASSUME NEW c \in Conns, c # b PROVE ClosingInv(c)'
    <3>1. /\ writer'[c] = writer[c] /\ closing'[c] = closing[c] /\ (c \in open' <=> c \in open)
          /\ <<c, "writer">> \in closedQueues' => <<c, "writer">> \in closedQueues
          /\ queue'[c] = queue[c] /\ listens'[c] = listens[c]
          /\ ClosingInv(c) /\ (Lazy(c)' <=> Lazy(c)) /\ (IsMade(c)' <=> IsMade(c))
      BY <1>0, <1>u, <1>r, <1>o, <2>1
    <3>2. Registered(c)' => Registered(c)
      BY <1>o, <2>1
    <3> QED
      BY <1>o, <3>1, <3>2, ClosingBystander
  <2> QED
    BY <1>o, <2>1 DEF AllClosing
<1>1. ASSUME NEW w \in Callers, ClosePort(b, w) PROVE AllClosing'
  <2>1. /\ closing[b][w] = "port" /\ open' = open \ {b}
        /\ closing' = [closing EXCEPT ![b][w] = "queue"]
        /\ UNCHANGED <<clientConnections, writer, closedQueues>>
    BY <1>1 DEF ClosePort
  <2>2. /\ closing'[b][w] = "queue"
        /\ closing'[b]["closeSerial"] = "none" <=> closing[b]["closeSerial"] = "none"
        /\ closing'[b]["writer"] = "none" <=> closing[b]["writer"] = "none"
    BY <1>t, <2>1
  <2>3. \A c \in Conns : Registered(c)' <=> Registered(c)
    BY <2>1 DEF Registered
  <2>4. ClosedFully(b)'
    BY <1>0, <2>2, <2>3 DEF ClosingInv, ClosedFully
  <2>5. LateQueue(b)' /\ WriterEnds(b)'
    BY <1>0, <1>u, <1>r, <2>1, <2>2 DEF ClosingInv, LateQueue, WriterEnds
  <2>6. \A c \in Conns : c # b => closing'[c] = closing[c] /\ (c \in open' <=> c \in open)
    BY <1>t, <2>1
  <2> QED
    BY <1>o, <2>1, <2>3, <2>4, <2>5, <2>6 DEF ClosingInv
<1>2. ASSUME NEW w \in Callers, CloseQueue(b, w) PROVE AllClosing'
  <2>1. /\ closing[b][w] = "queue" /\ queue[b] # nil
        /\ closedQueues' = closedQueues \cup {queue[b]}
        /\ closing' = [closing EXCEPT ![b][w] = "registry"]
        /\ UNCHANGED <<clientConnections, writer, open>>
    BY <1>2 DEF CloseQueue, CloseQueues
  <2>2. IsMade(b)
    BY <1>0, <2>1, ActsWhenMade
  <2>3. /\ closing'[b][w] = "registry"
        /\ closing'[b]["closeSerial"] = "none" <=> closing[b]["closeSerial"] = "none"
        /\ closing'[b]["writer"] = "none" <=> closing[b]["writer"] = "none"
    BY <1>t, <2>1
  <2>4. queue[b] \in OwnQueues(b)
    <3>1. CASE Lazy(b)
      BY <1>0, <2>1, <3>1 DEF ClosingInv, LateQueue, OwnQueues
    <3>2. CASE ~Lazy(b)
      BY <1>0, <2>2, <3>2 DEF ConnInv, Furnished, OwnQueues
    <3> QED
      BY <3>1, <3>2
  <2>5. OwnQueues(b)' \cap closedQueues' # {}
    BY <1>r, <2>1, <2>4
  <2>6. \A c \in Conns : Registered(c)' <=> Registered(c)
    BY <2>1 DEF Registered
  <2>7. ClosedFully(b)'
    BY <1>0, <2>3, <2>5, <2>6 DEF ClosingInv, ClosedFully
  <2>8. LateQueue(b)'
    BY <1>0, <1>u, <1>r, <2>1 DEF ClosingInv, LateQueue
  <2>9. WriterEnds(b)'
    BY <1>0, <1>r, <2>1, <2>3 DEF ClosingInv, WriterEnds
  <2>10. \A c \in Conns : c # b => closing'[c] = closing[c] /\ queue[b] # <<c, "writer">>
    BY <1>t, <2>1, <2>2, QueueOfOther
  <2> QED
    BY <1>o, <2>1, <2>6, <2>7, <2>8, <2>9, <2>10 DEF ClosingInv
<1>3. ASSUME NEW w \in Callers, CloseNilQueue(b, w) PROVE AllClosing'
  <2>1. UNCHANGED <<clientConnections, writer, open, closing, closedQueues, DataAvailable>>
    BY <1>3 DEF CloseNilQueue
  <2>2. \A c \in Conns : Registered(c)' => Registered(c)
    BY <2>1 DEF Registered
  <2>3. ClosingInv(b)'
    BY <1>0, <1>u, <1>r, <2>1, <2>2, ClosingBystander
  <2> QED
    BY <1>o, <2>1, <2>2, <2>3
<1>4. ASSUME NEW w \in Callers, onConnectionClosed(b, w) PROVE AllClosing'
  <2>1. /\ closing[b][w] = "registry"
        /\ clientConnections' = [clientConnections EXCEPT ![b[1]] = 0]
        /\ closing' = [closing EXCEPT ![b][w] = "none"]
        /\ writer' = IF w = "writer" THEN [writer EXCEPT ![b] = "check"] ELSE writer
        /\ UNCHANGED <<open, closedQueues>>
    BY <1>4 DEF onConnectionClosed
  <2>2. /\ \A v \in Callers : closing[b][v] = "queue" => closing'[b][v] = "queue"
        /\ w # "writer" => closing'[b]["writer"] = closing[b]["writer"]
    BY <1>t, <2>1
  <2>3. /\ w = "writer" => writer'[b] = "check" /\ writer[b] = "close"
        /\ w # "writer" => writer'[b] = writer[b]
    BY <1>0, <1>t, <2>1 DEF ConnInv
  <2>4. \A k \in Keys : clientConnections'[k] = IF k = b[1] THEN 0 ELSE clientConnections[k]
    BY <1>t, <2>1
  <2>5. \A c \in Conns : Registered(c)' => Registered(c) /\ c[1] # b[1]
    BY <1>t, <2>4, ConnFacts DEF Registered
  <2>6. Closed(b)' <=> Closed(b)
    BY <1>r, <2>1 DEF Closed
  <2>7. ClosedFully(b)'
    BY <1>0, <1>r, <2>1, <2>2, <2>5, <2>6 DEF ClosingInv, ClosedFully
  <2>8. LateQueue(b)'
    BY <1>0, <1>u, <1>r, <2>1, <2>3 DEF ClosingInv, LateQueue
  <2>9. WriterEnds(b)'
    BY <1>0, <1>r, <2>2, <2>3 DEF ClosingInv, WriterEnds
  <2>10. \A c \in Conns : c # b => closing'[c] = closing[c] /\ writer'[c] = writer[c]
    BY <1>t, <2>1
  <2> QED
    BY <1>o, <2>1, <2>5, <2>7, <2>8, <2>9, <2>10 DEF ClosingInv
<1> QED
  BY <1>1, <1>2, <1>3, <1>4 DEF CloseStep

(* closeSerial takes the connection out of the map and begins its Close;   *)
(* sendMsg may replace a missing queue.                                    *)
LEMMA ClosingShared ==
    ASSUME RegistryInv, AllClosing, NEW b \in Conns,
           closeSerial(b) \/ SendStart(b) \/ SendQueue(b) \/ SendPut(b)
    PROVE  AllClosing'
<1>0. TypeOK /\ ConnInv(b) /\ \A c \in Conns : ClosingInv(c)
  BY DEF RegistryInv, AllClosing
<1>t. /\ queue \in [Conns -> Queues \cup {nil}]
      /\ closing \in [Conns -> [Callers -> {"none", "port", "queue", "registry"}]]
      /\ clientConnections \in [Keys -> 0..MaxMade]
      /\ b[1] \in Keys /\ b[2] \in 1..MaxMade /\ MaxMade \in Nat
      /\ "writer" \in Callers /\ "closeSerial" \in Callers
  BY <1>0, ConnFacts, RegistryAssumption DEF TypeOK, Callers
<1>u. UNCHANGED <<made, open, writer, listens, closedQueues, SerialOutputs>>
  BY DEF closeSerial, SendStart, SendQueue, SendPut
<1>r. \A c \in Conns : /\ Lazy(c)' <=> Lazy(c)
                       /\ IsMade(c)' <=> IsMade(c)
                       /\ Closed(c)' <=> Closed(c)
                       /\ OwnQueues(c)' = OwnQueues(c)
  BY <1>u DEF Lazy, IsMade, Closed, OwnQueues, Config
<1>o. ASSUME \A c \in Conns : c # b => queue'[c] = queue[c] /\ closing'[c] = closing[c],
             \A c \in Conns : Registered(c)' => Registered(c), ClosingInv(b)'
      PROVE  AllClosing'
  <2>1. ASSUME NEW c \in Conns, c # b PROVE ClosingInv(c)'
    <3>1. Registered(c)' => Registered(c)
      BY <1>o, <2>1
    <3> QED
      BY <1>0, <1>u, <1>r, <1>o, <2>1, <3>1, ClosingBystander
  <2> QED
    BY <1>o, <2>1 DEF AllClosing
<1>1. CASE closeSerial(b)
  <2>1. /\ Registered(b) /\ UNCHANGED queue
        /\ clientConnections' = [clientConnections EXCEPT ![b[1]] = 0]
        /\ closing' = [closing EXCEPT ![b]["closeSerial"] = "port"]
    BY <1>1 DEF closeSerial
  <2>2. closing[b]["closeSerial"] = "none"
    BY <1>0, <2>1 DEF ClosingInv, ClosedFully
  <2>3. /\ \A w \in Callers : closing[b][w] # "none" => closing'[b][w] = closing[b][w]
        /\ closing'[b]["writer"] = closing[b]["writer"]
        /\ \A c \in Conns : c # b => closing'[c] = closing[c]
    BY <1>t, <2>1, <2>2
  <2>4. \A k \in Keys : clientConnections'[k] = IF k = b[1] THEN 0 ELSE clientConnections[k]
    BY <1>t, <2>1
  <2>5. \A c \in Conns : Registered(c)' => Registered(c) /\ c[1] # b[1]
    BY <1>t, <2>4, ConnFacts DEF Registered
  <2>6. ClosedFully(b)'
    BY <1>0, <1>u, <1>r, <2>3, <2>5 DEF ClosingInv, ClosedFully
  <2>7. LateQueue(b)' /\ WriterEnds(b)'
    BY <1>0, <1>u, <1>r, <2>1, <2>3 DEF ClosingInv, LateQueue, WriterEnds
  <2> QED
    BY <1>o, <2>1, <2>3, <2>5, <2>6, <2>7 DEF ClosingInv
<1>2. CASE SendStart(b)
  <2>1. UNCHANGED <<clientConnections, queue, closing>>
    BY <1>2 DEF SendStart
  <2>2. \A c \in Conns : Registered(c)' => Registered(c)
    BY <2>1 DEF Registered
  <2>3. ClosingInv(b)'
    BY <1>0, <1>u, <1>r, <2>1, <2>2, ClosingBystander
  <2> QED
    BY <1>o, <2>1, <2>2, <2>3
<1>3. CASE SendQueue(b)
  <2>1. /\ queue' = [queue EXCEPT ![b] = <<b, "sendMsg">>]
        /\ UNCHANGED <<clientConnections, closing>>
    BY <1>3 DEF SendQueue
  <2>2. \A c \in Conns : Registered(c)' <=> Registered(c)
    BY <2>1 DEF Registered
  <2>3. queue'[b] = <<b, "sendMsg">> /\ <<b, "sendMsg">> # <<b, "writer">> /\ <<b, "sendMsg">> # nil
    BY <1>t, <2>1, QueueFacts, RegistryAssumption
  <2>4. ClosedFully(b)' /\ WriterEnds(b)'
    BY <1>0, <1>u, <1>r, <2>1, <2>2 DEF ClosingInv, ClosedFully, WriterEnds
  <2>5. LateQueue(b)'
    BY <1>0, <1>u, <1>r, <2>3 DEF ClosingInv, LateQueue
  <2>6. \A c \in Conns : c # b => queue'[c] = queue[c]
    BY <1>t, <2>1
  <2> QED
    BY <1>o, <2>1, <2>2, <2>4, <2>5, <2>6 DEF ClosingInv
<1>4. CASE SendPut(b)
  <2>1. UNCHANGED <<clientConnections, queue, closing>>
    BY <1>4 DEF SendPut
  <2>2. \A c \in Conns : Registered(c)' => Registered(c)
    BY <2>1 DEF Registered
  <2>3. ClosingInv(b)'
    BY <1>0, <1>u, <1>r, <2>1, <2>2, ClosingBystander
  <2> QED
    BY <1>o, <2>1, <2>2, <2>3
<1> QED
  BY <1>1, <1>2, <1>3, <1>4

(* It holds in every state.                                                *)
LEMMA ClosingInvariant == Spec => []AllClosing
<1>1. ASSUME RegistryInv, AllClosing, Next PROVE AllClosing'
  BY <1>1, ClosingRefresh, ClosingAccept, ClosingWatcher, ClosingWriter, ClosingClose,
     ClosingShared DEF Next, Running
<1>2. ASSUME AllClosing, UNCHANGED vars PROVE AllClosing'
  <2>1. ASSUME NEW c \in Conns PROVE ClosingInv(c)'
    <3>1. /\ Lazy(c)' <=> Lazy(c)
          /\ IsMade(c)' <=> IsMade(c)
          /\ Registered(c)' <=> Registered(c)
      BY <1>2 DEF vars, Lazy, IsMade, Registered
    <3> QED
      BY <1>2, <3>1, ClosingBystander DEF vars, AllClosing
  <2> QED
    BY <2>1 DEF AllClosing
<1> QED
  BY ClosingInit, <1>1, <1>2, RegistryInvariant, PTL DEF Spec

(* Only Close closes a queue, and it leaves a token; only a writer takes   *)
(* one, and a writer that finds its queue closed returns.                  *)
LEMMA TokenInvariant == Spec => []TokenTaken
<1>1. Init => TokenTaken
  BY DEF Init, TokenTaken
<1>2. ASSUME TypeOK, TokenTaken,
             closedQueues' \ DataAvailable' \subseteq closedQueues \ DataAvailable,
             \A d \in Conns : (listens[d] \in closedQueues /\ writer[d] \in {"check", "done"}) =>
                 listens'[d] = listens[d] /\ writer'[d] \in {"check", "done"}
      PROVE  TokenTaken'
  <2> SUFFICES ASSUME NEW q \in closedQueues' \ DataAvailable'
               PROVE  \E d \in Conns : listens'[d] = q /\ writer'[d] \in {"check", "done"}
    BY DEF TokenTaken
  <2>1. PICK d \in Conns : listens[d] = q /\ writer[d] \in {"check", "done"}
    BY <1>2 DEF TokenTaken
  <2> QED
    BY <1>2, <2>1
<1>3. ASSUME RegistryInv, TokenTaken, Next PROVE TokenTaken'
  <2>0. /\ TypeOK /\ \A c \in Conns : ConnInv(c)
        /\ listens \in [Conns -> Queues \cup {nil}] /\ closedQueues \subseteq Queues
        /\ writer \in [Conns -> {"none", "start", "lazy", "wait", "check", "write",
                                 "close", "done"}]
    BY <1>3 DEF RegistryInv, TypeOK
  <2>m. ASSUME NEW N \in SUBSET Keys, Make(N), UNCHANGED listens,
               closedQueues' \ DataAvailable' \subseteq closedQueues \ DataAvailable
        PROVE  TokenTaken'
    <3>1. ASSUME NEW d \in Conns, listens[d] \in closedQueues PROVE d \notin Made(N)
      <4>1. d \in Made(N) => ~IsMade(d)
        BY <2>0, <2>m, MakeFacts, ConnFacts, RegistryAssumption DEF IsMade, TypeOK
      <4>2. ~IsMade(d) => listens[d] = nil
        BY <2>0 DEF ConnInv, Unmade
      <4> QED
        BY <2>0, <3>1, <4>1, <4>2, RegistryAssumption
    <3>2. \A d \in Conns : d \notin Made(N) => writer'[d] = writer[d]
      BY <2>0, <2>m, MakeFacts
    <3> QED
      BY <1>2, <1>3, <2>0, <2>m, <3>1, <3>2
  <2>1. ASSUME NEW leased \in SUBSET Clients, NEW failed \in SUBSET leased,
               refreshConnectedClients(leased, failed)
        PROVE  TokenTaken'
    <3> DEFINE new == {k \in leased \ failed : clientConnections[k] = 0}
    <3>1. new \in SUBSET Keys
      BY DEF Keys
    <3>2. Make(new) /\ UNCHANGED listens
      BY <2>1 DEF refreshConnectedClients
    <3>3. closedQueues' \ DataAvailable' \subseteq closedQueues \ DataAvailable
      BY <2>1 DEF refreshConnectedClients, CloseQueues
    <3> QED
      BY <2>m, <3>1, <3>2, <3>3
  <2>2. ASSUME NEW r \in Remotes, tcpNMEAOutListener(r) PROVE TokenTaken'
    <3>1. {r} \in SUBSET Keys
      BY DEF Keys
    <3> QED
      BY <2>2, <2>m, <3>1 DEF tcpNMEAOutListener
  <2>3. ASSUME NEW d \in Devs, NEW opened \in BOOLEAN, serialOutWatcher(d, opened)
        PROVE  TokenTaken'
    <3> DEFINE new == IF clientConnections[d] = 0 /\ opened THEN {d} ELSE {}
    <3>1. new \in SUBSET Keys
      BY DEF Keys
    <3>2. Make(new) /\ UNCHANGED <<listens, closedQueues, DataAvailable>>
      BY <2>3 DEF serialOutWatcher
    <3> QED
      BY <2>m, <3>1, <3>2
  <2>4. ASSUME NEW b \in Conns, WriterWake(b) PROVE TokenTaken'
    <3>1. /\ writer[b] = "wait" /\ writer' = [writer EXCEPT ![b] = "check"]
          /\ DataAvailable' = DataAvailable \ {listens[b]}
          /\ UNCHANGED <<listens, closedQueues>>
      BY <2>4 DEF WriterWake
    <3> SUFFICES ASSUME NEW q \in closedQueues \ DataAvailable'
                 PROVE  \E d \in Conns : listens'[d] = q /\ writer'[d] \in {"check", "done"}
      BY <3>1 DEF TokenTaken
    <3>2. CASE q = listens[b]
      BY <2>0, <3>1, <3>2
    <3>3. CASE q # listens[b]
      <4>1. PICK d \in Conns : listens[d] = q /\ writer[d] \in {"check", "done"}
        BY <1>3, <3>1, <3>3 DEF TokenTaken
      <4> QED
        BY <2>0, <3>1, <4>1
    <3> QED
      BY <3>2, <3>3
  <2>5. ASSUME NEW b \in Conns, WriterStep(b), ~WriterWake(b) PROVE TokenTaken'
    <3>1. UNCHANGED <<closedQueues, DataAvailable>>
      BY <2>5 DEF WriterStep, WriterStart, WriterQueue, WriterWake, WriterReturn,
                  WriterCollect, WriterWrote, OnError
    <3>2. ASSUME NEW d \in Conns, listens[d] \in closedQueues, writer[d] \in {"check", "done"}
          PROVE  listens'[d] = listens[d] /\ writer'[d] \in {"check", "done"}
      BY <2>0, <2>5, <3>2 DEF WriterStep, WriterStart, WriterQueue, WriterReturn,
                              WriterCollect, WriterWrote, OnError
    <3> QED
      BY <1>2, <1>3, <2>0, <3>1, <3>2
  <2>6. ASSUME NEW b \in Conns,
               CloseStep(b) \/ closeSerial(b) \/ SendStart(b) \/ SendQueue(b) \/ SendPut(b)
        PROVE  TokenTaken'
    <3>1. closedQueues' \ DataAvailable' \subseteq closedQueues \ DataAvailable
      BY <2>6 DEF CloseStep, ClosePort, CloseQueue, CloseQueues, CloseNilQueue,
                  onConnectionClosed, closeSerial, SendStart, SendQueue, SendPut
    <3>2. /\ UNCHANGED listens
          /\ writer' = writer \/ writer' = [writer EXCEPT ![b] = "check"]
      BY <2>6 DEF CloseStep, ClosePort, CloseQueue, CloseNilQueue,
                  onConnectionClosed, closeSerial, SendStart, SendQueue, SendPut
    <3> QED
      BY <1>2, <1>3, <2>0, <3>1, <3>2
  <2> QED
    BY <1>3, <2>1, <2>2, <2>3, <2>4, <2>5, <2>6 DEF Next, Running
<1>4. ASSUME TokenTaken, UNCHANGED vars PROVE TokenTaken'
  BY <1>4 DEF TokenTaken, vars
<1> QED
  BY <1>1, <1>3, <1>4, RegistryInvariant, PTL DEF Spec

(* A connection that is not serial shares its queue with nobody.           *)
LEMMA OwnListener ==
    ASSUME RegistryInv, AllClosing, NEW c \in Conns, NEW d \in Conns, c[1] \notin Devs,
           IsMade(c), writer[c] = "wait", listens[d] = listens[c]
    PROVE  d = c
<1>1. listens[c] = <<c, "own">> /\ <<c, "own">> # nil
  BY QueueFacts, RegistryAssumption DEF RegistryInv, ConnInv, Furnished, Config, Lazy
<1>2. IsMade(d)
  BY <1>1 DEF RegistryInv, ConnInv, Unmade
<1>3. CASE Lazy(d)
  <2>1. listens[d] \in {nil, <<d, "writer">>, <<d, "sendMsg">>}
    BY <1>3 DEF AllClosing, ClosingInv, LateQueue
  <2> QED
    BY <1>1, <2>1
<1>4. CASE ~Lazy(d)
  <2>1. listens[d] \in {nil, Config(d)}
    BY <1>2, <1>4 DEF RegistryInv, ConnInv, Furnished
  <2> QED
    BY <1>1, <2>1 DEF Config
<1> QED
  BY <1>3, <1>4

(* THEOREM: however connections are made, fail and are closed, by whom and *)
(* where Close is interrupted, one that has lost its port has a writer     *)
(* that has returned or can go on to its return, and is out of the map or  *)
(* in a Close that takes it out: the safety parts of ClosedWriterReturns   *)
(* and ClosedLeavesRegistry.  Only the writer of a serial output can be    *)
(* left waiting: MessageQueue() orphaned it, or the one token of the queue *)
(* it shares went to the writer of another connection.                     *)
THEOREM ClosedLeavesNothing == Spec => []NothingLeftBehind
<1>1. ASSUME RegistryInv, AllClosing, TokenTaken PROVE NothingLeftBehind
  <2> SUFFICES ASSUME NEW c \in Conns, Closed(c)
               PROVE  /\ \/ writer[c] = "done" \/ WriterGoesOn(c)
                         \/ c[1] \in Devs /\ (Orphaned(c) \/ Robbed(c))
                      /\ Registered(c) => InClose(c)
    BY DEF NothingLeftBehind
  <2>0. /\ ConnInv(c) /\ ClosingInv(c) /\ IsMade(c) /\ "writer" \in Callers
        /\ writer[c] \in {"start", "lazy", "wait", "check", "write", "close", "done"}
    BY <1>1 DEF RegistryInv, TypeOK, AllClosing, Closed, ClosingInv, WriterEnds, Callers
  <2>1. Registered(c) => InClose(c)
    BY <2>0 DEF ClosingInv, ClosedFully, InClose
  <2>2. CASE writer[c] # "wait" \/ InClose(c)
    BY <2>0, <2>1, <2>2 DEF ClosingInv, WriterEnds, InClose, WriterGoesOn
  <2>3. CASE writer[c] = "wait" /\ ~InClose(c)
    <3>1. OwnQueues(c) \cap closedQueues # {}
      BY <2>0, <2>3 DEF ClosingInv, ClosedFully, InClose
    <3>2. listens[c] \in closedQueues \/ (Lazy(c) /\ Orphaned(c))
      <4>1. CASE Lazy(c)
        <5>1. listens[c] \in {<<c, "writer">>, <<c, "sendMsg">>}
          BY <2>0, <2>3, <4>1 DEF ClosingInv, LateQueue
        <5>2. CASE <<c, "writer">> \in closedQueues
          BY <2>0, <4>1, <5>2 DEF ClosingInv, LateQueue
        <5>3. CASE <<c, "sendMsg">> \in closedQueues
          BY <4>1, <5>1, <5>3 DEF Orphaned
        <5> QED
          BY <3>1, <4>1, <5>2, <5>3 DEF OwnQueues
      <4>2. CASE ~Lazy(c)
        BY <2>0, <2>3, <3>1, <4>2 DEF ConnInv, Furnished, OwnQueues
      <4> QED
        BY <4>1, <4>2
    <3>3. CASE listens[c] \in DataAvailable \/ (Lazy(c) /\ Orphaned(c))
      BY <2>1, <2>3, <3>3 DEF WriterGoesOn, Lazy
    <3>4. CASE listens[c] \in closedQueues \ DataAvailable
      <4>1. PICK d \in Conns : listens[d] = listens[c] /\ writer[d] \in {"check", "done"}
        BY <1>1, <3>4 DEF TokenTaken
      <4>2. d # c
        BY <2>3, <4>1
      <4>3. Robbed(c)
        BY <2>3, <3>4, <4>1, <4>2 DEF Robbed
      <4>4. c[1] \in Devs
        BY <1>1, <2>0, <2>3, <4>1, <4>2, OwnListener
      <4> QED
        BY <2>1, <4>3, <4>4
    <3> QED
      BY <3>2, <3>3, <3>4
  <2> QED
    BY <2>2, <2>3
<1> QED
  BY RegistryInvariant, ClosingInvariant, TokenInvariant, <1>1, PTL

================================================================================
