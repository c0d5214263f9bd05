------------------------ MODULE ConnectionWriterProofs ------------------------
(***************************************************************************)
(* The safety properties of a connection and its writer, for every queue   *)
(* size, set of priorities, message length and packet size.                *)
(***************************************************************************)
EXTENDS ConnectionWriter, MessageQueueProofs

(***************************************************************************)
(* The composition: to the queue, the writer is one more user.             *)
(***************************************************************************)

(* Every step of the connection is a step of its queue or leaves it alone. *)
LEMMA NextIsQueueNext == [Next]_vars => [QueueNext]_queueVars
<1> SUFFICES ASSUME [Next]_vars PROVE [QueueNext]_queueVars
  OBVIOUS
<1>1. CASE WriterStep
  <2>1. CASE Wake
    BY <2>1 DEF Wake, QueueNext
  <2>2. CASE Check \/ Gate \/ Recheck \/ Write \/ WriteError
    BY <2>2 DEF Check, Gate, Recheck, Write, WriteError
  <2>3. CASE Peek
    BY <2>3 DEF Peek, QueueNext
  <2>4. CASE Pop
    BY <2>4 DEF Pop, QueueNext
  <2>5. CASE OnErrorClose
    <3>1. "writer" \in Closers
      BY <2>5, WriterAssumption DEF OnErrorClose
    <3> QED
      BY <3>1, <2>5 DEF OnErrorClose, QueueNext
  <2>6. CASE OnErrorNotify
    <3>1. "writer" \in Closers
      BY <2>6, WriterAssumption DEF OnErrorNotify
    <3> QED
      BY <3>1, <2>6 DEF OnErrorNotify, QueueNext
  <2> QED
    BY <1>1, <2>1, <2>2, <2>3, <2>4, <2>5, <2>6 DEF WriterStep
<1>2. CASE Sender
  BY <1>2 DEF Sender, QueueNext
<1>3. CASE Closer
  BY <1>3 DEF Closer, QueueNext
<1>4. CASE Statistics \/ Clock
  BY <1>4 DEF Statistics, Clock, QueueNext
<1>5. CASE Doze \/ Throttle \/ UNCHANGED vars
  BY <1>5 DEF Doze, Throttle, vars
<1> QED
  BY <1>1, <1>2, <1>3, <1>4, <1>5 DEF Next

(* So the queue of a connection is ordered and bounded.                    *)
THEOREM ConnectionQueue == Spec => []QueueInv
<1>1. Init => QueueInv
  BY QueueInitInv DEF Init
<1>2. QueueInv /\ [Next]_vars => QueueInv'
  BY NextIsQueueNext, QueueNextInv
<1> QED
  BY <1>1, <1>2, PTL DEF Spec

(***************************************************************************)
(* What the queue's operations return                                      *)
(***************************************************************************)

(* A subsequence of an empty queue is empty.                               *)
LEMMA PicksOfEmpty ==
    ASSUME NEW r \in Seq(Entry), Picks(r, <<>>)
    PROVE  r = <<>>
<1>1. PICK g \in [1..Len(r) -> 1..Len(<<>>)] : TRUE
  BY DEF Picks
<1>2. Len(r) \in Nat
  BY LenProperties
<1>3. Len(r) = 0
  <2>1. SUFFICES ASSUME Len(r) # 0 PROVE FALSE
    OBVIOUS
  <2>2. 1 \in 1..Len(r)
    BY <1>2, <2>1
  <2>3. g[1] \in 1..0
    BY <1>1, <2>2
  <2> QED
    BY <2>3
<1> QED
  BY <1>3, EmptySeq

(* The index getFirst hands out, and what is left behind it.               *)
LEMMA FirstUsable ==
    ASSUME NEW s \in Seq(Entry), NEW t, getFirstUsableIndex(s, t) # 0
    PROVE  /\ getFirstUsableIndex(s, t) \in 1..Len(s)
           /\ Len(Stripped(s, t, TRUE)) = Len(s) - getFirstUsableIndex(s, t)
           /\ \A j \in 1..Len(Stripped(s, t, TRUE)) :
                 Stripped(s, t, TRUE)[j] = s[getFirstUsableIndex(s, t) + j]
<1> DEFINE good == {i \in 1..Len(s) : ~Outdated(s[i], t)}
           index == getFirstUsableIndex(s, t)
<1>1. Len(s) \in Nat /\ \A i \in 1..Len(s) : s[i] \in Entry
  BY LenProperties, ElementOfSeq
<1>2. index = IF good = {} THEN 0 ELSE FirstOf(good)
  BY DEF getFirstUsableIndex
<1>3. good \in SUBSET Nat /\ good \in SUBSET (1..Len(s))
  BY <1>1
<1>4. good # {}
  BY <1>2
<1> HIDE DEF good
<1>5. FirstOf(good) \in good
  BY <1>3, <1>4, FirstOfProperty
<1>6. index \in 1..Len(s)
  BY <1>2, <1>3, <1>4, <1>5, Zenon
<1>7. Stripped(s, t, TRUE) = SubSeq(s, index + 1, Len(s))
  BY DEF Stripped
<1> DEFINE rest == SubSeq(s, index + 1, Len(s))
<1> HIDE DEF index
<1>8. \A i \in (index + 1)..Len(s) : s[i] \in Entry
  BY <1>1, <1>6
<1>9. /\ Len(rest) = Len(s) - index
      /\ \A j \in 1..(Len(s) - index) : rest[j] = s[index + j]
  <2>1. /\ Len(rest) = IF index + 1 <= Len(s) THEN Len(s) - (index + 1) + 1 ELSE 0
        /\ \A j \in 1..(Len(s) - (index + 1) + 1) : rest[j] = s[(index + 1) + j - 1]
    <3>1. index + 1 \in Int /\ Len(s) \in Int
      BY <1>1, <1>6
    <3> QED
      BY <3>1, <1>8, SubSeqProperties, SMT
  <2> HIDE DEF rest
  <2>2. Len(s) - (index + 1) + 1 = Len(s) - index
    BY <1>1, <1>6
  <2>3. Len(rest) = Len(s) - index
    <3>1. CASE index + 1 <= Len(s)
      BY <2>1, <2>2, <3>1
    <3>2. CASE ~(index + 1 <= Len(s))
      <4>1. Len(s) - index = 0
        BY <1>1, <1>6, <3>2
      <4> QED
        BY <2>1, <3>2, <4>1
    <3> QED
      BY <3>1, <3>2
  <2>4. ASSUME NEW j \in 1..(Len(s) - index) PROVE rest[j] = s[index + j]
    <3>1. (index + 1) + j - 1 = index + j
      BY <1>1, <1>6
    <3>2. rest[j] = s[(index + 1) + j - 1]
      BY <2>1, <2>2, Zenon
    <3> QED
      BY <3>1, <3>2
  <2> QED
    BY <2>3, <2>4
<1> QED
  BY <1>6, <1>7, <1>9 DEF index, rest

(***************************************************************************)
(* The writer's invariant, one part after the other                        *)
(***************************************************************************)

(* What Pop knows of the message it takes.                                 *)
LEMMA PoppedEntry ==
    ASSUME QueueInv, getFirstUsableIndex(entries, now) # 0
    PROVE  LET m == entries[getFirstUsableIndex(entries, now)] IN
           /\ m.priority \in Priorities
           /\ m.data \in Nat
           /\ m.data < puts
           /\ MsgLen[m.priority] \in Nat
<1> DEFINE k == getFirstUsableIndex(entries, now)
<1>1. entries \in Seq(Entry)
  BY DEF QueueInv, QueueTypeOK
<1>2. k \in 1..Len(entries)
  BY <1>1, FirstUsable
<1>3. entries[k] \in Entry /\ entries[k].data < puts
  BY <1>1, <1>2, ElementOfSeq DEF QueueInv, ArrivalOrder
<1> HIDE DEF k
<1>4. entries[k].priority \in Priorities /\ entries[k].data \in Nat
  BY <1>3 DEF Entry
<1>5. MsgLen[entries[k].priority] \in Nat
  BY <1>4, WriterAssumption
<1> QED
  BY <1>3, <1>4, <1>5 DEF k

(* The writer's variables keep their types.                                *)
LEMMA TypeStep ==
    ASSUME QueueInv, WriterTypeOK, [Next]_vars
    PROVE  WriterTypeOK'
<1>1. CASE Wake \/ Check \/ OnErrorClose \/ OnErrorNotify
  BY <1>1 DEF WriterTypeOK, WriterStates, Wake, Check, OnErrorClose,
              OnErrorNotify, data, client
<1>2. CASE Gate \/ Recheck
  <2>1. gated' \in BOOLEAN /\ dozing' \in BOOLEAN
    BY <1>2, Zenon DEF WriterTypeOK, Gate, Recheck
  <2>2. writer' \in WriterStates
    BY <1>2 DEF WriterStates, Gate, Recheck, Collected
  <2>3. peeked' \in Int
    BY <1>2 DEF WriterTypeOK, Gate, Recheck
  <2> QED
    BY <1>2, <2>1, <2>2, <2>3 DEF WriterTypeOK, Gate, Recheck, data, client
<1>3. CASE Peek
  <2>1. peeked' \in Int
    <3>1. CASE getFirstUsableIndex(entries, now) = 0
      BY <1>3, <3>1 DEF Peek
    <3>2. CASE getFirstUsableIndex(entries, now) # 0
      BY <1>3, <3>2, PoppedEntry, ConstantTypes DEF Peek
    <3> QED
      BY <3>1, <3>2
  <2> QED
    BY <1>3, <2>1 DEF WriterTypeOK, WriterStates, Peek, data, client
<1>4. CASE Pop
  <2>1. CASE getFirstUsableIndex(entries, now) = 0
    BY <1>4, <2>1 DEF WriterTypeOK, WriterStates, Pop, Collected, data, client
  <2>2. CASE getFirstUsableIndex(entries, now) # 0
    <3> DEFINE m == entries[getFirstUsableIndex(entries, now)]
               len == MsgLen[m.priority]
    <3>1. m.priority \in Priorities /\ m.data \in Nat /\ len \in Nat
      BY <2>2, PoppedEntry
    <3>2. /\ packet' = Append(packet, len)
          /\ dataLen' = dataLen + len
          /\ maxMsgLen' = IF len > maxMsgLen THEN dataLen' ELSE maxMsgLen
          /\ writer' = IF dataLen' + maxMsgLen' > DesiredSize
                       THEN "write" ELSE "gate"
          /\ taken' = [taken EXCEPT ![m.priority] = m.data]
      BY <1>4, <2>2 DEF Pop
    <3>3. UNCHANGED <<gated, peeked, client, late>> /\ dozing' = FALSE
      BY <1>4, <2>2 DEF Pop
    <3> HIDE DEF m, len
    <3>4. packet' \in Seq(Nat) /\ dataLen' \in Nat /\ maxMsgLen' \in Nat
      BY <3>1, <3>2, AppendProperties DEF WriterTypeOK
    <3>5. taken' \in [Priorities -> Int]
      BY <3>1, <3>2 DEF WriterTypeOK
    <3>6. writer' \in WriterStates
      BY <3>2 DEF WriterStates
    <3> QED
      BY <3>3, <3>4, <3>5, <3>6 DEF WriterTypeOK, client
  <2> QED
    BY <2>1, <2>2
<1>5. CASE Write \/ WriteError
  <2>1. packet' \in Seq(Nat) /\ dataLen' \in Nat /\ maxMsgLen' \in Nat
    <3>1. <<>> \in Seq(Nat)
      BY EmptySeq
    <3>2. packet' = <<>> /\ dataLen' = 0 /\ maxMsgLen' = 0
      BY <1>5 DEF Write, WriteError
    <3> QED
      BY <3>1, <3>2
  <2>2. writer' \in WriterStates /\ late' \in Nat
    BY <1>5 DEF WriterTypeOK, WriterStates, Write, WriteError
  <2> QED
    BY <1>5, <2>1, <2>2 DEF WriterTypeOK, Write, WriteError, client
<1>6. CASE Sender \/ Closer \/ Statistics \/ Clock \/ UNCHANGED vars
  BY <1>6 DEF WriterTypeOK, Sender, Closer, Statistics, Clock, vars, writerVars,
              data, client
<1>7. CASE Doze \/ Throttle
  BY <1>7 DEF WriterTypeOK, Doze, Throttle, data
<1> QED
  BY <1>1, <1>2, <1>3, <1>4, <1>5, <1>6, <1>7 DEF Next, WriterStep

(* A sleeping writer is woken by the Put that fills its queue.             *)
LEMMA WakeupStep ==
    ASSUME QueueInv, WriterTypeOK, NoLostWakeup, [Next]_vars
    PROVE  NoLostWakeup'
<1>1. CASE Wake \/ Check \/ Gate \/ Peek \/ Write \/ WriteError
           \/ OnErrorClose \/ OnErrorNotify
  BY <1>1 DEF NoLostWakeup, Wake, Check, Gate, Peek, Write, WriteError,
              OnErrorClose, OnErrorNotify
<1>2. CASE Recheck
  BY <1>2 DEF NoLostWakeup, Recheck
<1>3. CASE Pop
  <2>1. CASE getFirstUsableIndex(entries, now) = 0
    BY <1>3, <2>1 DEF NoLostWakeup, Pop, PopFirst, Stripped
  <2>2. CASE getFirstUsableIndex(entries, now) # 0
    BY <1>3, <2>2 DEF NoLostWakeup, Pop
  <2> QED
    BY <2>1, <2>2
<1>4. CASE Sender
  <2>1. CASE \E p \in Priorities, a \in Ages : PutCheck(p, a)
    BY <1>4, <2>1 DEF NoLostWakeup, Sender, PutCheck, writerVars
  <2>2. CASE PutInsert
    BY <1>4, <2>2 DEF NoLostWakeup, Sender, PutInsert, writerVars
  <2> QED
    BY <1>4, <2>1, <2>2 DEF Sender
<1>5. CASE Closer
  BY <1>5 DEF NoLostWakeup, Closer, CloseFlag, CloseNotify, writerVars
<1>6. CASE Statistics
  <2>1. UNCHANGED <<writer, gated, DataAvailable>>
    BY <1>6 DEF Statistics, GetQueueDump, writerVars
  <2>2. entries' \in Seq(Entry) /\ Picks(entries', entries)
    <3>1. entries \in Seq(Entry) /\ MaxSize \in Nat
      BY QueueAssumption DEF QueueInv, QueueTypeOK
    <3> QED
      BY <1>6, <3>1, PrunePicks DEF Statistics, GetQueueDump
  <2>3. entries = <<>> => entries' = <<>>
    BY <2>2, PicksOfEmpty
  <2> QED
    BY <2>1, <2>3 DEF NoLostWakeup
<1>7. CASE Clock \/ UNCHANGED vars
  BY <1>7 DEF NoLostWakeup, Clock, Tick, vars, queueVars, writerVars
<1>8. CASE Doze \/ Throttle
  BY <1>8 DEF NoLostWakeup, Doze, Throttle, queueVars
<1> QED
  BY <1>1, <1>2, <1>3, <1>4, <1>5, <1>6, <1>7, <1>8 DEF Next, WriterStep

(* Close's token stays in the channel until the writer looks at the flag.  *)
LEMMA CloseTokenStep ==
    ASSUME QueueInv, CloseToken, [Next]_vars
    PROVE  CloseToken'
<1>1. CASE Wake \/ Check \/ Write \/ WriteError \/ OnErrorClose \/ OnErrorNotify
  BY <1>1 DEF CloseToken, Collecting, Wake, Check, Write, WriteError,
              OnErrorClose, OnErrorNotify, queueVars
<1>2. CASE Gate \/ Peek \/ Recheck \/ Pop
  <2>1. UNCHANGED <<Closed, DataAvailable, closer>>
    BY <1>2 DEF Gate, Peek, Recheck, Pop, PeekFirst, PopFirst, queueVars
  <2>2. writer \in Collecting
    BY <1>2 DEF Gate, Peek, Recheck, Pop, Collecting
  <2> QED
    BY <2>1, <2>2 DEF CloseToken
<1>3. CASE Sender
  <2>1. UNCHANGED <<writer, Closed, closer>>
    BY <1>3 DEF Sender, PutCheck, PutInsert, writerVars
  <2>2. DataAvailable => DataAvailable'
    BY <1>3 DEF Sender, PutCheck, PutInsert
  <2> QED
    BY <2>1, <2>2 DEF CloseToken
<1>4. CASE Closer
  <2>1. UNCHANGED writer
    BY <1>4 DEF Closer, writerVars
  <2>2. PICK c \in Closers : CloseFlag(c) \/ CloseNotify(c)
    BY <1>4 DEF Closer
  <2>3. CASE CloseFlag(c)
    <3>1. CASE Closed
      <4>1. UNCHANGED <<Closed, DataAvailable>>
        BY <2>3, <3>1 DEF CloseFlag, QueueInv, QueueTypeOK
      <4>2. \A d \in Closers : closer[d] = "notify" => closer'[d] = "notify"
        BY <2>3 DEF CloseFlag, QueueInv, QueueTypeOK
      <4> QED
        BY <4>1, <4>2, <2>1 DEF CloseToken
    <3>2. CASE ~Closed
      BY <2>3, <3>2 DEF CloseToken, CloseFlag, QueueInv, QueueTypeOK
    <3> QED
      BY <3>1, <3>2
  <2>4. CASE CloseNotify(c)
    BY <2>4 DEF CloseToken, CloseNotify
  <2> QED
    BY <2>2, <2>3, <2>4
<1>5. CASE Statistics \/ Clock \/ UNCHANGED vars
  BY <1>5 DEF CloseToken, Statistics, GetQueueDump, Clock, Tick, vars,
              queueVars, writerVars
<1>6. CASE Doze \/ Throttle
  BY <1>6 DEF CloseToken, Doze, Throttle, queueVars
<1> QED
  BY <1>1, <1>2, <1>3, <1>4, <1>5, <1>6 DEF Next, WriterStep

(* Steps other than Pop leave the history of what was handed out alone.    *)
LEMMA TakenUnchanged ==
    ASSUME [Next]_vars, ~Pop
    PROVE  UNCHANGED taken
BY DEF Next, WriterStep, Wake, Check, Gate, Peek, Recheck, Write, WriteError,
       OnErrorClose, OnErrorNotify, Sender, Closer, Statistics, Clock, Doze,
       Throttle, vars, writerVars

(* What is handed out of the queue is the oldest of its priority.          *)
LEMMA OrderStep ==
    ASSUME QueueInv, QueueInv', WriterTypeOK, TakenOffered, HandedOutInOrder,
           [Next]_vars
    PROVE  TakenOffered' /\ HandedOutInOrder'
<1>0. /\ entries \in Seq(Entry) /\ puts \in Nat
      /\ \A i \in 1..Len(entries) : entries[i] \in Entry
      /\ \A p \in Priorities : taken[p] \in Int
  BY ElementOfSeq DEF QueueInv, QueueTypeOK, WriterTypeOK
<1>1. CASE Pop
  <2> DEFINE k == getFirstUsableIndex(entries, now)
  <2>1. entries' = Stripped(entries, now, TRUE) /\ UNCHANGED <<puts, sender>>
    BY <1>1 DEF Pop, PopFirst
  <2>2. CASE k = 0
    <3>1. taken' = taken /\ entries' = <<>>
      BY <1>1, <2>1, <2>2 DEF Pop, Stripped
    <3>2. Len(entries') = 0
      BY <3>1, EmptySeq
    <3>3. TakenOffered'
      BY <2>1, <3>1 DEF TakenOffered
    <3>4. sender' # NoPut => taken'[sender'.priority] < sender'.data
      BY <2>1, <3>1 DEF HandedOutInOrder
    <3>5. \A i \in 1..Len(entries') : FALSE
      BY <3>2
    <3> QED
      BY <3>3, <3>4, <3>5, Zenon DEF HandedOutInOrder
  <2>3. CASE k # 0
    <3>1. /\ k \in 1..Len(entries)
          /\ Len(entries') = Len(entries) - k
          /\ \A j \in 1..Len(entries') : entries'[j] = entries[k + j]
      BY <1>0, <2>1, <2>3, FirstUsable
    <3> DEFINE m == entries[k]
    <3>2. taken' = [taken EXCEPT ![m.priority] = m.data]
      BY <1>1, <2>3 DEF Pop
    <3>3. m.priority \in Priorities /\ m.data \in Nat /\ m.data < puts
      BY <2>3, PoppedEntry
    <3> HIDE DEF k
    <3>4. TakenOffered'
      BY <1>0, <2>1, <3>2, <3>3 DEF TakenOffered, WriterTypeOK
    <3>5. ASSUME NEW j \in 1..Len(entries')
          PROVE  taken'[entries'[j].priority] < entries'[j].data
      <4>1. entries'[j] = entries[k + j] /\ k + j \in 1..Len(entries) /\ k < k + j
        BY <1>0, <3>1, LenProperties
      <4>2. Precedes(m, entries[k + j])
        BY <3>1, <4>1 DEF QueueInv, InPriorityOrder, Ordered
      <4>3. entries[k + j].priority \in Priorities /\ entries[k + j].data \in Nat
        BY <1>0, <4>1 DEF Entry
      <4>4. taken[entries[k + j].priority] < entries[k + j].data
        BY <4>1 DEF HandedOutInOrder
      <4>5. CASE entries[k + j].priority = m.priority
        <5>1. m.data < entries[k + j].data
          BY <4>2, <4>3, <4>5, ConstantTypes DEF Precedes
        <5> QED
          BY <5>1, <4>1, <4>3, <4>5, <3>2 DEF WriterTypeOK
      <4>6. CASE entries[k + j].priority # m.priority
        BY <4>1, <4>3, <4>4, <4>6, <3>2 DEF WriterTypeOK
      <4> QED
        BY <4>5, <4>6
    <3>6. ASSUME sender # NoPut
          PROVE  taken'[sender.priority] < sender.data
      <4>1. sender.priority \in Priorities /\ m.data < sender.data
            /\ taken[sender.priority] < sender.data
        BY <3>1, <3>6 DEF QueueInv, QueueTypeOK, ArrivalOrder, PutArg,
                          HandedOutInOrder
      <4> QED
        BY <4>1, <3>2 DEF WriterTypeOK
    <3>7. HandedOutInOrder'
      BY <2>1, <3>5, <3>6 DEF HandedOutInOrder
    <3> QED
      BY <3>4, <3>7
  <2> QED
    BY <2>2, <2>3
<1>2. CASE Sender
  <2>1. UNCHANGED taken
    BY <1>2 DEF Sender, writerVars
  <2>2. CASE \E p \in Priorities, a \in Ages : PutCheck(p, a)
    <3>1. PICK p \in Priorities, a \in Ages : PutCheck(p, a)
      BY <2>2
    <3>2. TakenOffered'
      BY <1>0, <2>1, <3>1 DEF PutCheck, TakenOffered
    <3>3. HandedOutInOrder'
      BY <1>0, <2>1, <3>1 DEF PutCheck, TakenOffered, HandedOutInOrder, NoPut
    <3> QED
      BY <3>2, <3>3
  <2>3. CASE PutInsert
    <3> DEFINE e == [priority   |-> sender.priority,
                     outdatedAt |-> now + sender.maxAge,
                     data       |-> sender.data]
               grown == Insert(entries, e)
    <3>1. UNCHANGED puts /\ sender' = NoPut
      BY <2>3 DEF PutInsert
    <3>2. e \in Entry /\ \A i \in 1..Len(entries) : entries[i].data < e.data
      <4>1. sender \in PutArg /\ now \in Nat
        BY <2>3 DEF PutInsert, QueueInv, QueueTypeOK
      <4>2. sender.priority \in Priorities /\ sender.data \in Nat
            /\ now + sender.maxAge \in Nat
        BY <4>1, ConstantTypes DEF PutArg
      <4> QED
        BY <2>3, <4>2 DEF PutInsert, Entry, QueueInv, ArrivalOrder
    <3>3. taken[e.priority] < e.data
      BY <2>3 DEF PutInsert, HandedOutInOrder
    <3>4. entries' = IF Len(grown) > OverUse THEN prune(grown, now, MaxSize)
                     ELSE grown
      BY <2>3 DEF PutInsert
    <3> HIDE DEF e
    <3>5. /\ grown \in Seq(Entry)
          /\ \A i \in 1..Len(grown) :
                grown[i] = e \/ \E j \in 1..Len(entries) : grown[i] = entries[j]
      BY <1>0, <3>2, EntryIsQueued, InsertOrdered DEF QueueInv, InPriorityOrder
    <3> HIDE DEF grown
    <3>6. \A i \in 1..Len(grown) : taken[grown[i].priority] < grown[i].data
      BY <3>3, <3>5 DEF HandedOutInOrder
    <3>7. \A i \in 1..Len(entries') :
             \E j \in 1..Len(grown) : entries'[i] = grown[j]
      <4>1. CASE Len(grown) > OverUse
        <5>1. MaxSize \in Nat
          BY QueueAssumption
        <5>2. Picks(entries', grown)
          BY <3>4, <3>5, <4>1, <5>1, PrunePicks
        <5> QED
          BY <5>2 DEF Picks
      <4>2. CASE ~(Len(grown) > OverUse)
        BY <3>4, <4>2
      <4> QED
        BY <4>1, <4>2
    <3> QED
      BY <2>1, <3>1, <3>6, <3>7 DEF TakenOffered, HandedOutInOrder
  <2> QED
    BY <1>2, <2>2, <2>3 DEF Sender
<1>3. CASE Peek \/ Statistics
  <2>1. UNCHANGED <<taken, puts, sender>>
    BY <1>3 DEF Peek, PeekFirst, Statistics, GetQueueDump, writerVars
  <2>2. Picks(entries', entries)
    <3>1. MaxSize \in Nat
      BY QueueAssumption
    <3> QED
      BY <1>0, <1>3, <3>1, StrippedPicks, PrunePicks
      DEF Peek, PeekFirst, Statistics, GetQueueDump
  <2>3. \A i \in 1..Len(entries') :
           \E j \in 1..Len(entries) : entries'[i] = entries[j]
    BY <2>2 DEF Picks
  <2> QED
    BY <2>1, <2>3 DEF TakenOffered, HandedOutInOrder
<1>4. CASE /\ ~Pop /\ ~Sender /\ ~Peek /\ ~Statistics
  <2>1. UNCHANGED <<entries, puts, sender>>
    BY <1>4 DEF Next, WriterStep, Wake, Receive, Check, Gate, Recheck, Write,
                WriteError, OnErrorClose, OnErrorNotify, Closer, CloseFlag,
                CloseNotify, Clock, Tick, Doze, Throttle, vars, queueVars
  <2>2. UNCHANGED taken
    BY <1>4, TakenUnchanged
  <2> QED
    BY <2>1, <2>2 DEF TakenOffered, HandedOutInOrder
<1> QED
  BY <1>1, <1>2, <1>3, <1>4

(* The writer looks at the flag after every packet.                        *)
LEMMA LateStep ==
    ASSUME WriterTypeOK, LateIsLast, [Next]_vars
    PROVE  LateIsLast'
<1>1. CASE Write
  BY <1>1 DEF LateIsLast, Write, queueVars
<1>2. CASE Check
  BY <1>2 DEF LateIsLast, Check, queueVars
<1>3. CASE Wake \/ Gate \/ Peek \/ Recheck \/ Pop \/ WriteError
           \/ OnErrorClose \/ OnErrorNotify
  BY <1>3 DEF LateIsLast, Wake, Gate, Peek, Recheck, Pop, WriteError,
              OnErrorClose, OnErrorNotify
<1>4. CASE Sender \/ Closer \/ Statistics \/ Clock \/ Doze \/ Throttle
           \/ UNCHANGED vars
  <2>1. UNCHANGED <<late, writer>>
    BY <1>4 DEF Sender, Closer, Statistics, Clock, Doze, Throttle, vars, writerVars
  <2>2. Closed => Closed'
    BY <1>4 DEF Sender, PutCheck, PutInsert, Closer, CloseFlag, CloseNotify,
                Statistics, GetQueueDump, Clock, Tick, Doze, Throttle, vars,
                queueVars
  <2> QED
    BY <2>1, <2>2 DEF LateIsLast
<1> QED
  BY <1>1, <1>2, <1>3, <1>4 DEF Next, WriterStep

(* A message that exceeds the packet is longer than maxMsgLen, so longer   *)
(* than every message before it.                                           *)
LEMMA RoomStep ==
    ASSUME QueueInv, WriterTypeOK, RoomLeft, PacketSize, [Next]_vars
    PROVE  RoomLeft' /\ PacketSize'
<1>0. /\ packet \in Seq(Nat) /\ Len(packet) \in Nat
      /\ dataLen \in Nat /\ maxMsgLen \in Nat /\ DesiredSize \in Nat
      /\ \A i \in 1..Len(packet) : packet[i] \in Nat
  BY LenProperties, ElementOfSeq, WriterAssumption DEF WriterTypeOK
<1>1. CASE Pop
  <2> DEFINE k == getFirstUsableIndex(entries, now)
  <2>1. CASE k = 0
    <3>1. UNCHANGED <<packet, dataLen, maxMsgLen>>
      BY <1>1, <2>1 DEF Pop, data
    <3>2. /\ writer' \notin Collecting
          /\ writer' # "write" => packet = <<>>
      BY <1>1, <2>1 DEF Pop, Collected, Collecting
    <3> QED
      BY <3>1, <3>2 DEF RoomLeft, PacketSize
  <2>2. CASE k # 0
    <3> DEFINE len == MsgLen[entries[k].priority]
    <3>1. len \in Nat
      BY <2>2, PoppedEntry
    <3>2. /\ packet' = Append(packet, len)
          /\ dataLen' = dataLen + len
          /\ maxMsgLen' = IF len > maxMsgLen THEN dataLen' ELSE maxMsgLen
          /\ writer' = IF dataLen' + maxMsgLen' > DesiredSize
                       THEN "write" ELSE "gate"
      BY <1>1, <2>2 DEF Pop
    <3>3. writer = "pop"
      BY <1>1 DEF Pop
    <3> HIDE DEF len
    <3>4. /\ Len(packet') = Len(packet) + 1
          /\ \A i \in 1..Len(packet) : packet'[i] = packet[i]
          /\ packet'[Len(packet) + 1] = len
      BY <1>0, <3>1, <3>2, AppendProperties
    <3>5. len <= maxMsgLen' /\ maxMsgLen <= maxMsgLen'
      BY <1>0, <3>1, <3>2
    <3>6. \A i \in 1..Len(packet) : packet[i] <= maxMsgLen
      BY DEF RoomLeft
    <3>7. \A i \in 1..Len(packet') : packet'[i] <= maxMsgLen'
      <4> TAKE i \in 1..Len(packet')
      <4>1. CASE i \in 1..Len(packet)
        BY <4>1, <1>0, <3>1, <3>2, <3>4, <3>5, <3>6
      <4>2. CASE i = Len(packet) + 1
        BY <4>2, <3>4, <3>5
      <4> QED
        BY <4>1, <4>2, <3>4, <1>0
    <3>8. /\ writer' \in Collecting => dataLen' + maxMsgLen' <= DesiredSize
          /\ writer' \in Collecting \cup {"write"}
      BY <1>0, <3>1, <3>2 DEF Collecting
    <3>9. PacketSize'
      <4> SUFFICES ASSUME dataLen' > DesiredSize, NEW i \in 1..(Len(packet') - 1)
                   PROVE  packet'[i] < packet'[Len(packet')]
        BY DEF PacketSize
      <4>1. i \in 1..Len(packet)
        BY <1>0, <3>4
      <4>2. packet # <<>>
        BY <4>1, EmptySeq
      <4>3. dataLen + maxMsgLen <= DesiredSize
        BY <4>2, <3>3 DEF RoomLeft, Collecting
      <4>4. len > maxMsgLen
        BY <4>3, <1>0, <3>1, <3>2
      <4> QED
        BY <4>1, <4>4, <1>0, <3>1, <3>4, <3>6
    <3> QED
      BY <3>7, <3>8, <3>9 DEF RoomLeft
  <2> QED
    BY <2>1, <2>2
<1>2. CASE Write \/ WriteError
  <2>1. packet' = <<>> /\ Len(packet') = 0
    BY <1>2, EmptySeq DEF Write, WriteError
  <2> QED
    BY <2>1 DEF RoomLeft, PacketSize
<1>3. CASE Check
  <2>1. UNCHANGED <<packet, dataLen, maxMsgLen>>
    BY <1>3 DEF Check, data
  <2>2. packet = <<>>
    BY <1>3 DEF RoomLeft, Check, Collecting
  <2> QED
    BY <2>1, <2>2 DEF RoomLeft, PacketSize
<1>4. CASE Gate \/ Peek \/ Recheck
  <2>1. /\ UNCHANGED <<packet, dataLen, maxMsgLen>>
        /\ writer \in Collecting
        /\ writer' \notin Collecting \cup {"write"} => packet = <<>>
    BY <1>4 DEF Gate, Peek, Recheck, Collected, Collecting, data
  <2> QED
    BY <2>1 DEF RoomLeft, PacketSize
<1>5. CASE Wake \/ OnErrorClose \/ OnErrorNotify
  <2>1. /\ UNCHANGED <<packet, dataLen, maxMsgLen>>
        /\ writer' \notin Collecting
        /\ writer \notin Collecting \cup {"write"}
    BY <1>5 DEF Wake, OnErrorClose, OnErrorNotify, Collecting, data
  <2> QED
    BY <2>1 DEF RoomLeft, PacketSize
<1>6. CASE Sender \/ Closer \/ Statistics \/ Clock \/ Doze \/ Throttle
           \/ UNCHANGED vars
  <2>1. UNCHANGED <<packet, dataLen, maxMsgLen, writer>>
    BY <1>6 DEF Sender, Closer, Statistics, Clock, Doze, Throttle, vars,
                writerVars, data
  <2> QED
    BY <2>1 DEF RoomLeft, PacketSize
<1> QED
  BY <1>1, <1>2, <1>3, <1>4, <1>5, <1>6 DEF Next, WriterStep

(***************************************************************************)
(* The theorems                                                            *)
(***************************************************************************)

(* A new connection satisfies the invariant.                               *)
LEMMA InitInv == Init => WriterInv
<1> SUFFICES ASSUME Init PROVE WriterInv
  OBVIOUS
<1>1. /\ packet = <<>> /\ Len(packet) = 0 /\ packet \in Seq(Nat)
      /\ entries = <<>> /\ Len(entries) = 0 /\ sender = NoPut /\ puts = 0
  BY EmptySeq DEF Init, QueueInit
<1>2. WriterTypeOK
  <2>1. asleep \in BOOLEAN /\ throttled \in BOOLEAN
        /\ gated \in BOOLEAN /\ dozing \in BOOLEAN
    BY WriterAssumption, Zenon DEF Init
  <2>2. taken \in [Priorities -> Int] /\ writer \in WriterStates
    BY DEF Init, WriterStates
  <2> QED
    BY <1>1, <2>1, <2>2 DEF Init, WriterTypeOK
<1>3. NoLostWakeup /\ CloseToken /\ LateIsLast
  BY <1>1 DEF Init, QueueInit, NoLostWakeup, CloseToken, LateIsLast
<1>4. TakenOffered /\ HandedOutInOrder
  BY <1>1 DEF Init, TakenOffered, HandedOutInOrder
<1>5. RoomLeft /\ PacketSize
  BY <1>1, WriterAssumption DEF Init, RoomLeft, PacketSize
<1> QED
  BY <1>2, <1>3, <1>4, <1>5 DEF WriterInv

(* The invariant of the connection, for every queue size, message length   *)
(* and kind of connection.                                                 *)
THEOREM ConnectionInvariant == Spec => []WriterInv
<1>1. QueueInv /\ WriterInv /\ QueueInv' /\ [Next]_vars => WriterInv'
  BY TypeStep, WakeupStep, CloseTokenStep, OrderStep, LateStep, RoomStep
  DEF WriterInv
<1> QED
  BY <1>1, InitInv, ConnectionQueue, PTL DEF Spec

(* No lost wake-up: a writer asleep on an empty channel has an empty queue *)
(* unless it stopped for a sleeping or throttled client.                   *)
THEOREM NeverLosesWakeup == Spec => []NoLostWakeup
<1>1. WriterInv => NoLostWakeup
  BY DEF WriterInv
<1> QED
  BY <1>1, ConnectionInvariant, PTL

(* Close reaches a writer that is asleep.                                  *)
THEOREM CloseReachesWriter == Spec => []CloseWakesWriter
<1>1. WriterInv => CloseWakesWriter
  BY DEF WriterInv, CloseToken, CloseWakesWriter
<1> QED
  BY <1>1, ConnectionInvariant, PTL

(* Messages of equal priority leave in the order of their arrival.         *)
THEOREM DeliveryOrder == Spec => []HandedOutInOrder
<1>1. WriterInv => HandedOutInOrder
  BY DEF WriterInv
<1> QED
  BY <1>1, ConnectionInvariant, PTL

(* At most one packet is written after Close, and packets exceed the       *)
(* desired size only through a last, longest message.                      *)
THEOREM PacketBounds == Spec => [](OnePacketAfterClose /\ PacketSize)
<1>1. WriterInv => OnePacketAfterClose /\ PacketSize
  BY DEF WriterInv, LateIsLast, OnePacketAfterClose
<1> QED
  BY <1>1, ConnectionInvariant, PTL

===============================================================================
