----------------------------- MODULE DataLogProofs -----------------------------
(***************************************************************************)
(* That the database is never closed under a writer and that rows reach it *)
(* in the order they were logged, for every number of producers, starts    *)
(* and rows, and every capacity of the channels; and that nobody waits for *)
(* the log in vain but in the cases that DataLog names.                    *)
(*                                                                         *)
(* The order in the database follows from the order along the whole way of *)
(* a row, which every goroutine shortens or extends at one place.          *)
(***************************************************************************)
EXTENDS DataLog, TLAPS, FiniteSetTheorems, SequenceTheorems

(* The flag says whether dataLog runs, and the goroutines know channels of *)
(* a start that has happened.                                              *)
StartedTogether ==
    /\ dataLogStarted = (log # "off")
    /\ log # "off" => starts >= 1
    /\ writer \in {"loop", "stop"} => made >= 1
    /\ \A c \in Closers : closer[c].pc = "wait" => closer[c].on >= 1

(* The producers that are about to log a row, and room for their rows.     *)
Busy == {p \in Producers : producer[p] # Idle}
RoomForRows == accepted + Cardinality(Busy) <= MaxRows

(* The rows of a stage, and the one that dataLog passes on.                *)
Rows(s) == {s[i] : i \in 1..Len(s)}
InHand == IF log = "send" THEN {hand.row} ELSE {}

Rising(s) == \A i, j \in 1..Len(s) : i < j => s[i] < s[j]
AllBelow(S, T) == \A x \in S, y \in T : x < y

(* What is on its way after the database: every stage is in order, and     *)
(* behind the stages before it.                                            *)
Queued == Rows(rowsQueuedForWrite)
Passed == Rows(dataLogWriteChan)
Logged == Rows(dataLogChan)

OnTheWay ==
    /\ Queued \cup Passed \cup InHand \cup Logged \subseteq 1..accepted
    /\ Rising(rowsQueuedForWrite) /\ Rising(dataLogWriteChan) /\ Rising(dataLogChan)
    /\ AllBelow(Queued, Passed \cup InHand \cup Logged)
    /\ AllBelow(Passed, InHand \cup Logged)
    /\ AllBelow(InHand, Logged)

(* Unless an INSERT has failed, all of that is behind the database.        *)
DatabaseFirst ==
    failures = 0 =>
        /\ insertBatch = <<>>
        /\ Rows(db) \subseteq 1..accepted
        /\ Rising(db)
        /\ AllBelow(Rows(db), Queued \cup Passed \cup InHand \cup Logged)

DataLogInv ==
    /\ DataLogTypeOK /\ StartedTogether /\ NoWriterWithoutLog /\ RoomForRows
    /\ OnTheWay /\ DatabaseFirst

-------------------------------------------------------------------------------
(* Lemmas about the stages, as sequences of numbers.                       *)

(* A row is added at the end.                                              *)
LEMMA AppendRows ==
    ASSUME NEW s \in Seq(Nat), NEW x \in Nat, Rising(s), AllBelow(Rows(s), {x})
    PROVE  /\ Append(s, x) \in Seq(Nat) /\ Rising(Append(s, x))
           /\ Rows(Append(s, x)) = Rows(s) \cup {x}
           /\ Len(Append(s, x)) = Len(s) + 1
<1>1. /\ Append(s, x) \in Seq(Nat) /\ Len(Append(s, x)) = Len(s) + 1
      /\ Append(s, x)[Len(s) + 1] = x
      /\ \A i \in 1..Len(s) : Append(s, x)[i] = s[i]
      /\ Len(s) \in Nat
  BY AppendProperties, LenProperties
<1>2. \A i \in 1..Len(s) : s[i] \in Nat /\ s[i] < x
  BY ElementOfSeq DEF AllBelow, Rows
<1>3. Rising(Append(s, x))
  <2> SUFFICES ASSUME NEW i \in 1..(Len(s) + 1), NEW j \in 1..(Len(s) + 1), i < j
               PROVE  Append(s, x)[i] < Append(s, x)[j]
    BY <1>1 DEF Rising
  <2>1. i \in 1..Len(s) /\ Append(s, x)[i] = s[i]
    BY <1>1
  <2>2. CASE j = Len(s) + 1
    BY <1>1, <1>2, <2>1, <2>2
  <2>3. CASE j \in 1..Len(s)
    BY <1>1, <2>1, <2>3 DEF Rising
  <2> QED
    BY <1>1, <2>2, <2>3
<1>4. Rows(Append(s, x)) = Rows(s) \cup {x}
  BY <1>1 DEF Rows
<1> QED
  BY <1>1, <1>3, <1>4

(* A row is taken from the front.                                          *)
LEMMA TailRows ==
    ASSUME NEW s \in Seq(Nat), s # <<>>, Rising(s)
    PROVE  /\ Tail(s) \in Seq(Nat) /\ Rising(Tail(s))
           /\ Rows(s) = {Head(s)} \cup Rows(Tail(s))
           /\ AllBelow({Head(s)}, Rows(Tail(s)))
           /\ Len(Tail(s)) = Len(s) - 1
<1>1. /\ Head(s) = s[1] /\ Tail(s) \in Seq(Nat) /\ Len(Tail(s)) = Len(s) - 1
      /\ Len(s) \in Nat \ {0}
      /\ \A i \in 1..(Len(s) - 1) : Tail(s)[i] = s[i + 1]
  BY HeadTailProperties, LenProperties, EmptySeq
<1>2. Rising(Tail(s)) /\ AllBelow({Head(s)}, Rows(Tail(s)))
  BY <1>1 DEF Rising, AllBelow, Rows
<1>3. Rows(s) = {Head(s)} \cup Rows(Tail(s))
  <2>1. ASSUME NEW i \in 1..Len(s) PROVE s[i] \in {Head(s)} \cup Rows(Tail(s))
    <3>1. CASE i = 1
      BY <1>1, <3>1
    <3>2. CASE i # 1
      <4>1. i - 1 \in 1..Len(Tail(s)) /\ Tail(s)[i - 1] = s[i]
        BY <1>1, <3>2
      <4> QED
        BY <4>1 DEF Rows
    <3> QED
      BY <3>1, <3>2
  <2>2. Head(s) \in Rows(s)
    BY <1>1 DEF Rows
  <2>3. ASSUME NEW i \in 1..Len(Tail(s)) PROVE Tail(s)[i] \in Rows(s)
    <3>1. i + 1 \in 1..Len(s) /\ Tail(s)[i] = s[i + 1]
      BY <1>1
    <3> QED
      BY <3>1 DEF Rows
  <2> QED
    BY <2>1, <2>2, <2>3 DEF Rows
<1> QED
  BY <1>1, <1>2, <1>3

(* One stage is added to another.                                          *)
LEMMA ConcatRows ==
    ASSUME NEW s \in Seq(Nat), NEW t \in Seq(Nat), Rising(s), Rising(t),
           AllBelow(Rows(s), Rows(t))
    PROVE  /\ s \o t \in Seq(Nat) /\ Rising(s \o t)
           /\ Rows(s \o t) = Rows(s) \cup Rows(t)
<1>1. /\ s \o t \in Seq(Nat) /\ Len(s \o t) = Len(s) + Len(t)
      /\ \A i \in 1..Len(s) + Len(t) :
            (s \o t)[i] = IF i <= Len(s) THEN s[i] ELSE t[i - Len(s)]
      /\ Len(s) \in Nat /\ Len(t) \in Nat
  BY ConcatProperties, LenProperties
<1>2. \A i \in 1..Len(s), j \in 1..Len(t) : s[i] < t[j]
  BY DEF AllBelow, Rows
<1>3. Rising(s \o t)
  <2> SUFFICES ASSUME NEW i \in 1..(Len(s) + Len(t)), NEW j \in 1..(Len(s) + Len(t)), i < j
               PROVE  (s \o t)[i] < (s \o t)[j]
    BY <1>1 DEF Rising
  <2>1. CASE j <= Len(s)
    <3>1. i \in 1..Len(s) /\ j \in 1..Len(s)
      BY <1>1, <2>1
    <3> QED
      BY <1>1, <3>1 DEF Rising
  <2>2. CASE i <= Len(s) /\ j > Len(s)
    <3>1. i \in 1..Len(s) /\ j - Len(s) \in 1..Len(t)
      BY <1>1, <2>2
    <3> QED
      BY <1>1, <1>2, <2>2, <3>1
  <2>3. CASE i > Len(s)
    <3>1. /\ i - Len(s) \in 1..Len(t) /\ j - Len(s) \in 1..Len(t)
          /\ i - Len(s) < j - Len(s) /\ ~(i <= Len(s)) /\ ~(j <= Len(s))
      BY <1>1, <2>3
    <3> QED
      BY <1>1, <3>1 DEF Rising
  <2> QED
    BY <1>1, <2>1, <2>2, <2>3
<1>4. Rows(s \o t) \subseteq Rows(s) \cup Rows(t)
  BY <1>1 DEF Rows
<1>5. Rows(s) \subseteq Rows(s \o t)
  <2> SUFFICES ASSUME NEW i \in 1..Len(s) PROVE s[i] \in Rows(s \o t)
    BY DEF Rows
  <2>1. i \in 1..Len(s \o t) /\ (s \o t)[i] = s[i]
    BY <1>1
  <2> QED
    BY <2>1 DEF Rows
<1>6. Rows(t) \subseteq Rows(s \o t)
  <2> SUFFICES ASSUME NEW j \in 1..Len(t) PROVE t[j] \in Rows(s \o t)
    BY DEF Rows
  <2>1. Len(s) + j \in 1..Len(s \o t) /\ (s \o t)[Len(s) + j] = t[j]
    BY <1>1
  <2> QED
    BY <2>1 DEF Rows
<1> QED
  BY <1>1, <1>3, <1>4, <1>5, <1>6

(* An empty stage.                                                         *)
LEMMA EmptyRows == Rows(<<>>) = {} /\ Rising(<<>>) /\ <<>> \in Seq(Nat) /\ Len(<<>>) = 0
BY EmptySeq DEF Rows, Rising

-------------------------------------------------------------------------------
(* The stages hold numbers.                                                *)
LEMMA StagesAreNumbers ==
    ASSUME DataLogTypeOK
    PROVE  /\ dataLogChan \in Seq(Nat) /\ dataLogWriteChan \in Seq(Nat)
           /\ rowsQueuedForWrite \in Seq(Nat) /\ insertBatch \in Seq(Nat)
           /\ db \in Seq(Nat) /\ accepted \in Nat
<1>1. 1..MaxRows \subseteq Nat
  OBVIOUS
<1> QED
  BY <1>1, SeqMonotonic, DataLogAssumption DEF DataLogTypeOK

(* The invariant holds at the start.                                       *)
LEMMA InitInv == Init => DataLogInv
<1> SUFFICES ASSUME Init PROVE DataLogInv
  OBVIOUS
<1>1. DataLogTypeOK
  <2>1. <<>> \in Seq(1..MaxRows) /\ Len(<<>>) = 0
    BY EmptySeq
  <2>2. /\ dataLogStarted \in BOOLEAN /\ dataLogReadyToWrite \in BOOLEAN
        /\ panicked \in BOOLEAN
    BY Zenon DEF Init
  <2>3. /\ hand \in [row : 0..MaxRows, on : 0..MaxStarts]
        /\ producer \in [Producers -> [pc : {"idle", "send", "blocked"}, on : 0..MaxStarts]]
        /\ closer \in [Closers -> [pc : {"idle", "send", "wait", "returned"}, on : 0..MaxStarts]]
    BY DataLogAssumption DEF Init, NoRow, Idle
  <2> QED
    BY <2>1, <2>2, <2>3, DataLogAssumption DEF Init, DataLogTypeOK
<1>2. StartedTogether /\ NoWriterWithoutLog
  BY DEF Init, StartedTogether, NoWriterWithoutLog, Idle
<1>3. RoomForRows
  <2>1. Busy = {}
    BY DEF Init, Busy
  <2> QED
    BY <2>1, FS_EmptySet, DataLogAssumption DEF Init, RoomForRows
<1>4. OnTheWay /\ DatabaseFirst
  BY EmptyRows DEF Init, OnTheWay, DatabaseFirst, InHand, Queued, Passed, Logged, AllBelow
<1> QED
  BY <1>1, <1>2, <1>3, <1>4 DEF DataLogInv

(* The producers that are busy are finitely many.                          *)
LEMMA BusyIsFinite == IsFiniteSet(Busy) /\ Cardinality(Busy) \in Nat
<1>1. Busy \subseteq Producers
  BY DEF Busy
<1> QED
  BY <1>1, FS_Subset, FS_CardinalityType, DataLogAssumption

(* A producer that logs a row makes room for it.                           *)
LEMMA SendMakesRoom ==
    ASSUME DataLogTypeOK, RoomForRows, NEW p \in Producers, ProducerSend(p)
    PROVE  RoomForRows' /\ accepted' \in 1..MaxRows
<1>1. /\ producer \in [Producers -> [pc : {"idle", "send", "blocked"}, on : 0..MaxStarts]]
      /\ producer' = [producer EXCEPT ![p] = Idle]
      /\ accepted \in Nat /\ accepted' = accepted + 1
      /\ producer[p].pc # "idle"
  BY DEF DataLogTypeOK, ProducerSend
<1>2. p \in Busy /\ Busy' = Busy \ {p}
  BY <1>1 DEF Busy, Idle
<1>3. Cardinality(Busy') = Cardinality(Busy) - 1 /\ Cardinality(Busy') \in Nat
  BY <1>2, BusyIsFinite, FS_RemoveElement, FS_CardinalityType
<1> QED
  BY <1>1, <1>3, BusyIsFinite, DataLogAssumption DEF RoomForRows

(* Every action leaves room for the rows of the busy producers.            *)
LEMMA RoomStep ==
    ASSUME DataLogTypeOK, RoomForRows, [Next]_vars
    PROVE  RoomForRows'
<1>1. CASE UNCHANGED <<producer, accepted>>
  BY <1>1 DEF RoomForRows, Busy
<1>2. ASSUME NEW p \in Producers, ProducerCheck(p) PROVE RoomForRows'
  <2>1. /\ producer \in [Producers -> [pc : {"idle", "send", "blocked"}, on : 0..MaxStarts]]
        /\ producer' = [producer EXCEPT ![p].pc = "send"] /\ accepted' = accepted
        /\ accepted \in Nat
    BY <1>2 DEF ProducerCheck, DataLogTypeOK
  <2>2. Busy' \subseteq Busy \cup {p}
    BY <2>1 DEF Busy
  <2>3. IsFiniteSet(Busy \cup {p}) /\ Cardinality(Busy \cup {p}) <= Cardinality(Busy) + 1
        /\ Cardinality(Busy \cup {p}) \in Nat
    <3>1. IsFiniteSet(Busy) /\ Cardinality(Busy) \in Nat
      BY BusyIsFinite
    <3>2. /\ IsFiniteSet(Busy \cup {p})
          /\ \/ Cardinality(Busy \cup {p}) = Cardinality(Busy)
             \/ Cardinality(Busy \cup {p}) = Cardinality(Busy) + 1
      BY <3>1, FS_AddElement
    <3> QED
      BY <3>1, <3>2
  <2>4. Cardinality(Busy') \in Nat /\ Cardinality(Busy') <= Cardinality(Busy \cup {p})
    BY <2>2, <2>3, FS_Subset, FS_CardinalityType
  <2>5. accepted + Cardinality(Busy) < MaxRows
    BY <1>2 DEF ProducerCheck, Busy
  <2> QED
    BY <2>1, <2>3, <2>4, <2>5, BusyIsFinite, DataLogAssumption DEF RoomForRows
<1>3. ASSUME NEW p \in Producers, ProducerSend(p) PROVE RoomForRows'
  BY <1>3, SendMakesRoom
<1>4. ASSUME NEW p \in Producers, ProducerBlock(p) PROVE RoomForRows'
  <2>1. /\ producer \in [Producers -> [pc : {"idle", "send", "blocked"}, on : 0..MaxStarts]]
        /\ producer' = [producer EXCEPT ![p] = [pc |-> "blocked", on |-> starts]]
        /\ accepted' = accepted /\ producer[p].pc = "send"
    BY <1>4 DEF ProducerBlock, DataLogTypeOK
  <2>2. Busy' = Busy
    BY <2>1 DEF Busy, Idle
  <2> QED
    BY <2>1, <2>2 DEF RoomForRows
<1> QED
  BY <1>1, <1>2, <1>3, <1>4
  DEF Next, vars, handleSettingsSet, WatchdogStart, LogSpawn, LogReady, LogReceive, LogSend,
      LogClose, WriterStart, WriterAccept, WriterTick, WriterStop, CloseBegin, CloseSend,
      CloseReturn

-------------------------------------------------------------------------------
(* The database is open as long as there is a writer.                      *)
LEMMA StartedStep ==
    ASSUME DataLogTypeOK, StartedTogether, NoWriterWithoutLog, [Next]_vars
    PROVE  StartedTogether' /\ NoWriterWithoutLog'
<1> USE DEF StartedTogether, NoWriterWithoutLog, flags, logVars, writerVars, closeVars
<1>0. starts \in Nat /\ made \in Nat
  BY DataLogAssumption DEF DataLogTypeOK
<1>1. CASE handleSettingsSet
  BY <1>1 DEF handleSettingsSet
<1>2. CASE WatchdogStart
  <2>1. /\ dataLogStarted' = TRUE /\ log' = "open" /\ starts' = starts + 1
        /\ ~dataLogStarted /\ UNCHANGED <<writer, made, closer>>
    BY <1>2 DEF WatchdogStart
  <2>2. writer = "none" /\ starts' >= 1
    BY <1>0, <2>1 DEF DataLogTypeOK
  <2>3. dataLogStarted' = (log' # "off")
    BY <2>1
  <2> QED
    BY <2>1, <2>2, <2>3
<1>3. CASE LogSpawn
  BY <1>3 DEF LogSpawn
<1>4. CASE LogReady
  BY <1>4 DEF LogReady
<1>5. CASE LogReceive
  BY <1>5 DEF LogReceive
<1>6. CASE LogSend
  BY <1>6 DEF LogSend
<1>7. CASE LogClose
  BY <1>7 DEF LogClose
<1>8. CASE WriterStart
  BY <1>8 DEF WriterStart
<1>9. CASE WriterAccept
  BY <1>9 DEF WriterAccept
<1>10. CASE WriterTick
  BY <1>10 DEF WriterTick
<1>11. CASE WriterStop
  BY <1>11 DEF WriterStop
<1>12. ASSUME NEW p \in Producers, ProducerCheck(p) \/ ProducerSend(p) \/ ProducerBlock(p)
       PROVE  StartedTogether' /\ NoWriterWithoutLog'
  BY <1>12 DEF ProducerCheck, ProducerSend, ProducerBlock
<1>13. ASSUME NEW c \in Closers, CloseBegin(c)
       PROVE  StartedTogether' /\ NoWriterWithoutLog'
  BY <1>13 DEF CloseBegin, DataLogTypeOK
<1>14. ASSUME NEW c \in Closers, CloseSend(c)
       PROVE  StartedTogether' /\ NoWriterWithoutLog'
  BY <1>14 DEF CloseSend, DataLogTypeOK
<1>15. ASSUME NEW c \in Closers, CloseReturn(c)
       PROVE  StartedTogether' /\ NoWriterWithoutLog'
  BY <1>15 DEF CloseReturn, DataLogTypeOK, Idle
<1>16. CASE UNCHANGED vars
  BY <1>16 DEF vars
<1> QED
  BY <1>1, <1>2, <1>3, <1>4, <1>5, <1>6, <1>7, <1>8, <1>9, <1>10, <1>11, <1>12, <1>13,
     <1>14, <1>15, <1>16 DEF Next

(* What bulkInsert writes and keeps are rows of its argument.              *)
LEMMA BulkInsertTypes ==
    ASSUME DataLogTypeOK, NEW rows \in Seq(1..MaxRows), rows # <<>>, bulkInsert(rows)
    PROVE  /\ db' \in Seq(1..MaxRows) /\ insertBatch' \in Seq(1..MaxRows)
           /\ failures' \in 0..MaxFailures
<1>1. db \in Seq(1..MaxRows) /\ failures \in 0..MaxFailures
  BY DEF DataLogTypeOK
<1>2. CASE db' = db \o rows /\ insertBatch' = <<>> /\ UNCHANGED failures
  BY <1>1, <1>2, ConcatProperties, EmptySeq
<1>3. ASSUME failures < MaxFailures, failures' = failures + 1, insertBatch' = rows,
             NEW n \in 0..(Len(rows) - 1), db' = db \o SubSeq(rows, 1, n)
      PROVE  /\ db' \in Seq(1..MaxRows) /\ insertBatch' \in Seq(1..MaxRows)
             /\ failures' \in 0..MaxFailures
  <2>1. Len(rows) \in Nat
    BY LenProperties
  <2>2. SubSeq(rows, 1, n) \in Seq(1..MaxRows)
    <3>1. ASSUME NEW i \in 1..n PROVE rows[i] \in 1..MaxRows
      <4>1. i \in 1..Len(rows)
        BY <2>1
      <4> QED
        BY <4>1, ElementOfSeq
    <3> QED
      BY <3>1, <2>1, SubSeqProperties
  <2> QED
    BY <1>1, <1>3, <2>2, ConcatProperties, DataLogAssumption
<1> QED
  BY <1>2, <1>3 DEF bulkInsert

(* Every action keeps the types and the capacity of the channels.          *)
LEMMA TypeStep ==
    ASSUME DataLogInv, [Next]_vars
    PROVE  DataLogTypeOK'
<1> USE DataLogAssumption DEF DataLogTypeOK, flags, logVars, writerVars, closeVars
<1>0. DataLogTypeOK /\ StartedTogether /\ RoomForRows /\ OnTheWay
  BY DEF DataLogInv
<1>e. <<>> \in Seq(1..MaxRows) /\ Len(<<>>) = 0
  BY EmptySeq
<1>1. CASE handleSettingsSet
  <2>1. ReplayLog' \in BOOLEAN
    BY <1>1, Zenon DEF handleSettingsSet
  <2> QED
    BY <1>0, <1>1, <2>1 DEF handleSettingsSet
<1>2. CASE WatchdogStart
  BY <1>0, <1>e, <1>2 DEF WatchdogStart
<1>3. CASE LogSpawn
  BY <1>0, <1>3 DEF LogSpawn
<1>4. CASE LogReady
  BY <1>0, <1>4 DEF LogReady
<1>5. CASE LogReceive
  <2>1. /\ Head(dataLogChan) \in 1..MaxRows
        /\ Tail(dataLogChan) \in Seq(1..MaxRows)
        /\ Len(Tail(dataLogChan)) = Len(dataLogChan) - 1
        /\ Len(dataLogChan) \in Nat
    BY <1>0, <1>5, HeadTailProperties, LenProperties DEF LogReceive
  <2>2. dataLogChan' \in Seq(1..MaxRows) /\ Len(dataLogChan') <= Cap
    BY <1>0, <1>5, <2>1 DEF LogReceive
  <2>3. hand' \in [row : 0..MaxRows, on : 0..MaxStarts]
    BY <1>0, <1>5, <2>1 DEF LogReceive
  <2> QED
    BY <1>0, <1>5, <2>2, <2>3 DEF LogReceive
<1>6. CASE LogSend
  <2>1. hand.row \in 1..MaxRows
    BY <1>0, <1>6 DEF LogSend, OnTheWay, InHand
  <2>2. /\ Append(dataLogWriteChan, hand.row) \in Seq(1..MaxRows)
        /\ Len(Append(dataLogWriteChan, hand.row)) = Len(dataLogWriteChan) + 1
        /\ Len(dataLogWriteChan) \in Nat
    BY <1>0, <2>1, AppendProperties, LenProperties
  <2>3. /\ dataLogWriteChan' \in Seq(1..MaxRows) /\ Len(dataLogWriteChan') <= Cap
        /\ staleLen' \in 0..Cap
    <3>1. CASE hand.on = made
      <4>1. /\ Len(dataLogWriteChan) < Cap /\ staleLen' = staleLen
            /\ dataLogWriteChan' = Append(dataLogWriteChan, hand.row)
        BY <1>6, <3>1 DEF LogSend
      <4>2. dataLogWriteChan' \in Seq(1..MaxRows)
        BY <2>2, <4>1
      <4>3. Len(dataLogWriteChan') <= Cap
        BY <2>2, <4>1
      <4> QED
        BY <1>0, <4>1, <4>2, <4>3
    <3>2. CASE hand.on # made
      BY <1>0, <1>6, <3>2 DEF LogSend
    <3> QED
      BY <3>1, <3>2
  <2> QED
    <3>1. /\ log' = "loop" /\ hand' = NoRow
          /\ UNCHANGED <<flags, starts, dataLogChan, writer, made, rowsQueuedForWrite,
                         insertBatch, db, failures, producer, accepted, closeVars>>
      BY <1>6 DEF LogSend
    <3>2. NoRow \in [row : 0..MaxRows, on : 0..MaxStarts]
      BY DataLogAssumption DEF NoRow
    <3> QED
      BY <1>0, <2>3, <3>1, <3>2
<1>7. CASE LogClose
  BY <1>0, <1>7 DEF LogClose
<1>8. CASE WriterStart
  <2>1. Len(dataLogWriteChan) \in Nat
    BY <1>0, LenProperties
  <2> QED
    BY <1>0, <1>e, <1>8, <2>1 DEF WriterStart
<1>9. CASE WriterAccept
  <2>1. /\ Head(dataLogWriteChan) \in 1..MaxRows
        /\ Tail(dataLogWriteChan) \in Seq(1..MaxRows)
        /\ Len(Tail(dataLogWriteChan)) = Len(dataLogWriteChan) - 1
        /\ Len(dataLogWriteChan) \in Nat
    BY <1>0, <1>9, HeadTailProperties, LenProperties DEF WriterAccept
  <2>2. rowsQueuedForWrite' \in Seq(1..MaxRows)
    BY <1>0, <1>9, <2>1, AppendProperties DEF WriterAccept
  <2>3. dataLogWriteChan' \in Seq(1..MaxRows) /\ Len(dataLogWriteChan') <= Cap
    BY <1>0, <1>9, <2>1 DEF WriterAccept
  <2> QED
    BY <1>0, <1>9, <2>2, <2>3 DEF WriterAccept
<1>10. CASE WriterTick
  <2>1. insertBatch \o rowsQueuedForWrite \in Seq(1..MaxRows)
    BY <1>0, ConcatProperties
  <2>2. insertBatch \o rowsQueuedForWrite # <<>>
    BY <1>0, <1>10, ConcatProperties, LenProperties, EmptySeq DEF WriterTick
  <2>3. /\ db' \in Seq(1..MaxRows) /\ insertBatch' \in Seq(1..MaxRows)
        /\ failures' \in 0..MaxFailures
    BY <1>0, <1>10, <2>1, <2>2, BulkInsertTypes DEF WriterTick
  <2> QED
    BY <1>0, <1>e, <1>10, <2>3 DEF WriterTick
<1>11. CASE WriterStop
  BY <1>0, <1>11 DEF WriterStop
<1>12. ASSUME NEW p \in Producers, ProducerCheck(p)
       PROVE  DataLogTypeOK'
  BY <1>0, <1>12 DEF ProducerCheck
<1>13. ASSUME NEW p \in Producers, ProducerSend(p)
       PROVE  DataLogTypeOK'
  <2>1. accepted' \in 1..MaxRows
    BY <1>0, <1>13, SendMakesRoom
  <2>2. dataLogChan' \in Seq(1..MaxRows) /\ Len(dataLogChan') <= Cap
    BY <1>0, <1>13, <2>1, AppendProperties, LenProperties DEF ProducerSend
  <2>3. producer' \in [Producers -> [pc : {"idle", "send", "blocked"}, on : 0..MaxStarts]]
    BY <1>0, <1>13 DEF ProducerSend, Idle
  <2> QED
    BY <1>0, <1>13, <2>1, <2>2, <2>3 DEF ProducerSend
<1>14. ASSUME NEW p \in Producers, ProducerBlock(p)
       PROVE  DataLogTypeOK'
  BY <1>0, <1>14 DEF ProducerBlock
<1>15. ASSUME NEW c \in Closers, CloseBegin(c)
       PROVE  DataLogTypeOK'
  <2>1. closer' \in [Closers -> [pc : {"idle", "send", "wait", "returned"}, on : 0..MaxStarts]]
    <3>1. [pc |-> "send", on |-> made] \in [pc : {"idle", "send", "wait", "returned"},
                                             on : 0..MaxStarts]
      BY <1>0
    <3> QED
      BY <1>0, <1>15, <3>1 DEF CloseBegin
  <2>2. panicked' \in BOOLEAN /\ dataLogReadyToWrite' \in BOOLEAN
    <3>1. panicked' = (made \in closedChans)
      BY <1>15 DEF CloseBegin
    <3>2. panicked' \in BOOLEAN
      BY <3>1
    <3>3. dataLogReadyToWrite' \in BOOLEAN
      BY <1>15, Zenon DEF CloseBegin
    <3> QED
      BY <3>2, <3>3
  <2>3. due' \in 0..MaxRows
    BY <1>0, <1>15 DEF CloseBegin
  <2> QED
    BY <1>0, <1>15, <2>1, <2>2, <2>3 DEF CloseBegin
<1>16. ASSUME NEW c \in Closers, CloseSend(c)
       PROVE  DataLogTypeOK'
  <2>1. closer' \in [Closers -> [pc : {"idle", "send", "wait", "returned"}, on : 0..MaxStarts]]
    BY <1>0, <1>16 DEF CloseSend
  <2> QED
    BY <1>0, <1>16, <2>1 DEF CloseSend
<1>17. ASSUME NEW c \in Closers, CloseReturn(c)
       PROVE  DataLogTypeOK'
  <2>1. closer' \in [Closers -> [pc : {"idle", "send", "wait", "returned"}, on : 0..MaxStarts]]
    <3>1. closer[c] \in [pc : {"idle", "send", "wait", "returned"}, on : 0..MaxStarts]
      BY <1>0
    <3>2. /\ Idle \in [pc : {"idle", "send", "wait", "returned"}, on : 0..MaxStarts]
          /\ [closer[c] EXCEPT !.pc = "returned"]
                \in [pc : {"idle", "send", "wait", "returned"}, on : 0..MaxStarts]
      BY <3>1 DEF Idle
    <3>3. \/ closer' = [closer EXCEPT ![c] = Idle]
          \/ closer' = [closer EXCEPT ![c] = [closer[c] EXCEPT !.pc = "returned"]]
      BY <1>17 DEF CloseReturn
    <3> QED
      BY <1>0, <3>2, <3>3
  <2>2. panicked' \in BOOLEAN
    BY <1>17, Zenon DEF CloseReturn
  <2>3. closedChans' \subseteq 1..MaxStarts
    <3>1. closer[c] \in [pc : {"idle", "send", "wait", "returned"}, on : 0..MaxStarts]
      BY <1>0
    <3>2. closer[c].on \in 0..MaxStarts /\ closer[c].on >= 1
      BY <1>0, <1>17, <3>1 DEF CloseReturn, StartedTogether
    <3>3. closer[c].on \in 1..MaxStarts
      BY <3>2
    <3>4. closedChans' = closedChans \cup {closer[c].on} /\ closedChans \subseteq 1..MaxStarts
      BY <1>0, <1>17 DEF CloseReturn
    <3> QED
      BY <3>3, <3>4
  <2> QED
    BY <1>0, <1>17, <2>1, <2>2, <2>3 DEF CloseReturn
<1>18. CASE UNCHANGED vars
  BY <1>0, <1>18 DEF vars
<1> QED
  BY <1>1, <1>2, <1>3, <1>4, <1>5, <1>6, <1>7, <1>8, <1>9, <1>10, <1>11, <1>12, <1>13,
     <1>14, <1>15, <1>16, <1>17, <1>18 DEF Next

-------------------------------------------------------------------------------
(* A step that only drops rows keeps the others in order.                  *)
LEMMA DropKeepsOrder ==
    ASSUME OnTheWay, DatabaseFirst,
           Queued' \subseteq Queued, Passed' \subseteq Passed,
           InHand' \subseteq InHand, Logged' \subseteq Logged,
           Rising(rowsQueuedForWrite)', Rising(dataLogWriteChan)', Rising(dataLogChan)',
           UNCHANGED <<accepted, failures, insertBatch, db>>
    PROVE  OnTheWay' /\ DatabaseFirst'
<1>1. OnTheWay'
  BY DEF OnTheWay, AllBelow
<1>2. DatabaseFirst'
  BY DEF DatabaseFirst, AllBelow, Rows, Rising
<1> QED
  BY <1>1, <1>2

(* Every action keeps the rows in order along their way.                   *)
LEMMA OrderStep ==
    ASSUME DataLogInv, [Next]_vars
    PROVE  OnTheWay' /\ DatabaseFirst'
<1> USE DEF flags, logVars, writerVars, closeVars
<1>0. DataLogTypeOK /\ StartedTogether /\ OnTheWay /\ DatabaseFirst
  BY DEF DataLogInv
<1>n. /\ dataLogChan \in Seq(Nat) /\ dataLogWriteChan \in Seq(Nat)
      /\ rowsQueuedForWrite \in Seq(Nat) /\ db \in Seq(Nat) /\ accepted \in Nat
      /\ hand.row \in Nat /\ failures \in Nat
  BY <1>0, StagesAreNumbers, DataLogAssumption DEF DataLogTypeOK
<1>s. /\ Rising(rowsQueuedForWrite) /\ Rising(dataLogWriteChan) /\ Rising(dataLogChan)
  BY <1>0 DEF OnTheWay
<1>1. ASSUME UNCHANGED <<dataLogChan, dataLogWriteChan, rowsQueuedForWrite, accepted,
                         failures, insertBatch, db>>,
             InHand' \subseteq InHand
      PROVE  OnTheWay' /\ DatabaseFirst'
  <2>1. /\ Queued' = Queued /\ Passed' = Passed /\ Logged' = Logged
        /\ Rising(rowsQueuedForWrite)' /\ Rising(dataLogWriteChan)' /\ Rising(dataLogChan)'
    BY <1>1, <1>s DEF Queued, Passed, Logged, Rows, Rising
  <2> QED
    BY <1>0, <1>1, <2>1, DropKeepsOrder
<1>2. CASE handleSettingsSet
  BY <1>1, <1>2 DEF handleSettingsSet, InHand
<1>3. CASE WatchdogStart
  <2>1. /\ log' = "open" /\ dataLogChan' = <<>>
        /\ UNCHANGED <<dataLogWriteChan, rowsQueuedForWrite, accepted, failures, insertBatch, db>>
    BY <1>3 DEF WatchdogStart
  <2>2. /\ Queued' = Queued /\ Passed' = Passed /\ Logged' = {} /\ InHand' = {}
        /\ Rising(rowsQueuedForWrite)' /\ Rising(dataLogWriteChan)' /\ Rising(dataLogChan)'
    BY <1>s, <2>1, EmptyRows DEF Queued, Passed, Logged, InHand, Rows, Rising
  <2> QED
    BY <1>0, <2>1, <2>2, DropKeepsOrder
<1>4. CASE LogSpawn
  BY <1>1, <1>4 DEF LogSpawn, InHand
<1>5. CASE LogReady
  BY <1>1, <1>5 DEF LogReady, InHand
<1>6. CASE LogReceive
  <2>1. /\ log = "loop" /\ log' = "send" /\ dataLogChan # <<>>
        /\ hand'.row = Head(dataLogChan) /\ dataLogChan' = Tail(dataLogChan)
        /\ UNCHANGED <<dataLogWriteChan, rowsQueuedForWrite, accepted, failures, insertBatch, db>>
    BY <1>6 DEF LogReceive
  <2>2. /\ Rising(dataLogChan') /\ Logged = {Head(dataLogChan)} \cup Logged'
        /\ AllBelow({Head(dataLogChan)}, Logged')
    BY <1>n, <1>s, <2>1, TailRows DEF Logged
  <2>3. InHand = {} /\ InHand' = {Head(dataLogChan)}
    BY <2>1 DEF InHand
  <2>4. Queued' = Queued /\ Passed' = Passed
    BY <2>1 DEF Queued, Passed
  <2>5. OnTheWay'
    BY <1>0, <2>1, <2>2, <2>3, <2>4 DEF OnTheWay, AllBelow
  <2>6. DatabaseFirst'
    BY <1>0, <2>1, <2>2, <2>3, <2>4 DEF DatabaseFirst, AllBelow
  <2> QED
    BY <2>5, <2>6
<1>7. CASE LogSend
  <2>1. /\ log = "send" /\ log' = "loop"
        /\ UNCHANGED <<dataLogChan, rowsQueuedForWrite, accepted, failures, insertBatch, db>>
    BY <1>7 DEF LogSend
  <2>2. InHand = {hand.row} /\ InHand' = {}
    BY <2>1 DEF InHand
  <2>3. CASE dataLogWriteChan' = Append(dataLogWriteChan, hand.row)
    <3>1. AllBelow(Passed, {hand.row})
      BY <1>0, <2>2 DEF OnTheWay, AllBelow
    <3>2. Rising(dataLogWriteChan') /\ Passed' = Passed \cup {hand.row}
      BY <1>n, <1>s, <2>3, <3>1, AppendRows DEF Passed
    <3>3. Queued' = Queued /\ Logged' = Logged
      BY <2>1 DEF Queued, Logged
    <3>4. OnTheWay'
      BY <1>0, <2>1, <2>2, <3>2, <3>3 DEF OnTheWay, AllBelow
    <3>5. DatabaseFirst'
      BY <1>0, <2>1, <2>2, <3>2, <3>3 DEF DatabaseFirst, AllBelow
    <3> QED
      BY <3>4, <3>5
  <2>4. CASE UNCHANGED dataLogWriteChan
    BY <1>1, <2>1, <2>2, <2>4
  <2> QED
    BY <1>7, <2>3, <2>4 DEF LogSend
<1>8. CASE LogClose
  BY <1>1, <1>8 DEF LogClose, InHand
<1>9. CASE WriterStart
  <2>1. /\ dataLogWriteChan' = <<>> /\ rowsQueuedForWrite' = <<>>
        /\ UNCHANGED <<dataLogChan, log, hand, accepted, failures, insertBatch, db>>
    BY <1>9 DEF WriterStart
  <2>2. /\ Queued' = {} /\ Passed' = {} /\ Logged' = Logged /\ InHand' = InHand
        /\ Rising(rowsQueuedForWrite)' /\ Rising(dataLogWriteChan)' /\ Rising(dataLogChan)'
    BY <1>s, <2>1, EmptyRows DEF Queued, Passed, Logged, InHand, Rows, Rising
  <2> QED
    BY <1>0, <2>1, <2>2, DropKeepsOrder
<1>10. CASE WriterAccept
  <2>1. /\ dataLogWriteChan # <<>>
        /\ rowsQueuedForWrite' = Append(rowsQueuedForWrite, Head(dataLogWriteChan))
        /\ dataLogWriteChan' = Tail(dataLogWriteChan)
        /\ UNCHANGED <<dataLogChan, log, hand, accepted, failures, insertBatch, db>>
    BY <1>10 DEF WriterAccept
  <2> DEFINE r == Head(dataLogWriteChan)
  <2>2. /\ Rising(dataLogWriteChan') /\ Passed = {r} \cup Passed'
        /\ AllBelow({r}, Passed')
    BY <1>n, <1>s, <2>1, TailRows DEF Passed
  <2>3. AllBelow(Queued, {r}) /\ r \in Nat
    BY <1>0, <1>n, <2>2, <2>1, HeadTailProperties DEF OnTheWay, AllBelow
  <2>4. Rising(rowsQueuedForWrite') /\ Queued' = Queued \cup {r}
    BY <1>n, <1>s, <2>1, <2>3, AppendRows DEF Queued
  <2>5. InHand' = InHand /\ Logged' = Logged
    BY <2>1 DEF InHand, Logged
  <2> HIDE DEF r
  <2>6. OnTheWay'
    BY <1>0, <2>1, <2>2, <2>4, <2>5 DEF OnTheWay, AllBelow
  <2>7. DatabaseFirst'
    BY <1>0, <2>1, <2>2, <2>4, <2>5 DEF DatabaseFirst, AllBelow
  <2> QED
    BY <2>6, <2>7
<1>11. CASE WriterTick
  <2>1. /\ rowsQueuedForWrite' = <<>>
        /\ bulkInsert(insertBatch \o rowsQueuedForWrite)
        /\ UNCHANGED <<dataLogChan, dataLogWriteChan, log, hand, accepted>>
    BY <1>11 DEF WriterTick
  <2>2. /\ Queued' = {} /\ Passed' = Passed /\ Logged' = Logged /\ InHand' = InHand
        /\ Rising(rowsQueuedForWrite)' /\ Rising(dataLogWriteChan)' /\ Rising(dataLogChan)'
    BY <1>s, <2>1, EmptyRows DEF Queued, Passed, Logged, InHand, Rows, Rising
  <2>3. OnTheWay'
    BY <1>0, <2>1, <2>2 DEF OnTheWay, AllBelow
  <2>4. DatabaseFirst'
    <3> SUFFICES ASSUME failures' = 0 PROVE DatabaseFirst'
      BY DEF DatabaseFirst
    <3>1. /\ db' = db \o (insertBatch \o rowsQueuedForWrite) /\ insertBatch' = <<>>
          /\ failures = 0
      BY <1>n, <2>1 DEF bulkInsert
    <3>2. /\ insertBatch = <<>> /\ Rising(db) /\ Rows(db) \subseteq 1..accepted
          /\ AllBelow(Rows(db), Queued \cup Passed \cup InHand \cup Logged)
      BY <1>0, <3>1 DEF DatabaseFirst
    <3>3. db' = db \o rowsQueuedForWrite
      BY <1>n, <3>1, <3>2, ConcatEmptySeq
    <3>4. AllBelow(Rows(db), Rows(rowsQueuedForWrite))
      BY <3>2 DEF AllBelow, Queued
    <3>5. Rising(db') /\ Rows(db') = Rows(db) \cup Queued
      <4>1. /\ Rising(db \o rowsQueuedForWrite)
            /\ Rows(db \o rowsQueuedForWrite) = Rows(db) \cup Rows(rowsQueuedForWrite)
        BY <1>n, <1>s, <3>2, <3>4, ConcatRows
      <4> QED
        BY <3>3, <4>1 DEF Queued
    <3>6. /\ Queued \subseteq 1..accepted
          /\ AllBelow(Queued, Passed \cup InHand \cup Logged)
      BY <1>0 DEF OnTheWay
    <3> QED
      BY <2>1, <2>2, <3>1, <3>2, <3>5, <3>6 DEF DatabaseFirst, AllBelow
  <2> QED
    BY <2>3, <2>4
<1>12. CASE WriterStop
  BY <1>1, <1>12 DEF WriterStop, InHand
<1>13. ASSUME NEW p \in Producers, ProducerCheck(p)
       PROVE  OnTheWay' /\ DatabaseFirst'
  BY <1>1, <1>13 DEF ProducerCheck, InHand
<1>14. ASSUME NEW p \in Producers, ProducerSend(p)
       PROVE  OnTheWay' /\ DatabaseFirst'
  <2>1. /\ accepted' = accepted + 1 /\ dataLogChan' = Append(dataLogChan, accepted + 1)
        /\ UNCHANGED <<dataLogWriteChan, rowsQueuedForWrite, log, hand, failures, insertBatch, db>>
    BY <1>14 DEF ProducerSend
  <2>2. /\ Queued' = Queued /\ Passed' = Passed /\ InHand' = InHand
        /\ Queued \cup Passed \cup InHand \cup Logged \subseteq 1..accepted
    BY <1>0, <2>1 DEF Queued, Passed, InHand, OnTheWay
  <2>3. AllBelow(1..accepted, {accepted + 1}) /\ 1..accepted \subseteq 1..(accepted + 1)
    BY <1>n DEF AllBelow
  <2>4. AllBelow(Logged, {accepted + 1})
    BY <2>2, <2>3 DEF AllBelow
  <2>5. Rising(dataLogChan') /\ Logged' = Logged \cup {accepted + 1}
    BY <1>n, <1>s, <2>1, <2>4, AppendRows DEF Logged
  <2>6. accepted + 1 \in 1..accepted'
    BY <1>n, <2>1
  <2>7. OnTheWay'
    BY <1>0, <2>1, <2>2, <2>3, <2>5, <2>6 DEF OnTheWay, AllBelow
  <2>8. DatabaseFirst'
    BY <1>0, <2>1, <2>2, <2>3, <2>5 DEF DatabaseFirst, AllBelow
  <2> QED
    BY <2>7, <2>8
<1>15. ASSUME NEW p \in Producers, ProducerBlock(p)
       PROVE  OnTheWay' /\ DatabaseFirst'
  BY <1>1, <1>15 DEF ProducerBlock, InHand
<1>16. ASSUME NEW c \in Closers, CloseBegin(c)
       PROVE  OnTheWay' /\ DatabaseFirst'
  BY <1>1, <1>16 DEF CloseBegin, InHand
<1>17. ASSUME NEW c \in Closers, CloseSend(c)
       PROVE  OnTheWay' /\ DatabaseFirst'
  BY <1>1, <1>17 DEF CloseSend, InHand
<1>18. ASSUME NEW c \in Closers, CloseReturn(c)
       PROVE  OnTheWay' /\ DatabaseFirst'
  BY <1>1, <1>18 DEF CloseReturn, InHand
<1>19. CASE UNCHANGED vars
  BY <1>1, <1>19 DEF vars, InHand
<1> QED
  BY <1>2, <1>3, <1>4, <1>5, <1>6, <1>7, <1>8, <1>9, <1>10, <1>11, <1>12, <1>13,
     <1>14, <1>15, <1>16, <1>17, <1>18, <1>19 DEF Next

-------------------------------------------------------------------------------
(* THEOREM: in every reachable state the rows are in order along their     *)
(* whole way from dataLogChan to the database, the two goroutines and the  *)
(* flag dataLogStarted agree, and the channels keep their capacity.        *)
THEOREM DataLogInvariant == Spec => []DataLogInv
<1>1. DataLogInv /\ [Next]_vars => DataLogInv'
  BY TypeStep, StartedStep, RoomStep, OrderStep DEF DataLogInv
<1> QED
  BY InitInv, <1>1, PTL DEF Spec

(* THEOREM: closeDataLog and the two goroutines never close the database   *)
(* while a dataLogWriter may still write to it.                            *)
THEOREM WriterHasDatabase == Spec => []NoWriterWithoutLog
<1>1. DataLogInv => NoWriterWithoutLog
  BY DEF DataLogInv
<1> QED
  BY DataLogInvariant, <1>1, PTL

(* THEOREM: unless an INSERT fails, rows are in the database in the order  *)
(* in which they were logged, none twice, whatever starts and stops of the *)
(* log came between.                                                       *)
THEOREM DatabaseInOrder == Spec => []WrittenInOrder
<1>1. DataLogInv => WrittenInOrder
  BY DEF DataLogInv, DatabaseFirst, Rising, WrittenInOrder
<1> QED
  BY DataLogInvariant, <1>1, PTL

-------------------------------------------------------------------------------
(***************************************************************************)
(* Who waits, waits for somebody who can go on                             *)
(***************************************************************************)

(* c has handed its shutdown message over and polls dataLogStarted.        *)
Polls(c) == closer[c].pc = "wait"

(* The channels belong to the start at which the writer made them, and     *)
(* there is a writer exactly from its go statement to its last message.    *)
WriterOfStart ==
    /\ log \in {"setup", "loop", "send"} => writer # "none"
    /\ writer \in {"loop", "stop"} \/ log = "closing" => made = starts
    /\ \A c \in Closers : closer[c].on <= starts

(* Only a closeDataLog that polls has stopped the writer, and the channel  *)
(* of a writer that is gone is closed or about to be.                      *)
StopHasCloser ==
    /\ writer = "stop" \/ log = "closing" =>
          \E d \in Closers : Polls(d) /\ closer[d].on = starts
    /\ made # 0 /\ writer \notin {"loop", "stop"} =>
          made \in closedChans \/ \E d \in Closers : Polls(d) /\ closer[d].on = made

(* What a closeDataLog still waits for, while the process runs.            *)
CloserWaits ==
    Alive => \A c \in Closers :
        /\ closer[c].pc = "send" /\ closer[c].on # 0 =>
              \/ closer[c].on = made /\ writer = "loop"
              \/ \E d \in Closers : Polls(d) /\ closer[d].on = closer[c].on
        /\ Polls(c) /\ closer[c].on = starts /\ dataLogStarted =>
              writer = "stop" \/ log = "closing"

CloseInv == WriterOfStart /\ StopHasCloser /\ CloserWaits

(* One of the steps that lead to the return of c can be taken: the writer  *)
(* takes the message of c, dataLog gets to its select and takes the one of *)
(* the writer, dataLog ends, c or whoever polls for the same log returns.  *)
CloseGoesOn(c) ==
    \/ closer[c].pc = "send" /\ closer[c].on = made /\ writer = "loop"
    \/ writer = "stop" /\ log \in {"setup", "loop"}
    \/ writer = "stop" /\ log = "send" /\ hand.on # 0
         /\ IF hand.on = made THEN Len(dataLogWriteChan) < Cap ELSE staleLen < Cap
    \/ log = "closing"
    \/ ~dataLogStarted /\ \E d \in Closers : Polls(d) /\ closer[d].on = closer[c].on

(* A closeDataLog that has not returned never waits in vain, except in the *)
(* cases that CloseReturns names.                                          *)
CloseNeverStuck ==
    Alive => \A c \in Closers :
        closer[c].pc \in {"send", "wait"} =>
            closer[c].on = 0 \/ Jammed \/ Restarted(c) \/ CloseGoesOn(c)

(* The row in front of a blocked producer, or the one that dataLog has in  *)
(* hand, can be moved on, or the goroutine that does it can get there.     *)
RowsMoveOn ==
    \/ Len(dataLogChan) < Cap
    \/ log \in {"open", "setup"}
    \/ log = "loop" /\ dataLogChan # <<>>
    \/ log = "send" /\ hand.on # 0
         /\ IF hand.on = made THEN Len(dataLogWriteChan) < Cap ELSE staleLen < Cap
    \/ writer = "spawned"
    \/ writer = "loop" /\ dataLogWriteChan # <<>>

(* A producer that is blocked at the channel of the running log never      *)
(* waits in vain, except in the cases that ProducersProceed names.         *)
ProducerNeverStuck ==
    Alive => \A p \in Producers :
        producer[p].pc = "blocked" =>
            \/ producer[p].on < starts \/ log \in {"closing", "off"}
            \/ Jammed \/ writer = "stop"
            \/ RowsMoveOn

(* Nobody waits before the first start.                                    *)
LEMMA CloseInit == Init => CloseInv
<1> SUFFICES ASSUME Init PROVE CloseInv
  OBVIOUS
<1>1. /\ log = "off" /\ writer = "none" /\ made = 0 /\ starts = 0
      /\ \A c \in Closers : closer[c] = Idle
  BY DEF Init
<1>2. \A c \in Closers : closer[c].pc = "idle" /\ closer[c].on = 0
  BY <1>1 DEF Idle
<1> QED
  BY <1>1, <1>2 DEF CloseInv, WriterOfStart, StopHasCloser, CloserWaits, Polls

(* Every step of a goroutine keeps what the callers of closeDataLog wait   *)
(* for.                                                                    *)
LEMMA CloseStep ==
    ASSUME DataLogInv, CloseInv, [Next]_vars
    PROVE  CloseInv'
<1> DEFINE same == UNCHANGED <<writer, made, starts, closer, closedChans, dataLogStarted, panicked>>
<1>0. /\ starts \in Nat /\ made \in Nat /\ made <= starts
      /\ writer \in {"none", "spawned", "loop", "stop"}
      /\ \A c \in Closers : closer[c].on \in Nat
      /\ dataLogStarted = (log # "off")
      /\ \A c \in Closers : Polls(c) => closer[c].on >= 1
      /\ writer # "none" => log \in {"setup", "loop", "send"}
      /\ closer \in [Closers -> [pc : {"idle", "send", "wait", "returned"}, on : 0..MaxStarts]]
  BY DataLogAssumption
  DEF DataLogInv, DataLogTypeOK, StartedTogether, NoWriterWithoutLog, Polls
<1> USE DEF CloseInv, WriterOfStart, StopHasCloser, CloserWaits, Polls, flags, logVars,
            writerVars, closeVars, Alive
<1>1. ASSUME same, log' = log \/ {log, log'} \subseteq {"setup", "loop", "send"}
      PROVE  CloseInv'
  BY <1>0, <1>1
<1>2. CASE handleSettingsSet
  BY <1>1, <1>2 DEF handleSettingsSet
<1>3. CASE WatchdogStart
  <2>1. /\ starts' = starts + 1 /\ log = "off" /\ log' = "open" /\ writer = "none"
        /\ dataLogStarted' = TRUE
        /\ UNCHANGED <<writer, made, closer, closedChans, panicked>>
    BY <1>0, <1>3 DEF WatchdogStart
  <2> QED
    BY <1>0, <2>1
<1>4. CASE LogSpawn
  <2>1. /\ log = "open" /\ log' = "setup" /\ writer = "none" /\ writer' = "spawned"
        /\ UNCHANGED <<starts, made, closer, closedChans, dataLogStarted, panicked>>
    BY <1>0, <1>4 DEF LogSpawn
  <2> QED
    BY <1>0, <2>1
<1>5. CASE LogReady
  BY <1>1, <1>5 DEF LogReady
<1>6. CASE LogReceive
  BY <1>1, <1>6 DEF LogReceive
<1>7. CASE LogSend
  BY <1>1, <1>7 DEF LogSend
<1>8. CASE LogClose
  <2>1. /\ log = "closing" /\ log' = "off" /\ dataLogStarted' = FALSE /\ writer = "none"
        /\ UNCHANGED <<starts, made, writer, closer, closedChans, panicked>>
    BY <1>0, <1>8 DEF LogClose
  <2> QED
    BY <1>0, <2>1
<1>9. CASE WriterStart
  <2>1. /\ writer = "spawned" /\ writer' = "loop" /\ made' = starts
        /\ UNCHANGED <<starts, log, closer, closedChans, dataLogStarted, panicked>>
    BY <1>9 DEF WriterStart
  <2> QED
    BY <1>0, <2>1
<1>10. CASE WriterAccept
  BY <1>1, <1>10 DEF WriterAccept
<1>11. CASE WriterTick
  BY <1>1, <1>11 DEF WriterTick
<1>12. CASE WriterStop
  <2>1. /\ writer = "stop" /\ writer' = "none" /\ log = "loop" /\ log' = "closing"
        /\ UNCHANGED <<starts, made, closer, closedChans, dataLogStarted, panicked>>
    BY <1>12 DEF WriterStop
  <2> QED
    BY <1>0, <2>1
<1>13. ASSUME NEW p \in Producers, ProducerCheck(p) \/ ProducerSend(p) \/ ProducerBlock(p)
       PROVE  CloseInv'
  BY <1>1, <1>13 DEF ProducerCheck, ProducerSend, ProducerBlock
<1>14. ASSUME NEW c \in Closers, CloseBegin(c)
       PROVE  CloseInv'
  <2>1. /\ UNCHANGED <<starts, log, made, writer, closedChans, dataLogStarted>>
        /\ closer[c].pc = "idle" /\ dataLogStarted
        /\ closer'[c].pc = "send" /\ closer'[c].on = made
        /\ \A d \in Closers \ {c} : closer'[d] = closer[d]
        /\ panicked' = (made \in closedChans)
        /\ Alive
    BY <1>0, <1>14 DEF CloseBegin
  <2>2. \A d \in Closers : Polls(d) => closer'[d] = closer[d]
    BY <2>1
  <2>3. \A d \in Closers : Polls(d)' => Polls(d) /\ closer'[d] = closer[d]
    BY <2>1
  <2>4. WriterOfStart'
    BY <1>0, <2>1
  <2>5. StopHasCloser'
    BY <1>0, <2>1, <2>2
  <2>6. ASSUME Alive', made # 0, writer # "loop"
        PROVE  \E d \in Closers : Polls(d) /\ closer[d].on = made
    BY <1>0, <2>1, <2>6
  <2>7. ASSUME Alive', NEW d \in Closers, closer'[d].pc = "send", closer'[d].on # 0
        PROVE  \/ closer'[d].on = made /\ writer = "loop"
               \/ \E b \in Closers : Polls(b)' /\ closer'[b].on = closer'[d].on
    <3>1. CASE d = c
      BY <2>1, <2>2, <2>6, <2>7, <3>1
    <3>2. CASE d # c
      BY <2>1, <2>2, <2>7, <3>2
    <3> QED
      BY <3>1, <3>2
  <2>8. CloserWaits'
    BY <2>1, <2>3, <2>7
  <2> QED
    BY <2>4, <2>5, <2>8
<1>15. ASSUME NEW c \in Closers, CloseSend(c)
       PROVE  CloseInv'
  <2>1. /\ UNCHANGED <<starts, log, made, closedChans, dataLogStarted, panicked>>
        /\ closer[c].pc = "send" /\ closer[c].on = made
        /\ writer = "loop" /\ writer' = "stop"
        /\ closer'[c].pc = "wait" /\ closer'[c].on = made
        /\ \A d \in Closers \ {c} : closer'[d] = closer[d]
        /\ Alive
    BY <1>0, <1>15 DEF CloseSend
  <2>2. \A d \in Closers : Polls(d) => closer'[d] = closer[d]
    BY <2>1
  <2> QED
    BY <1>0, <2>1, <2>2
<1>16. ASSUME NEW c \in Closers, CloseReturn(c)
       PROVE  CloseInv'
  <2>1. /\ UNCHANGED <<starts, log, made, writer, dataLogStarted>>
        /\ closer[c].pc = "wait" /\ ~dataLogStarted
        /\ closedChans' = closedChans \cup {closer[c].on}
        /\ \A d \in Closers \ {c} : closer'[d] = closer[d]
        /\ closer'[c].pc \in {"idle", "returned"} /\ closer'[c].on \in {0, closer[c].on}
        /\ Alive
    BY <1>0, <1>16 DEF CloseReturn, Idle
  <2>2. panicked' = \E d \in Closers \ {c} : closer[d] = [pc |-> "send", on |-> closer[c].on]
    BY <1>16 DEF CloseReturn
  <2>3. \A d \in Closers : closer[d] = [pc |-> closer[d].pc, on |-> closer[d].on]
    BY <1>0
  <2>4. ~panicked' => \A d \in Closers \ {c} : closer[d].pc = "send" => closer[d].on # closer[c].on
    BY <2>2, <2>3
  <2>5. WriterOfStart'
    BY <1>0, <2>1
  <2>6. StopHasCloser'
    BY <1>0, <2>1
  <2>7. ASSUME Alive', NEW d \in Closers, closer'[d].pc = "send", closer'[d].on # 0
        PROVE  \/ closer'[d].on = made /\ writer = "loop"
               \/ \E b \in Closers : Polls(b)' /\ closer'[b].on = closer'[d].on
    <3>1. d # c /\ closer'[d] = closer[d] /\ closer[d].on # closer[c].on
      BY <2>1, <2>4, <2>7
    <3>2. \/ closer[d].on = made /\ writer = "loop"
          \/ \E b \in Closers : Polls(b) /\ closer[b].on = closer[d].on
      BY <2>1, <2>7, <3>1
    <3> QED
      BY <2>1, <3>1, <3>2
  <2>8. CloserWaits'
    BY <2>1, <2>7
  <2> QED
    BY <2>5, <2>6, <2>8
<1>17. CASE UNCHANGED vars
  BY <1>1, <1>17 DEF vars
<1> QED
  BY <1>2, <1>3, <1>4, <1>5, <1>6, <1>7, <1>8, <1>9, <1>10, <1>11, <1>12, <1>13, <1>14,
     <1>15, <1>16, <1>17 DEF Next

(* What they wait for is an invariant.                                     *)
LEMMA CloseInvariant == Spec => []CloseInv
<1>1. DataLogInv /\ CloseInv /\ [Next]_vars => CloseInv'
  BY CloseStep
<1> QED
  BY <1>1, CloseInit, DataLogInvariant, PTL DEF Spec

(* THEOREM: who calls closeDataLog waits for a goroutine that can go on,   *)
(* unless it came before the writer had its channel, the two goroutines    *)
(* wait for each other or a new log runs: nothing else can make            *)
(* closeDataLog hang.                                                      *)
THEOREM CloseWaitsForSomebody == Spec => []CloseNeverStuck
<1>1. ASSUME DataLogInv, CloseInv PROVE CloseNeverStuck
  <2> SUFFICES ASSUME Alive, NEW c \in Closers, closer[c].pc \in {"send", "wait"},
                      closer[c].on # 0, ~Jammed, ~Restarted(c)
               PROVE  CloseGoesOn(c)
    BY DEF CloseNeverStuck
  <2>1. /\ starts \in Nat /\ made \in Nat /\ closer[c].on \in Nat /\ Cap \in Nat /\ staleLen \in Nat
        /\ Len(dataLogWriteChan) \in Nat /\ Len(dataLogWriteChan) <= Cap /\ staleLen <= Cap
        /\ dataLogStarted = (log # "off")
        /\ writer # "none" => log \in {"setup", "loop", "send"}
        /\ hand.on \in Nat
    BY <1>1, DataLogAssumption, LenProperties
    DEF DataLogInv, DataLogTypeOK, StartedTogether, NoWriterWithoutLog
  <2>2. CASE ~dataLogStarted
    BY <1>1, <2>1, <2>2 DEF CloseInv, CloserWaits, Polls, CloseGoesOn
  <2>3. CASE dataLogStarted
    <3>1. closer[c].on = starts
      BY <1>1, <2>1, <2>3 DEF Restarted, CloseInv, WriterOfStart
    <3>2. \/ closer[c].pc = "send" /\ closer[c].on = made /\ writer = "loop"
          \/ writer = "stop" \/ log = "closing"
      BY <1>1, <2>3, <3>1 DEF CloseInv, CloserWaits, Polls
    <3>3. writer = "stop" /\ log = "send" =>
             /\ hand.on # 0
             /\ IF hand.on = made THEN Len(dataLogWriteChan) < Cap ELSE staleLen < Cap
      BY <2>1 DEF Jammed
    <3> QED
      BY <2>1, <3>2, <3>3 DEF CloseGoesOn
  <2> QED
    BY <2>2, <2>3
<1> QED
  BY <1>1, CloseInvariant, DataLogInvariant, PTL

(* THEOREM: the row in front of a producer that is blocked at a full       *)
(* channel can be moved on, unless the log is being stopped or jammed.     *)
THEOREM ProducersWaitForSomebody == Spec => []ProducerNeverStuck
<1>1. ASSUME DataLogInv, CloseInv PROVE ProducerNeverStuck
  <2> SUFFICES ASSUME NEW p \in Producers, log \notin {"closing", "off"}, ~Jammed,
                      writer # "stop", ~RowsMoveOn
               PROVE  FALSE
    BY DEF ProducerNeverStuck
  <2>1. /\ Cap \in Nat \ {0} /\ staleLen \in Nat /\ staleLen <= Cap
        /\ Len(dataLogWriteChan) \in Nat /\ Len(dataLogWriteChan) <= Cap
        /\ Len(dataLogChan) \in Nat /\ Len(dataLogChan) <= Cap
        /\ log \in {"off", "open", "setup", "loop", "send", "closing"}
        /\ writer \in {"none", "spawned", "loop", "stop"}
    BY <1>1, DataLogAssumption, LenProperties DEF DataLogInv, DataLogTypeOK
  <2>2. Len(dataLogChan) = Cap /\ dataLogChan # <<>>
    BY <2>1, EmptySeq DEF RowsMoveOn
  <2>3. log = "send"
    BY <2>1, <2>2 DEF RowsMoveOn
  <2>4. writer = "loop" /\ dataLogWriteChan = <<>>
    BY <1>1, <2>1, <2>3 DEF RowsMoveOn, CloseInv, WriterOfStart
  <2>5. Len(dataLogWriteChan) = 0
    BY <2>4, EmptySeq
  <2> QED
    BY <2>1, <2>3, <2>4, <2>5 DEF RowsMoveOn, Jammed
<1> QED
  BY <1>1, CloseInvariant, DataLogInvariant, PTL

===============================================================================
