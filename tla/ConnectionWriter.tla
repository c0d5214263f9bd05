--------------------------- MODULE ConnectionWriter ---------------------------
(***************************************************************************)
(* One client connection: its MessageQueue and the goroutine               *)
(* connectionWriter (main/network.go) that empties it.  The goroutine      *)
(*                                                                         *)
(*    waits for DataAvailable            "wait"                            *)
(*    returns if the queue is closed     "check"                           *)
(*    collects a packet                  "gate", "peek", "recheck", "pop"  *)
(*    writes it                          "write"                           *)
(*    closes the connection on error     "failed", "notify"                *)
(*                                                                         *)
(* and goes back to "check" until there is nothing to send.  The tests of  *)
(* IsSleeping and IsThrottled, PeekFirst and PopFirst happen at different  *)
(* instants: senders, the clock and the client's state move in between.    *)
(***************************************************************************)
EXTENDS MessageQueue

CONSTANTS
    MsgLen,       \* length of a message, by its priority
    DesiredSize,  \* GetDesiredPacketSize: 1024 UDP, 512 TCP, 128 serial
    UDP           \* a UDP client: can sleep, be throttled, ignores errors

ASSUME WriterAssumption ==
    /\ MsgLen \in [Priorities -> Nat \ {0}]
    /\ DesiredSize \in Nat
    /\ UDP \in BOOLEAN
    /\ UDP <=> "writer" \notin Closers

VARIABLES
    writer,      \* where the goroutine is; "done" once it has returned
    packet,      \* data: the lengths of the messages collected, in order
    dataLen,     \* len(data)
    maxMsgLen,   \* the local variable of that name
    peeked,      \* the priority PeekFirst returned
    asleep,      \* IsSleeping() of the connection
    throttled,   \* within 15 s of an ICMP unreachable from the client
    gated,       \* history: collectMessages last stopped at a closed gate
    dozing,      \* history: asleep at the gate of this round and ever since
    taken,       \* history: the last message handed out, by priority
    late         \* history: packets written after the queue was closed

data == <<packet, dataLen, maxMsgLen>>
client == <<asleep, throttled>>
writerVars == <<writer, data, peeked, client, gated, dozing, taken, late>>
vars == <<queueVars, writerVars>>

WriterStates == {"wait", "check", "gate", "peek", "recheck", "pop", "write",
                 "failed", "notify", "done"}

HeartbeatPriority == -10  \* sleeping clients get nothing less important
ImportantPriority == 0    \* throttled clients get nothing less important

Init ==
    /\ QueueInit
    /\ writer = "wait"
    /\ packet = <<>> /\ dataLen = 0 /\ maxMsgLen = 0
    /\ peeked = 0
    /\ asleep = UDP       \* no answer to a ping yet
    /\ throttled = FALSE
    /\ gated = FALSE /\ dozing = FALSE
    /\ taken = [p \in Priorities |-> -1]
    /\ late = 0

(***************************************************************************)
(* IsThrottled draws a random number: while the client is throttled it     *)
(* still returns false once in a thousand calls.                           *)
(***************************************************************************)
IsThrottled == IF throttled THEN {TRUE, FALSE} ELSE {FALSE}

-------------------------------------------------------------------------------
(***************************************************************************)
(* connectionWriter                                                        *)
(***************************************************************************)
Wake ==
    /\ writer = "wait"
    /\ Receive
    /\ writer' = "check"
    /\ UNCHANGED <<data, peeked, client, gated, dozing, taken, late>>

(* Return if the queue is closed, otherwise call collectMessages.          *)
Check ==
    /\ writer = "check"
    /\ writer' = IF Closed THEN "done" ELSE "gate"
    /\ UNCHANGED <<queueVars, data, peeked, client, gated, dozing, taken, late>>

(* collectMessages returns data: nothing to write means wait again.        *)
Collected == writer' = IF packet = <<>> THEN "wait" ELSE "write"

(* if conn.IsSleeping() || conn.IsThrottled()                              *)
Gate ==
    /\ writer = "gate"
    /\ dozing' = asleep
    /\ \E t \in IsThrottled : writer' = IF asleep \/ t THEN "peek" ELSE "pop"
    /\ UNCHANGED <<queueVars, data, peeked, client, gated, taken, late>>

(* PeekFirst returns priority 0 for an empty queue.                        *)
Peek ==
    /\ writer = "peek"
    /\ PeekFirst
    /\ peeked' = LET i == getFirstUsableIndex(entries, now)
                 IN  IF i = 0 THEN 0 ELSE entries[i].priority
    /\ writer' = "recheck"
    /\ UNCHANGED <<data, client, gated, dozing, taken, late>>

(* The two tests after PeekFirst call IsSleeping and IsThrottled again.    *)
Recheck ==
    /\ writer = "recheck"
    /\ \E t \in IsThrottled :
         IF \/ asleep /\ peeked > HeartbeatPriority
            \/ t /\ peeked > ImportantPriority
         THEN Collected /\ gated' = TRUE
         ELSE writer' = "pop" /\ UNCHANGED gated
    /\ peeked' = 0
    /\ UNCHANGED <<queueVars, data, client, dozing, taken, late>>

(* Mutant: maxMsgLen is never updated.                                     *)
Pop_NoMaximum ==
    /\ writer = "pop"
    /\ PopFirst
    /\ LET i == getFirstUsableIndex(entries, now) IN
       IF i = 0
       THEN Collected /\ gated' = FALSE /\ UNCHANGED <<data, taken>>
       ELSE LET m == entries[i]
                len == MsgLen[m.priority]
            IN  /\ packet' = Append(packet, len)
                /\ dataLen' = dataLen + len
                /\ maxMsgLen' = 0
                /\ writer' = IF dataLen' + maxMsgLen' > DesiredSize
                             THEN "write" ELSE "gate"
                /\ taken' = [taken EXCEPT ![m.priority] = m.data]
                /\ UNCHANGED gated
    /\ dozing' = FALSE
    /\ UNCHANGED <<peeked, client, late>>

(* PopFirst and the rest of the loop body.  maxMsgLen becomes the length   *)
(* of all the data, not that of the message.                               *)
Pop ==
    /\ writer = "pop"
    /\ PopFirst
    /\ LET i == getFirstUsableIndex(entries, now) IN
       IF i = 0
       THEN /\ Collected
            /\ gated' = FALSE
            /\ UNCHANGED <<data, taken>>
       ELSE LET m == entries[i]
                len == MsgLen[m.priority]
            IN  /\ packet' = Append(packet, len)
                /\ dataLen' = dataLen + len
                /\ maxMsgLen' = IF len > maxMsgLen THEN dataLen'
                                ELSE maxMsgLen
                /\ writer' = IF dataLen' + maxMsgLen' > DesiredSize
                             THEN "write" ELSE "gate"
                /\ taken' = [taken EXCEPT ![m.priority] = m.data]
                /\ UNCHANGED gated
    /\ dozing' = FALSE
    /\ UNCHANGED <<peeked, client, late>>

(* Mutant: one packet per wake-up.                                         *)
Write_Once ==
    /\ writer = "write"
    /\ writer' = "wait"
    /\ packet' = <<>> /\ dataLen' = 0 /\ maxMsgLen' = 0
    /\ late' = IF Closed THEN late + 1 ELSE late
    /\ UNCHANGED <<queueVars, peeked, client, gated, dozing, taken>>

(* The packet is written.  A write error of a UDP connection is ignored.   *)
Write ==
    /\ writer = "write"
    /\ writer' = "check"
    /\ packet' = <<>> /\ dataLen' = 0 /\ maxMsgLen' = 0
    /\ late' = IF Closed THEN late + 1 ELSE late
    /\ UNCHANGED <<queueVars, peeked, client, gated, dozing, taken>>

(* OnError of a TCP or serial connection closes it, and with it the queue. *)
WriteError ==
    /\ writer = "write"
    /\ ~UDP
    /\ writer' = "failed"
    /\ packet' = <<>> /\ dataLen' = 0 /\ maxMsgLen' = 0
    /\ UNCHANGED <<queueVars, peeked, client, gated, dozing, taken, late>>

OnErrorClose ==
    /\ writer = "failed"
    /\ ~UDP
    /\ CloseFlag("writer")
    /\ writer' = IF Closed THEN "check" ELSE "notify"
    /\ UNCHANGED <<data, peeked, client, gated, dozing, taken, late>>

OnErrorNotify ==
    /\ writer = "notify"
    /\ ~UDP
    /\ CloseNotify("writer")
    /\ writer' = "check"
    /\ UNCHANGED <<data, peeked, client, gated, dozing, taken, late>>

WriterStep ==
    \/ Wake \/ Check \/ Gate \/ Peek \/ Recheck \/ Pop
    \/ Write \/ WriteError \/ OnErrorClose \/ OnErrorNotify

-------------------------------------------------------------------------------
(***************************************************************************)
(* The other goroutines and the client                                     *)
(***************************************************************************)

(* sendMsg, with netMutex held.                                            *)
Sender ==
    /\ \/ \E p \in Priorities, a \in Ages : PutCheck(p, a)
       \/ PutInsert
    /\ UNCHANGED writerVars

(* refreshConnectedClients closes the queue of a UDP client with netMutex  *)
(* held, so never during a Put; Close of a serial connection runs in a     *)
(* goroutine of its own.                                                   *)
Closer ==
    /\ \E c \in Closers \ {"writer"} : CloseFlag(c) \/ CloseNotify(c)
    /\ UDP => sender = NoPut
    /\ UNCHANGED writerVars

(* getNetworkStats, with netMutex held, in DEBUG mode.                     *)
Statistics == UDP /\ sender = NoPut /\ GetQueueDump /\ UNCHANGED writerVars

Clock == Tick /\ UNCHANGED writerVars

(* The client stops answering pings, or answers again.                     *)
Doze ==
    /\ UDP
    /\ asleep' = ~asleep
    /\ dozing' = (dozing /\ asleep')
    /\ UNCHANGED <<queueVars, writer, data, peeked, throttled, gated, taken, late>>

(* An ICMP unreachable arrives, or the last one is more than 15 s ago.     *)
Throttle ==
    /\ UDP
    /\ throttled' = ~throttled
    /\ UNCHANGED <<queueVars, writer, data, peeked, asleep, gated, dozing, taken,
                   late>>

Next ==
    \/ WriterStep \/ Sender \/ Closer \/ Statistics \/ Clock \/ Doze \/ Throttle

(***************************************************************************)
(* The Go scheduler runs every runnable goroutine: the writer while it can *)
(* step, and a Close that has begun.  Nothing is asked of the senders, the *)
(* clock or the client.                                                    *)
(***************************************************************************)
Fairness ==
    /\ WF_vars(WriterStep)
    /\ \A c \in Closers \ {"writer"} :
          WF_vars(CloseNotify(c) /\ UNCHANGED writerVars)

Spec == Init /\ [][Next]_vars
FairSpec == Spec /\ Fairness

-------------------------------------------------------------------------------
(***************************************************************************)
(* Properties                                                              *)
(***************************************************************************)

(* Every variable of the writer keeps its type.                            *)
WriterTypeOK ==
    /\ writer \in WriterStates
    /\ packet \in Seq(Nat)
    /\ dataLen \in Nat
    /\ maxMsgLen \in Nat
    /\ peeked \in Int
    /\ asleep \in BOOLEAN /\ throttled \in BOOLEAN
    /\ gated \in BOOLEAN /\ dozing \in BOOLEAN
    /\ taken \in [Priorities -> Int]
    /\ late \in Nat

(* No lost wake-up: a writer that sleeps on an empty channel, and did not  *)
(* stop because its client sleeps or is throttled, has an empty queue.     *)
NoLostWakeup ==
    writer = "wait" /\ ~DataAvailable /\ ~gated => entries = <<>>

(* A closed queue never leaves its writer asleep: Close's token, or one    *)
(* from an earlier Put, is in the channel, unless Close is about to put it *)
(* there.                                                                  *)
CloseWakesWriter ==
    writer = "wait" /\ Closed =>
        \/ DataAvailable
        \/ \E c \in Closers : closer[c] = "notify"

(* Messages of equal priority leave in the order they arrived, none twice: *)
(* everything queued or on its way in is newer than what was handed out.   *)
HandedOutInOrder ==
    /\ \A i \in 1..Len(entries) :
          taken[entries[i].priority] < entries[i].data
    /\ sender # NoPut => taken[sender.priority] < sender.data

(* At most one packet goes out once a connection is closed: the one whose  *)
(* collection began before Close set the flag.                             *)
OnePacketAfterClose == late <= 1

(* "So we can estimate if another message fits in": a packet of several    *)
(* messages exceeds the desired size only through a last message that is   *)
(* longer than every one before it.                                        *)
PacketSize ==
    LET n == Len(packet) IN
    dataLen > DesiredSize => \A i \in 1..(n - 1) : packet[i] < packet[n]

(* "If we are sleeping, only send heartbeats": whoever is asleep from the  *)
(* test at the top of the loop to the pop gets only what the test allows.  *)
SleepersGetHeartbeats ==
    [][ (writer = "pop" /\ dozing) =>
          \A p \in Priorities : taken'[p] # taken[p] => p <= HeartbeatPriority ]_vars

(* Close ends the goroutine, wherever it is when Close is called.          *)
WriterReturns == Closed ~> (writer = "done")

(* While the client is awake and not throttled, a queue that signalled     *)
(* data is emptied.                                                        *)
AwakeQueueDrains ==
    (DataAvailable /\ entries # <<>> /\ ~asleep /\ ~throttled)
        ~> (entries = <<>> \/ Closed \/ asleep \/ throttled)

-------------------------------------------------------------------------------
(***************************************************************************)
(* The inductive invariant behind the safety properties                    *)
(***************************************************************************)
Collecting == {"gate", "peek", "recheck", "pop"}

(* Once the queue is closed, a token waits for a writer that has not seen  *)
(* the flag since, or Close is about to put it there.                      *)
CloseToken ==
    Closed /\ writer \in Collecting \cup {"wait"} =>
        \/ DataAvailable
        \/ \E c \in Closers : closer[c] = "notify"

(* What was handed out had been offered.                                   *)
TakenOffered == \A p \in Priorities : taken[p] < puts

(* The packet written after Close is the last thing the writer does.       *)
LateIsLast ==
    late = 0 \/ (late = 1 /\ Closed /\ writer \in {"check", "done"})

(* maxMsgLen is an upper bound of the lengths, and the loop goes on only   *)
(* while a message of that length fits.                                    *)
RoomLeft ==
    /\ \A i \in 1..Len(packet) : packet[i] <= maxMsgLen
    /\ writer \in Collecting =>
          packet = <<>> \/ dataLen + maxMsgLen <= DesiredSize
    /\ writer \notin Collecting \cup {"write"} => packet = <<>>

WriterInv ==
    /\ WriterTypeOK
    /\ NoLostWakeup
    /\ CloseToken
    /\ TakenOffered /\ HandedOutInOrder
    /\ LateIsLast
    /\ RoomLeft /\ PacketSize

===============================================================================
