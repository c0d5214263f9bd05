-------------------------- MODULE ClientConnections --------------------------
(***************************************************************************)
(* The registry clientConnections of main/network.go: how UDP, TCP and     *)
(* serial connections are made, registered, closed and forgotten, with one *)
(* connectionWriter goroutine per connection.  How a writer collects its   *)
(* messages is in ConnectionWriter; here it finds some or none.            *)
(*                                                                         *)
(* A section that holds netMutex is one action.  Close of a connection is  *)
(* three (the port, the queue, onConnectionClosed), because only the last  *)
(* one takes netMutex; so is the creation of a missing queue.              *)
(*                                                                         *)
(* A connection is a pair <<k, n>>: the n-th connection with the key k.    *)
(***************************************************************************)
EXTENDS Integers, FiniteSets

CONSTANTS
    Clients,  \* "ip:port" of a leased address and a configured UDP output
    Remotes,  \* remote addresses that connect to TCP port 2000
    Devs,     \* /dev/serialout*
    MaxMade,  \* bound: connections made per key
    nil,      \* no queue
    absent    \* no settings entry

Keys == Clients \cup Remotes \cup Devs
Conns == Keys \X (1..MaxMade)
Callers == {"writer", "closeSerial"}

(***************************************************************************)
(* Queues are named for who made them: a connection with the queue it is   *)
(* born with, the settings entry of a serial device, or MessageQueue() on  *)
(* behalf of the writer or of sendMsg.                                     *)
(***************************************************************************)
Queues == (Conns \X {"own", "writer", "sendMsg"}) \cup (Devs \X {"settings"})

ASSUME RegistryAssumption ==
    /\ Clients \cap Remotes = {} /\ Clients \cap Devs = {}
    /\ Remotes \cap Devs = {}
    /\ MaxMade \in Nat
    /\ nil \notin Queues /\ absent \notin Queues /\ nil # absent

VARIABLES
    clientConnections,  \* the map: per key the number of its connection, or 0
    made,               \* per key, connections made so far
    queue,              \* per connection, its field Queue
    open,               \* the connections whose socket or port is open
    writer,             \* per connection, its goroutine
    listens,            \* per connection, the queue its writer waits on
    closing,            \* per connection and caller, what is left of Close
    closedQueues,       \* the queues with Closed set
    DataAvailable,      \* the queues with a token in the channel of that name
    SerialOutputs,      \* settings per device: absent, or the field Queue
    sending,            \* the connection whose Queue sendMsg, which holds
                        \* netMutex meanwhile, found nil; or none
    panicked            \* the process died of a nil dereference

vars == <<clientConnections, made, queue, open, writer, listens, closing,
          closedQueues, DataAvailable, SerialOutputs, sending, panicked>>

netMutexFree == sending = {}

Registered(c) == clientConnections[c[1]] = c[2]

(***************************************************************************)
(* Settings written by an earlier run name their serial outputs, without a *)
(* queue (the field has the tag json:"-").                                 *)
(***************************************************************************)
Init ==
    /\ clientConnections = [k \in Keys |-> 0]
    /\ made = [k \in Keys |-> 0]
    /\ queue = [c \in Conns |-> nil]
    /\ open = {}
    /\ writer = [c \in Conns |-> "none"]
    /\ listens = [c \in Conns |-> nil]
    /\ closing = [c \in Conns |-> [w \in Callers |-> "none"]]
    /\ closedQueues = {}
    /\ DataAvailable = {}
    /\ SerialOutputs \in [Devs -> {absent, nil}]
    /\ sending = {}
    /\ panicked = FALSE

(* New connections, and their writers, for the keys N.                     *)
Made(N) == {<<k, made[k] + 1>> : k \in N}

Make(N) ==
    /\ \A k \in N : made[k] < MaxMade
    /\ made' = [k \in Keys |-> IF k \in N THEN made[k] + 1 ELSE made[k]]
    /\ writer' = [c \in Conns |-> IF c \in Made(N) THEN "start" ELSE writer[c]]

(* Close of the queues Q: one that is open is closed and gets a token, for *)
(* whoever waits on it.                                                    *)
CloseQueues(Q) ==
    /\ closedQueues' = closedQueues \cup Q
    /\ DataAvailable' = DataAvailable \cup (Q \ closedQueues)

-------------------------------------------------------------------------------
(***************************************************************************)
(* Making connections                                                      *)
(***************************************************************************)

(* Mutant: a connection without a lease is closed but not removed.         *)
refreshConnectedClients_Kept(leased, failed) ==
    LET new == {k \in leased \ failed : clientConnections[k] = 0}
        gone == {c \in Clients \X (1..MaxMade) : c[1] \notin leased /\ Registered(c)}
    IN  /\ netMutexFree
        /\ Make(new)
        /\ clientConnections' =
              [k \in Keys |-> IF k \in new THEN made[k] + 1
                              ELSE clientConnections[k]]
        /\ queue' = [c \in Conns |-> IF c \in Made(new) THEN <<c, "own">>
                                     ELSE queue[c]]
        /\ open' = (open \cup Made(new)) \ gone
        /\ CloseQueues({queue[c] : c \in gone})
        /\ UNCHANGED <<listens, closing, SerialOutputs, sending, panicked>>

(* refreshConnectedClients: leased are the keys of the current leases and  *)
(* the configured ports, failed the ones that cannot be dialled.           *)
refreshConnectedClients(leased, failed) ==
    LET new == {k \in leased \ failed : clientConnections[k] = 0}
        gone == {c \in Clients \X (1..MaxMade) : c[1] \notin leased /\ Registered(c)}
    IN  /\ netMutexFree
        /\ Make(new)
        /\ clientConnections' =
              [k \in Keys |-> IF k \in new THEN made[k] + 1
                              ELSE IF k \in Clients \ leased THEN 0
                              ELSE clientConnections[k]]
        /\ queue' = [c \in Conns |-> IF c \in Made(new) THEN <<c, "own">>
                                     ELSE queue[c]]
        /\ open' = (open \cup Made(new)) \ gone
        /\ CloseQueues({queue[c] : c \in gone})
        /\ UNCHANGED <<listens, closing, SerialOutputs, sending, panicked>>

(* tcpNMEAOutListener: a remote address connects, perhaps again and before *)
(* its old socket has failed.  It is the one writer of the map that does   *)
(* not take netMutex.                                                      *)
tcpNMEAOutListener(r) ==
    LET c == <<r, made[r] + 1>> IN
    /\ Make({r})
    /\ clientConnections' = [clientConnections EXCEPT ![r] = c[2]]
    /\ queue' = [queue EXCEPT ![c] = <<c, "own">>]
    /\ open' = open \cup {c}
    /\ UNCHANGED <<listens, closing, closedQueues, DataAvailable, SerialOutputs, sending,
                   panicked>>

(* Mutant: the connection's copy of the settings has no queue.             *)
serialOutWatcher_NoQueue(d, opened) ==
    LET config == IF SerialOutputs[d] = absent THEN <<d, "settings">>
                  ELSE SerialOutputs[d]
        new == IF clientConnections[d] = 0 /\ opened THEN {d} ELSE {}
    IN  /\ netMutexFree
        /\ SerialOutputs' = [SerialOutputs EXCEPT ![d] = config]
        /\ Make(new)
        /\ clientConnections' = [k \in Keys |-> IF k \in new THEN made[k] + 1
                                                ELSE clientConnections[k]]
        /\ open' = open \cup Made(new)
        /\ UNCHANGED <<queue, listens, closing, closedQueues, DataAvailable, sending, panicked>>

(***************************************************************************)
(* serialOutWatcher, for one device that exists.  A device without         *)
(* settings gets some, with a queue that every later connection to it      *)
(* copies.  IsSleeping never holds of a registered serial connection       *)
(* (serialPort is never reset), so a device is connected if it is not      *)
(* registered.                                                             *)
(***************************************************************************)
serialOutWatcher(d, opened) ==
    LET config == IF SerialOutputs[d] = absent THEN <<d, "settings">>
                  ELSE SerialOutputs[d]
        needsConnect == clientConnections[d] = 0
        new == IF needsConnect /\ opened THEN {d} ELSE {}
    IN  /\ netMutexFree
        /\ SerialOutputs' = [SerialOutputs EXCEPT ![d] = config]
        /\ Make(new)
        /\ clientConnections' = [k \in Keys |-> IF k \in new THEN made[k] + 1
                                                ELSE clientConnections[k]]
        /\ queue' = [c \in Conns |-> IF c \in Made(new) THEN config ELSE queue[c]]
        /\ open' = open \cup Made(new)
        /\ UNCHANGED <<listens, closing, closedQueues, DataAvailable, sending, panicked>>

-------------------------------------------------------------------------------
(***************************************************************************)
(* MessageQueue() makes a missing queue: a test and an assignment, without *)
(* a lock, by the writer and by sendMsg.                                   *)
(***************************************************************************)
WriterStart(c) ==
    /\ writer[c] = "start"
    /\ IF queue[c] = nil
       THEN writer' = [writer EXCEPT ![c] = "lazy"] /\ UNCHANGED listens
       ELSE /\ writer' = [writer EXCEPT ![c] = "wait"]
            /\ listens' = [listens EXCEPT ![c] = queue[c]]
    /\ UNCHANGED <<clientConnections, made, queue, open, closing, closedQueues,
                   DataAvailable, SerialOutputs, sending, panicked>>

WriterQueue(c) ==
    /\ writer[c] = "lazy"
    /\ queue' = [queue EXCEPT ![c] = <<c, "writer">>]
    /\ listens' = [listens EXCEPT ![c] = <<c, "writer">>]
    /\ writer' = [writer EXCEPT ![c] = "wait"]
    /\ UNCHANGED <<clientConnections, made, open, closing, closedQueues,
                   DataAvailable, SerialOutputs, sending, panicked>>

(* sendMsg's loop over the map reaches a connection without a queue ...    *)
SendStart(c) ==
    /\ netMutexFree
    /\ Registered(c)
    /\ queue[c] = nil
    /\ sending' = {c}
    /\ UNCHANGED <<clientConnections, made, queue, open, writer, listens, closing,
                   closedQueues, DataAvailable, SerialOutputs, panicked>>

SendQueue(c) ==
    /\ c \in sending
    /\ queue' = [queue EXCEPT ![c] = <<c, "sendMsg">>]
    /\ DataAvailable' = DataAvailable \cup {<<c, "sendMsg">>}
    /\ sending' = {}
    /\ UNCHANGED <<clientConnections, made, open, writer, listens, closing,
                   closedQueues, SerialOutputs, panicked>>

(* ... or one that has a queue.  A closed queue takes no message.          *)
SendPut(c) ==
    /\ netMutexFree
    /\ Registered(c)
    /\ queue[c] \notin closedQueues \cup {nil}
    /\ DataAvailable' = DataAvailable \cup {queue[c]}
    /\ UNCHANGED <<clientConnections, made, queue, open, writer, listens, closing,
                   closedQueues, SerialOutputs, sending, panicked>>

-------------------------------------------------------------------------------
(***************************************************************************)
(* The writer, and Close                                                   *)
(***************************************************************************)

(* <-queue.DataAvailable: of several writers that wait on one queue, which *)
(* connections of one serial output do, one gets the token.                *)
WriterWake(c) ==
    /\ writer[c] = "wait"
    /\ listens[c] \in DataAvailable
    /\ DataAvailable' = DataAvailable \ {listens[c]}
    /\ writer' = [writer EXCEPT ![c] = "check"]
    /\ UNCHANGED <<clientConnections, made, queue, open, listens, closing,
                   closedQueues, SerialOutputs, sending, panicked>>

(* if queue.Closed { return }                                              *)
WriterReturn(c) ==
    /\ writer[c] = "check"
    /\ listens[c] \in closedQueues
    /\ writer' = [writer EXCEPT ![c] = "done"]
    /\ UNCHANGED <<clientConnections, made, queue, open, listens, closing,
                   closedQueues, DataAvailable, SerialOutputs, sending, panicked>>

(* collectMessages finds something to write, or nothing: then the writer   *)
(* asks for the connection's queue again and waits.                        *)
WriterCollect(c) ==
    /\ writer[c] = "check"
    /\ listens[c] \notin closedQueues
    /\ \/ writer' = [writer EXCEPT ![c] = "write"] /\ UNCHANGED listens
       \/ /\ writer' = [writer EXCEPT ![c] = "wait"]
          /\ listens' = [listens EXCEPT ![c] = queue[c]]
    /\ UNCHANGED <<clientConnections, made, queue, open, closing,
                   closedQueues, DataAvailable, SerialOutputs, sending, panicked>>

WriterWrote(c) ==
    /\ writer[c] = "write"
    /\ c \in open
    /\ writer' = [writer EXCEPT ![c] = "check"]
    /\ UNCHANGED <<clientConnections, made, queue, open, listens, closing,
                   closedQueues, DataAvailable, SerialOutputs, sending, panicked>>

(* The write fails.  OnError of a UDP connection does nothing, the others  *)
(* close themselves.                                                       *)
OnError(c) ==
    /\ writer[c] = "write"
    /\ IF c[1] \in Clients
       THEN writer' = [writer EXCEPT ![c] = "check"] /\ UNCHANGED closing
       ELSE /\ writer' = [writer EXCEPT ![c] = "close"]
            /\ closing' = [closing EXCEPT ![c]["writer"] = "port"]
    /\ UNCHANGED <<clientConnections, made, queue, open, listens, closedQueues,
                   DataAvailable, SerialOutputs, sending, panicked>>

(* closeSerial, which a change of the baud rate calls: the connection      *)
(* leaves the map at once and is closed by a goroutine of its own.         *)
closeSerial(c) ==
    /\ netMutexFree
    /\ c[1] \in Devs
    /\ Registered(c)
    /\ clientConnections' = [clientConnections EXCEPT ![c[1]] = 0]
    /\ closing' = [closing EXCEPT ![c]["closeSerial"] = "port"]
    /\ UNCHANGED <<made, queue, open, writer, listens, closedQueues,
                   DataAvailable, SerialOutputs, sending, panicked>>

ClosePort(c, w) ==
    /\ closing[c][w] = "port"
    /\ open' = open \ {c}
    /\ closing' = [closing EXCEPT ![c][w] = "queue"]
    /\ UNCHANGED <<clientConnections, made, queue, writer, listens, closedQueues,
                   DataAvailable, SerialOutputs, sending, panicked>>

(* Mutant: the queue is not closed.                                        *)
CloseQueue_Skipped(c, w) ==
    /\ closing[c][w] = "queue"
    /\ queue[c] # nil
    /\ closing' = [closing EXCEPT ![c][w] = "registry"]
    /\ UNCHANGED <<clientConnections, made, queue, open, writer, listens,
                   closedQueues, DataAvailable, SerialOutputs, sending, panicked>>

CloseQueue(c, w) ==
    /\ closing[c][w] = "queue"
    /\ queue[c] # nil
    /\ CloseQueues({queue[c]})
    /\ closing' = [closing EXCEPT ![c][w] = "registry"]
    /\ UNCHANGED <<clientConnections, made, queue, open, writer, listens,
                   SerialOutputs, sending, panicked>>

(* Close does not use MessageQueue(): a Queue nobody has needed yet is     *)
(* dereferenced, and the process dies.                                     *)
CloseNilQueue(c, w) ==
    /\ closing[c][w] = "queue"
    /\ queue[c] = nil
    /\ panicked' = TRUE
    /\ UNCHANGED <<clientConnections, made, queue, open, writer, listens, closing,
                   closedQueues, DataAvailable, SerialOutputs, sending>>

(* Mutant: a closed connection stays in the map.                           *)
onConnectionClosed_Kept(c, w) ==
    /\ netMutexFree
    /\ closing[c][w] = "registry"
    /\ closing' = [closing EXCEPT ![c][w] = "none"]
    /\ writer' = IF w = "writer" THEN [writer EXCEPT ![c] = "check"] ELSE writer
    /\ UNCHANGED <<clientConnections, made, queue, open, listens, closedQueues,
                   DataAvailable, SerialOutputs, sending, panicked>>

(* The map is cleared by key, whatever connection it holds by now.  The    *)
(* writer goes on in its loop.                                             *)
onConnectionClosed(c, w) ==
    /\ netMutexFree
    /\ closing[c][w] = "registry"
    /\ clientConnections' = [clientConnections EXCEPT ![c[1]] = 0]
    /\ closing' = [closing EXCEPT ![c][w] = "none"]
    /\ writer' = IF w = "writer" THEN [writer EXCEPT ![c] = "check"] ELSE writer
    /\ UNCHANGED <<made, queue, open, listens, closedQueues, DataAvailable,
                   SerialOutputs, sending, panicked>>

WriterStep(c) ==
    \/ WriterStart(c) \/ WriterQueue(c) \/ WriterWake(c) \/ WriterReturn(c)
    \/ WriterCollect(c) \/ WriterWrote(c) \/ OnError(c)

CloseStep(c) ==
    \E w \in Callers : \/ ClosePort(c, w) \/ CloseQueue(c, w)
                       \/ CloseNilQueue(c, w) \/ onConnectionClosed(c, w)

Running ==
    \/ \E leased \in SUBSET Clients : \E failed \in SUBSET leased :
          refreshConnectedClients(leased, failed)
    \/ \E r \in Remotes : tcpNMEAOutListener(r)
    \/ \E d \in Devs : \E opened \in BOOLEAN : serialOutWatcher(d, opened)
    \/ \E c \in Conns : \/ WriterStep(c) \/ CloseStep(c) \/ closeSerial(c)
                        \/ SendStart(c) \/ SendQueue(c) \/ SendPut(c)

Next == ~panicked /\ Running

Spec == Init /\ [][Next]_vars

(***************************************************************************)
(* Goroutines that can step do, while the process lives: a writer that     *)
(* starts or is woken, a write to a closed port (it fails), the calls of   *)
(* Close and of sendMsg.  A write to an open port may block for ever, and  *)
(* no client, device, message or user is forced to act.                    *)
(***************************************************************************)
Fairness ==
    \A c \in Conns :
        /\ WF_vars(~panicked /\ (WriterStart(c) \/ WriterQueue(c)))
        /\ WF_vars(~panicked /\ WriterWake(c))
        /\ WF_vars(~panicked /\ (WriterReturn(c) \/ WriterCollect(c)))
        /\ WF_vars(~panicked /\ c \notin open /\ OnError(c))
        /\ WF_vars(~panicked /\ SendQueue(c))
        /\ WF_vars(~panicked /\ CloseStep(c))

FairSpec == Spec /\ Fairness

-------------------------------------------------------------------------------
(***************************************************************************)
(* Properties                                                              *)
(***************************************************************************)

(* Every variable keeps its type.                                          *)
TypeOK ==
    /\ made \in [Keys -> 0..MaxMade] /\ clientConnections \in [Keys -> 0..MaxMade]
    /\ \A k \in Keys : clientConnections[k] <= made[k]
    /\ queue \in [Conns -> Queues \cup {nil}]
    /\ open \subseteq Conns
    /\ writer \in [Conns -> {"none", "start", "lazy", "wait", "check", "write",
                             "close", "done"}]
    /\ listens \in [Conns -> Queues \cup {nil}]
    /\ closing \in [Conns -> [Callers -> {"none", "port", "queue", "registry"}]]
    /\ closedQueues \subseteq Queues /\ DataAvailable \subseteq Queues
    /\ SerialOutputs \in [Devs -> Queues \cup {absent, nil}]
    /\ sending \subseteq Conns
    /\ panicked \in BOOLEAN

InClose(c) == \E w \in Callers : closing[c][w] # "none"

(* What the registry holds works: a UDP or TCP connection in the map has   *)
(* an open socket, an open queue and a writer, unless its Close is under   *)
(* way.                                                                    *)
RegisteredIsServed ==
    \A c \in Conns : (Registered(c) /\ c[1] \notin Devs) =>
        \/ InClose(c)
        \/ c \in open /\ queue[c] \notin closedQueues /\ writer[c] # "done"

(***************************************************************************)
(* MessageQueue() has made two queues for c, and its writer waits on one   *)
(* that is not the connection's, or that Close has not closed.             *)
(***************************************************************************)
Orphaned(c) ==
    /\ listens[c] = <<c, "writer">>
    /\ <<c, "sendMsg">> \in closedQueues \cup {queue[c]}

(* Only a serial output that the settings file named can have an orphaned  *)
(* writer, or a Close that meets a missing queue: the other connections    *)
(* are registered with their queue.                                        *)
LazyQueueOnlyFromSettings ==
    /\ \A c \in Conns : Orphaned(c) => c[1] \in Devs /\ SerialOutputs[c[1]] = nil
    /\ panicked => \E d \in Devs : SerialOutputs[d] = nil

(***************************************************************************)
(* The writer of c waits on a closed queue, and the one token of its Close *)
(* has gone to another connection's writer: the connections of a serial    *)
(* output share the queue of its settings.                                 *)
(***************************************************************************)
Robbed(c) ==
    /\ writer[c] = "wait"
    /\ listens[c] \in closedQueues \ DataAvailable
    /\ \E d \in Conns \ {c} : listens[d] = listens[c] /\ writer[d] \in {"check", "done"}

(* The writer of a closed connection returns, unless it was orphaned or,   *)
(* on a queue that it shares, robbed of its token.                         *)
ClosedWriterReturns ==
    \A c \in Conns :
        (c[2] <= made[c[1]] /\ c \notin open) ~>
            (writer[c] = "done" \/ Orphaned(c) \/ Robbed(c) \/ panicked)

(* A connection whose port was closed leaves the registry: sendMsg does    *)
(* not queue for it for ever.                                              *)
ClosedLeavesRegistry ==
    \A c \in Conns : (Registered(c) /\ c \notin open) ~> (~Registered(c) \/ panicked)

(* "Monitor serial output channel, send to serial port": a serial output   *)
(* that is registered, and not being closed, has a queue that takes        *)
(* messages.                                                               *)
SerialOutputDelivers ==
    \A c \in Conns : (Registered(c) /\ c[1] \in Devs) =>
        InClose(c) \/ queue[c] \notin closedQueues

==============================================================================
