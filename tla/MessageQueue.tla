----------------------------- MODULE MessageQueue -----------------------------
(***************************************************************************)
(* One MessageQueue of main/messagequeue.go with the goroutines that use   *)
(* it.  Every access to the entries is a critical section of queue.mutex   *)
(* and is one action.  The flag Closed is read and written outside the     *)
(* mutex, so Put is two actions (PutCheck, PutInsert) and Close is two     *)
(* (CloseFlag, CloseNotify).                                               *)
(*                                                                         *)
(*   sendMsg        PutCheck, PutInsert   one caller at a time: netMutex   *)
(*   writer         PeekFirst, PopFirst                                    *)
(*   statistics     GetQueueDump(true)                                     *)
(*   closers        CloseFlag, CloseNotify                                 *)
(*   stratuxClock   Tick                                                   *)
(***************************************************************************)
EXTENDS MessageQueueOps

CONSTANTS
    MaxSize,     \* maxSize of NewMessageQueue: 1024 in the program
    OverUse,     \* the longest queue Put does not prune: 1126, 10% over
    Priorities,  \* the priorities the callers of sendMsg use
    Ages,        \* the maxAge values they use, in clock ticks
    Closers,     \* the goroutines that may call Close, once each
    MaxPuts,     \* bound: messages offered to the queue
    MaxTime      \* bound: clock ticks

ASSUME QueueAssumption ==
    /\ MaxSize \in Nat \ {0}
    /\ OverUse \in Nat
    /\ MaxSize <= OverUse
    /\ Priorities \subseteq Int
    /\ Ages \subseteq Nat
    /\ MaxPuts \in Nat
    /\ MaxTime \in Nat

VARIABLES
    entries,        \* the slice, first to be sent first
    DataAvailable,  \* the channel of capacity 1 holds a value
    Closed,         \* the unprotected flag
    now,            \* stratuxClock.Time
    puts,           \* messages offered so far: the next arrival number
    sender,         \* the Put past its check of Closed, or NoPut
    closer          \* per closer: "open", "notify" (flag set) or "closed"

queueVars == <<entries, DataAvailable, Closed, now, puts, sender, closer>>

Entry == [priority : Priorities, outdatedAt : Nat, data : Nat]
PutArg == [priority : Priorities, maxAge : Ages, data : Nat]
NoPut == [priority |-> 0, maxAge |-> 0, data |-> -1]

QueueInit ==
    /\ entries = <<>>
    /\ DataAvailable = FALSE
    /\ Closed = FALSE
    /\ now = 0
    /\ puts = 0
    /\ sender = NoPut
    /\ closer = [c \in Closers |-> "open"]

(***************************************************************************)
(* Put                                                                     *)
(***************************************************************************)

(* The call and its first statement: a closed queue drops the message.     *)
PutCheck(priority, maxAge) ==
    /\ sender = NoPut
    /\ puts < MaxPuts
    /\ puts' = puts + 1
    /\ sender' = IF Closed THEN NoPut
                 ELSE [priority |-> priority, maxAge |-> maxAge, data |-> puts]
    /\ UNCHANGED <<entries, DataAvailable, Closed, now, closer>>

(* Mutant: nobody is notified.                                            *)
PutInsert_NoNotify ==
    /\ sender # NoPut
    /\ entries' = Insert(entries, [priority   |-> sender.priority,
                                   outdatedAt |-> now + sender.maxAge,
                                   data       |-> sender.data])
    /\ sender' = NoPut
    /\ UNCHANGED <<DataAvailable, Closed, now, puts, closer>>

(* The critical section: insert, prune if the queue is more than 10% over  *)
(* its size, and the non-blocking send of notifyData.                      *)
PutInsert ==
    /\ sender # NoPut
    /\ LET entry == [priority   |-> sender.priority,
                     outdatedAt |-> now + sender.maxAge,
                     data       |-> sender.data]
           grown == Insert(entries, entry)
       IN  entries' = IF Len(grown) > OverUse
                      THEN prune(grown, now, MaxSize) ELSE grown
    /\ DataAvailable' = (DataAvailable \/ entries' # <<>>)
    /\ sender' = NoPut
    /\ UNCHANGED <<Closed, now, puts, closer>>

(***************************************************************************)
(* getFirst, GetQueueDump and Close                                        *)
(***************************************************************************)
PeekFirst ==
    /\ entries' = Stripped(entries, now, FALSE)
    /\ UNCHANGED <<DataAvailable, Closed, now, puts, sender, closer>>

PopFirst ==
    /\ entries' = Stripped(entries, now, TRUE)
    /\ UNCHANGED <<DataAvailable, Closed, now, puts, sender, closer>>

(* GetQueueDump(true), which getNetworkStats calls every 15 s in DEBUG     *)
(* mode.  It prunes even when the queue is within its 10%.                 *)
GetQueueDump ==
    /\ entries' = prune(entries, now, MaxSize)
    /\ UNCHANGED <<DataAvailable, Closed, now, puts, sender, closer>>

(* The reader's blocking receive from the channel.                         *)
Receive ==
    /\ DataAvailable
    /\ DataAvailable' = FALSE
    /\ UNCHANGED <<entries, Closed, now, puts, sender, closer>>

(* Close returns at once if another goroutine has closed the queue.        *)
CloseFlag(c) ==
    /\ closer[c] = "open"
    /\ Closed' = TRUE
    /\ closer' = [closer EXCEPT ![c] = IF Closed THEN "closed" ELSE "notify"]
    /\ UNCHANGED <<entries, DataAvailable, now, puts, sender>>

(* Mutant: Close sets the flag and wakes nobody.                           *)
CloseNotify_Silent(c) ==
    /\ closer[c] = "notify"
    /\ closer' = [closer EXCEPT ![c] = "closed"]
    /\ UNCHANGED <<entries, DataAvailable, Closed, now, puts, sender>>

CloseNotify(c) ==
    /\ closer[c] = "notify"
    /\ DataAvailable' = TRUE
    /\ closer' = [closer EXCEPT ![c] = "closed"]
    /\ UNCHANGED <<entries, Closed, now, puts, sender>>

(* monotonic.Watcher: time moves at any moment, between any two steps.     *)
Tick ==
    /\ now < MaxTime
    /\ now' = now + 1
    /\ UNCHANGED <<entries, DataAvailable, Closed, puts, sender, closer>>

QueueNext ==
    \/ \E p \in Priorities, a \in Ages : PutCheck(p, a)
    \/ PutInsert
    \/ PeekFirst
    \/ PopFirst
    \/ GetQueueDump
    \/ Receive
    \/ \E c \in Closers : CloseFlag(c) \/ CloseNotify(c)
    \/ Tick

QueueSpec == QueueInit /\ [][QueueNext]_queueVars

-------------------------------------------------------------------------------
(***************************************************************************)
(* Properties                                                              *)
(***************************************************************************)

(* Every variable keeps its type.                                          *)
QueueTypeOK ==
    /\ entries \in Seq(Entry)
    /\ DataAvailable \in BOOLEAN
    /\ Closed \in BOOLEAN
    /\ now \in Nat
    /\ puts \in Nat
    /\ sender \in PutArg \cup {NoPut}
    /\ closer \in [Closers -> {"open", "notify", "closed"}]

(* The queue is ordered by priority and, within one priority, by arrival:  *)
(* what sort.Search needs to find the right place, and what makes getFirst *)
(* hand out the most important message, oldest first.                      *)
InPriorityOrder == Ordered(entries)

(* The closed form of prune that the model uses computes what the loops of *)
(* messagequeue.go compute, on every queue that GetQueueDump and Put prune: *)
(* the slice as it is, and the slice with the new message inserted.        *)
PruneMatchesLoop ==
    LET Agrees(s) == prune(s, now, MaxSize) = PruneLoop(s, now, MaxSize) IN
    /\ Agrees(entries)
    /\ sender # NoPut =>
          Agrees(Insert(entries, [priority   |-> sender.priority,
                                  outdatedAt |-> now + sender.maxAge,
                                  data       |-> sender.data]))

(* However long the reader is away, Put never leaves more than 10% over    *)
(* maxSize in memory.                                                      *)
BoundedQueue == Len(entries) <= OverUse

(* The strengthening that makes the order inductive: what is queued        *)
(* arrived before the Put in progress, which arrived before what follows.  *)
ArrivalOrder ==
    /\ \A i \in 1..Len(entries) : entries[i].data < puts
    /\ sender # NoPut =>
          /\ sender.data < puts
          /\ \A i \in 1..Len(entries) : entries[i].data < sender.data

QueueInv == QueueTypeOK /\ InPriorityOrder /\ BoundedQueue /\ ArrivalOrder

-------------------------------------------------------------------------------
(***************************************************************************)
(* The queue implements the mailbox.  The slice becomes the set of its     *)
(* entries, a Put past its check an offered message.                       *)
(***************************************************************************)
Held == {entries[i] : i \in 1..Len(entries)}
Offered == IF sender = NoPut THEN {} ELSE {sender}

M == INSTANCE Mailbox WITH held <- Held, offered <- Offered

(* Put loses only outdated messages and, over the limit, the least         *)
(* important and oldest ones; PopFirst hands out the best usable message   *)
(* and throws away only outdated ones.  It is the promise of the comment   *)
(* above prune, for whole runs of the queue.                               *)
ImplementsMailbox == M!Spec

===============================================================================
