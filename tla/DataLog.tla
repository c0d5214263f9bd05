-------------------------------- MODULE DataLog --------------------------------
(***************************************************************************)
(* The SQLite replay log of main/datalog.go.  A row passes from a          *)
(* goroutine that logs to the database through                             *)
(*                                                                         *)
(*   dataLogChan -> dataLog -> dataLogWriteChan -> dataLogWriter           *)
(*                                  -> rowsQueuedForWrite -> the database  *)
(*                                                                         *)
(* dataLogWatchdog starts and stops the two goroutines when the setting    *)
(* ReplayLog changes; gracefulShutdown stops them too.  The two call       *)
(* closeDataLog, whose channels are made anew by every start: a goroutine  *)
(* may still hold the channel of an earlier one.  The channels are known   *)
(* by the number of the start that made them, 0 is the nil channel.        *)
(*                                                                         *)
(* A row is the number of its entry into dataLogChan; one table stands for *)
(* all, and the timestamps are left out.                                   *)
(***************************************************************************)
EXTENDS Integers, Sequences, FiniteSets

CONSTANTS
    Producers,    \* goroutines that call logTraffic, logSituation, logMsg...
    Cap,          \* capacity of the two row channels: 10240 in the program
    MaxStarts,    \* bound: starts of dataLog
    MaxRows,      \* bound: rows that enter dataLogChan
    MaxFailures   \* bound: INSERT statements that fail

ASSUME DataLogAssumption ==
    /\ IsFiniteSet(Producers)
    /\ Cap \in Nat \ {0}
    /\ MaxStarts \in Nat /\ MaxRows \in Nat /\ MaxFailures \in Nat

VARIABLES
    ReplayLog,            \* the setting
    dataLogStarted,
    dataLogReadyToWrite,
    starts,               \* starts of dataLog so far
    log,                  \* where dataLog is
    hand,                 \* the row it passes on, and the channel it sends to
    dataLogChan,
    writer,               \* where dataLogWriter is
    made,                 \* the start whose writer made the channels
    dataLogWriteChan,
    staleLen,             \* rows in the dataLogWriteChan before this one
    rowsQueuedForWrite,
    insertBatch,          \* insertBatchIfs: rows of an INSERT, kept if it fails
    db,
    failures,
    producer,             \* per producer: where it is, and its channel
    closer,               \* per caller of closeDataLog, likewise
    closedChans,          \* the closed shutdownDataLogWriter channels
    accepted,             \* history: rows that have entered dataLogChan
    due,                  \* history: accepted when gracefulShutdown came
    panicked

flags == <<ReplayLog, dataLogStarted, dataLogReadyToWrite>>
logVars == <<starts, log, hand, dataLogChan>>
writerVars == <<writer, made, dataLogWriteChan, staleLen, rowsQueuedForWrite,
                insertBatch, db, failures>>
closeVars == <<closer, closedChans, due, panicked>>
vars == <<flags, logVars, writerVars, producer, accepted, closeVars>>

Closers == {"watchdog", "shutdown"}
Idle == [pc |-> "idle", on |-> 0]
NoRow == [row |-> 0, on |-> 0]

(* After gracefulShutdown the process exits.                               *)
Alive == ~panicked /\ closer["shutdown"].pc # "returned"

Init ==
    /\ ReplayLog \in BOOLEAN
    /\ dataLogStarted = FALSE /\ dataLogReadyToWrite = FALSE
    /\ starts = 0 /\ log = "off" /\ hand = NoRow /\ dataLogChan = <<>>
    /\ writer = "none" /\ made = 0 /\ dataLogWriteChan = <<>> /\ staleLen = 0
    /\ rowsQueuedForWrite = <<>> /\ insertBatch = <<>> /\ db = <<>>
    /\ failures = 0
    /\ producer = [p \in Producers |-> Idle]
    /\ closer = [c \in Closers |-> Idle]
    /\ closedChans = {}
    /\ accepted = 0 /\ due = 0
    /\ panicked = FALSE

(* The user changes the setting.                                           *)
handleSettingsSet ==
    /\ Alive
    /\ ReplayLog' = ~ReplayLog
    /\ UNCHANGED <<dataLogStarted, dataLogReadyToWrite, logVars, writerVars,
                   producer, accepted, closeVars>>

-------------------------------------------------------------------------------
(***************************************************************************)
(* dataLog                                                                 *)
(***************************************************************************)

(* Case 1 of dataLogWatchdog, with the first statements of the goroutine   *)
(* dataLog, which run before the watchdog's next look a second later.      *)
WatchdogStart ==
    /\ Alive
    /\ closer["watchdog"].pc = "idle"
    /\ ~dataLogStarted /\ ReplayLog
    /\ starts < MaxStarts
    /\ starts' = starts + 1
    /\ dataLogStarted' = TRUE
    /\ log' = "open"
    /\ dataLogChan' = <<>>
    /\ UNCHANGED <<ReplayLog, dataLogReadyToWrite, hand, writerVars, producer,
                   accepted, closeVars>>

(* The database is open: go dataLogWriter(db).                             *)
LogSpawn ==
    /\ Alive
    /\ log = "open"
    /\ log' = "setup"
    /\ writer' = "spawned"
    /\ UNCHANGED <<flags, starts, hand, dataLogChan, made, dataLogWriteChan,
                   staleLen, rowsQueuedForWrite, insertBatch, db, failures,
                   producer, accepted, closeVars>>

(* The tables and the startup row are there.                               *)
LogReady ==
    /\ Alive
    /\ log = "setup"
    /\ log' = "loop"
    /\ dataLogReadyToWrite' = TRUE
    /\ UNCHANGED <<ReplayLog, dataLogStarted, starts, hand, dataLogChan,
                   writerVars, producer, accepted, closeVars>>

(* Mutant: a row is taken only when the writer has nothing to do.          *)
LogReceive_WhenIdle ==
    /\ Alive
    /\ log = "loop"
    /\ dataLogChan # <<>>
    /\ dataLogWriteChan = <<>> /\ rowsQueuedForWrite = <<>>
    /\ log' = "send"
    /\ hand' = [row |-> Head(dataLogChan), on |-> made]
    /\ dataLogChan' = Tail(dataLogChan)
    /\ UNCHANGED <<flags, starts, writerVars, producer, accepted, closeVars>>

LogReceive ==
    /\ Alive
    /\ log = "loop"
    /\ dataLogChan # <<>>
    /\ log' = "send"
    /\ hand' = [row |-> Head(dataLogChan), on |-> made]
    /\ dataLogChan' = Tail(dataLogChan)
    /\ UNCHANGED <<flags, starts, writerVars, producer, accepted, closeVars>>

(* dataLogWriteChan <- r blocks for ever on the nil channel, and puts the  *)
(* row where nobody reads if the writer has made a new channel since.      *)
LogSend ==
    /\ Alive
    /\ log = "send"
    /\ hand.on # 0
    /\ IF hand.on = made
       THEN /\ Len(dataLogWriteChan) < Cap
            /\ dataLogWriteChan' = Append(dataLogWriteChan, hand.row)
            /\ UNCHANGED staleLen
       ELSE /\ staleLen < Cap
            /\ staleLen' = staleLen + 1
            /\ UNCHANGED dataLogWriteChan
    /\ log' = "loop"
    /\ hand' = NoRow
    /\ UNCHANGED <<flags, starts, dataLogChan, writer, made,
                   rowsQueuedForWrite, insertBatch, db, failures, producer,
                   accepted, closeVars>>

(* Mutant: the flag is left on.                                            *)
LogClose_StillStarted ==
    /\ Alive
    /\ log = "closing"
    /\ log' = "off"
    /\ UNCHANGED <<flags, starts, hand, dataLogChan, writerVars, producer,
                   accepted, closeVars>>

(* The deferred function of dataLog closes the database.                   *)
LogClose ==
    /\ Alive
    /\ log = "closing"
    /\ log' = "off"
    /\ dataLogStarted' = FALSE
    /\ UNCHANGED <<ReplayLog, dataLogReadyToWrite, starts, hand, dataLogChan,
                   writerVars, producer, accepted, closeVars>>

-------------------------------------------------------------------------------
(***************************************************************************)
(* dataLogWriter                                                           *)
(***************************************************************************)
WriterStart ==
    /\ Alive
    /\ writer = "spawned"
    /\ writer' = "loop"
    /\ made' = starts
    /\ staleLen' = Len(dataLogWriteChan)
    /\ dataLogWriteChan' = <<>>
    /\ rowsQueuedForWrite' = <<>>
    /\ UNCHANGED <<flags, logVars, insertBatch, db, failures, producer,
                   accepted, closeVars>>

WriterAccept ==
    /\ Alive
    /\ writer = "loop"
    /\ dataLogWriteChan # <<>>
    /\ rowsQueuedForWrite' = Append(rowsQueuedForWrite, Head(dataLogWriteChan))
    /\ dataLogWriteChan' = Tail(dataLogWriteChan)
    /\ UNCHANGED <<flags, logVars, writer, made, staleLen, insertBatch, db,
                   failures, producer, accepted, closeVars>>

(***************************************************************************)
(* bulkInsert executes statements of a few rows each; inserted rows are in *)
(* the database for good (db.Exec does not take part in the transaction    *)
(* tx).  The buffers are cleared only if every statement succeeds.         *)
(***************************************************************************)
bulkInsert(rows) ==
    \/ /\ db' = db \o rows
       /\ insertBatch' = <<>>
       /\ UNCHANGED failures
    \/ /\ failures < MaxFailures
       /\ failures' = failures + 1
       /\ \E n \in 0..(Len(rows) - 1) : db' = db \o SubSeq(rows, 1, n)
       /\ insertBatch' = rows

(* Mutant: the queue is not zeroed.                                        *)
WriterTick_NotZeroed ==
    /\ Alive
    /\ writer = "loop"
    /\ rowsQueuedForWrite # <<>>
    /\ Len(db) <= MaxRows
    /\ bulkInsert(insertBatch \o rowsQueuedForWrite)
    /\ UNCHANGED <<rowsQueuedForWrite, flags, logVars, writer, made,
                   dataLogWriteChan, staleLen, producer, accepted, closeVars>>

(* The write ticker: insertData of every queued row, then bulkInsert of    *)
(* the tables that have one.  If db.Begin() fails nothing happens.         *)
WriterTick ==
    /\ Alive
    /\ writer = "loop"
    /\ rowsQueuedForWrite # <<>>
    /\ bulkInsert(insertBatch \o rowsQueuedForWrite)
    /\ rowsQueuedForWrite' = <<>>
    /\ UNCHANGED <<flags, logVars, writer, made, dataLogWriteChan, staleLen,
                   producer, accepted, closeVars>>

(* Mutant: the writer goes on after it has told dataLog to stop.           *)
WriterStop_GoesOn ==
    /\ Alive
    /\ writer = "stop"
    /\ log = "loop"
    /\ writer' = "loop"
    /\ log' = "closing"
    /\ UNCHANGED <<flags, starts, hand, dataLogChan, made, dataLogWriteChan,
                   staleLen, rowsQueuedForWrite, insertBatch, db, failures,
                   producer, accepted, closeVars>>

(* shutdownDataLog <- true, received by dataLog in its select.             *)
WriterStop ==
    /\ Alive
    /\ writer = "stop"
    /\ log = "loop"
    /\ writer' = "none"
    /\ log' = "closing"
    /\ UNCHANGED <<flags, starts, hand, dataLogChan, made, dataLogWriteChan,
                   staleLen, rowsQueuedForWrite, insertBatch, db, failures,
                   producer, accepted, closeVars>>

-------------------------------------------------------------------------------
(***************************************************************************)
(* logTraffic, logSituation, logMsg and the others                         *)
(***************************************************************************)
ProducerCheck(p) ==
    /\ Alive
    /\ producer[p].pc = "idle"
    /\ ReplayLog /\ dataLogReadyToWrite
    /\ accepted + Cardinality({q \in Producers : producer[q] # Idle}) < MaxRows
    /\ producer' = [producer EXCEPT ![p].pc = "send"]
    /\ UNCHANGED <<flags, logVars, writerVars, accepted, closeVars>>

(* dataLogChan <- row                                                      *)
ProducerSend(p) ==
    /\ Alive
    /\ \/ producer[p].pc = "send"
       \/ producer[p].pc = "blocked" /\ producer[p].on = starts
    /\ Len(dataLogChan) < Cap
    /\ accepted' = accepted + 1
    /\ dataLogChan' = Append(dataLogChan, accepted')
    /\ producer' = [producer EXCEPT ![p] = Idle]
    /\ UNCHANGED <<flags, starts, log, hand, writerVars, closeVars>>

(* The channel is full: the producer waits at this channel, with the locks *)
(* it holds.                                                               *)
ProducerBlock(p) ==
    /\ Alive
    /\ producer[p].pc = "send"
    /\ Len(dataLogChan) = Cap
    /\ producer' = [producer EXCEPT ![p] = [pc |-> "blocked", on |-> starts]]
    /\ UNCHANGED <<flags, logVars, writerVars, accepted, closeVars>>

-------------------------------------------------------------------------------
(***************************************************************************)
(* closeDataLog                                                            *)
(***************************************************************************)

(* The watchdog's case 2, or gracefulShutdown.  A send on a closed channel *)
(* panics.                                                                 *)
CloseBegin(c) ==
    /\ Alive
    /\ closer[c].pc = "idle"
    /\ dataLogStarted
    /\ c = "watchdog" => ~ReplayLog
    /\ dataLogReadyToWrite' = FALSE
    /\ closer' = [closer EXCEPT ![c] = [pc |-> "send", on |-> made]]
    /\ panicked' = (made \in closedChans)
    /\ due' = IF c = "shutdown" THEN accepted ELSE due
    /\ UNCHANGED <<ReplayLog, dataLogStarted, logVars, writerVars, producer,
                   accepted, closedChans>>

(* shutdownDataLogWriter <- true, received by the writer in its select.    *)
CloseSend(c) ==
    /\ Alive
    /\ closer[c].pc = "send"
    /\ closer[c].on = made
    /\ writer = "loop"
    /\ writer' = "stop"
    /\ closer' = [closer EXCEPT ![c].pc = "wait"]
    /\ UNCHANGED <<flags, logVars, made, dataLogWriteChan, staleLen,
                   rowsQueuedForWrite, insertBatch, db, failures, producer,
                   accepted, closedChans, due, panicked>>

(* The loop sees dataLogStarted off.  Closing the channel makes a second   *)
(* closeDataLog that waits to send on it panic.                            *)
CloseReturn(c) ==
    /\ Alive
    /\ closer[c].pc = "wait"
    /\ ~dataLogStarted
    /\ closedChans' = closedChans \cup {closer[c].on}
    /\ panicked' = \E d \in Closers \ {c} :
                      closer[d] = [pc |-> "send", on |-> closer[c].on]
    /\ closer' = [closer EXCEPT ![c] =
                     IF c = "watchdog" THEN Idle ELSE [@ EXCEPT !.pc = "returned"]]
    /\ UNCHANGED <<flags, logVars, writerVars, producer, accepted, due>>

Next ==
    \/ handleSettingsSet
    \/ WatchdogStart \/ LogSpawn \/ LogReady \/ LogReceive \/ LogSend \/ LogClose
    \/ WriterStart \/ WriterAccept \/ WriterTick \/ WriterStop
    \/ \E p \in Producers : ProducerCheck(p) \/ ProducerSend(p) \/ ProducerBlock(p)
    \/ \E c \in Closers : CloseBegin(c) \/ CloseSend(c) \/ CloseReturn(c)

(***************************************************************************)
(* Every goroutine that can step does.  A select with several ready cases  *)
(* takes one at random, so the writer and dataLog do not pass over the     *)
(* shutdown message for ever.                                              *)
(***************************************************************************)
Fairness ==
    /\ WF_vars(LogSpawn) /\ WF_vars(LogReady) /\ WF_vars(LogReceive)
    /\ WF_vars(LogSend) /\ WF_vars(LogClose)
    /\ WF_vars(WriterStart) /\ WF_vars(WriterAccept) /\ SF_vars(WriterStop)
    /\ \A p \in Producers : WF_vars(ProducerSend(p))
    /\ \A c \in Closers : SF_vars(CloseSend(c)) /\ WF_vars(CloseReturn(c))

Spec == Init /\ [][Next]_vars
FairSpec == Spec /\ Fairness

-------------------------------------------------------------------------------
(***************************************************************************)
(* Properties                                                              *)
(***************************************************************************)

(* Every variable keeps its type, the channels their capacity.             *)
DataLogTypeOK ==
    /\ ReplayLog \in BOOLEAN
    /\ dataLogStarted \in BOOLEAN /\ dataLogReadyToWrite \in BOOLEAN
    /\ starts \in 0..MaxStarts
    /\ log \in {"off", "open", "setup", "loop", "send", "closing"}
    /\ hand \in [row : 0..MaxRows, on : 0..MaxStarts]
    /\ dataLogChan \in Seq(1..MaxRows) /\ Len(dataLogChan) <= Cap
    /\ writer \in {"none", "spawned", "loop", "stop"}
    /\ made \in 0..starts
    /\ dataLogWriteChan \in Seq(1..MaxRows) /\ Len(dataLogWriteChan) <= Cap
    /\ staleLen \in 0..Cap
    /\ rowsQueuedForWrite \in Seq(1..MaxRows)
    /\ insertBatch \in Seq(1..MaxRows) /\ db \in Seq(1..MaxRows)
    /\ failures \in 0..MaxFailures
    /\ producer \in [Producers -> [pc : {"idle", "send", "blocked"},
                                   on : 0..MaxStarts]]
    /\ closer \in [Closers -> [pc : {"idle", "send", "wait", "returned"},
                               on : 0..MaxStarts]]
    /\ closedChans \subseteq 1..MaxStarts
    /\ accepted \in 0..MaxRows /\ due \in 0..MaxRows
    /\ panicked \in BOOLEAN

(* Unless an INSERT fails, rows reach the database in the order in which   *)
(* they were logged, none twice, over all starts and stops of the log.     *)
WrittenInOrder ==
    failures = 0 =>
        \A i, j \in 1..Len(db) : i < j => db[i] < db[j]

(* The database is never closed under a writer that may still write: "shut *)
(* down sqlite logging without corrupting data".                           *)
NoWriterWithoutLog ==
    writer # "none" => dataLogStarted /\ log \in {"setup", "loop", "send"}

(* dataLog waits for room in a channel that the writer will not read.      *)
Jammed ==
    /\ log = "send"
    /\ \/ hand.on = 0
       \/ hand.on = made /\ Len(dataLogWriteChan) = Cap /\ writer = "stop"
       \/ hand.on # made /\ staleLen = Cap

(* A log was started after the one that c waits for had ended.             *)
Restarted(c) == closer[c].on < starts /\ dataLogStarted

(* closeDataLog returns, wherever the goroutines are when it is called,    *)
(* except in these cases: it was called before the writer had made its     *)
(* channel; dataLog and the writer wait for each other; the watchdog has   *)
(* started a new log between two looks at dataLogStarted; the process      *)
(* panicked or exited.                                                     *)
CloseReturns ==
    \A c \in Closers :
        closer[c].pc \in {"send", "wait"} ~>
            \/ closer[c].pc \in {"idle", "returned"}
            \/ closer[c].on = 0 \/ Jammed \/ Restarted(c)
            \/ ~Alive

(* While the log it was logging to runs, and is not being stopped, a full  *)
(* channel does not hold up a producer for ever.                           *)
ProducersProceed ==
    \A p \in Producers :
        producer[p].pc = "blocked" ~>
            \/ producer[p].pc = "idle"
            \/ producer[p].on < starts \/ log \in {"closing", "off"}
            \/ Jammed \/ writer = "stop"
            \/ ~Alive

(* "closeDataLog() won't exit until the log is safely written.  This       *)
(* prevents data loss on shutdown": what had been logged when              *)
(* gracefulShutdown called it is in the database when it returns.          *)
ShutdownLosesNothing ==
    closer["shutdown"].pc = "returned" =>
        \A r \in 1..due : \E i \in 1..Len(db) : db[i] = r

===============================================================================
