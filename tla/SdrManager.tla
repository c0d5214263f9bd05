------------------------------ MODULE SdrManager ------------------------------
(***************************************************************************)
(* main/sdr.go: the goroutine sdrWatcher, which gives the RTL-SDR dongles  *)
(* to the four receivers, the receivers' read() goroutines with their      *)
(* child processes, and sdrKill.                                           *)
(*                                                                         *)
(* The watcher's loop is cut where it waits (shutdown() of one receiver)   *)
(* and where other goroutines can see a difference; one dongle of          *)
(* configDevices is one step.  A receiver's flag shutdownX is set by its   *)
(* read() and looked at once a second.                                     *)
(***************************************************************************)
EXTENDS Integers, Sequences, FiniteSets

CONSTANTS
    Dongles,     \* the dongles, a set of numbers: in the order of their index
    Tag,         \* per dongle: the protocol in its serial number, or "none"
    Settings,    \* the sets of protocols the user may have enabled, with
                 \* "OGNTX" for OGNI2CTXEnabled
    MaxCount,    \* dongles that configDevices looks at: 3 in the program
    MaxChanges,  \* bound: changes of the settings or of the dongles
    nil

Protocols == {"UAT", "ES", "OGN", "AIS"}
Order == <<"UAT", "ES", "OGN", "AIS">>  \* the order of the watcher's checks

ASSUME SdrAssumption ==
    /\ Dongles \subseteq Nat /\ IsFiniteSet(Dongles)
    /\ Tag \in [Dongles -> Protocols \cup {"none"}]
    /\ Settings \subseteq SUBSET (Protocols \cup {"OGNTX"})
    /\ MaxCount \in Nat
    /\ MaxChanges \in Nat
    /\ nil \notin Dongles

VARIABLES
    plugged,           \* the dongles that are there
    enabled,           \* ES_Enabled, UAT_Enabled, OGN_Enabled, AIS_Enabled
    radio,             \* UATRadio_connected: a UAT receiver that is no dongle
    changes,
    dev,               \* UATDev, ESDev, OGNDev, AISDev: the dongle, or nil
    closeCh,           \* the devices whose closeCh is closed
    reader,            \* per receiver, its read()
    shutdownFlag,      \* shutdownUAT, shutdownES, shutdownOGN, shutdownAIS
    gpsClock,          \* isGPSClockValid()
    watcher,           \* where sdrWatcher is, and its loop index
    prev,              \* prevCount and the prevXEnabled; dongles is count
    unusedIDs,         \* the map of configDevices
    sdrconfig,         \* the system error "more protocols than receivers"
    sdrShutdown,
    kill               \* sdrKill: "idle", "wait" or "returned"

env == <<plugged, enabled, radio, changes, gpsClock>>
receivers == <<dev, closeCh, reader, shutdownFlag>>
loop == <<watcher, prev, unusedIDs, sdrconfig>>
vars == <<env, receivers, loop, sdrShutdown, kill>>

(* read() holds its WaitGroup in these states; it has returned in "none".  *)
Active == {"start", "gps", "run", "failed", "restart"}

Init ==
    /\ plugged \in SUBSET Dongles
    /\ enabled \in Settings
    /\ radio = FALSE
    /\ changes = 0
    /\ dev = [p \in Protocols |-> nil]
    /\ closeCh = {}
    /\ reader = [p \in Protocols |-> "none"]
    /\ shutdownFlag = [p \in Protocols |-> FALSE]
    /\ gpsClock = FALSE
    /\ watcher = [pc |-> "top", k |-> 1]
    /\ prev = [count |-> 0, dongles |-> 0, enabled |-> {}]
    /\ unusedIDs = {}
    /\ sdrconfig = FALSE
    /\ sdrShutdown = FALSE
    /\ kill = "idle"

-------------------------------------------------------------------------------
(***************************************************************************)
(* The environment                                                         *)
(***************************************************************************)
ChangeSettings ==
    /\ changes < MaxChanges
    /\ changes' = changes + 1
    /\ \E s \in Settings \ {enabled} : enabled' = s
    /\ UNCHANGED <<plugged, radio, gpsClock, receivers, loop, sdrShutdown, kill>>

(* Not while configDevices runs: it takes some milliseconds.               *)
PlugOrUnplug ==
    /\ changes < MaxChanges
    /\ watcher.pc \notin {"tagged", "untagged"}
    /\ changes' = changes + 1
    /\ \E d \in Dongles :
          plugged' = IF d \in plugged THEN plugged \ {d} ELSE plugged \cup {d}
    /\ UNCHANGED <<enabled, radio, gpsClock, receivers, loop, sdrShutdown, kill>>

(* The serial UAT radio is found, or lost (main/lowpower_uat.go).          *)
RadioFoundOrLost ==
    /\ changes < MaxChanges
    /\ changes' = changes + 1
    /\ radio \/ "UAT" \in enabled
    /\ radio' = ~radio
    /\ UNCHANGED <<plugged, enabled, gpsClock, receivers, loop, sdrShutdown, kill>>

GPSClockValid ==
    /\ ~gpsClock
    /\ gpsClock' = TRUE
    /\ UNCHANGED <<plugged, enabled, radio, changes, receivers, loop,
                   sdrShutdown, kill>>

-------------------------------------------------------------------------------
(***************************************************************************)
(* read() of a receiver                                                    *)
(***************************************************************************)
ReaderTo(p, s) ==
    /\ reader' = [reader EXCEPT ![p] = s]
    /\ UNCHANGED <<env, dev, closeCh, loop, sdrShutdown, kill>>

(* OGN waits for the GPS clock; UAT reads at once, the others start their  *)
(* child process.                                                          *)
ReaderStart(p) ==
    /\ reader[p] = "start" \/ (reader[p] = "gps" /\ gpsClock)
    /\ ReaderTo(p, IF p = "OGN" /\ ~gpsClock THEN "gps" ELSE "run")
    /\ UNCHANGED shutdownFlag

(* Mutant: the flag is forgotten, as it is for AIS.                        *)
ReaderFailed_NoFlag(p) ==
    /\ p # "UAT"
    /\ reader[p] = "start" \/ (reader[p] = "gps" /\ gpsClock)
    /\ p = "OGN" => gpsClock
    /\ ReaderTo(p, "failed")
    /\ UNCHANGED shutdownFlag

(* cmd.Start() fails.  read() asks for its shutdown and waits for it; AIS  *)
(* asks for the shutdown of ES.                                            *)
ReaderFailed(p) ==
    /\ p # "UAT"
    /\ reader[p] = "start" \/ (reader[p] = "gps" /\ gpsClock)
    /\ p = "OGN" => gpsClock
    /\ ReaderTo(p, "failed")
    /\ shutdownFlag' = [shutdownFlag EXCEPT ![IF p = "AIS" THEN "ES" ELSE p] = TRUE]

(* ReadSync of the UAT dongle fails; read() goes on.                       *)
ReadSyncFailed ==
    /\ reader["UAT"] = "run"
    /\ ReaderTo("UAT", "run")
    /\ shutdownFlag' = [shutdownFlag EXCEPT !["UAT"] = TRUE]

(* The child dies on its own: read() returns; OGN's sleeps and then starts *)
(* over, unless its shutdown was asked for.                                *)
ChildDied(p) ==
    /\ p # "UAT"
    /\ reader[p] = "run"
    /\ ReaderTo(p, IF p = "OGN" /\ ~shutdownFlag["OGN"] THEN "restart" ELSE "none")
    /\ UNCHANGED shutdownFlag

OGNRestart ==
    /\ reader["OGN"] = "restart"
    /\ ReaderTo("OGN", "start")
    /\ UNCHANGED shutdownFlag

(* Mutant: the child is left running.                                      *)
ReaderClosed_ChildLives(p) ==
    /\ p \in closeCh
    /\ reader[p] \in {"gps", "failed"}
    /\ ReaderTo(p, "none")
    /\ UNCHANGED shutdownFlag

(* closeCh is closed: the loops end, a child is killed and waited for.     *)
ReaderClosed(p) ==
    /\ p \in closeCh
    /\ reader[p] \in {"gps", "run", "failed"}
    /\ ReaderTo(p, "none")
    /\ UNCHANGED shutdownFlag

-------------------------------------------------------------------------------
(***************************************************************************)
(* sdrWatcher                                                              *)
(***************************************************************************)
At(pc) == watcher.pc = pc
Goto(pc) == watcher' = [pc |-> pc, k |-> 1]

(* The loop over the four receivers in the phase pc goes on, or ends.      *)
Advance(pc, next) ==
    watcher' = IF watcher.k < Len(Order) THEN [pc |-> pc, k |-> watcher.k + 1]
               ELSE [pc |-> next, k |-> 1]

This == Order[watcher.k]

(* Mutant: the watcher returns without stopping the receivers.             *)
WatcherTop_ReturnsEarly ==
    /\ At("top")
    /\ Goto(IF sdrShutdown THEN "done" ELSE "flags")
    /\ UNCHANGED <<env, receivers, prev, unusedIDs, sdrconfig, sdrShutdown, kill>>

(* A second has passed.                                                    *)
WatcherTop ==
    /\ At("top")
    /\ Goto(IF sdrShutdown THEN "kill" ELSE "flags")
    /\ UNCHANGED <<env, receivers, prev, unusedIDs, sdrconfig, sdrShutdown, kill>>

(* Whether the phase pc shuts down the receiver p.                         *)
MustStop(pc, p) ==
    /\ dev[p] # nil
    /\ pc = "flags" => shutdownFlag[p]

After == [kill |-> "done", flags |-> "capture", reconf |-> "tagged"]

(* shutdown() of a receiver, first half: close(closeCh).                   *)
ShutdownBegin(pc) ==
    /\ At(pc)
    /\ MustStop(pc, This)
    /\ This \notin closeCh
    /\ closeCh' = closeCh \cup {This}
    /\ UNCHANGED <<env, dev, reader, shutdownFlag, loop, sdrShutdown, kill>>

(* Mutant: shutdown() does not wait for the WaitGroup.                     *)
ShutdownEnd_NoWait(pc) ==
    /\ At(pc)
    /\ This \in closeCh
    /\ dev' = [dev EXCEPT ![This] = nil]
    /\ closeCh' = closeCh \ {This}
    /\ shutdownFlag' = IF pc = "flags" THEN [shutdownFlag EXCEPT ![This] = FALSE]
                       ELSE shutdownFlag
    /\ Advance(pc, After[pc])
    /\ UNCHANGED <<env, reader, prev, unusedIDs, sdrconfig, sdrShutdown, kill>>

(* Second half: wg.Wait() returns; XDev = nil, shutdownX = false.          *)
ShutdownEnd(pc) ==
    /\ At(pc)
    /\ This \in closeCh
    /\ reader[This] \notin Active
    /\ dev' = [dev EXCEPT ![This] = nil]
    /\ closeCh' = closeCh \ {This}
    /\ shutdownFlag' = IF pc = "flags" THEN [shutdownFlag EXCEPT ![This] = FALSE]
                       ELSE shutdownFlag
    /\ Advance(pc, After[pc])
    /\ UNCHANGED <<env, reader, prev, unusedIDs, sdrconfig, sdrShutdown, kill>>

(* Nothing to shut down; a flag without a device is reset.                 *)
ShutdownSkip(pc) ==
    /\ At(pc)
    /\ ~MustStop(pc, This)
    /\ shutdownFlag' = IF pc = "flags" THEN [shutdownFlag EXCEPT ![This] = FALSE]
                       ELSE shutdownFlag
    /\ Advance(pc, After[pc])
    /\ UNCHANGED <<env, dev, closeCh, reader, prev, unusedIDs, sdrconfig,
                   sdrShutdown, kill>>

Least(a, b) == IF a < b THEN a ELSE b

InterfaceCount == Cardinality(plugged) + (IF radio THEN 1 ELSE 0)

(* "capture current state", and compare it with the last one.  (Nothing    *)
(* reads prev between here and the end of the iteration, where the code    *)
(* assigns it.)                                                            *)
Capture ==
    /\ At("capture")
    /\ IF InterfaceCount = prev.count /\ enabled = prev.enabled
       THEN Goto("top") /\ UNCHANGED prev
       ELSE /\ Goto("reconf")
            /\ prev' = [count |-> InterfaceCount,
                        dongles |-> Least(MaxCount, Cardinality(plugged)),
                        enabled |-> enabled]
    /\ UNCHANGED <<env, receivers, unusedIDs, sdrconfig, sdrShutdown, kill>>

(* The i-th dongle: the one with i - 1 dongles before it.                  *)
DeviceAt(i) == {d \in plugged : Cardinality({e \in plugged : e < d}) = i - 1}

(* createXDev: the device exists and its read() is started.                *)
Create(p, d) ==
    /\ dev' = [dev EXCEPT ![p] = d]
    /\ reader' = [reader EXCEPT ![p] = "start"]

(* configDevices goes on to the next dongle.                               *)
NextDongle ==
    /\ watcher' = [watcher EXCEPT !.k = @ + 1]
    /\ UNCHANGED <<env, closeCh, shutdownFlag, prev, sdrconfig, sdrShutdown, kill>>

(* Mutant: loop 1 takes any dongle.                                        *)
Tagged_AnySerial ==
    /\ At("tagged")
    /\ watcher.k <= prev.dongles
    /\ \E d \in DeviceAt(watcher.k) :
          \E p \in Protocols \cap prev.enabled : dev[p] = nil /\ Create(p, d)
    /\ UNCHANGED unusedIDs
    /\ NextDongle

(***************************************************************************)
(* Loop 1 of configDevices: a dongle tagged for an enabled receiver        *)
(* without a device becomes its device; the others are left for loop 2.    *)
(* The UAT dongle may refuse its configuration, and is then left alone.    *)
(***************************************************************************)
Tagged ==
    /\ At("tagged")
    /\ watcher.k <= prev.dongles
    /\ \E d \in DeviceAt(watcher.k) :
          IF Tag[d] \in prev.enabled /\ dev[Tag[d]] = nil
          THEN /\ \/ Create(Tag[d], d)
                  \/ Tag[d] = "UAT" /\ UNCHANGED <<dev, reader>>
               /\ UNCHANGED unusedIDs
          ELSE /\ unusedIDs' = unusedIDs \cup {d}
               /\ UNCHANGED <<dev, reader>>
    /\ NextDongle

(* rtl.GetDeviceUsbStrings fails, as it must for a dongle that has been    *)
(* unplugged since the dongles were counted.                               *)
SerialUnreadable ==
    /\ At("tagged")
    /\ watcher.k <= prev.dongles
    /\ UNCHANGED <<dev, reader, unusedIDs>>
    /\ NextDongle

TaggedDone ==
    /\ At("tagged")
    /\ watcher.k > prev.dongles
    /\ Goto("untagged")
    /\ UNCHANGED <<env, receivers, prev, unusedIDs, sdrconfig, sdrShutdown, kill>>

(* The receivers that loop 2 may give the dongle d to.                     *)
Takers(d) ==
    LET free == {p \in Protocols \cap prev.enabled : dev[p] = nil} IN
    {p \in free : \/ p = "UAT" /\ ~radio /\ Tag[d] \notin {"ES", "OGN"}
                  \/ p = "ES" /\ Tag[d] \notin {"UAT", "OGN"}
                  \/ p \in {"OGN", "AIS"}}

FirstTaker(d) ==
    Order[CHOOSE i \in 1..Len(Order) :
             /\ Order[i] \in Takers(d)
             /\ \A j \in 1..(i - 1) : Order[j] \notin Takers(d)]

(* Loop 2, which ranges over the map in any order.                         *)
Untagged ==
    /\ At("untagged")
    /\ \E d \in unusedIDs :
         /\ unusedIDs' = unusedIDs \ {d}
         /\ \/ Takers(d) # {} /\ Create(FirstTaker(d), d)
            \/ /\ Takers(d) = {} \/ FirstTaker(d) = "UAT"
               /\ UNCHANGED <<dev, reader>>
    /\ UNCHANGED <<env, closeCh, shutdownFlag, watcher, prev, sdrconfig,
                   sdrShutdown, kill>>

(* configDevices is done: too many protocols for the receivers?            *)
Configured ==
    /\ At("untagged")
    /\ unusedIDs = {}
    /\ sdrconfig' = (Cardinality(Protocols \cap prev.enabled) > prev.count)
    /\ Goto("top")
    /\ UNCHANGED <<env, receivers, prev, unusedIDs, sdrShutdown, kill>>

WatcherStep ==
    \/ WatcherTop \/ Capture
    \/ \E pc \in {"kill", "flags", "reconf"} :
          ShutdownBegin(pc) \/ ShutdownEnd(pc) \/ ShutdownSkip(pc)
    \/ Tagged \/ SerialUnreadable \/ TaggedDone \/ Untagged \/ Configured

-------------------------------------------------------------------------------
(***************************************************************************)
(* sdrKill, which gracefulShutdown calls                                   *)
(***************************************************************************)
sdrKill ==
    /\ kill = "idle"
    /\ kill' = "wait"
    /\ sdrShutdown' = TRUE
    /\ UNCHANGED <<env, receivers, loop>>

sdrKillReturns ==
    /\ kill = "wait"
    /\ \A p \in Protocols : dev[p] = nil
    /\ kill' = "returned"
    /\ UNCHANGED <<env, receivers, loop, sdrShutdown>>

Next ==
    \/ ChangeSettings \/ PlugOrUnplug \/ RadioFoundOrLost \/ GPSClockValid
    \/ \E p \in Protocols : \/ ReaderStart(p) \/ ReaderFailed(p)
                            \/ ChildDied(p) \/ ReaderClosed(p)
    \/ ReadSyncFailed \/ OGNRestart
    \/ WatcherStep
    \/ sdrKill \/ sdrKillReturns

(***************************************************************************)
(* The watcher and sdrKill run; every read() that can step does: ReadSync  *)
(* returns, a started child is there to be killed, and the select that     *)
(* waits for closeCh finds it closed before the child has died over and    *)
(* over again.                                                             *)
(***************************************************************************)
Fairness ==
    /\ WF_vars(WatcherStep)
    /\ WF_vars(sdrKillReturns)
    /\ WF_vars(OGNRestart)
    /\ \A p \in Protocols : /\ WF_vars(ReaderStart(p) \/ ReaderFailed(p))
                            /\ SF_vars(ReaderClosed(p))

Spec == Init /\ [][Next]_vars
FairSpec == Spec /\ Fairness

-------------------------------------------------------------------------------
(***************************************************************************)
(* Properties                                                              *)
(***************************************************************************)

(* Every variable keeps its type.                                          *)
SdrTypeOK ==
    /\ plugged \subseteq Dongles
    /\ enabled \in Settings
    /\ radio \in BOOLEAN /\ gpsClock \in BOOLEAN
    /\ changes \in 0..MaxChanges
    /\ dev \in [Protocols -> Dongles \cup {nil}]
    /\ closeCh \subseteq Protocols
    /\ reader \in [Protocols -> Active \cup {"none"}]
    /\ shutdownFlag \in [Protocols -> BOOLEAN]
    /\ watcher \in [pc : {"top", "kill", "done", "flags", "capture", "reconf",
                         "tagged", "untagged"}, k : Nat]
    /\ watcher.k \in 1..(IF At("tagged") THEN MaxCount + 1 ELSE Len(Order))
    /\ prev \in [count : 0..(Cardinality(Dongles) + 1), dongles : 0..MaxCount,
                enabled : Settings \cup {{}}]
    /\ unusedIDs \subseteq Dongles
    /\ sdrconfig \in BOOLEAN /\ sdrShutdown \in BOOLEAN
    /\ kill \in {"idle", "wait", "returned"}

(* No dongle has two readers, and none is read by a goroutine or a child   *)
(* process that its receiver has forgotten: not even when ogn-rx-eu dies,  *)
(* and is started again, while its receiver is being shut down.            *)
OneReaderPerDongle ==
    /\ \A p, q \in Protocols : p # q /\ dev[p] # nil => dev[p] # dev[q]
    /\ \A p \in Protocols : reader[p] \in Active => dev[p] # nil

(* A dongle with a tag goes to another receiver only if its own one is     *)
(* disabled or has a dongle; a UAT dongle never becomes the ES dongle, nor *)
(* the other way round.                                                    *)
TagsHonoured ==
    [][ \A p \in Protocols :
          LET t == Tag[dev'[p]] IN
          (dev[p] = nil /\ dev'[p] # nil /\ t \notin {p, "none"}) =>
             /\ t \notin prev.enabled \/ dev[t] # nil
             /\ {p, t} # {"UAT", "ES"} ]_vars

(* shutdown() of a receiver, which waits for its read() to end, ends.      *)
ShutdownEnds == \A p \in Protocols : p \in closeCh ~> p \notin closeCh

(* A read() that could not start its child is shut down.  (AIS, which asks *)
(* for the shutdown of ES instead, is left out.)                           *)
FailedIsShutDown ==
    \A p \in Protocols \ {"AIS"} : reader[p] = "failed" ~> reader[p] # "failed"

(* gracefulShutdown is not held up by the receivers.                       *)
KillReturns == sdrShutdown ~> kill = "returned"

(* "Spin until all devices have been de-initialized": when sdrKill returns *)
(* there is no device, and none appears.                                   *)
KilledForGood == kill = "returned" => \A p \in Protocols : dev[p] = nil

===============================================================================
