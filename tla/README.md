# Stratux: a TLA+ verification project

Stratux (`src/`) is a receiver for ADS-B, UAT, OGN and AIS that runs on a
Raspberry Pi. One Go process (`src/main/`) reads radios, GPS and sensors, keeps
a table of the traffic and the own situation, and sends GDL90 and FLARM/NMEA
messages to electronic flight bags over UDP, TCP and serial lines. The process
is some thirty goroutines that share variables, a few mutexes and many
channels; there are no tests of the Go code. A web interface (`src/web/`)
shows traffic, weather, position and attitude in a browser and changes the
settings; its JavaScript is driven by sockets, timers and answers to requests
that come in any order. This directory models the parts whose correctness
depends on the order in which things happen.

## 1. Inventory

| Component | Source | State | Operations | What is hard | What makes it correct |
|---|---|---|---|---|---|
| Message queue | `messagequeue.go` | the ordered slice, a token channel, the flag `Closed` | `Put`, `PeekFirst`, `PopFirst`, `GetQueueDump`, `Close` | the flag outside the mutex, pruning at the limit, expiry by a clock that moves | order, bound, only the worst messages are lost |
| Connection writer | `network.go` 377-440, `clientconnection.go` | where the goroutine is, the packet | `connectionWriter`, `collectMessages` | one token for many messages; tests that are stale when used | no lost wake-up, in-order delivery, ends after `Close` |
| Client registry | `network.go`, `clientconnection.go` | the map `clientConnections`, queues, sockets | `refreshConnectedClients`, `tcpNMEAOutListener`, `serialOutWatcher`, `closeSerial`, `Close`, `onConnectionClosed` | `Close` in three steps without the mutex, lazily made queues, connections that come back | what is registered is served, what is gone is closed |
| Replay log | `datalog.go` | two bounded channels, batches, the database | `dataLog`, `dataLogWriter`, `dataLogWatchdog`, `closeDataLog`, the log functions | start, stop and shutdown at the same time; full channels; failed inserts | rows in order, no writer without a database, everybody gets on |
| SDR manager | `sdr.go` | four devices, their readers, shutdown flags | `sdrWatcher`, `configDevices`, `read`, `shutdown`, `sdrKill` | crashing children, waiting for readers, a watcher that looks once a second | one reader per dongle, tags honoured, every shutdown ends |
| Traffic table | `traffic.go`, `ogn.go`, `ais.go`, `ogn-aprs.go` | `traffic`, `seenTraffic` | parsers, `registerTrafficUpdate`, `cleanupOldEntries`, ownship detection | reports of several sources for one aircraft, ageing, extrapolation | no stale or mixed positions |
| GPS, AHRS, pressure | `gps.go`, `sensors.go` | `mySituation`, the satellites, validity times | NMEA parsing, ageing, choice of sources | several mutexes, values that expire | no value is used after it expired |
| GDL90, heartbeat | `gen_gdl90.go`, `xplane.go` | message log, system errors, status | encoders, `heartBeatSender`, `gracefulShutdown` | bit fields, escaping, limits | decodable messages with the right fields |
| FLARM/NMEA | `flarm-nmea.go` | alarm data | encoders and a parser | rounding, relative bearings | consistent sentences |
| UI broadcast, Ping, ICMP, settings | `uibroadcast.go`, `ping.go`, `network.go` 475-621, `managementinterface.go` | sockets, readers, settings | | back-pressure, two readers of one port | |
| Web: sockets and navigation | `connect`, `onclose`, `onExit` of seven pages in `web/plates/js/` | `$scope.socket`, the global variable `socket` that six pages share, timers | going to a page, opening, losing and closing a socket, `setTimeout` | handlers and timers that outlive their page | a page is fed by its own socket only, reconnects while shown, lets go when left |
| Web: traffic and map | `traffic.js`, `map.js`, `main.js` | two lists; aircraft, markers and trails | `onmessage`, `clearStaleTraffic`, `updateAges`, `removeStaleTraffic` | two clocks and two age limits, targets that lose their position, equal addresses | nothing twice, nothing left behind, what the server forgets is forgotten |
| Web: radar | `radar.js` | two lists, elements of the screen, alarm counters, limits | `onMessageNew`, `checkCollisionVector(Valid)`, `radar.update`, `clearStaleTraffic`, `communicateLimits` | a redraw that clears everything in between, limits that are changed here and there at once | no element without an aircraft, every approach is announced, the limits agree |
| Web: settings | `settings.js` | `$scope`, `settings` | the watch on the toggles, the buttons, `loadSettings` | a watch that cannot tell an answer from a click | an answer sends nothing, the form shows what the server has |
| Web: GPS/AHRS | `gps.js`, `ahrs.js` | the lines over the attitude | `loadSituation`, `AHRSCage`, timers | lines taken out by position | whole texts only, the display is off only with a reason |
| Web: weather | `weather.js` | the watch list, the last reports | `onmessage`, `parseFlightCondition`, `clearStaleMessages` | amendments, unreadable times, fractions | newest first, labels that belong to their text |

Interaction: everything that is sent goes through `sendMsg`, which holds
`netMutex` and puts the message into the queue of each registered connection;
one writer per connection empties its queue. The registry is changed by the
lease watcher, the TCP listener, the serial watcher, the settings handler and
by the writers themselves on errors. Traffic, situation and received messages
are copied to the replay log, through channels that block when full.
`gracefulShutdown` calls `sdrKill`, `pingKill` and `closeDataLog`. A browser gets
every change of the traffic table through `/traffic` (and, filtered, `/radar`,
together with changes of the radar limits), the situation, the status and the
weather through sockets of their own, and reads and sets the settings by
requests, whose answer is all settings.

`PROJECT.json` lists every component, with the ones that are not modelled and
why, and the hazards of the code at their lines.

## 2. Modules

| Module | Models | Uses |
|---|---|---|
| `MessageQueueOps` | the slice algorithms as closed forms, and the loops of `prune` | |
| `MessageQueue` | one queue and its users | `MessageQueueOps`, `Mailbox` (refinement) |
| `Mailbox` | what a queue promises: the abstract specification | |
| `ConnectionWriter` | one connection: a queue, its writer, the client | `MessageQueue` |
| `ClientConnections` | the registry and the life of connections | |
| `DataLog` | the replay log | |
| `SdrManager` | the dongles, the receivers and `sdrKill` | |
| `CraftService` | what the traffic pages share: the age limits, equality of targets, and what a filter leaves of a list (`Remaining`) | |
| `TrafficFeed` | the server's traffic table, its cleanup and broadcasts, the socket `/traffic` | |
| `TrafficPage`, `MapPage` | the pages Traffic and Map | `CraftService` |
| `TrafficDisplays` | the table and a page that shows it | the four above |
| `WebPages` | the sockets and timers of all pages, and going from page to page | |
| `RadarPage`, `RadarLimits` | the page Radar, and its limits with the server's | |
| `SettingsPage` | the page Settings and the requests behind it | |
| `GpsPage` | the messages over the attitude display | |
| `WeatherPage` | the page Weather | |
| `WebInterface` | the last six, side by side | |
| `MC...` | the instances for TLC | |
| `MessageQueueProofs`, `ConnectionWriterProofs`, `ClientConnectionsProofs`, `DataLogProofs`, `SdrManagerProofs`, `TrafficDisplaysProofs`, `WebPagesProofs`, `WebInterfaceProofs` | the theorems about the module of that name | it and, in the second and the last, the proofs of its parts |

Operators with an underscore in their name (`PutInsert_NoNotify`) are mutants:
the definition that follows them with a plausible mistake. They are used only
to see that a property notices the mistake.

### How the models correspond to the code

*MessageQueue.* A critical section of `queue.mutex` is one action. `Closed` is
not protected, so `Put` is `PutCheck` (the test) and `PutInsert` (the critical
section), and `Close` is `CloseFlag` and `CloseNotify`. Senders hold `netMutex`,
so there is one `Put` at a time. An entry carries the number of its arrival as
`data`. `sort.Search` is modelled by its contract. `prune` is a closed form of
the code's loops; the loops themselves are the recursive functions `UsableLoop`
and `CategoryLoop`, and the invariant `PruneMatchesLoop` says that both agree on
every queue that is pruned, which is also proved. `OverUse` is the largest
length that does not trigger pruning (1126 for a limit of 1024).

*ConnectionWriter.* `writer` is a program counter; the tests of the client's
state, `PeekFirst` and `PopFirst` are separate steps because the code calls
them separately. `IsThrottled` draws a random number, and is a choice while the
client is throttled. The client's sleep and throttle state change at any moment
(ping answers, ICMP messages and timeouts). A message is known by its length,
which depends on its priority. `gated`, `dozing`, `taken` and `late` are history
variables that no guard reads. `Write` is assumed to return here; in the
registry it need not.

*ClientConnections.* A connection is the n-th one with its key. Sections that
hold `netMutex` are single actions; `Close` is the port, the queue and
`onConnectionClosed`. Two things need their own steps: `MessageQueue()`, which
makes a missing queue without a lock, and `sendMsg` around that call, during
which `netMutex` is held (`sending`). A queue's content is left out; its one token
(`DataAvailable`) is kept. The writer waits for it, takes it, looks at `Closed`
and, if messages are left, looks again. The connections of a serial output share
the queue of the settings, whose `Close` leaves one token only: a writer whose
token went to another connection's writer is `Robbed`, and waits for ever.
`serialOutWatcher` reads the settings in the step that takes `netMutex`, which the
code does just before. The unsynchronised map write of `tcpNMEAOutListener` is modelled as
atomic: what the Go runtime does when it detects the race is to end the process.

*DataLog.* Channels are known by the start of the log that made them, so that a
goroutine can be blocked on an old channel; 0 is the nil channel, on which a
send blocks for ever. A send to a closed channel is a panic. One table stands
for all of them; a row is its number. `bulkInsert` may fail after some of its
statements. The first statements of the goroutine `dataLog` are taken to run
within the second until the watchdog looks again.

*SdrManager.* The watcher's iteration is cut at every `shutdown()`, which waits
for a reader, and at every dongle of `configDevices`. A reader is starting,
waiting for the GPS clock (OGN), running, failed (its child did not start),
restarting (OGN) or gone. Dongles are not plugged in or out during the
milliseconds of `configDevices`; before and after they are. The initial delay of
the watcher is covered, because nothing forces its first step.

*TrafficDisplays.* A target is in the table or not, has a time since
`Last_seen`, an `Age` (which `sendTrafficUpdates` computes, and a report of OGN
sets to the age of its time stamp) and a valid position or none. Each reception,
the removal and `sendTrafficUpdates` send JSON to the open socket in the order
of the channel; `Send` waits when it is full. A Mode S reply moves the
`Last_seen` of a target without position to its `Last_alt`, the static data of a
vessel count as heard, and are broadcast only with a distance. When a write
fails, the server drops the socket without closing it, and the page sees an open
one that is silent (`"deaf"`). `sendTrafficUpdates` may be late by `Jitter`.
Time is counted in units of which `Period` make up the server's second, and a
message arrives before the next unit. The pages' timers run at any time. On the
map, `elapsed` is `Date.now() - receivedTs`; `ageReceived` is 0 while undefined,
since `!ac.ageReceived` does not tell the two apart. The layers of markers and
trails are counted per target, two targets that `isSameAircraft` takes for one
having one count.

*WebPages.* A visit to a page is one `$scope`. `connect` is one operator for all
pages, with the global variables they use (`Slot`; the variable of Developer is
local, Radar has two). `onclose` differs from page to page and is an operator
for each; `onerror` is taken together with the `onclose` that follows it.
`ConnectState` is the field of the `$scope`, and `label` what the view shows of
it: `onopen` sets the field outside of a digest (only Map calls `$apply`), and
the view follows at the next one (`Render`), on Weather not before its first
report. `onclose` calls `$apply` everywhere. A timer of `setTimeout` stays with
its `$scope` after the page was left.

*RadarPage.* An aircraft's record has its list, its counter, its references to
elements and, separately, how many of its elements the screen shows, so that a
lost reference leaves an element behind. A message says how long ago the server
heard of the aircraft (`age`), whether its altitude is within the limits
(`near`) and whether it still is when rounded to 25 feet (`altOk`): the code
tests both. The page compares ages with its own copy of the server's clock,
`StratuxClock`, which is as old as the last answer of `getClock`, and missing
until the first. A removed element is still referenced: the code removes it
again without effect. Distances are four zones, altitudes within the limits or
not. `radar.update` is called in the middle of a message exactly where the code
does, with the aircraft in its list or not yet. The counter stops at
`MaxAlarms`, above which the code tells no values apart. `RadarLimits` has the
steps of each limit as numbers and the server's two broadcasts per POST;
`SetKey` and `SendJSON` are apart, since nothing locks. So are the steps of
`handleRadarWS`, which adds the socket, makes a text of the settings and sends
it: a POST in between is broadcast before the older text.

*SettingsPage.* `Digest` is what AngularJS does after every change of `$scope`:
it calls the listener of `$watchGroup` if a toggle has changed. Answers come in
any order, and any request may fail, before or after it had its effect. The
fields stand for all text fields; a button sends a field always
(`updateAlways`), if it differs from `settings` (`updateChanged`), or a whole
form without noting it in `settings` (`updateWiFi`, which also stands for
`updatestaticips`).

*GpsPage.* A text is its lines; `splice` and `indexOf` are JavaScript's.
`splice(-1, 1)` removes the last line, as in the code.

*WeatherPage.* A report is the visibility group and the cloud layers that the
regular expressions find; the limit of three characters by which a fraction is
recognised is kept. A time that is too short makes `setDataItem` throw half-way.
The group before a fraction is taken to end in no digit but 0: line 46 reads the
digit as whole miles, so that 5 1/2 would come of `180V245 1/2SM`, but the wind is
given in tens of degrees. `WellFormed` says what
else is taken for granted of a text: numbers of at most two digits, proper
fractions, layers by height, none above an overcast sky.

## 3. Runs

| Run | Configuration and bounds | Checks |
|---|---|---|
| `writer_udp` | limit 1, three messages, one tick | no lost wake-up, packet size |
| `writer_serial` | limit 2, pruning above 3, four messages of three priorities and ages 0 and 2, one tick; the writer and `closeSerial` both closing | the queue's order, agreement with the code's loops, refinement of `Mailbox`; `Close` wakes the writer, order of delivery, the writer ends, the queue drains |
| `writer_sleeper` | as `writer_udp` | violated: a sleeper gets more than heartbeats |
| `registry` | one UDP, one TCP and one serial key, two connections each; a behaviour has those of one key (`OneKey`) | service, who can be orphaned, writers end, the registry forgets |
| `registry_delivers` | one serial device, two connections | violated: the second connection has a closed queue |
| `datalog` | channels of one row, two starts, three rows, one failed insert | order, no writer without a database, `closeDataLog` returns, producers proceed |
| `datalog_shutdown` | one start, two rows | violated: rows are lost at shutdown |
| `sdr` | two dongles, one tagged for UAT; three settings, one change | one reader per dongle, tags, shutdowns end, failures are handled, `sdrKill` returns |
| `sdr_kill` | as `sdr` | violated: devices after `sdrKill` has returned |
| `web_displays` | two aircraft with one address and a vessel; the server forgets after 2 and 3 units, the pages after 1 and 3; one message under way | nothing listed twice, nothing left on the map, the map forgets, the age on the map |
| `traffic_forgets` | one aircraft, two units to a second, calls late by up to one unit | violated: the page Traffic keeps an aircraft that the server has forgotten |
| `web_interface` | eight pages, three visits, one lost connection; two aircraft on the radar; two levels, two clicks; two toggles, a field, three requests; three failed requests on GPS/AHRS; three weather reports around the limits of the conditions | one owner per socket, honest connection state, reconnecting, letting go; no ghosts, alarms armed, forgetting, limits settle; form and watch; whole messages; order and labels of the weather |

The bounds are the smallest at which everything happens. A limit of 2 with
pruning above 3 makes one category be dropped whole, one be cut and one be kept.
Two connections per key are a connection and its successor, which is all that a
late `Close` can confuse, or that can share a token. With channels of one row
each stage is full as soon as the next is busy; two starts give an old and a new
channel. Two dongles for two receivers, or for one of them and an untagged one,
use both loops of `configDevices`. The age limits of `web_displays` keep the
order and the differences of the real ones (59 and 60 seconds, 15 minutes on
both sides); reports of OGN are up to `OgnMaxAge` old, which is within all
limits, as 30 seconds are. The properties of that run hold as well with `Jitter`
1, and `ListForgets` with `Jitter` 0; the runs keep these cases apart. On the
radar, a message is new or too old (`MessageAges` 0 and 2, `radarCutoff` 1), and
one spoken alarm reaches the limit of the counter. `MaxLag` bounds the time told
between two answers of `getClock`: with a clock that stands, nothing the page
does depends on more of it. Three visits are a page, another one and a third
while timers of both may be pending. Three requests are the first answer, a
change, and one that overlaps.

Restrictions of the instances, in the MC modules: on the map one target at a
time and a vessel never together with aircraft (`Few`: no action of a page
relates them); once the page is told nothing more the table only ages (`Told`);
the second aircraft on the radar never has a position
(`OneWithPosition`); the full set of weather appears in the first report only
(`FewSkies`). The parts of `web_interface` share no variable, so a behaviour
follows one of them (`part`).

The type invariants of the modules (`...TypeOK`) document the variables and are
conjuncts of the inductive invariants where there is a proof; no run is spent
on them.

All configurations but those of `TrafficDisplays` have `CHECK_DEADLOCK FALSE`: the bounds
end the supply of messages, rows and changes, and a closed connection or a
stopped log has nothing more to do. What must not stop is stated as liveness
instead.

### Violations

The five violated properties are statements of the source's own comments and
help pages:

* `SleepersGetHeartbeats`: the heartbeat that `PeekFirst` saw may be outdated
  when `PopFirst` runs, and a sleeping client gets what comes next.
* `SerialOutputDelivers`: the queue of a serial output lives in the settings and
  is shared by all its connections. After the first write error the output is
  opened again with the closed queue and is silent until the program restarts.
* `ShutdownLosesNothing`: the shutdown message overtakes the rows that wait for
  the ten-second ticker.
* `KilledForGood`: `sdrKill` sees no device while the watcher reconfigures.
* `ListForgets`: Traffic drops an aircraft when a message says an `Age` above 59
  seconds, and the server sends none above 60. `sendTrafficUpdates` follows other
  work of `heartBeatSender`; when it is late once, an `Age` goes from below the one
  limit to beyond the other, and the page, which has no clock, keeps the aircraft
  although its help page says that it is removed after 60 seconds.

Other behaviour that the models make visible is stated as an explicit exception
in a property that holds: `LazyQueueOnlyFromSettings` (an orphaned writer or a
nil dereference, only for serial outputs from the settings file),
`ClosedWriterReturns` (a writer whose token on a shared queue went to another),
`CloseReturns` (`closeDataLog` can block on a nil channel, on a jammed
`dataLog`, or on a log that was started meanwhile) and `FailedIsShutDown` (AIS
asks for the shutdown of ES). Of the web pages:

* Traffic, Weather, Map and Radar never connect again (`setTimeout(connect, 1000)`
  has no `$scope`), nor do they notice that the server has dropped their socket
  after a slow write. Traffic then keeps what it lists, which `ListForgets` excepts.
  Map ages by itself, and forgets (`MapForgets`).
* `ConnectStateHonest` says that a view that shows "Connected" has an open
  socket. The converse holds for the `$scope` only: until its next digest a page
  shows "Disconnected" over an open socket.
* `RadarForgets` has the hypothesis that `getClock` is answered again and again.
  If requests fail for good, `StratuxClock` stands or is missing, and no aircraft
  leaves the radar. When they succeed, an aircraft leaves within 29 seconds and the
  10 seconds of the interval (`radar.js` 10, 512), whereas `radar-help.html` 6 speaks
  of 20 seconds; the property does not state the number.
* `LeftPageLetsGo` leaves out Status, GPS/AHRS and Developer: their `onclose`
  connects again after the page was left, and Developer has no `onExit`.
* `MapAgeHonest` allows an age that counts the time since a message twice.
* `RadarSettles` and `FormIsTrue` except requests that overlap or fail, and the
  former also a POST that meets the first text of `handleRadarWS`: the page
  may then show other limits or settings than the server has, until the next
  change. A failed request also makes the page believe all toggles to be off, so
  that the next click sends the others too (`SentOnlyByUser`).
* `Armed` for an aircraft without a position: outside of the inner circle but
  within three quarters of the range the alarm is not renewed, as intended; off
  the screen it is not either.
* `LabelHonest` excepts reports with an unreadable time, and visibilities such
  as 3/16SM, which are read as 3 miles (`weather.js` 42 says that anything below
  1SM is LIFR).
* An amended forecast never replaces the one it amends (`NewestFirst` says what
  is left of the order).

### Fairness

Weak fairness of a goroutine's next step says that the Go scheduler runs what
can run. Strong fairness is used where a `select` has several ready cases, of
which Go takes one at random (`CloseSend`, `WriterStop`), and for a reader whose
closed channel must be seen before its child has died over and over again
(`ReaderClosed`: the polling goroutine looks at the channel first). Nothing is
assumed of users, clients, dongles, the clock or the producers of messages, and
in the registry a write to an open port may block for ever. `sdrWatcher` is
fair; UAT's `ReadSync` is assumed to return. In the browser, timers expire, the
server answers a handshake to open or to close a socket, the intervals of a page
that is shown run, and time passes; nothing is assumed of the user, of requests
or of the connection, and nothing of digests. `RadarForgets` states its hypothesis about
answered requests in the formula itself, `[]<>(StratuxClock = 0)`.

## 4. Proofs

`MessageQueueProofs` proves, for every limit, priority set, age set and number
of closers, `QueueSpec => []QueueInv`, where

    QueueInv == QueueTypeOK /\ InPriorityOrder /\ BoundedQueue /\ ArrivalOrder

The order is not inductive by itself: that a message inserted behind its equals
arrived after them needs `ArrivalOrder`, which says that the `Put` in progress
is newer than what is queued. The lemmas say what `Insert`, `Keep`,
`DropExcess` and `Stripped` do to an ordered queue: they return a subsequence
(with the new message at its place), so the order survives, and pruning leaves
at most the limit. `QueueCorrect` draws the checked properties from it.

`QueuePrunesAsCoded` says that the closed form of `prune` is what the code's two
loops compute (`PruneMatchesLoop`). The loop over the slice is a recursive
function of the index, and `UsableLoopCopies` shows that it copies what `Keep`
leaves. The loop over the categories looks for the start of a category from
behind (`CategoryStartProperty`) and cuts there until the limit is met; on an
ordered queue a category is one run of entries, so a cut is what `DropExcess`
says (`CategoryLoopDrops`). Both are inductions, taken as arguments about the
first index, or category, at which loop and closed form would differ. That the
queue is ordered whenever it is pruned is `QueueInv`.

`ConnectionWriterProofs` first shows that every step of a connection is a step
of its queue (or leaves it alone), so that the queue's invariant holds in the
composition (`ConnectionQueue`). On top of it `WriterInv` is inductive:
`NoLostWakeup`; `CloseToken`, which extends `CloseWakesWriter` to a writer that
is collecting; `HandedOutInOrder` with `TakenOffered`; `LateIsLast`, which says
that the packet written after `Close` is the last thing the writer does; and
`RoomLeft`, the loop invariant behind `PacketSize`. The theorems
`NeverLosesWakeup`, `CloseReachesWriter`, `DeliveryOrder` and `PacketBounds`
state the properties of the runs.

`QueueIsMailbox` is the refinement: a queue of any size implements `Mailbox`.
`Put` and `prune` lose only what is outdated or, at the limit, what is worth least,
and `PopFirst` hands out the most important message, the oldest of these first.
The step uses `QueueInv`; that equal entries cannot be confused is
`OrderedDistinct`.

The other components each have one inductive invariant, from which the
properties of the runs follow.

`ClientConnectionsProofs` (`RegistryInv`): which queue a connection was made
with, and that its writer listens to that one (`Furnished`), unless the settings
named the device without a queue (`Lazy`); that nothing is known of a connection
before it is made (`Unmade`), so that a late `Close` is about an earlier one; and
that a registered connection that nobody closes has its port and its queue
(`Served`). Hence `RegistryWorks` (`RegisteredIsServed`) and
`OnlySettingsMissQueues` (`LazyQueueOnlyFromSettings`). A second invariant,
`ClosingInv`, follows a `Close` to its end: a connection without a port is out of
the map and its queue closed, or a `Close` is about to do it (`ClosedFully`); the
writer of a connection that was made without a queue listens to one of the two
that it may get (`LateQueue`); and a writer that calls `Close` is in it
(`WriterEnds`). A closed queue has its token, or a `Close` is about to leave it, or
a writer has taken it: hence `ClosedLeavesNothing`, by which the writer of a closed
connection has returned, can go on, waits for a `Close` that somebody is in, or is
one of the two exceptions, orphaned or `Robbed`.

`DataLogProofs` (`DataLogInv`): the way of a row is a chain of stages - database,
batch, second channel, `dataLog`'s hand, first channel - each in order and behind
the ones before it (`OnTheWay`, `DatabaseFirst`). `WrittenInOrder` speaks of the
last stage only and is not inductive without the others. `StartedTogether` ties
flags to goroutines and channels, which `NoWriterWithoutLog` needs when the log is
stopped and started again. Hence `DatabaseInOrder` and `WriterHasDatabase`.
`CloseInv` says what a `closeDataLog` waits for: a writer belongs to the current
start (`WriterOfStart`), one that was told to stop has a closer that polls
(`StopHasCloser`), and a closer that sends has a writer that receives, or another
closer before it (`CloserWaits`). Hence `CloseWaitsForSomebody` and
`ProducersWaitForSomebody`.

`SdrManagerProofs` (`SdrInv`): `OneReaderPerDongle` must hold in the middle of
`configDevices`, for which `HandedOut` says that dongles given away or set aside
are ones already looked at, and `TakenAway` that the loop before has freed every
device; `OneShutdown` says which receiver may be closing, since a reader that is
gone frees its dongle. Hence `NoSharedDongle`, and the action property
`TagsAlwaysHonoured` (`TagsHonoured`): `configDevices` gives a tagged
dongle to another receiver only if its own is disabled or has one, and never
swaps UAT and ES. `KillInv` says how far the watcher has got with freeing devices
for `sdrKill`, and that the flag of a failed reader stands. Hence
`WatcherLeavesNothing`, `ShutdownWaitsForSomebody` and `FailedStaysAskedFor`.

`TrafficDisplaysProofs` (`DisplaysInv`): both lists have nobody twice and nobody
in common, where equality is `isSameAircraft` (`OnceOnly`, `Apart`); on the map,
markers and trails are those of the listed aircraft (`Marked`, `Trailed`), and
the age an update starts from is between the one received and the time since it
(`Honest`). Hence `NoneListedTwice`, `MapHasNoGhosts` and the action property
`MapAgesHonest`.

`WebInterfaceProofs` first shows that a step of the interface is a step of each
page or leaves it alone (`EachPage`), and then one invariant per page:

* `PagesInv` (in `WebPagesProofs`): a `$scope` holds only sockets whose handlers
  are its own (`HoldsItsOwn`), has one of a kind (`OneSocket`), and none while its
  timer runs (`WaitsAlone`). Without the last two, the timer of a page that was
  left could open a second socket. `ScopeHonest` says that the field `ConnectState`
  is exact, and `ViewFollows` that a view shows "Connected" only if the field says
  so: whatever resets the field also tells the view. Hence `SocketsHaveOneOwner` and
  `ShownConnectState`. `PagesGoOn` adds that a page that connects again has a
  socket or a timer, and that the sockets of a page that was left are closing;
  hence `ShownPageNeverCutOff` and `LeftPageHoldsNothing`.
* `RadarInv`: every record is `Sound`: it refers to all that the screen shows of
  its aircraft, and its counter is below the limit when it was last drawn outside.
  Hence `RadarHasNoGhosts` and `RadarIsArmed`.
* `LimitsInv`: the last broadcast under way, or else the page, has the server's
  limits, except while a POST is under way or before the first text of
  `handleRadarWS` is sent, which carries the server's limits unless a POST has changed
  them meanwhile (`Greets`). Hence `RadarLimitsSettle`.
* `SettingsInv`: `Believed` and `OneAtATime`, what the page believes of the server
  and what the answer under way carries. Hence `SettingsShown`, and the action
  property `SettingsSentByUser`.
* `GpsInv`: the lines are whole texts, each at one place, and errors, of which
  there are as many as timers. Then `indexOf` finds the first line of a text and
  `splice` removes its lines and no other. Hence `GpsMessages`.
* `WeatherInv` and `LabelInv`: numbers not above the last one, and every label
  computed from the report beside it. `LabelIs` shows that `parseFlightCondition`
  is the worse of two conditions. Hence `WeatherNewestFirst` and `LabelsHonest`.

The assumptions are named in the modules that declare the constants. Most give
bounds their type. The others: a positive queue limit not above the pruning
threshold, positive message lengths, a UDP writer that is not a closer of its queue
(`QueueAssumption`, `WriterAssumption`); kinds of keys that do not overlap, and
`nil` that is no queue (`RegistryAssumption`); finitely many dongles, producers
and aircraft; at least one spoken alarm (`RadarAssumption`); toggles that are not
fields (`SettingsAssumption`); error texts that are none of the page's own
messages (`GpsAssumption`); well-formed reports (`WeatherAssumption`). The theorems
are about the specifications themselves, for any number of aircraft, reports,
connections and visits and without the restrictions of the MC modules
(`OneKey`, `Few`, `OneWithPosition`, `FewSkies`).

Every safety property of the passing runs is a theorem. Only model-checked are
the liveness properties, since TLAPS does not prove what follows from fairness.
For most of them the part that is about states is proved, for all values of the
constants: whoever waits, waits for somebody who can go on. TLC then shows, on
its instances, that under the stated fairness the waiting ends.

| liveness property | its safety part, a theorem |
|---|---|
| `AwakeQueueDrains` | `NeverLosesWakeup` |
| `WriterReturns` | `CloseReachesWriter` |
| `ClosedWriterReturns`, `ClosedLeavesRegistry` | `ClosedLeavesNothing` |
| `CloseReturns` | `CloseWaitsForSomebody` |
| `ProducersProceed` | `ProducersWaitForSomebody` |
| `KillReturns` | `WatcherLeavesNothing` |
| `ShutdownEnds` | `ShutdownWaitsForSomebody` |
| `FailedIsShutDown` | `FailedStaysAskedFor` |
| `ShownPageReconnects` | `ShownPageNeverCutOff` |
| `LeftPageLetsGo` | `LeftPageHoldsNothing` |

`MapForgets` and `RadarForgets` have no such part: nobody waits in them, and
they follow from the timers (and, for the radar, answered requests) alone. The
properties that are violated have their counterexamples from TLC.

## 5. Not modelled

GPS and AHRS, the GDL90 and NMEA encodings, Ping and ICMP are planned, and so is
the content of the traffic table (of which `TrafficFeed` has the ages and the
validity of positions). UAT decoding, fan control, the power button, build files
and scripts are left out: they keep no state that goroutines share. Of the
modelled parts, the following is left out: log output, counters for display, the
text of SQL statements, the timestamp table, the tuning of dongles, baud rates,
the capabilities of connections (a message is offered only to connections that
want it), and on the web pages everything that is only drawn or written: symbols,
colours, geometry, the attitude indicator, the satellites, sounds, file upload,
the buttons that shut down or reboot, and the validation of fields. Status,
Towers, Logs and Developer copy one message to the screen, and only their
sockets are modelled.

By lines, the JavaScript under `src/web/` is almost all third-party: AngularJS,
its router, Mobile Angular UI and OpenLayers controls are some 42,000 of its
46,000 lines, and are not this program's logic. Of the remaining 4,300 lines, the
pages, some 1,600 are modelled; the rest is what the last paragraph names.

Hazards seen in parts without a model: `network.go` 540 compares addresses as
prefixes, so that the ping of one client may wake another; `network.go` 166 reads
the configuration of a serial output before it takes `netMutex`; `ledBlinking`
(`gen_gdl90.go` 799) is never reset; `traffic.go` 406 gives X-Plane messages an
age limit of 1000 ns.

## 6. Plan

1. `TrafficTable`: the content of an entry that several receivers update,
   extrapolation, ownship; `Situation`: validity by age and the choice of the
   pressure source.
2. `Icmp` (sleep and throttle times instead of a free choice), the list of
   sockets of the UI broadcast, `Ping`, and the timestamp table of the replay
   log.
3. The codecs as operators with a reference definition: GDL90 framing and
   fields, NMEA relative positions and alarm levels.
4. Proofs: every safety property of a run, and the safety part of the liveness
   properties that have one, are theorems. What is left are the modules of 1
   to 3.
