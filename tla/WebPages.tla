------------------------------ MODULE WebPages ------------------------------
(***************************************************************************)
(* The life of the web pages (web/plates/js/*.js) and of their sockets.    *)
(* Going to another page runs the onExit of the one that is left and then  *)
(* the controller of the new one, with a new $scope.  A socket's events    *)
(* and the timers of setTimeout come whenever they come, also to a $scope  *)
(* whose page was left long ago.                                           *)
(*                                                                         *)
(* A visit is one $scope, numbered from 1.  Six of the pages keep their    *)
(* socket in the same undeclared variable, a property of `window`, and     *)
(* connect() attaches the handlers to whatever that variable holds.  The   *)
(* page Towers stands for those that have none (Settings, Logs).           *)
(***************************************************************************)
EXTENDS Integers, SequencesExt

CONSTANTS
    Pages,      \* the pages that are visited
    MaxVisits,  \* bound on the visits
    MaxDrops    \* bound on the connections that are lost

Slot == [home |-> {"socket"}, gps |-> {"socket"}, developer |-> {"local"},
         traffic |-> {"socket"}, weather |-> {"socket"}, map |-> {"socket"},
         radar |-> {"rsocket", "sit_socket"}, towers |-> {}]
Slots == UNION {Slot[p] : p \in DOMAIN Slot}

ASSUME PagesAssumption ==
    /\ Pages \subseteq DOMAIN Slot
    /\ MaxVisits \in Nat /\ MaxDrops \in Nat

VARIABLES
    visits,        \* the pages visited so far; the last one is shown
    ref,           \* ref[v][s]: the $scope's socket
    ConnectState,  \* ConnectState[v]: the $scope's field
    label,         \* what the view of the page that is shown makes of it
    sockets,       \* every WebSocket created: its state, slot and handlers' $scope
    window,        \* the global variables socket, rsocket and sit_socket
    timers,        \* timers[v]: calls connect($scope) that setTimeout will make
    drops

pagesVars == <<visits, ref, ConnectState, label, sockets, window, timers, drops>>

Undefined == 0
Null == -1
Shown == Len(visits)
Visits == 1..MaxVisits
Live(n) == sockets[n].state \in {"connecting", "open"}

WebTypeOK ==
    /\ visits \in Seq(Pages) /\ Shown \in 0..MaxVisits
    /\ ref \in [Visits -> [Slots -> Null..Len(sockets)]]
    /\ ConnectState \in [Visits -> {"Disconnected", "Connected"}]
    /\ label \in {"Disconnected", "Connected"}
    /\ sockets \in Seq([state : {"connecting", "open", "closing", "closed"},
                        slot : Slots, scope : Visits])
    /\ window \in [Slots -> 0..Len(sockets)]
    /\ timers \in [Visits -> Nat]
    /\ drops \in 0..MaxDrops

PagesInit ==
    /\ visits = <<>>
    /\ ref = [v \in Visits |-> [s \in Slots |-> Undefined]]
    /\ ConnectState = [v \in Visits |-> "Disconnected"]
    /\ label = "Disconnected"
    /\ sockets = <<>>
    /\ window = [s \in Slots |-> 0]
    /\ timers = [v \in Visits |-> 0]
    /\ drops = 0

-------------------------------------------------------------------------------
(* connect($scope) of visit v to page p, given what onExit has left: it    *)
(* creates the sockets that the $scope lacks, and sets the handlers of the *)
(* global variables' sockets (the variable of Developer is local).         *)
connect(v, p, old, oldRef) ==
    LET missing == SetToSeq({s \in Slot[p] : oldRef[v][s] \in {Undefined, Null}})
        new == [i \in DOMAIN missing |->
                   [state |-> "connecting", slot |-> missing[i], scope |-> v]]
        Number(s) == Len(old) + CHOOSE i \in DOMAIN missing : missing[i] = s
        held == [s \in Slots |-> IF s \in ToSet(missing) THEN Number(s) ELSE window[s]]
        mine == {held[s] : s \in Slot[p]}
        all == old \o new
    IN  /\ ref' = [oldRef EXCEPT ![v] = [s \in Slots |->
                     IF s \in ToSet(missing) THEN Number(s) ELSE @[s]]]
        /\ window' = held
        /\ sockets' = [n \in DOMAIN all |->
                         IF n \in mine THEN [all[n] EXCEPT !.scope = v] ELSE all[n]]
        /\ ConnectState' = [ConnectState EXCEPT ![v] = "Disconnected"]

(* Mutant: onExit of Radar forgets its second socket.                      *)
onExit_OneSocket(p) == Slot[p] \ {"local", "sit_socket"}

(* onExit of page p: what it closes and sets to null.  Developer has none. *)
onExit(p) == Slot[p] \ {"local"}

(* A click on a link: onExit of the old page, the controller of the new,   *)
(* and the digest that puts the new view on the screen.                    *)
Go(p) ==
    LET left == IF Shown = 0 THEN {} ELSE
                {s \in onExit(visits[Shown]) : ref[Shown][s] \notin {Undefined, Null}}
        closing == [n \in DOMAIN sockets |->
                      IF Live(n) /\ \E s \in left : n = ref[Shown][s]
                      THEN [sockets[n] EXCEPT !.state = "closing"] ELSE sockets[n]]
        nulled == [v \in Visits |-> [s \in Slots |->
                     IF v = Shown /\ s \in left THEN Null ELSE ref[v][s]]]
    IN  /\ Shown < MaxVisits
        /\ Shown > 0 => visits[Shown] /= p
        /\ visits' = Append(visits, p)
        /\ connect(Shown + 1, p, closing, nulled)
        /\ label' = "Disconnected"
        /\ UNCHANGED <<timers, drops>>

(* onopen.  Only Map calls $apply, which does nothing for a $scope whose   *)
(* page was left; the other views learn of it from the next digest.        *)
onopen(n) ==
    /\ sockets[n].state = "connecting"
    /\ sockets' = [sockets EXCEPT ![n].state = "open"]
    /\ ConnectState' = IF sockets[n].slot = "sit_socket" THEN ConnectState
                       ELSE [ConnectState EXCEPT ![sockets[n].scope] = "Connected"]
    /\ label' = IF sockets[n].scope = Shown /\ visits[Shown] = "map"
                THEN "Connected" ELSE label
    /\ UNCHANGED <<visits, ref, window, timers, drops>>

(* setTimeout(connect, 1000): connect is called without a $scope, and      *)
(* returns at once.                                                        *)
TimeoutWithoutScope == UNCHANGED <<ref, timers>>

(* delete $scope.socket; setTimeout(function() {connect($scope);}, 1000)   *)
TimeoutWithScope(v, s) ==
    /\ ref' = [ref EXCEPT ![v][s] = Undefined]
    /\ timers' = [timers EXCEPT ![v] = @ + 1]

(* Mutant: the $scope keeps the socket that is closed.                     *)
HomeOnClose_Keeps(v) ==
    /\ timers' = [timers EXCEPT ![v] = @ + 1]
    /\ UNCHANGED ref

(* Mutant: connect is called without a $scope.                             *)
GpsOnClose_NoScope(v) == TimeoutWithoutScope

(* What onclose does about the connection, page by page.  Map and Radar    *)
(* ask whether onExit has set the variable to null; either way nothing     *)
(* comes of it.                                                            *)
HomeOnClose(v) == TimeoutWithScope(v, "socket")
GpsOnClose(v) == TimeoutWithScope(v, "socket")
DeveloperOnClose(v) == TimeoutWithScope(v, "local")
TrafficOnClose(v) == TimeoutWithoutScope
WeatherOnClose(v) == TimeoutWithoutScope
MapOnClose(v) ==
    IF ref[v]["socket"] = Null THEN UNCHANGED <<ref, timers>> ELSE TimeoutWithoutScope
RadarOnClose(v) ==
    IF ref[v]["rsocket"] = Null THEN UNCHANGED <<ref, timers>> ELSE TimeoutWithoutScope

(* Mutant: onclose does not call $apply either.                            *)
onclose_NoApply(n) ==
    LET v == sockets[n].scope
        p == visits[v]
    IN  /\ sockets' = [sockets EXCEPT ![n].state = "closed"]
        /\ ConnectState' = [ConnectState EXCEPT ![v] = "Disconnected"]
        /\ IF p \in {"home", "gps"} THEN TimeoutWithScope(v, "socket") ELSE TimeoutWithoutScope
        /\ UNCHANGED <<label, visits, window>>

(* onclose of socket n, which runs with the $scope of its handlers and     *)
(* calls $apply.  The second socket of Radar does nothing.                 *)
onclose(n) ==
    LET v == sockets[n].scope
        p == visits[v]
    IN  /\ sockets' = [sockets EXCEPT ![n].state = "closed"]
        /\ IF sockets[n].slot = "sit_socket" THEN UNCHANGED <<ConnectState, label, ref, timers>>
           ELSE /\ ConnectState' = [ConnectState EXCEPT ![v] = "Disconnected"]
                /\ label' = IF v = Shown THEN "Disconnected" ELSE label
                /\ \/ p = "home" /\ HomeOnClose(v)
                   \/ p = "gps" /\ GpsOnClose(v)
                   \/ p = "developer" /\ DeveloperOnClose(v)
                   \/ p = "traffic" /\ TrafficOnClose(v)
                   \/ p = "weather" /\ WeatherOnClose(v)
                   \/ p = "map" /\ MapOnClose(v)
                   \/ p = "radar" /\ RadarOnClose(v)
        /\ UNCHANGED <<visits, window>>

(* The connection is lost, or never made (onerror is followed by onclose). *)
Drop(n) ==
    /\ Live(n)
    /\ drops < MaxDrops
    /\ drops' = drops + 1
    /\ onclose(n)

(* The close() of onExit is completed.                                     *)
CloseDone(n) == sockets[n].state = "closing" /\ onclose(n) /\ UNCHANGED drops

(* A timer of setTimeout: connect($scope), without a digest.               *)
Timeout(v) ==
    /\ timers[v] > 0
    /\ timers' = [timers EXCEPT ![v] = @ - 1]
    /\ connect(v, visits[v], sockets, ref)
    /\ UNCHANGED <<label, visits, drops>>

(* A digest: of a message that came through a socket, of the answer to an  *)
(* $http request, of an $interval.  Weather has the first kind only.       *)
Render ==
    /\ Shown > 0
    /\ label' = ConnectState[Shown]
    /\ UNCHANGED <<visits, ref, ConnectState, sockets, window, timers, drops>>

PagesNext ==
    \/ \E p \in Pages : Go(p)
    \/ \E n \in DOMAIN sockets : onopen(n) \/ Drop(n) \/ CloseDone(n)
    \/ \E v \in Visits : Timeout(v)
    \/ Render

(* The server answers, a handshake to close ends, timers expire.  A bound  *)
(* on the number of sockets, for the quantifier.                           *)
MaxSockets == 3 * MaxVisits + MaxDrops

PagesFairness ==
    /\ \A n \in 1..MaxSockets :
          /\ WF_pagesVars(n \in DOMAIN sockets /\ onopen(n))
          /\ WF_pagesVars(n \in DOMAIN sockets /\ CloseDone(n))
    /\ \A v \in Visits : WF_pagesVars(Timeout(v))

-------------------------------------------------------------------------------
(* A live socket is the one that the $scope its handlers belong to holds,  *)
(* although the pages share the variable `socket` and timers of pages left *)
(* long ago connect through it: no page is fed by another page's socket,   *)
(* and none has two (connect, onclose, onExit).                            *)
OneOwner ==
    \A n \in DOMAIN sockets : Live(n) => ref[sockets[n].scope][sockets[n].slot] = n

(* The socket whose state the page that is shown reports is open (Radar    *)
(* reports that of the traffic, and nothing about the other).              *)
SocketOpen ==
    \E s \in Slot[visits[Shown]] \ {"sit_socket"} :
        /\ ref[Shown][s] > 0
        /\ sockets[ref[Shown][s]].state = "open"

(* ConnectState of the page that is shown is "Connected" exactly while its *)
(* socket is open, and what the user reads never says so of a socket that  *)
(* is not: onclose and the timers tell the view, or need not.  (The view   *)
(* may say "Disconnected" over an open socket until the next digest, which *)
(* onopen does not cause; Weather has none before its first report.)       *)
ConnectStateHonest ==
    Shown > 0 =>
        /\ ConnectState[Shown] = "Connected" <=> SocketOpen
        /\ label = "Connected" => SocketOpen

(* While Status, GPS/AHRS or Developer is shown, a connection that is lost *)
(* is made again (onclose): ConnectState says so.                          *)
ShownPageReconnects ==
    \A v \in Visits :
        (Shown = v /\ visits[v] \in {"home", "gps", "developer"}) ~>
            (Shown /= v \/ ConnectState[v] = "Connected")

(* A page that never connects again has no socket left some time after it  *)
(* is left: the server stops sending to it (onExit).                       *)
LeftPageLetsGo ==
    \A v \in Visits :
        (Shown > v /\ visits[v] \in {"traffic", "weather", "map", "radar"}) ~>
            [](\A n \in DOMAIN sockets : sockets[n].scope = v => sockets[n].state = "closed")

===============================================================================
