------------------------------ MODULE RadarPage ------------------------------
(***************************************************************************)
(* The page Radar (web/plates/js/radar.js): the two lists of aircraft,     *)
(* what each has on the screen (a plane symbol and a trace, or a circle),  *)
(* and the alarm counters.                                                 *)
(*                                                                         *)
(* A message says whether the position is valid and how far the aircraft   *)
(* is: in the inner circle, outside of it, outside of three quarters of    *)
(* the range, or out of range; whether its altitude is known and within    *)
(* the limits (near), whether the altitude rounded to 25 feet passes the   *)
(* test of the drawing functions (altOk), and how long ago the server has  *)
(* heard of it (age).  Everything else moves, so these are free.  An       *)
(* element is removed from the screen with its reference still in place,   *)
(* and removing it again does nothing.                                     *)
(***************************************************************************)
EXTENDS Integers, Sequences

CONSTANTS
    RadarCraft,
    radarCutoff,      \* 29 seconds
    MaxAlarms,        \* 5
    MaxSpeechAlarms,  \* 1
    MessageAges,      \* how long ago the server may have heard of what it tells
    MaxLag            \* bound on the time told between two answers to getClock

ASSUME RadarAssumption ==
    /\ {radarCutoff, MaxLag} \cup MessageAges \subseteq Nat
    /\ MaxAlarms \in Nat /\ MaxSpeechAlarms \in 1..MaxAlarms

VARIABLES
    radar,        \* per aircraft, its entry in a list and its elements on the screen
    StratuxClock, \* how old the page's value is; -1 while there is none
    redraw        \* do AltDiffThreshold or DisplayRadius differ from the values drawn?

radarVars == <<radar, StratuxClock, redraw>>

Zones == {"inner", "middle", "border", "out"}
AgeCap == radarCutoff + MaxLag + 1  \* bound on the ages: older than any clock makes stale
RadarMessages == [pos : BOOLEAN, zone : Zones, altOk : BOOLEAN, near : BOOLEAN,
                  age : MessageAges]

Unlisted == [list |-> "none", alarms |-> 0, age |-> 0, last |-> "none",
             img |-> "none", trace |-> "none", circ |-> "none",
             planes |-> 0, traces |-> 0, circs |-> 0]

RadarInit ==
    /\ radar = [c \in RadarCraft |-> Unlisted]
    /\ StratuxClock = -1
    /\ redraw = TRUE

-------------------------------------------------------------------------------
(* Elements of the screen.                                                 *)
RemovePlane(r) ==
    IF r.img = "shown" THEN [r EXCEPT !.img = "removed", !.planes = @ - 1] ELSE r
RemoveTrace(r) ==
    IF r.trace = "shown" THEN [r EXCEPT !.trace = "none", !.traces = @ - 1] ELSE r
RemoveCirc(r) ==
    IF r.circ = "shown" THEN [r EXCEPT !.circ = "removed", !.circs = @ - 1] ELSE r
DrawPlane(r) ==
    LET p == [r EXCEPT !.img = "shown", !.planes = @ + 1] IN
    IF r.trace = "shown" THEN p ELSE [p EXCEPT !.trace = "shown", !.traces = @ + 1]
DrawCirc(r) == [r EXCEPT !.circ = "shown", !.circs = @ + 1]

(* A new object, or none: what the old one has on the screen stays there.  *)
NewObject(r, list) ==
    [Unlisted EXCEPT !.list = list, !.planes = r.planes, !.traces = r.traces, !.circs = r.circs]

Alarm(n) == IF n < MaxAlarms THEN n + 1 ELSE n

(* Mutant: the counter is not reset when the aircraft leaves the screen.   *)
checkCollisionVectorValid_NoReset(r, m) ==
    LET e == RemovePlane(r) IN
    CASE ~m.altOk -> e
      [] m.altOk /\ m.zone = "out" -> [RemoveTrace(e) EXCEPT !.last = "out"]
      [] OTHER -> [DrawPlane(e) EXCEPT !.last = m.zone,
                      !.alarms = IF m.zone = "inner" THEN Alarm(@) ELSE 0]

(* checkCollisionVectorValid: an aircraft with a position.                 *)
checkCollisionVectorValid(r, m) ==
    LET e == RemovePlane(r) IN
    CASE ~m.altOk -> e
      [] m.altOk /\ m.zone = "out" -> [RemoveTrace(e) EXCEPT !.last = "out", !.alarms = 0]
      [] OTHER -> [DrawPlane(e) EXCEPT !.last = m.zone,
                      !.alarms = IF m.zone = "inner" THEN Alarm(@) ELSE 0]

(* Mutant: the old circle stays.                                           *)
checkCollisionVector_Stays(r, m) ==
    IF ~m.altOk \/ m.zone = "out" THEN r
    ELSE [DrawCirc(r) EXCEPT !.last = m.zone, !.alarms =
            IF m.zone = "inner" THEN Alarm(@) ELSE IF m.zone = "border" THEN 0 ELSE @]

(* checkCollisionVector: one without.  The counter is only reset outside   *)
(* of three quarters of the range, and only while the circle is drawn.     *)
checkCollisionVector(r, m) ==
    LET e == RemoveCirc(r) IN
    IF ~m.altOk \/ m.zone = "out" THEN e
    ELSE [DrawCirc(e) EXCEPT !.last = m.zone, !.alarms =
            IF m.zone = "inner" THEN Alarm(@) ELSE IF m.zone = "border" THEN 0 ELSE @]

(* clearRadarTraces, for one aircraft.                                     *)
clearRadarTraces(r) ==
    CASE r.list = "valid" /\ r.img /= "none" ->
            [RemoveTrace(RemovePlane(r)) EXCEPT !.alarms = 0, !.last = "none"]
      [] r.list = "invalid" -> RemoveCirc(r)
      [] OTHER -> r

(* radar.update: when a limit has changed, everything is cleared.          *)
Updated(rs) ==
    IF ~redraw THEN rs ELSE [c \in RadarCraft |-> clearRadarTraces(rs[c])]

(* Was anything drawn or removed?  Only then the two functions above call  *)
(* radar.update (doUpdate).                                                *)
doUpdate(r, m) ==
    \/ r.img /= "none" \/ r.circ /= "none"
    \/ m.altOk /\ (m.zone /= "out" \/ r.trace = "shown")

check(r, m) ==
    IF r.list = "valid" THEN checkCollisionVectorValid(r, m) ELSE checkCollisionVector(r, m)

(* An aircraft leaves its list.                                            *)
Spliced(r) ==
    IF r.list = "valid" THEN IF r.img = "none" THEN r ELSE RemoveTrace(RemovePlane(r))
    ELSE RemoveCirc(r)

(* onMessageNew, for a message about an aircraft: the list it belongs to   *)
(* is the one of m.pos.  A new object is drawn before it is in the list,   *)
(* so that it is not cleared.                                              *)
onMessageNew(c, m) ==
    LET to == IF m.pos THEN "valid" ELSE "invalid"
        r == [radar[c] EXCEPT !.age = m.age]
        inPlace == r.list = to
        enters == ~inPlace /\ m.near
        object == IF inPlace THEN r
                  ELSE [NewObject(Spliced(r), to) EXCEPT !.age = m.age]
        updates == (inPlace \/ enters) /\ doUpdate(object, m)
        listed == [radar EXCEPT ![c] = IF inPlace THEN check(r, m) ELSE r]
    IN  /\ radar' = [(IF updates THEN Updated(listed) ELSE listed) EXCEPT ![c] =
                        IF inPlace THEN @
                        ELSE IF enters THEN check(object, m) ELSE NewObject(Spliced(r), "none")]
        /\ redraw' = (redraw /\ ~updates)
        /\ UNCHANGED StratuxClock

(* A call of radar.update by a timer or by the situation's socket.         *)
update ==
    /\ radar' = Updated(radar)
    /\ redraw' = FALSE

(* ownSituation, and the failure of a poll in getClock.                    *)
ownSituation ==
    /\ update
    /\ UNCHANGED StratuxClock

(* getClock: the answer to a poll of the status.                           *)
getClock ==
    /\ StratuxClock' = 0
    /\ update

(* Last_seen <= StratuxClock - radarCutoff; never, while that is undefined.*)
Stale(r) == StratuxClock >= 0 /\ r.age - StratuxClock >= radarCutoff

(* Mutant: only the first list is cleaned up.                              *)
clearStaleTraffic_ValidOnly ==
    /\ radar' = Updated([c \in RadarCraft |->
                    IF radar[c].list = "valid" /\ Stale(radar[c])
                    THEN NewObject(Spliced(radar[c]), "none") ELSE radar[c]])
    /\ redraw' = FALSE
    /\ UNCHANGED StratuxClock

(* clearStaleTraffic, every ten seconds.                                   *)
clearStaleTraffic ==
    /\ radar' = Updated([c \in RadarCraft |->
                    IF radar[c].list /= "none" /\ Stale(radar[c])
                    THEN NewObject(Spliced(radar[c]), "none") ELSE radar[c]])
    /\ redraw' = FALSE
    /\ UNCHANGED StratuxClock

(* Time passes.  Without an answer to getClock (the status is polled twice *)
(* a second, but a poll may fail) nothing depends on more time than MaxLag:*)
(* Stale compares Last_seen with the page's clock, which stands.           *)
RadarTick ==
    /\ StratuxClock < MaxLag
    /\ StratuxClock' = IF StratuxClock < 0 THEN StratuxClock ELSE StratuxClock + 1
    /\ radar' = [c \in RadarCraft |->
                    IF radar[c].list = "none" \/ radar[c].age >= AgeCap THEN radar[c]
                    ELSE [radar[c] EXCEPT !.age = @ + 1]]
    /\ UNCHANGED redraw

(* A click or a message of the server has changed the limits, or changed   *)
(* them back before anything was drawn: see RadarLimits.                   *)
NewLimits ==
    /\ redraw' \in BOOLEAN
    /\ UNCHANGED <<radar, StratuxClock>>

RadarNext ==
    \/ \E c \in RadarCraft, m \in RadarMessages : onMessageNew(c, m)
    \/ ownSituation \/ getClock \/ clearStaleTraffic \/ RadarTick
    \/ NewLimits

-------------------------------------------------------------------------------
(* What is on the screen belongs to an aircraft of a list: no symbol,      *)
(* trace or circle stays behind when an aircraft is redrawn, cleared by a  *)
(* change of the limits, moved between the lists or removed (radar.js,     *)
(* checkCollisionVector*, clearRadarTraces, clearStaleTraffic).            *)
NoGhosts ==
    \A c \in RadarCraft :
        LET r == radar[c] IN
        /\ r.planes = (IF r.list = "valid" /\ r.img = "shown" THEN 1 ELSE 0)
        /\ r.traces = (IF r.list = "valid" /\ r.trace = "shown" THEN 1 ELSE 0)
        /\ r.circs = (IF r.list = "invalid" /\ r.circ = "shown" THEN 1 ELSE 0)

(* An aircraft that was last drawn outside of the inner circle (without a  *)
(* position: outside of three quarters of the range) will be announced     *)
(* when it enters it, whatever has happened to it since: its counter is    *)
(* below MaxSpeechAlarms.                                                  *)
Armed ==
    \A c \in RadarCraft :
        LET r == radar[c] IN
        r.last \in (IF r.list = "valid" THEN Zones \ {"inner"} ELSE {"none", "border"})
            => r.alarms < MaxSpeechAlarms

(* An aircraft that is no longer heard of leaves the radar, as long as the *)
(* polls of the status are answered again and again: with a clock that     *)
(* stands, or that was never set, nothing leaves.                          *)
RadarForgets ==
    []<>(StratuxClock = 0) =>
        \A c \in RadarCraft :
            (radar[c].list /= "none" /\ radar[c].age > radarCutoff) ~>
                (radar[c].list = "none" \/ radar[c].age <= radarCutoff)

===============================================================================
