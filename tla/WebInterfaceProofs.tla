-------------------------- MODULE WebInterfaceProofs --------------------------
(***************************************************************************)
(* What the web pages show, for every number of aircraft, messages, clicks,*)
(* requests and reports.  A behaviour of WebInterface is one of each page, *)
(* so that an invariant of a page's own actions is one of the interface.   *)
(***************************************************************************)
EXTENDS WebInterface, WebPagesProofs, TLAPS, FiniteSetTheorems, SequenceTheorems,
        WellFoundedInduction

-------------------------------------------------------------------------------
(* The page Radar.                                                         *)

(* The type of an aircraft's entry.                                        *)
IsRadarRecord(r) ==
    /\ DOMAIN r = {"list", "alarms", "age", "last", "img", "trace", "circ", "planes",
                   "traces", "circs"}
    /\ r.list \in {"none", "valid", "invalid"} /\ r.last \in Zones \cup {"none"}
    /\ r.alarms \in Nat /\ r.age \in Nat
    /\ r.img \in {"none", "shown", "removed"} /\ r.circ \in {"none", "shown", "removed"}
    /\ r.trace \in {"none", "shown"}
    /\ r.planes \in Int /\ r.traces \in Int /\ r.circs \in Int

One(shown) == IF shown THEN 1 ELSE 0

(* An object has only the elements of its list, a trace only if it has had *)
(* a symbol, and nothing on the screen that it does not know of.           *)
OwnElements(r) ==
    /\ r.list # "valid" => r.img = "none" /\ r.trace = "none"
    /\ r.list # "invalid" => r.circ = "none"
    /\ r.img = "none" => r.trace = "none"
    /\ r.planes = One(r.img = "shown")
    /\ r.traces = One(r.trace = "shown")
    /\ r.circs = One(r.circ = "shown")

IsArmed(r) ==
    r.last \in (IF r.list = "valid" THEN Zones \ {"inner"} ELSE {"none", "border"})
        => r.alarms < MaxSpeechAlarms

Sound(r) == IsRadarRecord(r) /\ OwnElements(r) /\ IsArmed(r)

RadarInv ==
    /\ DOMAIN radar = RadarCraft
    /\ \A c \in RadarCraft : Sound(radar[c])
    /\ StratuxClock \in Int

(* An object that was just made, or that is in no list.                    *)
LEMMA NewIsSound ==
    ASSUME NEW r, r.planes = 0, r.traces = 0, r.circs = 0,
           NEW list \in {"none", "valid", "invalid"}
    PROVE  Sound(NewObject(r, list)) /\ NewObject(r, list).list = list
<1> DEFINE n == NewObject(r, list)
<1>1. IsRadarRecord(Unlisted)
  BY DEF Unlisted, IsRadarRecord
<1>2. n = [Unlisted EXCEPT !.list = list, !.planes = 0, !.traces = 0, !.circs = 0]
  BY DEF NewObject
<1> HIDE DEF n
<1>3. /\ IsRadarRecord(n) /\ n.list = list /\ n.planes = 0 /\ n.traces = 0 /\ n.circs = 0
  BY <1>1, <1>2 DEF IsRadarRecord
<1>4. n.img = "none" /\ n.trace = "none" /\ n.circ = "none" /\ n.alarms = 0
  BY <1>1, <1>2 DEF IsRadarRecord, Unlisted
<1>5. Sound(n)
  BY <1>3, <1>4, RadarAssumption DEF Sound, OwnElements, IsArmed, One
<1> QED
  BY <1>3, <1>5 DEF n

(* Spliced leaves nothing on the screen.                                   *)
LEMMA SplicedIsClean ==
    ASSUME NEW r, Sound(r)
    PROVE  Spliced(r).planes = 0 /\ Spliced(r).traces = 0 /\ Spliced(r).circs = 0
<1> USE DEF Sound, IsRadarRecord, OwnElements, One, RemovePlane, RemoveTrace, RemoveCirc, Spliced
<1>1. CASE r.list = "valid" /\ r.img = "none"
  BY <1>1
<1>2. CASE r.list = "valid" /\ r.img # "none"
  BY <1>2
<1>3. CASE r.list # "valid"
  BY <1>3
<1> QED
  BY <1>1, <1>2, <1>3

(* A redrawn aircraft.                                                     *)
LEMMA ValidIsSound ==
    ASSUME NEW r, Sound(r), r.list = "valid", NEW m \in RadarMessages
    PROVE  Sound(checkCollisionVectorValid(r, m)) /\ checkCollisionVectorValid(r, m).list = "valid"
<1> DEFINE e == RemovePlane(r)
<1>1. /\ IsRadarRecord(e) /\ e.list = "valid" /\ e.img # "shown" /\ e.planes = 0 /\ e.trace = r.trace
      /\ e.traces = r.traces /\ e.circ = r.circ /\ e.circs = r.circs /\ e.alarms = r.alarms
      /\ e.last = r.last /\ (e.img = "none" => r.img = "none")
  BY DEF Sound, IsRadarRecord, OwnElements, One, RemovePlane
<1> HIDE DEF e
<1>2. CASE ~m.altOk
  <2>1. checkCollisionVectorValid(r, m) = e
    BY <1>2 DEF checkCollisionVectorValid, e
  <2> QED
    BY <1>1, <2>1 DEF Sound, OwnElements, IsArmed, One
<1>3. CASE m.altOk /\ m.zone = "out"
  <2>1. checkCollisionVectorValid(r, m) = [RemoveTrace(e) EXCEPT !.last = "out", !.alarms = 0]
    BY <1>3 DEF checkCollisionVectorValid, e
  <2> QED
    BY <1>1, <2>1, RadarAssumption
    DEF Sound, OwnElements, IsArmed, One, RemoveTrace, IsRadarRecord, Zones
<1>4. CASE m.altOk /\ m.zone # "out"
  <2>1. checkCollisionVectorValid(r, m) =
           [DrawPlane(e) EXCEPT !.last = m.zone,
                      !.alarms = IF m.zone = "inner" THEN Alarm(@) ELSE 0]
    BY <1>4 DEF checkCollisionVectorValid, e
  <2>2. /\ IsRadarRecord(DrawPlane(e)) /\ DrawPlane(e).list = "valid"
        /\ DrawPlane(e).img = "shown" /\ DrawPlane(e).planes = 1
        /\ DrawPlane(e).trace = "shown" /\ DrawPlane(e).traces = 1
        /\ DrawPlane(e).circ = r.circ /\ DrawPlane(e).circs = r.circs
        /\ DrawPlane(e).alarms = r.alarms
    BY <1>1 DEF DrawPlane, Sound, IsRadarRecord, OwnElements, One
  <2>3. m.zone \in Zones /\ Alarm(r.alarms) \in Nat
    BY DEF RadarMessages, Alarm, Sound, IsRadarRecord
  <2> QED
    BY <1>4, <2>1, <2>2, <2>3, RadarAssumption
    DEF Sound, OwnElements, IsArmed, One, IsRadarRecord, Zones
<1> QED
  BY <1>2, <1>3, <1>4

(* ... and one without a position.                                         *)
LEMMA InvalidIsSound ==
    ASSUME NEW r, Sound(r), r.list = "invalid", NEW m \in RadarMessages
    PROVE  Sound(checkCollisionVector(r, m)) /\ checkCollisionVector(r, m).list = "invalid"
<1> DEFINE e == RemoveCirc(r)
<1>1. /\ IsRadarRecord(e) /\ e.list = "invalid" /\ e.circ # "shown" /\ e.circs = 0
      /\ e.img = "none" /\ e.trace = "none" /\ e.planes = 0 /\ e.traces = 0
      /\ e.alarms = r.alarms /\ e.last = r.last
  BY DEF Sound, IsRadarRecord, OwnElements, One, RemoveCirc
<1> HIDE DEF e
<1>2. CASE ~m.altOk \/ m.zone = "out"
  <2>1. checkCollisionVector(r, m) = e
    BY <1>2 DEF checkCollisionVector, e
  <2> QED
    BY <1>1, <2>1 DEF Sound, OwnElements, IsArmed, One
<1>3. CASE m.altOk /\ m.zone # "out"
  <2>1. checkCollisionVector(r, m) =
           [DrawCirc(e) EXCEPT !.last = m.zone, !.alarms =
               IF m.zone = "inner" THEN Alarm(@) ELSE IF m.zone = "border" THEN 0 ELSE @]
    BY <1>3 DEF checkCollisionVector, e
  <2>2. m.zone \in Zones /\ Alarm(r.alarms) \in Nat
    BY DEF RadarMessages, Alarm, Sound, IsRadarRecord
  <2> QED
    BY <1>1, <1>3, <2>1, <2>2, RadarAssumption
    DEF Sound, OwnElements, IsArmed, One, IsRadarRecord, Zones, DrawCirc
<1> QED
  BY <1>2, <1>3

(* clearRadarTraces.                                                       *)
LEMMA ClearedIsSound ==
    ASSUME NEW r, Sound(r)
    PROVE  Sound(clearRadarTraces(r)) /\ clearRadarTraces(r).list = r.list
<1> USE RadarAssumption
    DEF Sound, OwnElements, IsArmed, One, IsRadarRecord, Zones, RemovePlane, RemoveTrace, RemoveCirc
<1>1. CASE r.list = "valid" /\ r.img # "none"
  <2> DEFINE e == RemovePlane(r)
             f == RemoveTrace(e)
  <2>1. /\ IsRadarRecord(e) /\ e.list = "valid" /\ e.img = "removed" /\ e.planes = 0
        /\ e.trace = r.trace /\ e.traces = r.traces /\ e.circ = "none" /\ e.circs = 0
    BY <1>1
  <2> HIDE DEF e
  <2>2. /\ IsRadarRecord(f) /\ f.list = "valid" /\ f.img = "removed" /\ f.planes = 0
        /\ f.trace = "none" /\ f.traces = 0 /\ f.circ = "none" /\ f.circs = 0
    BY <2>1
  <2>3. clearRadarTraces(r) = [f EXCEPT !.alarms = 0, !.last = "none"]
    BY <1>1 DEF clearRadarTraces, e
  <2> HIDE DEF f
  <2> QED
    BY <1>1, <2>2, <2>3
<1>2. CASE r.list = "invalid"
  <2>1. clearRadarTraces(r) = RemoveCirc(r)
    BY <1>2 DEF clearRadarTraces
  <2> QED
    BY <1>2, <2>1
<1>3. CASE ~(r.list = "valid" /\ r.img # "none") /\ r.list # "invalid"
  <2>1. clearRadarTraces(r) = r
    BY <1>3 DEF clearRadarTraces
  <2> QED
    BY <2>1
<1> QED
  BY <1>1, <1>2, <1>3

(* The two ways of drawing, and a change of the age.                       *)
LEMMA CheckedIsSound ==
    ASSUME NEW r, Sound(r), r.list # "none", NEW m \in RadarMessages
    PROVE  Sound(check(r, m)) /\ check(r, m).list = r.list
<1>1. CASE r.list = "valid"
  BY <1>1, ValidIsSound DEF check
<1>2. CASE r.list = "invalid"
  BY <1>2, InvalidIsSound DEF check
<1> QED
  BY <1>1, <1>2 DEF Sound, IsRadarRecord

LEMMA AgedIsSound ==
    ASSUME NEW r, Sound(r), NEW n \in Nat
    PROVE  Sound([r EXCEPT !.age = n]) /\ [r EXCEPT !.age = n].list = r.list
<1> DEFINE e == [r EXCEPT !.age = n]
<1>1. /\ IsRadarRecord(e) /\ e.list = r.list /\ e.alarms = r.alarms /\ e.last = r.last
      /\ e.img = r.img /\ e.trace = r.trace /\ e.circ = r.circ
      /\ e.planes = r.planes /\ e.traces = r.traces /\ e.circs = r.circs
  BY DEF Sound, IsRadarRecord
<1> HIDE DEF e
<1>2. Sound(e)
  BY <1>1 DEF Sound, OwnElements, IsArmed, One
<1> QED
  BY <1>1, <1>2 DEF e

(* An aircraft that was taken out of its list starts afresh.               *)
LEMMA MovedIsSound ==
    ASSUME NEW r, Sound(r), NEW list \in {"none", "valid", "invalid"}
    PROVE  Sound(NewObject(Spliced(r), list)) /\ NewObject(Spliced(r), list).list = list
BY SplicedIsClean, NewIsSound

(* radar.update keeps all of them sound.                                   *)
LEMMA UpdatedIsSound ==
    ASSUME NEW rs, DOMAIN rs = RadarCraft, \A c \in RadarCraft : Sound(rs[c])
    PROVE  /\ DOMAIN Updated(rs) = RadarCraft
           /\ \A c \in RadarCraft : Sound(Updated(rs)[c])
<1>1. CASE ~redraw
  BY <1>1 DEF Updated
<1>2. CASE redraw
  <2>1. Updated(rs) = [c \in RadarCraft |-> clearRadarTraces(rs[c])]
    BY <1>2 DEF Updated
  <2> QED
    BY <2>1, ClearedIsSound
<1> QED
  BY <1>1, <1>2

(* Every action of the page keeps every aircraft sound.                    *)
LEMMA RadarStep == RadarInv /\ [RadarNext]_radarVars => RadarInv'
<1> SUFFICES ASSUME RadarInv, [RadarNext]_radarVars PROVE RadarInv'
  OBVIOUS
<1>0. /\ DOMAIN radar = RadarCraft /\ \A c \in RadarCraft : Sound(radar[c])
      /\ StratuxClock \in Int
  BY DEF RadarInv
<1>1. ASSUME NEW c \in RadarCraft, NEW m \in RadarMessages, onMessageNew(c, m)
      PROVE  RadarInv'
  <2> DEFINE to == IF m.pos THEN "valid" ELSE "invalid"
             r == [radar[c] EXCEPT !.age = m.age]
             new == [NewObject(Spliced(r), to) EXCEPT !.age = m.age]
             inPlace == r.list = to
             enters == ~inPlace /\ m.near
             object == IF inPlace THEN r ELSE new
             updates == (inPlace \/ enters) /\ doUpdate(object, m)
             listed == [radar EXCEPT ![c] = IF inPlace THEN check(r, m) ELSE r]
             all == IF updates THEN Updated(listed) ELSE listed
             it == IF inPlace THEN all[c]
                   ELSE IF enters THEN check(object, m) ELSE NewObject(Spliced(r), "none")
  <2>1. radar' = [all EXCEPT ![c] = it] /\ UNCHANGED StratuxClock
    BY <1>1 DEF onMessageNew
  <2>2. Sound(r) /\ to \in {"valid", "invalid"} /\ m.age \in Nat
    <3>1. m.age \in Nat
      BY RadarAssumption DEF RadarMessages
    <3> QED
      BY <1>0, <3>1, AgedIsSound
  <2> HIDE DEF r, to
  <2>3. inPlace => Sound(check(r, m))
    BY <2>2, CheckedIsSound
  <2>4. Sound(new) /\ Sound(NewObject(Spliced(r), "none")) /\ new.list = to
    <3>1. /\ Sound(NewObject(Spliced(r), to)) /\ Sound(NewObject(Spliced(r), "none"))
          /\ NewObject(Spliced(r), to).list = to
      BY <2>2, MovedIsSound
    <3> QED
      BY <2>2, <3>1, AgedIsSound
  <2> HIDE DEF new
  <2>5. ~inPlace => Sound(check(object, m))
    BY <2>2, <2>4, CheckedIsSound
  <2>6. DOMAIN listed = RadarCraft /\ \A d \in RadarCraft : Sound(listed[d])
    <3>1. DOMAIN listed = RadarCraft
      BY <1>0
    <3>2. ASSUME NEW d \in RadarCraft PROVE Sound(listed[d])
      <4>1. CASE d = c
        BY <1>0, <2>2, <2>3, <4>1
      <4>2. CASE d # c
        BY <1>0, <4>2
      <4> QED
        BY <4>1, <4>2
    <3> QED
      BY <3>1, <3>2
  <2> HIDE DEF listed, inPlace, enters, updates, object
  <2>7. DOMAIN all = RadarCraft /\ \A d \in RadarCraft : Sound(all[d])
    BY <2>6, UpdatedIsSound
  <2> HIDE DEF all
  <2>8. Sound(it)
    BY <2>4, <2>5, <2>7
  <2> HIDE DEF it
  <2> QED
    BY <1>0, <2>1, <2>7, <2>8 DEF RadarInv
<1>2. ASSUME update PROVE DOMAIN radar' = RadarCraft /\ \A c \in RadarCraft : Sound(radar'[c])
  BY <1>0, <1>2, UpdatedIsSound DEF update
<1>3. CASE ownSituation
  BY <1>0, <1>2, <1>3 DEF ownSituation, RadarInv
<1>4. CASE getClock
  BY <1>2, <1>4 DEF getClock, RadarInv
<1>5. CASE clearStaleTraffic
  <2> DEFINE rs == [c \in RadarCraft |-> IF radar[c].list /= "none" /\ Stale(radar[c])
                                         THEN NewObject(Spliced(radar[c]), "none") ELSE radar[c]]
  <2>1. radar' = Updated(rs) /\ UNCHANGED StratuxClock
    BY <1>5 DEF clearStaleTraffic
  <2>2. \A c \in RadarCraft : Sound(NewObject(Spliced(radar[c]), "none"))
    BY <1>0, MovedIsSound
  <2>3. DOMAIN rs = RadarCraft /\ \A c \in RadarCraft : Sound(rs[c])
    BY <1>0, <2>2
  <2> HIDE DEF rs
  <2> QED
    BY <1>0, <2>1, <2>3, UpdatedIsSound DEF RadarInv
<1>6. CASE RadarTick
  <2>1. \A c \in RadarCraft : Sound([radar[c] EXCEPT !.age = radar[c].age + 1])
    <3> TAKE c \in RadarCraft
    <3>1. Sound(radar[c]) /\ radar[c].age + 1 \in Nat
      BY <1>0 DEF Sound, IsRadarRecord
    <3> QED
      BY <3>1, AgedIsSound
  <2>2. /\ radar' = [c \in RadarCraft |->
                        IF radar[c].list = "none" \/ radar[c].age >= AgeCap THEN radar[c]
                        ELSE [radar[c] EXCEPT !.age = radar[c].age + 1]]
        /\ StratuxClock' \in Int
    BY <1>0, <1>6 DEF RadarTick
  <2> QED
    BY <1>0, <2>1, <2>2 DEF RadarInv
<1>7. CASE NewLimits
  BY <1>0, <1>7 DEF NewLimits, RadarInv
<1>8. CASE UNCHANGED radarVars
  BY <1>0, <1>8 DEF radarVars, RadarInv
<1> QED
  BY <1>1, <1>3, <1>4, <1>5, <1>6, <1>7, <1>8 DEF RadarNext

(* The screen is empty at first, and no aircraft has been announced.       *)
LEMMA RadarInitInv == RadarInit => RadarInv
<1> SUFFICES ASSUME RadarInit PROVE RadarInv
  OBVIOUS
<1>1. Sound(Unlisted)
  <2>1. IsRadarRecord(Unlisted)
    BY DEF Unlisted, IsRadarRecord
  <2> QED
    BY <2>1, RadarAssumption DEF Unlisted, Sound, OwnElements, IsArmed, One
<1> QED
  BY <1>1 DEF RadarInit, RadarInv

-------------------------------------------------------------------------------
(* The limits of the page Radar.                                           *)

LimitNames == {"RadarLimits", "RadarRange"}

(* What the page will show when it has read all that is on its way.        *)
Latest == IF broadcasts = <<>> THEN limits ELSE broadcasts[Len(broadcasts)]

(* A POST under way either has a text of the server's settings to send, or *)
(* keys left to set.                                                       *)
UnderWay(q, server) ==
    /\ DOMAIN q = {"set", "keys", "json"}
    /\ q.set \in Limits /\ q.keys \subseteq LimitNames
    /\ q.json \in {<<>>, <<server>>}
    /\ q.json = <<>> => q.keys # {}

(* A text that the greeting is about to send is that of the server's       *)
(* settings.                                                               *)
Greets(g, server) ==
    /\ g.json \in {<<>>, <<server>>}
    /\ g.pc = "sent" => g.json = <<>>

LimitsInv ==
    ~trouble =>
        /\ limits \in Limits /\ radarServer \in Limits /\ broadcasts \in Seq(Limits)
        /\ DOMAIN greeting = {"pc", "json"} /\ Greets(greeting, radarServer)
        /\ \/ posts = <<>> /\ (greeting.pc = "sent" => Latest = radarServer)
           \/ posts = <<posts[1]>> /\ UnderWay(posts[1], radarServer)

(* The invariant holds when the page is opened: it is yet to be told the   *)
(* server's limits.                                                        *)
LEMMA LimitsInitInv == LimitsInit => LimitsInv
<1> SUFFICES ASSUME LimitsInit PROVE LimitsInv
  OBVIOUS
<1>1. /\ limits \in Limits /\ radarServer \in Limits /\ broadcasts = <<>> /\ posts = <<>>
      /\ greeting = [pc |-> "open", json |-> <<>>]
  BY LimitsAssumption DEF LimitsInit, Limits
<1>2. broadcasts \in Seq(Limits) /\ Greets(greeting, radarServer)
  BY <1>1 DEF Greets
<1> QED
  BY <1>1, <1>2 DEF LimitsInv

(* A button keeps the limits in their range.                               *)
LEMMA ButtonTypes ==
    ASSUME limits \in Limits, NEW up \in BOOLEAN
    PROVE  zoom(up) \in Limits /\ alt(up) \in Limits
<1>1. \A n \in 1..Levels : Step(n, up) \in 1..Levels
  BY LimitsAssumption DEF Step
<1> QED
  BY <1>1 DEF zoom, alt, Limits

(* Every action of the limits keeps the invariant.                         *)
LEMMA LimitsStep == LimitsInv /\ [LimitsNext]_limitsVars => LimitsInv'
<1> SUFFICES ASSUME LimitsInv, [LimitsNext]_limitsVars, ~trouble' PROVE LimitsInv'
  BY DEF LimitsInv
<1>1. ASSUME NEW new \in Limits, communicateLimits(new),
             UNCHANGED <<radarServer, broadcasts, greeting>>
      PROVE  LimitsInv'
  <2>1. ~trouble /\ posts = <<>> /\ limits' = new
    BY <1>1 DEF communicateLimits
  <2> DEFINE q == [set |-> new, keys |-> DOMAIN new, json |-> <<>>]
  <2>2. posts' = <<q>>
    BY <1>1, <2>1 DEF communicateLimits
  <2>3. DOMAIN new = LimitNames
    BY DEF Limits, LimitNames
  <2>4. UnderWay(q, radarServer')
    BY <2>3 DEF UnderWay, LimitNames
  <2> HIDE DEF q
  <2> QED
    BY <1>1, <2>1, <2>2, <2>4 DEF LimitsInv
<1>2. CASE Click
  <2>1. ~trouble
    BY <1>2 DEF Click, communicateLimits
  <2>2. limits \in Limits
    BY <2>1 DEF LimitsInv
  <2>3. PICK up \in BOOLEAN : communicateLimits(zoom(up)) \/ communicateLimits(alt(up))
    BY <1>2 DEF Click
  <2>4. /\ zoom(up) \in Limits /\ alt(up) \in Limits
        /\ UNCHANGED <<radarServer, broadcasts, greeting>>
    BY <1>2, <2>2, ButtonTypes DEF Click
  <2> QED
    BY <1>1, <2>3, <2>4
<1>3. CASE onSettingsMessage
  <2>1. /\ ~trouble /\ broadcasts # <<>> /\ limits' = Head(broadcasts)
        /\ broadcasts' = Tail(broadcasts) /\ UNCHANGED <<radarServer, posts, greeting>>
    BY <1>3 DEF onSettingsMessage
  <2>2. /\ limits \in Limits /\ radarServer \in Limits /\ broadcasts \in Seq(Limits)
    BY <2>1 DEF LimitsInv
  <2>3. /\ Head(broadcasts) \in Limits /\ Tail(broadcasts) \in Seq(Limits)
        /\ Head(broadcasts) = broadcasts[1] /\ Len(broadcasts) \in Nat \ {0}
        /\ Len(Tail(broadcasts)) = Len(broadcasts) - 1
        /\ \A i \in 1..(Len(broadcasts) - 1) : Tail(broadcasts)[i] = broadcasts[i + 1]
    BY <2>1, <2>2, HeadTailProperties, LenProperties, EmptySeq
  <2>4. Latest' = Latest
    <3>1. CASE Len(broadcasts) = 1
      <4>1. \A t \in Seq(Limits) : Len(t) = 0 => t = <<>>
        BY EmptySeq
      <4>2. Len(Tail(broadcasts)) = 0
        BY <2>3, <3>1
      <4>3. Tail(broadcasts) = <<>>
        BY <2>3, <4>1, <4>2, Zenon
      <4> QED
        BY <2>1, <2>3, <3>1, <4>3 DEF Latest
    <3>2. CASE Len(broadcasts) # 1
      <4>1. Len(Tail(broadcasts)) # 0 /\ Len(broadcasts) - 1 \in 1..(Len(broadcasts) - 1)
        BY <2>3, <3>2
      <4>2. Tail(broadcasts) # <<>>
        BY <4>1, EmptySeq, Zenon
      <4> QED
        BY <2>1, <2>3, <4>1, <4>2 DEF Latest
    <3> QED
      BY <3>1, <3>2
  <2> QED
    BY <2>1, <2>2, <2>3, <2>4 DEF LimitsInv, UnderWay
<1>4. ASSUME NEW p \in DOMAIN posts, ~trouble
      PROVE  p = 1 /\ posts = <<posts[1]>> /\ UnderWay(posts[1], radarServer)
  BY <1>4 DEF LimitsInv
<1>5. ASSUME NEW p \in DOMAIN posts, NEW k \in posts[p].keys, SetKey(p, k)
      PROVE  LimitsInv'
  <2>1. /\ ~trouble /\ posts[p].json = <<>> /\ greeting.json = <<>>
        /\ radarServer' = [radarServer EXCEPT ![k] = posts[p].set[k]]
        /\ posts' = [posts EXCEPT ![p].keys = @ \ {k}, ![p].json = <<radarServer'>>]
        /\ UNCHANGED <<limits, broadcasts, greeting>>
    BY <1>5 DEF SetKey
  <2>2. p = 1 /\ posts = <<posts[1]>> /\ UnderWay(posts[1], radarServer)
    BY <1>4, <2>1
  <2> DEFINE q == posts[1]
             n == [q EXCEPT !.keys = @ \ {k}, !.json = <<radarServer'>>]
  <2>3. posts' = <<n>>
    BY <2>1, <2>2
  <2>4. radarServer \in Limits /\ q.set \in Limits /\ k \in LimitNames /\ limits \in Limits
        /\ broadcasts \in Seq(Limits)
    BY <2>1, <2>2 DEF LimitsInv, UnderWay
  <2>5. radarServer' \in Limits
    BY <2>1, <2>2, <2>4 DEF Limits, LimitNames
  <2>6. UnderWay(n, radarServer')
    BY <2>2 DEF UnderWay
  <2>7. DOMAIN greeting' = {"pc", "json"} /\ Greets(greeting', radarServer')
    BY <2>1 DEF LimitsInv, Greets
  <2> HIDE DEF n
  <2> QED
    BY <2>1, <2>3, <2>4, <2>5, <2>6, <2>7 DEF LimitsInv
<1>6. ASSUME NEW p \in DOMAIN posts, SendJSON(p)
      PROVE  LimitsInv'
  <2>1. /\ ~trouble /\ posts[p].json # <<>> /\ broadcasts' = broadcasts \o posts[p].json
        /\ posts' = IF posts[p].keys = {} THEN Without(p) ELSE [posts EXCEPT ![p].json = <<>>]
        /\ UNCHANGED <<limits, radarServer, greeting>>
    BY <1>6 DEF SendJSON
  <2>2. p = 1 /\ posts = <<posts[1]>> /\ UnderWay(posts[1], radarServer)
    BY <1>4, <2>1
  <2>3. /\ limits \in Limits /\ radarServer \in Limits /\ broadcasts \in Seq(Limits)
        /\ posts[1].json = <<radarServer>>
    BY <2>1, <2>2 DEF LimitsInv, UnderWay
  <2>9. DOMAIN greeting' = {"pc", "json"} /\ Greets(greeting', radarServer')
    BY <2>1 DEF LimitsInv, Greets
  <2>4. /\ broadcasts' = Append(broadcasts, radarServer) /\ broadcasts' \in Seq(Limits)
        /\ Len(broadcasts') = Len(broadcasts) + 1 /\ broadcasts'[Len(broadcasts) + 1] = radarServer
        /\ Len(broadcasts) \in Nat
    BY <2>1, <2>2, <2>3, AppendProperties, LenProperties, AppendIsConcat
  <2>5. broadcasts' # <<>>
    BY <2>4, EmptySeq
  <2>6. Latest' = radarServer'
    BY <2>1, <2>4, <2>5 DEF Latest
  <2>7. CASE posts[1].keys = {}
    <3>1. Len(posts) = 1 /\ posts' = Without(1)
      BY <2>1, <2>2, <2>7
    <3>2. Without(1) \in Seq({}) /\ Len(Without(1)) = 0
      BY <3>1 DEF Without
    <3>3. Without(1) = <<>>
      BY <3>2, EmptySeq
    <3> QED
      BY <2>1, <2>3, <2>4, <2>6, <2>9, <3>1, <3>3 DEF LimitsInv
  <2>8. CASE posts[1].keys # {}
    <3> DEFINE n == [posts[1] EXCEPT !.json = <<>>]
    <3>1. posts' = <<n>>
      BY <2>1, <2>2, <2>8
    <3>2. UnderWay(n, radarServer')
      BY <2>1, <2>2, <2>8 DEF UnderWay
    <3> HIDE DEF n
    <3>3. posts' = <<posts'[1]>> /\ UnderWay(posts'[1], radarServer')
      BY <3>1, <3>2
    <3> QED
      BY <2>1, <2>3, <2>4, <2>9, <3>3 DEF LimitsInv
  <2> QED
    BY <2>7, <2>8
<1>7. ASSUME NEW p \in DOMAIN posts, PostFails(p) PROVE LimitsInv'
  BY <1>7 DEF PostFails
<1>8. CASE UNCHANGED limitsVars
  BY <1>8 DEF limitsVars, LimitsInv, Latest, UnderWay, Greets
<1>9. CASE AddSocket
  <2>1. /\ ~trouble /\ greeting.pc = "open" /\ greeting' = [greeting EXCEPT !.pc = "added"]
        /\ UNCHANGED <<limits, radarServer, posts>>
    BY <1>9 DEF AddSocket
  <2>2. /\ limits \in Limits /\ radarServer \in Limits /\ broadcasts \in Seq(Limits)
        /\ DOMAIN greeting = {"pc", "json"} /\ Greets(greeting, radarServer)
    BY <2>1 DEF LimitsInv
  <2>3. PICK n \in 0..Len(broadcasts) : broadcasts' = SubSeq(broadcasts, n + 1, Len(broadcasts))
    BY <1>9 DEF AddSocket
  <2>4. broadcasts' \in Seq(Limits)
    <3>1. Len(broadcasts) \in Nat /\ n + 1 \in 1..(Len(broadcasts) + 1)
      BY <2>2, LenProperties
    <3>2. n + 1 \in Nat /\ \A i \in (n + 1)..Len(broadcasts) : i \in 1..Len(broadcasts)
      BY <3>1
    <3> QED
      BY <2>2, <2>3, <3>1, <3>2, SubSeqProperties
  <2>5. /\ DOMAIN greeting' = {"pc", "json"} /\ Greets(greeting', radarServer')
        /\ greeting'.pc # "sent"
    BY <2>1, <2>2 DEF Greets
  <2> QED
    BY <2>1, <2>2, <2>4, <2>5 DEF LimitsInv, UnderWay
<1>10. CASE GreetingText
  <2>1. /\ ~trouble /\ greeting.pc = "added" /\ greeting' = [greeting EXCEPT !.json = <<radarServer>>]
        /\ UNCHANGED <<limits, radarServer, posts, broadcasts>>
    BY <1>10 DEF GreetingText
  <2>2. /\ limits \in Limits /\ radarServer \in Limits /\ broadcasts \in Seq(Limits)
        /\ DOMAIN greeting = {"pc", "json"}
    BY <2>1 DEF LimitsInv
  <2>3. /\ DOMAIN greeting' = {"pc", "json"} /\ Greets(greeting', radarServer')
        /\ greeting'.pc # "sent"
    BY <2>1, <2>2 DEF Greets
  <2> QED
    BY <2>1, <2>2, <2>3 DEF LimitsInv, UnderWay
<1>11. CASE SendGreeting
  <2>1. /\ ~trouble /\ greeting.json # <<>> /\ greeting' = [pc |-> "sent", json |-> <<>>]
        /\ broadcasts' = broadcasts \o greeting.json
        /\ UNCHANGED <<limits, radarServer, posts>>
    BY <1>11 DEF SendGreeting
  <2>2. /\ limits \in Limits /\ radarServer \in Limits /\ broadcasts \in Seq(Limits)
        /\ greeting.json = <<radarServer>>
    BY <2>1 DEF LimitsInv, Greets
  <2>3. /\ broadcasts' = Append(broadcasts, radarServer) /\ broadcasts' \in Seq(Limits)
        /\ Len(broadcasts') = Len(broadcasts) + 1 /\ broadcasts'[Len(broadcasts) + 1] = radarServer
        /\ Len(broadcasts) \in Nat
    BY <2>1, <2>2, AppendProperties, LenProperties, AppendIsConcat
  <2>4. broadcasts' # <<>>
    BY <2>3, EmptySeq
  <2>5. Latest' = radarServer'
    BY <2>1, <2>3, <2>4 DEF Latest
  <2>6. DOMAIN greeting' = {"pc", "json"} /\ Greets(greeting', radarServer')
    BY <2>1 DEF Greets
  <2> QED
    BY <2>1, <2>2, <2>3, <2>5, <2>6 DEF LimitsInv, UnderWay
<1> QED
  BY <1>2, <1>3, <1>5, <1>6, <1>7, <1>8, <1>9, <1>10, <1>11 DEF LimitsNext

-------------------------------------------------------------------------------
(* The page Settings.                                                      *)

Vals == Values \cup {Unset}

(* What the server can have: every toggle has a value.                     *)
Complete == {g \in [Keys -> Vals] : \A t \in Toggles : g[t] # Unset}

Bodies == {b \in UNION {[K -> Vals] : K \in SUBSET Keys} :
              \A t \in Toggles \cap DOMAIN b : b[t] # Unset}

Answers == {<<>>} \cup {<<g>> : g \in Complete}

Requests == [body : Bodies, answer : Answers]

SettingsTypeOK ==
    /\ globalSettings \in Complete
    /\ scope \in [Keys -> Vals] /\ settings \in [Keys -> Vals]
    /\ requests \in Seq(Requests)
    /\ sent \in Nat

(* What the page believes of a toggle is nothing, or what it shows.        *)
Believed == ~failed => \A t \in Toggles : settings[t] \in {Unset, scope[t]}

(* The only request under way has the server's settings, once answered.    *)
OneAtATime ==
    ~failed /\ ~overlapped =>
        \/ /\ requests = <<>>
           /\ \A t \in Toggles : scope[t] = globalSettings[t] /\ settings[t] = globalSettings[t]
        \/ /\ requests = <<requests[1]>>
           /\ requests[1].answer \in {<<>>, <<globalSettings>>}

SettingsInv == SettingsTypeOK /\ Believed /\ OneAtATime

(* A request of some keys of the form, or of none.                         *)
LEMMA RequestTypes ==
    /\ Get \in Requests
    /\ \A b \in Bodies : Request(b) \in Requests
<1>1. <<>> \in Seq(Vals) /\ Len(<<>>) = 0
  BY EmptySeq
<1>2. <<>> \in [1..0 -> Vals]
  BY <1>1, LenProperties
<1>3. <<>> \in [{} -> Vals]
  BY <1>2
<1>4. <<>> \in Bodies
  BY <1>3 DEF Bodies
<1>5. \A b \in Bodies : Request(b) \in Requests
  BY DEF Request, Requests, Answers
<1> QED
  BY <1>4, <1>5 DEF Get

(* What is left when a request is done with.                               *)
LEMMA RemoveAtProperties ==
    ASSUME NEW S, NEW s \in Seq(S), NEW i \in 1..Len(s)
    PROVE  RemoveAt(s, i) \in Seq(S) /\ Len(RemoveAt(s, i)) = Len(s) - 1
<1>1. Len(s) \in Nat /\ \A j \in 1..Len(s) : s[j] \in S
  BY LenProperties
<1> DEFINE a == SubSeq(s, 1, i - 1)
           b == SubSeq(s, i + 1, Len(s))
<1>2. a \in Seq(S) /\ Len(a) = i - 1
  <2>1. \A j \in 1..(i - 1) : s[j] \in S
    BY <1>1
  <2>2. i - 1 \in Int /\ 1 \in Int
    BY <1>1
  <2> QED
    BY <1>1, <2>1, <2>2, SubSeqProperties
<1>3. b \in Seq(S) /\ Len(b) = Len(s) - i
  <2>1. \A j \in (i + 1)..Len(s) : s[j] \in S
    BY <1>1
  <2>2. i + 1 \in Int /\ Len(s) \in Int
    BY <1>1
  <2> QED
    BY <1>1, <2>1, <2>2, SubSeqProperties
<1> HIDE DEF a, b
<1>4. a \o b \in Seq(S) /\ Len(a \o b) = Len(a) + Len(b)
  BY <1>2, <1>3, ConcatProperties
<1>5. Len(a) + Len(b) = Len(s) - 1
  BY <1>1, <1>2, <1>3
<1> QED
  BY <1>4, <1>5 DEF RemoveAt, a, b

LEMMA SettingsInitInv == SettingsInit => SettingsInv
<1> SUFFICES ASSUME SettingsInit PROVE SettingsInv
  OBVIOUS
<1>0. globalSettings \in [Keys -> Values]
  BY DEF SettingsInit
<1>1. /\ requests = <<Get>> /\ sent \in Nat
      /\ scope = [k \in Keys |-> Unset] /\ settings = [k \in Keys |-> Unset]
  BY DEF SettingsInit
<1>4. globalSettings \in Complete
  BY <1>0 DEF Complete, Vals, Values, Unset, Keys
<1>2. requests \in Seq(Requests)
  BY <1>1, RequestTypes
<1>3. requests[1].answer = <<>> /\ requests = <<requests[1]>>
  BY <1>1 DEF Get, Request
<1> QED
  BY <1>1, <1>2, <1>3, <1>4 DEF SettingsInv, SettingsTypeOK, Believed, OneAtATime, Vals, Keys

(* What Send leaves.                                                       *)
LEMMA SendTypes ==
    ASSUME NEW S, NEW old \in Seq(S), NEW new \in Seq(S), sent \in Nat, Send(old, new)
    PROVE  /\ requests' = old \o new /\ requests' \in Seq(S) /\ sent' \in Nat
           /\ Len(requests') = Len(old) + Len(new) /\ Len(old) \in Nat /\ Len(new) \in Nat
           /\ sent' = sent + Len(new)
           /\ \A j \in 1..Len(old) : requests'[j] = old[j]
           /\ \A j \in 1..Len(new) : requests'[Len(old) + j] = new[j]
           /\ ~overlapped' => ~overlapped /\ Len(old) + Len(new) <= 1
<1>1. Len(old) \in Nat /\ Len(new) \in Nat
  BY LenProperties
<1>2. /\ old \o new \in Seq(S) /\ Len(old \o new) = Len(old) + Len(new)
      /\ \A j \in 1..(Len(old) + Len(new)) : (old \o new)[j] =
            IF j <= Len(old) THEN old[j] ELSE new[j - Len(old)]
  BY ConcatProperties
<1>3. requests' = old \o new /\ sent' = sent + Len(new)
  BY DEF Send
<1>4. ~overlapped' => ~overlapped /\ ~(Len(old) + Len(new) > 1)
  BY DEF Send
<1>5. /\ \A j \in 1..Len(old) : (old \o new)[j] = old[j]
      /\ \A j \in 1..Len(new) : (old \o new)[Len(old) + j] = new[j]
  BY <1>1, <1>2
<1> HIDE DEF Send
<1> QED
  BY <1>1, <1>2, <1>3, <1>4, <1>5

(* The listener of the toggles, on a form sc and settings st that it finds *)
(* after a change: the form is kept, and the toggles it sends have values. *)
LEMMA DigestTypes ==
    ASSUME SettingsTypeOK, NEW sc \in [Keys -> Vals], NEW st \in [Keys -> Vals],
           NEW old \in Seq(Requests), Digest(sc, st, old)
    PROVE  /\ scope' = sc /\ settings' \in [Keys -> Vals]
           /\ requests' \in Seq(Requests) /\ sent' \in Nat
<1> DEFINE dirty == IF \E t \in Toggles : sc[t] /= scope[t] THEN Dirty(sc, st) ELSE {}
           q == Request([t \in dirty |-> sc[t]])
           new == IF dirty = {} THEN <<>> ELSE <<q>>
<1>1. /\ scope' = sc /\ settings' = [k \in Keys |-> IF k \in dirty THEN sc[k] ELSE st[k]]
      /\ Send(old, new)
  BY DEF Digest
<1>2. dirty \subseteq Keys /\ \A t \in dirty : sc[t] # Unset /\ sc[t] \in Vals
  BY DEF Dirty, Keys
<1> HIDE DEF dirty
<1>3. [t \in dirty |-> sc[t]] \in Bodies
  <2>1. [t \in dirty |-> sc[t]] \in [dirty -> Vals]
    BY <1>2
  <2> QED
    BY <1>2, <2>1 DEF Bodies
<1>4. q \in Requests
  BY <1>3, RequestTypes
<1> HIDE DEF q
<1>5. new \in Seq(Requests)
  BY <1>4
<1>6. settings' \in [Keys -> Vals]
  BY <1>1
<1> HIDE DEF new
<1>7. sent \in Nat
  BY DEF SettingsTypeOK
<1>8. requests' \in Seq(Requests) /\ sent' \in Nat
  BY <1>1, <1>5, <1>7, SendTypes
<1> QED
  BY <1>1, <1>6, <1>8

(* ... of an answer: nothing is sent.                                      *)
LEMMA DigestAnswer ==
    ASSUME SettingsTypeOK, NEW data \in [Keys -> Vals],
           NEW old \in Seq(Requests), Digest(data, data, old)
    PROVE  scope' = data /\ settings' = data /\ requests' = old /\ sent' = sent
<1>1. Dirty(data, data) = {}
  BY DEF Dirty
<1>2. /\ scope' = data /\ settings' = [k \in Keys |-> data[k]] /\ Send(old, <<>>)
  BY <1>1 DEF Digest
<1>3. <<>> \in Seq(Requests) /\ Len(<<>>) = 0
  BY EmptySeq
<1>4. requests' = old \o <<>> /\ sent' = sent + 0
  BY <1>2, <1>3 DEF Send
<1>5. old \o <<>> = old
  BY ConcatEmptySeq
<1> QED
  BY <1>2, <1>4, <1>5 DEF SettingsTypeOK

(* ... of a toggle: it alone is sent, and whenever the server is believed  *)
(* to have something else.                                                 *)
LEMMA DigestToggle ==
    ASSUME SettingsTypeOK, NEW t \in Toggles, Toggle(t)
    PROVE  LET sc == [scope EXCEPT ![t] = IF @ = "on" THEN "off" ELSE "on"] IN
           /\ sc \in [Keys -> Vals] /\ sc[t] # scope[t] /\ sc[t] # Unset
           /\ \A u \in Toggles \ {t} : sc[u] = scope[u]
           /\ scope' = sc
           /\ settings' = [k \in Keys |-> IF k \in Dirty(sc, settings) THEN sc[k] ELSE settings[k]]
           /\ Send(requests, IF Dirty(sc, settings) = {} THEN <<>>
                             ELSE <<Request([d \in Dirty(sc, settings) |-> sc[d]])>>)
<1> DEFINE sc == [scope EXCEPT ![t] = IF @ = "on" THEN "off" ELSE "on"]
<1>1. sc \in [Keys -> Vals] /\ sc[t] # scope[t] /\ sc[t] # Unset
  BY DEF SettingsTypeOK, Keys, Vals, Values, Unset
<1>2. \A u \in Toggles \ {t} : sc[u] = scope[u]
  BY DEF SettingsTypeOK, Keys
<1>3. Digest(sc, settings, requests)
  BY DEF Toggle
<1> HIDE DEF sc
<1>4. \E u \in Toggles : sc[u] /= scope[u]
  BY <1>1
<1>5. /\ scope' = sc
      /\ settings' = [k \in Keys |-> IF k \in Dirty(sc, settings) THEN sc[k] ELSE settings[k]]
      /\ Send(requests, IF Dirty(sc, settings) = {} THEN <<>>
                        ELSE <<Request([d \in Dirty(sc, settings) |-> sc[d]])>>)
  BY <1>3, <1>4 DEF Digest
<1> QED
  BY <1>1, <1>2, <1>5 DEF sc

(* ... which the page has shown to be true so far.                         *)
LEMMA DirtyToggle ==
    ASSUME SettingsTypeOK, Believed, ~failed, NEW t \in Toggles, NEW sc,
           sc[t] # scope[t], sc[t] # Unset, \A u \in Toggles \ {t} : sc[u] = scope[u]
    PROVE  Dirty(sc, settings) = IF settings[t] = Unset THEN {} ELSE {t}
BY DEF Dirty, Believed


(* What the actions of the page that send do, the toggles aside.           *)
LEMMA SendStep ==
    ASSUME SettingsInv, NEW new \in Seq(Requests), Send(requests, new),
           new # <<>>, \A j \in DOMAIN new : new[j].answer = <<>>,
           settings' \in [Keys -> Vals], \A t \in Toggles : settings'[t] = settings[t],
           UNCHANGED <<globalSettings, scope, failed>>
    PROVE  SettingsInv'
<1>1. /\ requests' \in Seq(Requests) /\ sent' \in Nat
      /\ Len(requests') = Len(requests) + Len(new) /\ Len(requests) \in Nat /\ Len(new) \in Nat
      /\ \A j \in 1..Len(new) : requests'[Len(requests) + j] = new[j]
      /\ ~overlapped' => ~overlapped /\ Len(requests) + Len(new) <= 1
  <2>1. requests \in Seq(Requests) /\ sent \in Nat
    BY DEF SettingsInv, SettingsTypeOK
  <2> QED
    BY <2>1, SendTypes
<1>2. SettingsTypeOK'
  BY <1>1 DEF SettingsInv, SettingsTypeOK
<1>3. Believed'
  BY DEF SettingsInv, Believed
<1>4. ASSUME ~overlapped'
      PROVE  requests' = <<requests'[1]>> /\ requests'[1].answer = <<>>
  <2>0. Len(requests) + Len(new) <= 1
    BY <1>1, <1>4, Zenon
  <2>3. Len(new) \in Nat \ {0} /\ DOMAIN new = 1..Len(new)
    BY EmptySeq, LenProperties
  <2>1. Len(requests) = 0 /\ Len(new) = 1 /\ Len(requests') = 1
    BY <1>1, <2>0, <2>3
  <2>2. requests'[1].answer = <<>>
    BY <1>1, <2>1, <2>3
  <2> QED
    BY <1>1, <2>1, <2>2
<1> QED
  BY <1>2, <1>3, <1>4 DEF SettingsInv, OneAtATime

(* The buttons of the form send something, as yet unanswered, and leave    *)
(* the toggles alone.                                                      *)
LEMMA FieldsSend ==
    ASSUME SettingsTypeOK,
           \/ getSettings \/ updateWiFi \/ updateOgnTrackerConfig
           \/ \E f \in Fields : updateAlways(f) \/ updateChanged(f)
    PROVE  \E new \in Seq(Requests) :
              /\ Send(requests, new)
              /\ new # <<>> /\ \A j \in DOMAIN new : new[j].answer = <<>>
              /\ settings' \in [Keys -> Vals] /\ \A t \in Toggles : settings'[t] = settings[t]
              /\ UNCHANGED <<globalSettings, scope, failed>>
<1> DEFINE Sends(new) ==
              /\ Send(requests, new)
              /\ new # <<>> /\ \A j \in DOMAIN new : new[j].answer = <<>>
              /\ settings' \in [Keys -> Vals] /\ \A t \in Toggles : settings'[t] = settings[t]
              /\ UNCHANGED <<globalSettings, scope, failed>>
           Goal == \E new \in Seq(Requests) : Sends(new)
<1> SUFFICES Goal
  OBVIOUS
<1>0. /\ scope \in [Keys -> Vals] /\ settings \in [Keys -> Vals]
  BY DEF SettingsTypeOK
<1>1. ASSUME NEW fs, fs \subseteq Fields
      PROVE  /\ Request([k \in fs |-> scope[k]]) \in Requests
             /\ Request([k \in fs |-> scope[k]]).answer = <<>>
  <2>1. [k \in fs |-> scope[k]] \in [fs -> Vals] /\ fs \subseteq Keys /\ fs \cap Toggles = {}
    BY <1>0, <1>1, SettingsAssumption DEF Keys
  <2>2. [k \in fs |-> scope[k]] \in Bodies
    BY <2>1 DEF Bodies
  <2> QED
    BY <2>2, RequestTypes DEF Request
<1>2. Get \in Requests /\ Get.answer = <<>>
  BY RequestTypes DEF Get, Request
<1>4. CASE getSettings
  <2> DEFINE new == <<Get>>
  <2>1. Send(requests, new) /\ UNCHANGED <<globalSettings, scope, settings, failed>>
    BY <1>4 DEF getSettings
  <2>2. new \in Seq(Requests) /\ new # <<>> /\ \A j \in DOMAIN new : new[j].answer = <<>>
    BY <1>2
  <2> HIDE DEF new
  <2> QED
    BY <1>0, <2>1, <2>2
<1>5. ASSUME NEW fs, fs \subseteq Fields, setSettings(fs)
      PROVE  Goal
  <2> DEFINE q == Request([k \in fs |-> scope[k]])
             new == <<q>>
  <2>1. q \in Requests /\ q.answer = <<>>
    BY <1>1, <1>5
  <2>2. Send(requests, new) /\ UNCHANGED <<globalSettings, scope, failed>>
    BY <1>5 DEF setSettings
  <2>3. settings' = [k \in Keys |-> IF k \in fs THEN scope[k] ELSE settings[k]]
    BY <1>5 DEF setSettings
  <2>4. settings' \in [Keys -> Vals] /\ \A t \in Toggles : settings'[t] = settings[t]
    BY <1>0, <1>5, <2>3, SettingsAssumption DEF Keys
  <2> HIDE DEF q
  <2>5. new \in Seq(Requests) /\ new # <<>> /\ \A j \in DOMAIN new : new[j].answer = <<>>
    BY <2>1
  <2> HIDE DEF new
  <2> QED
    BY <2>2, <2>4, <2>5
<1>6. ASSUME NEW f \in Fields, updateAlways(f) \/ updateChanged(f)
      PROVE  Goal
  BY <1>5, <1>6 DEF updateAlways, updateChanged
<1>7. CASE updateWiFi
  <2> DEFINE q == Request([f \in Fields |-> scope[f]])
             new == <<q>>
  <2>1. q \in Requests /\ q.answer = <<>>
    BY <1>1
  <2>2. Send(requests, new) /\ UNCHANGED <<globalSettings, scope, settings, failed>>
    BY <1>7 DEF updateWiFi
  <2> HIDE DEF q
  <2>5. new \in Seq(Requests) /\ new # <<>> /\ \A j \in DOMAIN new : new[j].answer = <<>>
    BY <2>1
  <2> HIDE DEF new
  <2> QED
    BY <1>0, <2>2, <2>5
<1>8. CASE updateOgnTrackerConfig
  <2> DEFINE q == Request([f \in Fields |-> scope[f]])
             new == <<q, Get>>
  <2>1. q \in Requests /\ q.answer = <<>>
    BY <1>1
  <2>2. Send(requests, new) /\ UNCHANGED <<globalSettings, scope, settings, failed>>
    BY <1>8 DEF updateOgnTrackerConfig
  <2> HIDE DEF q
  <2>5. new \in Seq(Requests) /\ new # <<>> /\ \A j \in DOMAIN new : new[j].answer = <<>>
    BY <1>2, <2>1
  <2> HIDE DEF new
  <2> QED
    BY <1>0, <2>2, <2>5
<1> QED
  BY <1>4, <1>6, <1>7, <1>8

LEMMA FieldsStep ==
    ASSUME SettingsInv,
           \/ getSettings \/ updateWiFi \/ updateOgnTrackerConfig
           \/ \E f \in Fields : updateAlways(f) \/ updateChanged(f)
    PROVE  SettingsInv'
<1>1. SettingsTypeOK
  BY DEF SettingsInv
<1>2. PICK new \in Seq(Requests) :
          /\ Send(requests, new)
          /\ new # <<>> /\ \A j \in DOMAIN new : new[j].answer = <<>>
          /\ settings' \in [Keys -> Vals] /\ \A t \in Toggles : settings'[t] = settings[t]
          /\ UNCHANGED <<globalSettings, scope, failed>>
  BY <1>1, FieldsSend
<1> QED
  BY <1>2, SendStep

LEMMA ToggleStep ==
    ASSUME SettingsInv, NEW t \in Toggles, Toggle(t)
    PROVE  SettingsInv'
<1> DEFINE sc == [scope EXCEPT ![t] = IF @ = "on" THEN "off" ELSE "on"]
           dirty == Dirty(sc, settings)
           q == Request([d \in dirty |-> sc[d]])
<1>0. SettingsTypeOK /\ Believed /\ OneAtATime
  BY DEF SettingsInv
<1>1. /\ sc \in [Keys -> Vals] /\ sc[t] # scope[t] /\ sc[t] # Unset
      /\ \A u \in Toggles \ {t} : sc[u] = scope[u]
      /\ scope' = sc
      /\ settings' = [k \in Keys |-> IF k \in dirty THEN sc[k] ELSE settings[k]]
      /\ Send(requests, IF dirty = {} THEN <<>> ELSE <<q>>)
  BY <1>0, DigestToggle
<1>2. UNCHANGED <<globalSettings, failed>>
  BY DEF Toggle
<1>3. Digest(sc, settings, requests)
  BY DEF Toggle
<1>4. q.answer = <<>>
  BY DEF Request
<1>q. dirty # {} => q \in Requests
  <2>1. dirty \subseteq Keys /\ \A d \in dirty : sc[d] # Unset /\ sc[d] \in Vals
    BY <1>1 DEF Dirty, Keys
  <2>2. [d \in dirty |-> sc[d]] \in [dirty -> Vals]
    BY <2>1
  <2>3. [d \in dirty |-> sc[d]] \in Bodies
    BY <2>1, <2>2 DEF Bodies
  <2> QED
    BY <2>3, RequestTypes
<1> HIDE DEF sc
<1>5. /\ requests \in Seq(Requests) /\ sent \in Nat
      /\ settings \in [Keys -> Vals]
  BY <1>0 DEF SettingsTypeOK
<1>6. /\ settings' \in [Keys -> Vals]
      /\ requests' \in Seq(Requests) /\ sent' \in Nat
  BY <1>0, <1>1, <1>3, <1>5, DigestTypes
<1>7. SettingsTypeOK'
  BY <1>0, <1>1, <1>2, <1>6 DEF SettingsTypeOK
<1>8. ~failed => dirty = IF settings[t] = Unset THEN {} ELSE {t}
  BY <1>0, <1>1, DirtyToggle
<1> HIDE DEF dirty, q
<1>9. Believed'
  <2> SUFFICES ASSUME ~failed, NEW u \in Toggles PROVE settings'[u] \in {Unset, scope'[u]}
    BY <1>2 DEF Believed
  <2>1. u \in Keys /\ settings[u] \in {Unset, scope[u]}
    BY <1>0 DEF Keys, Believed
  <2>2. settings'[u] = IF u \in dirty THEN sc[u] ELSE settings[u]
    BY <1>1, <2>1
  <2> QED
    BY <1>1, <1>8, <2>1, <2>2
<1>10. ASSUME ~failed', ~overlapped'
       PROVE  requests' = <<requests'[1]>> /\ requests'[1].answer \in {<<>>, <<globalSettings'>>}
  <2>1. CASE dirty = {}
    <3>1. Send(requests, <<>>)
      BY <1>1, <2>1
    <3>2. requests' = requests /\ ~overlapped
      BY <1>5, <1>10, <3>1, EmptySeq, ConcatEmptySeq DEF Send
    <3>3. settings[t] = Unset
      BY <1>2, <1>8, <1>10, <2>1
    <3>4. requests # <<>>
      BY <1>0, <1>2, <1>10, <3>2, <3>3 DEF OneAtATime, SettingsTypeOK, Complete
    <3> QED
      BY <1>0, <1>2, <1>10, <3>2, <3>4 DEF OneAtATime
  <2>2. CASE dirty # {}
    <3>1. Send(requests, <<q>>) /\ q \in Requests
      BY <1>1, <1>q, <2>2
    <3>2. <<q>> \in Seq(Requests) /\ Len(<<q>>) = 1 /\ <<q>>[1] = q
      BY <3>1
    <3> DEFINE new == <<q>>
    <3>5. Send(requests, new) /\ new \in Seq(Requests) /\ Len(new) = 1 /\ new[1] = q
      BY <3>1, <3>2
    <3> HIDE DEF new
    <3>6. /\ Len(requests') = Len(requests) + Len(new) /\ Len(requests) \in Nat
          /\ \A j \in 1..Len(new) : requests'[Len(requests) + j] = new[j]
          /\ ~overlapped' => ~overlapped /\ Len(requests) + Len(new) <= 1
      BY <1>5, <3>5, SendTypes
    <3>7. Len(requests) + Len(new) <= 1
      BY <1>10, <3>6, Zenon
    <3>3. /\ Len(requests') = Len(requests) + 1 /\ Len(requests) \in Nat
          /\ requests'[Len(requests) + 1] = q /\ Len(requests) + 1 <= 1
      BY <3>5, <3>6, <3>7
    <3>4. Len(requests') = 1 /\ requests'[1] = q
      BY <3>3
    <3> QED
      BY <1>4, <1>6, <3>4
  <2> QED
    BY <2>1, <2>2
<1> QED
  BY <1>7, <1>9, <1>10 DEF SettingsInv, OneAtATime


LEMMA EditStep ==
    ASSUME SettingsInv, NEW f \in Fields, Edit(f)
    PROVE  SettingsInv'
<1>1. PICK v \in Values : scope' = [scope EXCEPT ![f] = v]
  BY DEF Edit
<1>2. UNCHANGED <<globalSettings, settings, requests, sent, failed, overlapped>>
  BY DEF Edit
<1>3. scope \in [Keys -> Vals] /\ v \in Vals /\ f \notin Toggles
  BY SettingsAssumption DEF SettingsInv, SettingsTypeOK, Vals
<1>4. scope' \in [Keys -> Vals] /\ \A t \in Toggles : scope'[t] = scope[t]
  BY <1>1, <1>3 DEF Keys
<1> QED
  BY <1>2, <1>4 DEF SettingsInv, SettingsTypeOK, Believed, OneAtATime

(* The server answers with what it has then.                               *)
LEMMA HandleStep ==
    ASSUME SettingsInv, NEW i \in DOMAIN requests, handleSettings(i)
    PROVE  SettingsInv'
<1> DEFINE body == requests[i].body
           new == [k \in Keys |-> IF k \in DOMAIN body THEN body[k] ELSE globalSettings[k]]
<1>0. SettingsTypeOK /\ Believed /\ OneAtATime
  BY DEF SettingsInv
<1>1. /\ globalSettings' = new /\ requests' = [requests EXCEPT ![i].answer = <<new>>]
      /\ requests[i].answer = <<>> /\ UNCHANGED <<scope, settings, sent, failed, overlapped>>
  BY DEF handleSettings
<1>2. requests \in Seq(Requests) /\ requests[i] \in Requests
  BY <1>0, LenProperties DEF SettingsTypeOK
<1>3. new \in Complete
  <2>1. body \in Bodies /\ globalSettings \in Complete
    BY <1>0, <1>2 DEF Requests, SettingsTypeOK
  <2>2. PICK K \in SUBSET Keys : body \in [K -> Vals]
    BY <2>1 DEF Bodies
  <2>3. /\ \A k \in DOMAIN body : body[k] \in Vals
        /\ \A t \in Toggles : t \in DOMAIN body => body[t] # Unset
    BY <2>1, <2>2 DEF Bodies
  <2> HIDE DEF body
  <2>4. new \in [Keys -> Vals]
    BY <2>1, <2>3 DEF Complete
  <2>5. \A t \in Toggles : new[t] # Unset
    BY <2>1, <2>3 DEF Complete, Keys
  <2> HIDE DEF new
  <2> QED
    BY <2>4, <2>5 DEF Complete
<1> HIDE DEF new, body
<1>4. <<new>> \in Answers
  BY <1>3 DEF Answers
<1>5. [requests[i] EXCEPT !.answer = <<new>>] \in Requests
  BY <1>2, <1>4 DEF Requests
<1>6. requests' = [requests EXCEPT ![i] = [requests[i] EXCEPT !.answer = <<new>>]]
  BY <1>1
<1>7. requests' \in Seq(Requests)
  BY <1>2, <1>5, <1>6
<1>8. SettingsTypeOK' /\ Believed'
  BY <1>0, <1>1, <1>3, <1>7 DEF SettingsTypeOK, Believed
<1>9. ASSUME ~failed, ~overlapped
      PROVE  requests' = <<requests'[1]>> /\ requests'[1].answer = <<globalSettings'>>
  <2>1. requests = <<requests[1]>>
    BY <1>0, <1>9 DEF OneAtATime
  <2>2. i = 1
    BY <2>1
  <2>3. requests' = <<[requests[1] EXCEPT !.answer = <<new>>]>>
    BY <1>6, <2>1, <2>2
  <2>4. [requests[1] EXCEPT !.answer = <<new>>].answer = <<new>>
    BY <1>2, <2>2 DEF Requests
  <2> QED
    BY <1>1, <2>3, <2>4
<1> QED
  BY <1>1, <1>8, <1>9 DEF SettingsInv, OneAtATime

(* An answer is shown and believed.                                        *)
LEMMA LoadFacts ==
    ASSUME SettingsTypeOK, NEW i \in DOMAIN requests, loadSettings(i)
    PROVE  LET data == requests[i].answer[1] IN
           /\ requests[i].answer # <<>> /\ data \in Complete
           /\ scope' = data /\ settings' = data
           /\ requests' = RemoveAt(requests, i) /\ requests' \in Seq(Requests)
           /\ sent' = sent /\ UNCHANGED <<globalSettings, failed>>
           /\ Len(requests') = Len(requests) - 1
<1> DEFINE data == requests[i].answer[1]
<1>1. /\ requests[i].answer # <<>> /\ Digest(data, data, RemoveAt(requests, i))
      /\ UNCHANGED <<globalSettings, failed>>
  BY DEF loadSettings
<1>2. requests \in Seq(Requests) /\ requests[i] \in Requests /\ i \in 1..Len(requests)
  BY LenProperties DEF SettingsTypeOK
<1>3. data \in Complete /\ data \in [Keys -> Vals]
  <2>1. requests[i].answer \in Answers
    BY <1>2 DEF Requests
  <2>2. PICK g \in Complete : requests[i].answer = <<g>>
    BY <1>1, <2>1 DEF Answers
  <2>3. data = g
    BY <2>2
  <2> QED
    BY <2>3 DEF Complete
<1>4. /\ RemoveAt(requests, i) \in Seq(Requests)
      /\ Len(RemoveAt(requests, i)) = Len(requests) - 1
  BY <1>2, RemoveAtProperties
<1> HIDE DEF data
<1>5. scope' = data /\ settings' = data /\ requests' = RemoveAt(requests, i) /\ sent' = sent
  BY <1>1, <1>3, <1>4, DigestAnswer
<1> QED
  BY <1>1, <1>3, <1>4, <1>5 DEF data

LEMMA LoadStep ==
    ASSUME SettingsInv, NEW i \in DOMAIN requests, loadSettings(i)
    PROVE  SettingsInv'
<1> DEFINE data == requests[i].answer[1]
<1>0. SettingsTypeOK /\ Believed /\ OneAtATime
  BY DEF SettingsInv
<1>1. /\ requests[i].answer # <<>> /\ data \in Complete
      /\ scope' = data /\ settings' = data
      /\ requests' \in Seq(Requests)
      /\ sent' = sent /\ UNCHANGED <<globalSettings, failed>>
      /\ Len(requests') = Len(requests) - 1
  BY <1>0, LoadFacts
<1>2. ~overlapped' => ~overlapped
  BY DEF loadSettings, Digest, Send
<1>3. SettingsTypeOK' /\ Believed'
  BY <1>0, <1>1 DEF SettingsTypeOK, Believed, Complete
<1>4. ASSUME ~failed, ~overlapped
      PROVE  requests' = <<>> /\ data = globalSettings
  <2>1. requests = <<requests[1]>> /\ requests[1].answer \in {<<>>, <<globalSettings>>}
    BY <1>0, <1>4 DEF OneAtATime
  <2>2. i = 1 /\ Len(requests) = 1
    BY <2>1
  <2>3. data = globalSettings
    BY <1>1, <2>1, <2>2
  <2>4. Len(requests') = 0
    BY <1>1, <2>2
  <2>5. requests' = <<>>
    BY <1>1, <2>4, EmptySeq
  <2> QED
    BY <2>3, <2>5
<1>5. OneAtATime'
  BY <1>1, <1>2, <1>4 DEF OneAtATime
<1> QED
  BY <1>3, <1>5 DEF SettingsInv

LEMMA SettingsStep == SettingsInv /\ [SettingsNext]_settingsVars => SettingsInv'
<1> SUFFICES ASSUME SettingsInv, [SettingsNext]_settingsVars PROVE SettingsInv'
  OBVIOUS
<1>1. ASSUME NEW i \in DOMAIN requests, RequestFails(i) PROVE SettingsInv'
  <2>1. /\ requests' = RemoveAt(requests, i) /\ UNCHANGED <<globalSettings, scope, sent>>
        /\ settings' = [k \in Keys |-> IF k \in Toggles THEN "off" ELSE settings[k]]
    BY <1>1 DEF RequestFails
  <2>2. failed' = TRUE
    BY <1>1 DEF RequestFails
  <2>3. requests \in Seq(Requests) /\ i \in 1..Len(requests) /\ settings \in [Keys -> Vals]
    BY LenProperties DEF SettingsInv, SettingsTypeOK
  <2>4. requests' \in Seq(Requests)
    BY <2>1, <2>3, RemoveAtProperties
  <2>5. settings' \in [Keys -> Vals]
    BY <2>1, <2>3 DEF Vals, Values
  <2> QED
    BY <2>1, <2>2, <2>4, <2>5 DEF SettingsInv, SettingsTypeOK, Believed, OneAtATime
<1>2. CASE UNCHANGED settingsVars
  BY <1>2 DEF settingsVars, SettingsInv, SettingsTypeOK, Believed, OneAtATime
<1> QED
  BY <1>1, <1>2, FieldsStep, ToggleStep, EditStep, HandleStep, LoadStep DEF SettingsNext

(* A step that sends extends the queue of requests, and a toggle of the    *)
(* form that changed is all that is sent.                                  *)
UserSends ==
    sent' > sent =>
        /\ IsPrefix(requests, requests')
        /\ \A t \in Toggles : ~failed /\ scope'[t] /= scope[t] =>
              DOMAIN Last(requests').body = {t}

LEMMA SendIsPrefix ==
    ASSUME SettingsTypeOK, NEW new \in Seq(Requests), Send(requests, new)
    PROVE  IsPrefix(requests, requests')
<1>1. requests \in Seq(Requests) /\ sent \in Nat
  BY DEF SettingsTypeOK
<1>2. /\ requests' \in Seq(Requests) /\ Len(requests') = Len(requests) + Len(new)
      /\ Len(requests) \in Nat /\ Len(new) \in Nat
      /\ \A j \in 1..Len(requests) : requests'[j] = requests[j]
  BY <1>1, SendTypes
<1> DEFINE n == Len(requests)
           a == SubSeq(requests, 1, n)
           b == SubSeq(requests', 1, n)
<1>3. \A j \in 1..n : requests[j] \in Requests /\ requests'[j] \in Requests
  BY <1>1, <1>2, LenProperties
<1>4. n \in Int /\ 1 \in Int /\ n - 1 + 1 = n
  BY <1>2
<1> HIDE DEF n
<1>5. a \in Seq(Requests) /\ b \in Seq(Requests)
  BY <1>3, <1>4, SubSeqProperties
<1>6. Len(a) = Len(b)
  BY <1>3, <1>4, SubSeqProperties
<1>7. \A j \in 1..(n - 1 + 1) : a[j] = requests[1 + j - 1] /\ b[j] = requests'[1 + j - 1]
  BY <1>3, <1>4, SubSeqProperties
<1>8. Len(a) = n
  <2>1. Len(a) = IF 1 <= n THEN n - 1 + 1 ELSE 0
    BY <1>3, <1>4, SubSeqProperties
  <2> QED
    BY <1>2, <2>1 DEF n
<1>9. \A j \in 1..Len(a) : a[j] = b[j]
  BY <1>2, <1>4, <1>7, <1>8 DEF n
<1> HIDE DEF a, b
<1>10. a = b
  BY <1>5, <1>6, <1>9, SeqEqual
<1>11. Len(requests) <= Len(requests')
  BY <1>2
<1> QED
  BY <1>10, <1>11 DEF IsPrefix, a, b, n


LEMMA SettingsSends == SettingsInv /\ [SettingsNext]_settingsVars => UserSends
<1> SUFFICES ASSUME SettingsInv, [SettingsNext]_settingsVars, sent' > sent PROVE UserSends
  BY DEF UserSends
<1>0. SettingsTypeOK /\ Believed /\ sent \in Nat /\ requests \in Seq(Requests)
  BY DEF SettingsInv, SettingsTypeOK
<1>1. sent' # sent
  BY <1>0
<1>2. CASE \/ getSettings \/ updateWiFi \/ updateOgnTrackerConfig
           \/ \E f \in Fields : updateAlways(f) \/ updateChanged(f)
  <2>1. PICK new \in Seq(Requests) : Send(requests, new) /\ scope' = scope
    BY <1>0, <1>2, FieldsSend
  <2>2. IsPrefix(requests, requests')
    BY <1>0, <2>1, SendIsPrefix
  <2> QED
    BY <2>1, <2>2 DEF UserSends
<1>3. ASSUME NEW t \in Toggles, Toggle(t) PROVE UserSends
  <2> DEFINE sc == [scope EXCEPT ![t] = IF @ = "on" THEN "off" ELSE "on"]
             dirty == Dirty(sc, settings)
             q == Request([d \in dirty |-> sc[d]])
  <2>1. /\ sc \in [Keys -> Vals] /\ sc[t] # scope[t] /\ sc[t] # Unset
        /\ \A u \in Toggles \ {t} : sc[u] = scope[u]
        /\ scope' = sc
        /\ Send(requests, IF dirty = {} THEN <<>> ELSE <<q>>)
    BY <1>0, <1>3, DigestToggle
  <2>2. q.body = [d \in dirty |-> sc[d]] /\ DOMAIN q.body = dirty
    BY DEF Request
  <2>3. q \in Requests
    <3>1. dirty \subseteq Keys /\ \A d \in dirty : sc[d] # Unset /\ sc[d] \in Vals
      BY <2>1 DEF Dirty, Keys
    <3>2. [d \in dirty |-> sc[d]] \in [dirty -> Vals]
      BY <3>1
    <3>3. [d \in dirty |-> sc[d]] \in Bodies
      BY <3>1, <3>2 DEF Bodies
    <3> QED
      BY <3>3, RequestTypes
  <2> HIDE DEF sc
  <2>4. ~failed => dirty \subseteq {t}
    BY <1>0, <2>1, DirtyToggle
  <2> HIDE DEF dirty, q
  <2>5. dirty # {}
    <3> SUFFICES ASSUME dirty = {} PROVE FALSE
      OBVIOUS
    <3>1. Send(requests, <<>>)
      BY <2>1
    <3>2. sent' = sent + 0
      BY <3>1, EmptySeq DEF Send
    <3> QED
      BY <1>0, <1>1, <3>2
  <2> DEFINE new == <<q>>
  <2>6. Send(requests, new) /\ new \in Seq(Requests) /\ Len(new) = 1 /\ new[1] = q
    BY <2>1, <2>3, <2>5
  <2> HIDE DEF new
  <2>7. /\ Len(requests') = Len(requests) + Len(new) /\ Len(requests) \in Nat
        /\ \A j \in 1..Len(new) : requests'[Len(requests) + j] = new[j]
    BY <1>0, <2>6, SendTypes
  <2>8. Last(requests') = q
    BY <2>6, <2>7 DEF Last
  <2>9. IsPrefix(requests, requests')
    BY <1>0, <2>6, SendIsPrefix
  <2>10. ASSUME NEW u \in Toggles, ~failed, scope'[u] # scope[u]
         PROVE  DOMAIN Last(requests').body = {u}
    <3>1. u = t
      BY <2>1, <2>10
    <3> QED
      BY <2>2, <2>4, <2>5, <2>8, <2>10, <3>1
  <2> QED
    BY <2>9, <2>10 DEF UserSends
<1>4. ASSUME NEW i \in DOMAIN requests, loadSettings(i) PROVE FALSE
  BY <1>0, <1>1, <1>4, LoadFacts
<1>5. ASSUME NEW i \in DOMAIN requests, handleSettings(i) \/ RequestFails(i) PROVE FALSE
  BY <1>1, <1>5 DEF handleSettings, RequestFails
<1>6. ASSUME NEW f \in Fields, Edit(f) PROVE FALSE
  BY <1>1, <1>6 DEF Edit
<1>7. ~UNCHANGED settingsVars
  BY <1>1 DEF settingsVars
<1> QED
  BY <1>2, <1>3, <1>4, <1>5, <1>6, <1>7 DEF SettingsNext


-------------------------------------------------------------------------------
(* The page Weather.                                                       *)

ShownTypes == {IF r.Type = "TAF.AMD" THEN "TAF" ELSE r.Type : r \in Reports}
Labels == {parseFlightCondition(r.Type, r.Data) : r \in Reports}

Items == [type : ShownTypes, update : BOOLEAN, flight_condition : Labels,
          location : Locations, report : {<<r>> : r \in Reports}, number : Nat,
          stale : BOOLEAN]

WeatherInv ==
    /\ received \in Nat
    /\ watch_list \in Seq(Items) /\ data_list \in Seq(Items)
    /\ \A i \in DOMAIN watch_list : watch_list[i].number <= received
    /\ \A i \in DOMAIN data_list : data_list[i].number <= received
    /\ NewestFirst

(* An amendment is shown as what it amends.                                *)
LEMMA NoAmendment == \A w \in Items : w.type # "TAF.AMD" /\ w.number \in Nat
<1>1. \A y \in ShownTypes : y # "TAF.AMD"
  BY DEF ShownTypes
<1> QED
  BY <1>1 DEF Items

(* A non-empty set of natural numbers has a smallest element.              *)
LEMMA LeastNumber ==
    ASSUME NEW S \in SUBSET Nat, S # {}
    PROVE  Min(S) \in S /\ \A n \in S : Min(S) <= n
<1>1. PICK m \in S : \A n \in S : ~(<<n, m>> \in OpToRel(<, Nat))
  BY NatLessThanWellFounded, WFMin
<1>2. \A n \in S : ~(n < m)
  BY <1>1 DEF OpToRel
<1>3. \A n \in S : m <= n
  BY <1>2
<1> QED
  BY <1>3 DEF Min

(* What setDataItem makes of a report: of none, unless it throws, and of   *)
(* an item of a list.                                                      *)
LEMMA ItemOfReport ==
    ASSUME NEW obj \in Reports, NEW item, received \in Nat, Throws(obj) => item \in Items
    PROVE  /\ setDataItem(obj, item) \in Items
           /\ setDataItem(obj, item).location = obj.Location
           /\ obj.Type # "TAF.AMD" => setDataItem(obj, item).type = obj.Type
           /\ setDataItem(obj, item).number = IF Throws(obj) THEN item.number ELSE received + 1
<1> DEFINE type == IF obj.Type = "TAF.AMD" THEN "TAF" ELSE obj.Type
           lab == parseFlightCondition(obj.Type, obj.Data)
           report == IF Throws(obj) THEN item.report ELSE <<obj>>
           number == IF Throws(obj) THEN item.number ELSE received + 1
           stale == IF Throws(obj) THEN item.stale ELSE obj.Time = "old"
           amended == obj.Type = "TAF.AMD"
           new == [type |-> type, update |-> amended, flight_condition |-> lab,
                   location |-> obj.Location, report |-> report, number |-> number,
                   stale |-> stale]
<1>1. type \in ShownTypes /\ lab \in Labels /\ obj.Location \in Locations
  BY DEF ShownTypes, Labels, Locations
<1>2. report \in {<<r>> : r \in Reports} /\ number \in Nat
  BY DEF Items
<1>3. amended \in BOOLEAN
  OBVIOUS
<1>4. stale \in BOOLEAN
  <2>1. CASE Throws(obj)
    <3>1. item.stale \in BOOLEAN
      BY <2>1 DEF Items
    <3> QED
      BY <2>1, <3>1, Zenon
  <2>2. CASE ~Throws(obj)
    BY <2>2, Zenon
  <2> QED
    BY <2>1, <2>2
<1>5. setDataItem(obj, item) = new
  BY DEF setDataItem
<1>6. obj.Type # "TAF.AMD" => type = obj.Type
  OBVIOUS
<1> HIDE DEF type, lab, report, stale, amended
<1>7. new \in Items
  BY <1>1, <1>2, <1>3, <1>4 DEF Items
<1> QED
  BY <1>5, <1>6, <1>7

LEMMA WeatherInitInv == WeatherInit => WeatherInv
BY EmptySeq DEF WeatherInit, WeatherInv, NewestFirst

(* A list with a new first element.                                        *)
LEMMA InFront ==
    ASSUME NEW S, NEW s \in Seq(S), NEW x \in S
    PROVE  /\ <<x>> \o s \in Seq(S) /\ Len(<<x>> \o s) = Len(s) + 1 /\ Len(s) \in Nat
           /\ (<<x>> \o s)[1] = x
           /\ \A i \in 2..(Len(s) + 1) : (<<x>> \o s)[i] = s[i - 1]
<1> DEFINE h == <<x>>
<1>1. h \in Seq(S) /\ Len(h) = 1 /\ h[1] = x /\ Len(s) \in Nat
  BY LenProperties
<1> HIDE DEF h
<1>2. /\ h \o s \in Seq(S) /\ Len(h \o s) = Len(h) + Len(s)
      /\ \A i \in 1..(Len(h) + Len(s)) : (h \o s)[i] = IF i <= Len(h) THEN h[i] ELSE s[i - Len(h)]
  BY <1>1, ConcatProperties
<1>3. Len(h \o s) = Len(s) + 1 /\ (h \o s)[1] = x
  BY <1>1, <1>2
<1>4. \A i \in 2..(Len(s) + 1) : (h \o s)[i] = s[i - 1]
  BY <1>1, <1>2
<1> QED
  BY <1>1, <1>2, <1>3, <1>4 DEF h


(* A report in front of the scrolling list, which is cut at its length.    *)
LEMMA ScrollStep ==
    ASSUME WeatherInv, NEW obj \in Reports, onReport(obj)
    PROVE  /\ data_list' \in Seq(Items)
           /\ \A i \in DOMAIN data_list' : data_list'[i].number <= received'
           /\ \A i, j \in DOMAIN data_list' : i < j => data_list'[i].number > data_list'[j].number
<1> DEFINE x == setDataItem(obj, EmptyItem)
           longer == <<x>> \o data_list
           n == Len(data_list)
<1>1. /\ received \in Nat /\ received' = received + 1 /\ data_list \in Seq(Items)
      /\ \A i \in DOMAIN data_list : data_list[i].number <= received
      /\ \A i, j \in DOMAIN data_list : i < j => data_list[i].number > data_list[j].number
  BY DEF WeatherInv, NewestFirst, onReport
<1>2. DOMAIN data_list = 1..n /\ n \in Nat /\ \A i \in 1..n : data_list[i].number \in Nat
  BY <1>1, LenProperties, NoAmendment
<1>3. CASE Throws(obj)
  <2>1. data_list' = data_list
    BY <1>3 DEF onReport
  <2> QED
    BY <1>1, <1>2, <2>1
<1>4. CASE ~Throws(obj)
  <2>1. data_list' = IF Len(longer) > MAX_DATALIST THEN Front(longer) ELSE longer
    BY <1>4 DEF onReport
  <2>2. x \in Items /\ x.number = received + 1
    BY <1>1, <1>4, ItemOfReport
  <2> HIDE DEF x
  <2>3. /\ longer \in Seq(Items) /\ Len(longer) = n + 1 /\ longer[1] = x
        /\ \A i \in 2..(n + 1) : longer[i] = data_list[i - 1]
    BY <1>1, <2>2, InFront
  <2> HIDE DEF longer
  <2>4. \A i \in 2..(n + 1) : longer[i].number \in Nat /\ longer[i].number <= received
    <3>1. \A i \in 2..(n + 1) : i - 1 \in 1..n
      BY <1>2
    <3> QED
      BY <1>1, <1>2, <2>3, <3>1
  <2>5. /\ \A i \in 1..(n + 1) : longer[i].number <= received + 1
        /\ \A i, j \in 1..(n + 1) : i < j => longer[i].number > longer[j].number
    <3>1. \A i \in 1..(n + 1) : longer[i].number <= received + 1
      BY <1>1, <1>2, <2>2, <2>3, <2>4
    <3>2. ASSUME NEW i \in 1..(n + 1), NEW j \in 1..(n + 1), i < j
          PROVE  longer[i].number > longer[j].number
      <4>1. j \in 2..(n + 1) /\ j - 1 \in 1..n /\ longer[j] = data_list[j - 1]
        BY <1>2, <2>3, <3>2
      <4>2. CASE i = 1
        BY <1>1, <2>2, <2>3, <2>4, <4>1, <4>2
      <4>3. CASE i # 1
        <5>1. i - 1 \in 1..n /\ longer[i] = data_list[i - 1] /\ i - 1 < j - 1
          BY <1>2, <2>3, <3>2, <4>3
        <5> QED
          BY <1>1, <1>2, <4>1, <5>1
      <4> QED
        BY <4>2, <4>3
    <3> QED
      BY <3>1, <3>2
  <2>6. /\ Front(longer) \in Seq(Items) /\ Len(Front(longer)) = n
        /\ \A i \in 1..n : Front(longer)[i] = longer[i]
    <3>1. \A i \in 1..n : longer[i] \in Items
      BY <1>2, <2>3, LenProperties
    <3>2. n \in Int /\ 1 \in Int
      BY <1>2
    <3>3. /\ SubSeq(longer, 1, n) \in Seq(Items)
          /\ Len(SubSeq(longer, 1, n)) = IF 1 <= n THEN n - 1 + 1 ELSE 0
          /\ \A i \in 1..(n - 1 + 1) : SubSeq(longer, 1, n)[i] = longer[1 + i - 1]
      BY <3>1, <3>2, SubSeqProperties
    <3>4. Front(longer) = SubSeq(longer, 1, n)
      BY <1>2, <2>3 DEF Front
    <3> QED
      BY <1>2, <3>3, <3>4
  <2>7. DOMAIN longer = 1..(n + 1) /\ DOMAIN Front(longer) = 1..n
    BY <2>3, <2>6, LenProperties
  <2>8. CASE Len(longer) > MAX_DATALIST
    <3>1. data_list' = Front(longer)
      BY <2>1, <2>8
    <3> QED
      BY <1>1, <1>2, <2>5, <2>6, <2>7, <3>1
  <2>9. CASE ~(Len(longer) > MAX_DATALIST)
    <3>1. data_list' = longer
      BY <2>1, <2>9
    <3> QED
      BY <1>1, <2>3, <2>5, <2>7, <3>1
  <2> QED
    BY <2>8, <2>9
<1> QED
  BY <1>3, <1>4


(* The item of the watch list that a report replaces is the first one of   *)
(* its kind.                                                               *)
LEMMA FoundFirst ==
    ASSUME watch_list \in Seq(Items), NEW obj
    PROVE  LET found == SelectInSeq(watch_list, LAMBDA w :
                            w.type = obj.Type /\ w.location = obj.Location) IN
           found > 0 =>
              /\ found \in 1..Len(watch_list)
              /\ watch_list[found].type = obj.Type /\ watch_list[found].location = obj.Location
              /\ \A i \in 1..Len(watch_list) :
                    watch_list[i].type = obj.Type /\ watch_list[i].location = obj.Location
                        => found <= i
<1> DEFINE I == {i \in 1..Len(watch_list) :
                    watch_list[i].type = obj.Type /\ watch_list[i].location = obj.Location}
           found == IF I # {} THEN Min(I) ELSE 0
<1>1. SelectInSeq(watch_list, LAMBDA w : w.type = obj.Type /\ w.location = obj.Location) = found
  BY DEF SelectInSeq
<1>2. I \in SUBSET Nat
  BY LenProperties
<1>3. I # {} => Min(I) \in I /\ \A i \in I : Min(I) <= i
  BY <1>2, LeastNumber
<1>4. found > 0 => I # {} /\ found = Min(I)
  OBVIOUS
<1>5. ASSUME found > 0
      PROVE  /\ found \in 1..Len(watch_list)
             /\ watch_list[found].type = obj.Type /\ watch_list[found].location = obj.Location
             /\ \A i \in 1..Len(watch_list) :
                    watch_list[i].type = obj.Type /\ watch_list[i].location = obj.Location
                        => found <= i
  <2>1. found \in I /\ \A i \in I : found <= i
    BY <1>3, <1>4, <1>5
  <2> HIDE DEF found
  <2> QED
    BY <2>1
<1> HIDE DEF found
<1> QED
  BY <1>1, <1>5

(* A report on the watch list.                                             *)
LEMMA WatchStep ==
    ASSUME WeatherInv, NEW obj \in Reports, onReport(obj)
    PROVE  /\ watch_list' \in Seq(Items)
           /\ \A i \in DOMAIN watch_list' : watch_list'[i].number <= received'
           /\ \A i, j \in DOMAIN watch_list' :
                 i < j /\ SameKind(watch_list'[i], watch_list'[j])
                     => watch_list'[i].number > watch_list'[j].number
<1> DEFINE found == SelectInSeq(watch_list, LAMBDA w :
                        w.type = obj.Type /\ w.location = obj.Location)
           n == Len(watch_list)
<1>1. /\ received \in Nat /\ received' = received + 1 /\ watch_list \in Seq(Items)
      /\ \A i \in DOMAIN watch_list : watch_list[i].number <= received
      /\ \A i, j \in DOMAIN watch_list :
            i < j /\ SameKind(watch_list[i], watch_list[j])
                => watch_list[i].number > watch_list[j].number
  BY DEF WeatherInv, NewestFirst, onReport
<1>2. /\ DOMAIN watch_list = 1..n /\ n \in Nat
      /\ \A i \in 1..n : watch_list[i] \in Items
  BY <1>1, LenProperties
<1>3. \A i \in 1..n : watch_list[i].number \in Nat /\ watch_list[i].type # "TAF.AMD"
  BY <1>2, NoAmendment
<1>4. watch_list' = Watched(obj)
  BY DEF onReport
<1>5. CASE watch_list' = watch_list
  BY <1>1, <1>2, <1>3, <1>5
<1>6. CASE obj.Location \in watching /\ found > 0
  <2>1. /\ found \in 1..n
        /\ watch_list[found].type = obj.Type /\ watch_list[found].location = obj.Location
        /\ \A i \in 1..n :
              watch_list[i].type = obj.Type /\ watch_list[i].location = obj.Location
                  => found <= i
    BY <1>1, <1>6, FoundFirst
  <2> DEFINE x == setDataItem(obj, watch_list[found])
  <2>2. watch_list' = [watch_list EXCEPT ![found] = x]
    BY <1>4, <1>6 DEF Watched
  <2> HIDE DEF found
  <2>3. obj.Type # "TAF.AMD"
    BY <1>3, <2>1
  <2>4. /\ x \in Items /\ x.location = obj.Location /\ x.type = obj.Type
        /\ x.number = IF Throws(obj) THEN watch_list[found].number ELSE received + 1
    BY <1>1, <1>2, <2>1, <2>3, ItemOfReport
  <2> HIDE DEF x
  <2>5. watch_list' \in Seq(Items) /\ DOMAIN watch_list' = 1..n
    BY <1>1, <1>2, <2>1, <2>2, <2>4
  <2>6. \A i \in 1..n : watch_list'[i] = IF i = found THEN x ELSE watch_list[i]
    BY <1>2, <2>2
  <2>7. x.number \in Nat /\ x.number <= received + 1 /\ x.number >= watch_list[found].number
    BY <1>1, <1>2, <1>3, <2>1, <2>4
  <2>8. \A i \in 1..n : watch_list'[i].number <= received'
    BY <1>1, <1>2, <1>3, <2>6, <2>7
  <2>9. ASSUME NEW i \in 1..n, NEW j \in 1..n, i < j, SameKind(watch_list'[i], watch_list'[j])
        PROVE  watch_list'[i].number > watch_list'[j].number
    <3>1. CASE j = found
      <4>1. watch_list[i].type = obj.Type /\ watch_list[i].location = obj.Location
        BY <2>4, <2>6, <2>9, <3>1 DEF SameKind
      <4> QED
        BY <2>1, <2>9, <3>1, <4>1
    <3>2. CASE j # found /\ i # found
      BY <1>1, <1>2, <2>6, <2>9, <3>2
    <3>3. CASE i = found
      <4>1. SameKind(watch_list[found], watch_list[j]) /\ j # found
        BY <2>1, <2>4, <2>6, <2>9, <3>3 DEF SameKind
      <4>2. watch_list[found].number > watch_list[j].number
        BY <1>1, <1>2, <2>1, <2>9, <3>3, <4>1
      <4> QED
        BY <1>3, <2>1, <2>6, <2>7, <3>3, <4>1, <4>2
    <3> QED
      BY <3>1, <3>2, <3>3
  <2> QED
    BY <2>5, <2>8, <2>9
<1>7. CASE obj.Location \in watching /\ ~(found > 0) /\ ~Throws(obj)
  <2> DEFINE x == setDataItem(obj, EmptyItem)
             new == <<x>> \o watch_list
  <2>1. watch_list' = new
    BY <1>4, <1>7 DEF Watched
  <2>2. x \in Items /\ x.number = received + 1
    BY <1>1, <1>7, ItemOfReport
  <2> HIDE DEF x
  <2>3. /\ new \in Seq(Items) /\ Len(new) = n + 1 /\ new[1] = x
        /\ \A i \in 2..(n + 1) : new[i] = watch_list[i - 1]
    BY <1>1, <2>2, InFront
  <2>4. DOMAIN new = 1..(n + 1)
    BY <2>3, LenProperties
  <2> HIDE DEF new
  <2>5. \A i \in 2..(n + 1) : new[i].number \in Nat /\ new[i].number <= received
    <3>1. \A i \in 2..(n + 1) : i - 1 \in 1..n
      BY <1>2
    <3> QED
      BY <1>1, <1>2, <1>3, <2>3, <3>1
  <2>6. \A i \in 1..(n + 1) : new[i].number <= received + 1
    BY <1>1, <1>2, <2>2, <2>3, <2>5
  <2>7. ASSUME NEW i \in 1..(n + 1), NEW j \in 1..(n + 1), i < j, SameKind(new[i], new[j])
        PROVE  new[i].number > new[j].number
    <3>1. j \in 2..(n + 1) /\ j - 1 \in 1..n /\ new[j] = watch_list[j - 1]
      BY <1>2, <2>3, <2>7
    <3>2. CASE i = 1
      BY <1>1, <2>2, <2>3, <2>5, <3>1, <3>2
    <3>3. CASE i # 1
      <4>1. i - 1 \in 1..n /\ new[i] = watch_list[i - 1] /\ i - 1 < j - 1
        BY <1>2, <2>3, <2>7, <3>3
      <4> QED
        BY <1>1, <1>2, <2>7, <3>1, <4>1
    <3> QED
      BY <3>2, <3>3
  <2> QED
    BY <1>1, <2>1, <2>3, <2>4, <2>6, <2>7
<1>8. \/ watch_list' = watch_list
      \/ obj.Location \in watching /\ found > 0
      \/ obj.Location \in watching /\ ~(found > 0) /\ ~Throws(obj)
  BY <1>4 DEF Watched
<1> QED
  BY <1>5, <1>6, <1>7, <1>8


(* Time passes for an item of the watch list.                              *)
LEMMA OldStep ==
    ASSUME WeatherInv, NEW o \in DOMAIN watch_list, GrowsOld(o)
    PROVE  WeatherInv'
<1> DEFINE n == Len(watch_list)
           x == [watch_list[o] EXCEPT !.stale = TRUE]
<1>1. /\ watch_list \in Seq(Items) /\ DOMAIN watch_list = 1..n
      /\ \A i \in 1..n : watch_list[i] \in Items
  BY LenProperties DEF WeatherInv
<1>2. /\ x \in Items /\ x.number = watch_list[o].number /\ x.type = watch_list[o].type
      /\ x.location = watch_list[o].location
  BY <1>1 DEF Items
<1>3. /\ watch_list' = [watch_list EXCEPT ![o] = x] /\ UNCHANGED <<data_list, received>>
  BY DEF GrowsOld
<1> HIDE DEF x
<1>4. watch_list' \in Seq(Items) /\ DOMAIN watch_list' = 1..n
  BY <1>1, <1>2, <1>3
<1>5. \A i \in 1..n : /\ watch_list'[i].number = watch_list[i].number
                      /\ watch_list'[i].type = watch_list[i].type
                      /\ watch_list'[i].location = watch_list[i].location
  BY <1>1, <1>2, <1>3
<1> QED
  BY <1>1, <1>3, <1>4, <1>5 DEF WeatherInv, NewestFirst, SameKind

(* What clearStaleMessages leaves keeps its order.                         *)
LEMMA ClearStep ==
    ASSUME WeatherInv, clearStaleMessages
    PROVE  WeatherInv'
<1> DEFINE n == Len(watch_list)
           left == {i \in DOMAIN watch_list : ~watch_list[i].stale}
           m == Cardinality(left)
<1>1. /\ watch_list \in Seq(Items) /\ DOMAIN watch_list = 1..n /\ n \in Nat
      /\ \A i \in 1..n : watch_list[i] \in Items
  BY LenProperties DEF WeatherInv
<1>2. m \in Nat /\ left \subseteq 1..n
  <2>1. IsFiniteSet(1..n)
    BY <1>1, FS_Interval
  <2>2. left \subseteq 1..n
    BY <1>1
  <2> QED
    BY <2>1, <2>2, FS_Subset, FS_CardinalityType
<1> HIDE DEF left, m
<1>3. PICK at \in [1..m -> left] :
          /\ \A k, l \in DOMAIN at : k < l => at[k] < at[l]
          /\ watch_list' = [k \in DOMAIN at |-> watch_list[at[k]]]
  BY DEF clearStaleMessages, left, m
<1>4. /\ watch_list' = [k \in 1..m |-> watch_list[at[k]]]
      /\ \A k \in 1..m : at[k] \in 1..n
      /\ \A k, l \in 1..m : k < l => at[k] < at[l]
  BY <1>2, <1>3
<1>5. watch_list' \in Seq(Items) /\ DOMAIN watch_list' = 1..m
  BY <1>1, <1>2, <1>4
<1>6. \A k \in 1..m : watch_list'[k] = watch_list[at[k]]
  BY <1>4
<1>7. UNCHANGED <<data_list, received>>
  BY DEF clearStaleMessages
<1> QED
  BY <1>1, <1>4, <1>5, <1>6, <1>7 DEF WeatherInv, NewestFirst

LEMMA WeatherStep == WeatherInv /\ [WeatherNext]_weatherVars => WeatherInv'
<1> SUFFICES ASSUME WeatherInv, [WeatherNext]_weatherVars PROVE WeatherInv'
  OBVIOUS
<1>1. ASSUME NEW obj \in Reports, onReport(obj) PROVE WeatherInv'
  <2>1. received' \in Nat
    BY <1>1 DEF WeatherInv, onReport
  <2>2. NewestFirst'
    BY <1>1, ScrollStep, WatchStep DEF NewestFirst
  <2> QED
    BY <1>1, <2>1, <2>2, ScrollStep, WatchStep DEF WeatherInv
<1>2. CASE updateWatchList
  BY <1>2 DEF updateWatchList, WeatherInv, NewestFirst
<1>3. CASE UNCHANGED weatherVars
  BY <1>3 DEF weatherVars, WeatherInv, NewestFirst
<1> QED
  BY <1>1, <1>2, <1>3, OldStep, ClearStep DEF WeatherNext


(* The label of an item is the one of the report beside it.                *)
Labelled(w) ==
    \E obj \in Reports :
        w.report = <<obj>> /\ w.flight_condition = parseFlightCondition(obj.Type, obj.Data)
LabelInv ==
    ~malformed => /\ \A i \in DOMAIN watch_list : Labelled(watch_list[i])
                  /\ \A i \in DOMAIN data_list : Labelled(data_list[i])

LEMMA NewLabel ==
    ASSUME NEW obj \in Reports, ~Throws(obj), NEW item
    PROVE  Labelled(setDataItem(obj, item))
<1> DEFINE x == setDataItem(obj, item)
<1>1. x.report = <<obj>> /\ x.flight_condition = parseFlightCondition(obj.Type, obj.Data)
  BY DEF setDataItem
<1> HIDE DEF x
<1> QED
  BY <1>1 DEF Labelled, x

LEMMA ScrollLabels ==
    ASSUME WeatherInv, NEW obj \in Reports, onReport(obj), ~Throws(obj),
           \A i \in DOMAIN data_list : Labelled(data_list[i])
    PROVE  \A i \in DOMAIN data_list' : Labelled(data_list'[i])
<1> DEFINE x == setDataItem(obj, EmptyItem)
           longer == <<x>> \o data_list
           n == Len(data_list)
<1>1. data_list' = IF Len(longer) > MAX_DATALIST THEN Front(longer) ELSE longer
  BY DEF onReport
<1>2. x \in Items /\ Labelled(x) /\ data_list \in Seq(Items)
  BY NewLabel, ItemOfReport DEF WeatherInv
<1> HIDE DEF x
<1>3. /\ longer \in Seq(Items) /\ Len(longer) = n + 1 /\ longer[1] = x /\ n \in Nat
      /\ \A i \in 2..(n + 1) : longer[i] = data_list[i - 1]
  BY <1>2, InFront
<1>4. DOMAIN data_list = 1..n /\ DOMAIN longer = 1..(n + 1)
  BY <1>2, <1>3, LenProperties
<1> HIDE DEF longer, n
<1>5. \A i \in 1..(n + 1) : Labelled(longer[i])
  <2> SUFFICES ASSUME NEW i \in 1..(n + 1) PROVE Labelled(longer[i])
    OBVIOUS
  <2>1. CASE i = 1
    BY <1>2, <1>3, <2>1
  <2>2. CASE i # 1
    <3>1. i \in 2..(n + 1) /\ i - 1 \in 1..n
      BY <1>3, <2>2
    <3> QED
      BY <1>3, <1>4, <3>1
  <2> QED
    BY <2>1, <2>2
<1>6. DOMAIN Front(longer) = 1..n /\ \A i \in 1..n : Front(longer)[i] = longer[i]
  <2>1. Front(longer) = SubSeq(longer, 1, n)
    BY <1>3 DEF Front
  <2> QED
    BY <1>3, <2>1
<1>7. CASE data_list' = longer
  BY <1>4, <1>5, <1>7
<1>8. CASE data_list' = Front(longer)
  <2>1. \A i \in 1..n : i \in 1..(n + 1)
    BY <1>3
  <2> QED
    BY <1>5, <1>6, <1>8, <2>1
<1> QED
  BY <1>1, <1>7, <1>8

LEMMA WatchLabels ==
    ASSUME WeatherInv, NEW obj \in Reports, onReport(obj), ~Throws(obj),
           \A i \in DOMAIN watch_list : Labelled(watch_list[i])
    PROVE  \A i \in DOMAIN watch_list' : Labelled(watch_list'[i])
<1> DEFINE found == SelectInSeq(watch_list, LAMBDA w :
                        w.type = obj.Type /\ w.location = obj.Location)
           n == Len(watch_list)
           x == setDataItem(obj, EmptyItem)
           new == <<x>> \o watch_list
           y == setDataItem(obj, watch_list[found])
<1>1. \/ watch_list' = watch_list
      \/ watch_list' = [watch_list EXCEPT ![found] = y]
      \/ watch_list' = new
  BY DEF onReport, Watched
<1>2. x \in Items /\ Labelled(x) /\ Labelled(y) /\ watch_list \in Seq(Items)
  BY NewLabel, ItemOfReport DEF WeatherInv
<1> HIDE DEF x, y, found
<1>3. /\ new \in Seq(Items) /\ Len(new) = n + 1 /\ new[1] = x /\ n \in Nat
      /\ \A i \in 2..(n + 1) : new[i] = watch_list[i - 1]
  BY <1>2, InFront
<1>4. DOMAIN watch_list = 1..n /\ DOMAIN new = 1..(n + 1)
  BY <1>2, <1>3, LenProperties
<1>5. CASE watch_list' = watch_list
  BY <1>5
<1>6. CASE watch_list' = [watch_list EXCEPT ![found] = y]
  BY <1>2, <1>6
<1>7. CASE watch_list' = new
  <2> HIDE DEF new, n
  <2> SUFFICES ASSUME NEW i \in 1..(n + 1) PROVE Labelled(new[i])
    BY <1>4, <1>7
  <2>1. CASE i = 1
    BY <1>2, <1>3, <2>1
  <2>2. CASE i # 1
    <3>1. i \in 2..(n + 1) /\ i - 1 \in 1..n
      BY <1>3, <2>2
    <3> QED
      BY <1>3, <1>4, <3>1
  <2> QED
    BY <2>1, <2>2
<1> QED
  BY <1>1, <1>5, <1>6, <1>7

LEMMA LabelStep == WeatherInv /\ LabelInv /\ [WeatherNext]_weatherVars => LabelInv'
<1> SUFFICES ASSUME WeatherInv, LabelInv, [WeatherNext]_weatherVars, ~malformed'
             PROVE  /\ \A i \in DOMAIN watch_list' : Labelled(watch_list'[i])
                    /\ \A i \in DOMAIN data_list' : Labelled(data_list'[i])
  BY DEF LabelInv, Labelled
<1>1. ASSUME NEW obj \in Reports, onReport(obj)
      PROVE  /\ \A i \in DOMAIN watch_list' : Labelled(watch_list'[i])
             /\ \A i \in DOMAIN data_list' : Labelled(data_list'[i])
  <2>1. ~Throws(obj) /\ ~malformed
    BY <1>1 DEF onReport
  <2> QED
    BY <1>1, <2>1, ScrollLabels, WatchLabels DEF LabelInv
<1>2. ASSUME ~malformed, data_list' = data_list,
             \A i \in DOMAIN watch_list' : \E j \in DOMAIN watch_list :
                 /\ watch_list'[i].report = watch_list[j].report
                 /\ watch_list'[i].flight_condition = watch_list[j].flight_condition
      PROVE  /\ \A i \in DOMAIN watch_list' : Labelled(watch_list'[i])
             /\ \A i \in DOMAIN data_list' : Labelled(data_list'[i])
  BY <1>2 DEF LabelInv, Labelled
<1>3. CASE updateWatchList
  BY <1>2, <1>3 DEF updateWatchList
<1>4. CASE UNCHANGED weatherVars
  BY <1>2, <1>4 DEF weatherVars
<1>5. ASSUME NEW o \in DOMAIN watch_list, GrowsOld(o)
      PROVE  /\ \A i \in DOMAIN watch_list' : Labelled(watch_list'[i])
             /\ \A i \in DOMAIN data_list' : Labelled(data_list'[i])
  <2> DEFINE x == [watch_list[o] EXCEPT !.stale = TRUE]
  <2>1. watch_list[o] \in Items
    BY LenProperties DEF WeatherInv
  <2>2. x.report = watch_list[o].report /\ x.flight_condition = watch_list[o].flight_condition
    BY <2>1 DEF Items
  <2>3. watch_list' = [watch_list EXCEPT ![o] = x] /\ UNCHANGED <<data_list, malformed>>
    BY <1>5 DEF GrowsOld
  <2> HIDE DEF x
  <2> QED
    BY <1>2, <2>2, <2>3
<1>6. CASE clearStaleMessages
  <2> DEFINE left == {i \in DOMAIN watch_list : ~watch_list[i].stale}
             m == Cardinality(left)
  <2>1. left \subseteq DOMAIN watch_list
    OBVIOUS
  <2>2. PICK at \in [1..m -> left] : watch_list' = [k \in DOMAIN at |-> watch_list[at[k]]]
    BY <1>6 DEF clearStaleMessages
  <2> HIDE DEF left, m
  <2>3. \A k \in DOMAIN watch_list' : at[k] \in DOMAIN watch_list /\ watch_list'[k] = watch_list[at[k]]
    BY <2>1, <2>2
  <2>4. UNCHANGED <<data_list, malformed>>
    BY <1>6 DEF clearStaleMessages
  <2> QED
    BY <1>2, <2>3, <2>4
<1> QED
  BY <1>1, <1>3, <1>4, <1>5, <1>6 DEF WeatherNext

(* How many of three limits are reached.                                   *)
LEMMA RankIs ==
    ASSUME NEW x \in Nat, NEW a \in Nat, NEW b \in Nat, NEW c \in Nat, a < b, b < c
    PROVE  Rank(x, <<a, b, c>>) =
               IF x >= c THEN 4 ELSE IF x >= b THEN 3 ELSE IF x >= a THEN 2 ELSE 1
<1> DEFINE S == {i \in DOMAIN <<a, b, c>> : x >= <<a, b, c>>[i]}
<1>1. DOMAIN <<a, b, c>> = {1, 2, 3}
  OBVIOUS
<1>2. S = {i \in {1, 2, 3} : x >= (IF i = 1 THEN a ELSE IF i = 2 THEN b ELSE c)}
  BY <1>1
<1>3. Rank(x, <<a, b, c>>) = 1 + Cardinality(S)
  BY DEF Rank
<1> HIDE DEF S
<1>4. /\ Cardinality({}) = 0 /\ Cardinality({1}) = 1
      /\ Cardinality({1, 2}) = 2 /\ Cardinality({1, 2, 3}) = 3
  <2>1. IsFiniteSet({}) /\ Cardinality({}) = 0
    BY FS_EmptySet
  <2>2. IsFiniteSet({1}) /\ Cardinality({1}) = 1
    BY FS_Singleton
  <2>3. IsFiniteSet({1} \cup {2}) /\ Cardinality({1} \cup {2}) = 2
    BY <2>2, FS_AddElement
  <2>4. {1} \cup {2} = {1, 2} /\ {1, 2} \cup {3} = {1, 2, 3}
    OBVIOUS
  <2>5. IsFiniteSet({1, 2}) /\ Cardinality({1, 2}) = 2
    BY <2>3, <2>4
  <2>6. Cardinality({1, 2} \cup {3}) = 3
    BY <2>5, FS_AddElement
  <2> QED
    BY <2>1, <2>2, <2>4, <2>5, <2>6
<1>5. CASE x >= c
  <2>1. S = {1, 2, 3}
    BY <1>2, <1>5
  <2> QED
    BY <1>3, <1>4, <1>5, <2>1
<1>6. CASE x >= b /\ ~(x >= c)
  <2>1. S = {1, 2}
    BY <1>2, <1>6
  <2> QED
    BY <1>3, <1>4, <1>6, <2>1
<1>7. CASE x >= a /\ ~(x >= b)
  <2>1. S = {1}
    BY <1>2, <1>7
  <2>2. ~(x >= c)
    BY <1>7
  <2> QED
    BY <1>3, <1>4, <1>7, <2>1, <2>2
<1>8. CASE ~(x >= a)
  <2>1. S = {}
    BY <1>2, <1>8
  <2>2. ~(x >= c) /\ ~(x >= b)
    BY <1>8
  <2> QED
    BY <1>3, <1>4, <1>8, <2>1, <2>2
<1> QED
  BY <1>5, <1>6, <1>7, <1>8

(* The worse of the two conditions, by the limits of both.                 *)
LEMMA WorseOf ==
    ASSUME NEW v \in Nat, NEW c \in Nat
    PROVE  Conditions[Min({Rank(v, <<16, 48, 81>>), Rank(c, <<5, 10, 31>>)})] =
               IF v >= 81 /\ c >= 31 THEN "VFR" ELSE IF v >= 48 /\ c >= 10 THEN "MVFR"
               ELSE IF v >= 16 /\ c >= 5 THEN "IFR" ELSE "LIFR"
<1> DEFINE p == Rank(v, <<16, 48, 81>>)
           q == Rank(c, <<5, 10, 31>>)
<1>1. p = IF v >= 81 THEN 4 ELSE IF v >= 48 THEN 3 ELSE IF v >= 16 THEN 2 ELSE 1
  BY RankIs
<1>2. q = IF c >= 31 THEN 4 ELSE IF c >= 10 THEN 3 ELSE IF c >= 5 THEN 2 ELSE 1
  BY RankIs
<1> HIDE DEF p, q
<1>3. Min({p, q}) = IF p <= q THEN p ELSE q
  <2>1. {p, q} \in SUBSET Nat /\ {p, q} # {} /\ p \in Nat /\ q \in Nat
    BY <1>1, <1>2
  <2>2. Min({p, q}) \in {p, q} /\ \A n \in {p, q} : Min({p, q}) <= n
    BY <2>1, LeastNumber
  <2> QED
    BY <2>1, <2>2
<1>4. /\ Conditions[1] = "LIFR" /\ Conditions[2] = "IFR"
      /\ Conditions[3] = "MVFR" /\ Conditions[4] = "VFR"
  BY DEF Conditions
<1>5. Min({p, q}) = IF v >= 81 /\ c >= 31 THEN 4 ELSE IF v >= 48 /\ c >= 10 THEN 3
                    ELSE IF v >= 16 /\ c >= 5 THEN 2 ELSE 1
  BY <1>1, <1>2, <1>3
<1> QED
  BY <1>4, <1>5 DEF p, q

(* The first layer of a cover, or 999.                                     *)
LEMMA BaseIs ==
    ASSUME NEW body, WellFormed(body), NEW cover
    PROVE  LET layers == body.layers
               b == Base(layers, cover) IN
           \/ b = 999 /\ \A i \in DOMAIN layers : layers[i].cover # cover
           \/ \E at \in DOMAIN layers :
                 /\ layers[at].cover = cover /\ b = layers[at].base
                 /\ \A i \in DOMAIN layers : layers[i].cover = cover => at <= i
<1> DEFINE layers == body.layers
           I == {i \in 1..Len(layers) : layers[i].cover = cover}
<1>1. Base(layers, cover) = LET at == IF I # {} THEN Min(I) ELSE 0
                            IN  IF at = 0 THEN 999 ELSE layers[at].base
  BY DEF Base, SelectInSeq
<1>2. Len(layers) \in Nat /\ DOMAIN layers = 1..Len(layers)
  BY LenProperties DEF WellFormed
<1>3. I \in SUBSET Nat
  BY <1>2
<1> HIDE DEF I, layers
<1>4. CASE I = {}
  <2>1. Base(layers, cover) = 999
    BY <1>1, <1>4
  <2> QED
    BY <1>2, <1>4, <2>1 DEF I, layers
<1>5. CASE I # {}
  <2>1. Min(I) \in I /\ \A i \in I : Min(I) <= i
    BY <1>3, <1>5, LeastNumber
  <2>2. Min(I) # 0 /\ Min(I) \in DOMAIN layers /\ layers[Min(I)].cover = cover
    BY <1>2, <2>1 DEF I
  <2>3. Base(layers, cover) = layers[Min(I)].base
    BY <1>1, <1>5, <2>2
  <2>4. \A i \in DOMAIN layers : layers[i].cover = cover => Min(I) <= i
    BY <1>2, <2>1 DEF I
  <2> QED
    BY <2>2, <2>3, <2>4 DEF layers
<1> QED
  BY <1>4, <1>5

(* The heights of the layers that cover more than half of the sky, and the *)
(* one that stands for none.                                               *)
Heights(layers) ==
    {999} \cup {l.base : l \in {k \in ToSet(layers) : k.cover \in {"BKN", "OVC"}}}

LEMMA HeightIsNat ==
    ASSUME NEW x \in 0..999
    PROVE  x \in Nat
BY SMT

(* The ceiling is the lowest layer that covers more than half of the sky.  *)
LEMMA CeilingIs ==
    ASSUME NEW body, WellFormed(body)
    PROVE  ceiling(body.layers) = Min(Heights(body.layers)) /\ ceiling(body.layers) \in Nat
<1> DEFINE layers == body.layers
           bases == Heights(layers)
           c == ceiling(layers)
<1>1. /\ DOMAIN layers \subseteq Nat
      /\ \A i \in DOMAIN layers : layers[i].base \in 0..999
      /\ \A i \in DOMAIN layers : layers[i].base \in Nat
      /\ \A i, j \in DOMAIN layers : i < j => layers[i].base <= layers[j].base /\ layers[i].cover # "OVC"
  <2>1. layers \in Seq([cover : {"FEW", "SCT", "BKN", "OVC"}, base : 0..999])
    BY DEF WellFormed
  <2>2. DOMAIN layers = 1..Len(layers) /\ Len(layers) \in Nat
    BY <2>1, LenProperties
  <2>3. \A i, j \in DOMAIN layers : i < j => layers[i].base <= layers[j].base /\ layers[i].cover # "OVC"
    BY DEF WellFormed
  <2>4. \A i \in DOMAIN layers : layers[i] \in [cover : {"FEW", "SCT", "BKN", "OVC"}, base : 0..999]
    <3> DEFINE S == [cover : {"FEW", "SCT", "BKN", "OVC"}, base : 0..999]
    <3>1. layers \in Seq(S)
      BY <2>1
    <3> HIDE DEF layers, S
    <3>2. \A i \in DOMAIN layers : layers[i] \in S
      BY <2>2, <3>1, ElementOfSeq
    <3> QED
      BY <3>2 DEF S
  <2> HIDE DEF layers
  <2>5. \A i \in DOMAIN layers : layers[i].base \in 0..999
    BY <2>4
  <2>6. ASSUME NEW i \in DOMAIN layers PROVE layers[i].base \in Nat
    <3> DEFINE b == layers[i].base
    <3>1. b \in 0..999
      BY <2>5
    <3> HIDE DEF b
    <3>2. b \in Nat
      BY <3>1, HeightIsNat
    <3> QED
      BY <3>2 DEF b
  <2> QED
    BY <2>2, <2>3, <2>5, <2>6
<1>10. ASSUME NEW i \in DOMAIN layers, NEW j \in DOMAIN layers, i <= j
      PROVE  layers[i].base <= layers[j].base
  <2> HIDE DEF layers
  <2>1. layers[i].base \in 0..999 /\ i \in Nat /\ j \in Nat
    BY <1>1
  <2>2. CASE i = j
    BY <2>1, <2>2
  <2>3. CASE i < j
    BY <1>1, <2>3
  <2> QED
    BY <1>10, <2>1, <2>2, <2>3
<1>2. ASSUME NEW b \in bases
      PROVE  b = 999 \/ \E i \in DOMAIN layers : b = layers[i].base /\ layers[i].cover \in {"BKN", "OVC"}
  BY <1>2 DEF ToSet, Heights
<1>3. ASSUME NEW i \in DOMAIN layers, layers[i].cover \in {"BKN", "OVC"} PROVE layers[i].base \in bases
  BY <1>3 DEF ToSet, Heights
<1>4. bases \in SUBSET Nat /\ 999 \in bases
  <2>1. 999 \in bases
    BY DEF Heights
  <2> HIDE DEF bases, layers
  <2>2. \A i \in DOMAIN layers : layers[i].base \in Nat
    BY <1>1
  <2> QED
    BY <1>2, <2>1, <2>2
<1>5. c = IF Base(layers, "BKN") # 999 THEN Base(layers, "BKN") ELSE Base(layers, "OVC")
  BY DEF ceiling
<1> DEFINE First(cover, b) == \E at \in DOMAIN layers :
                                 /\ layers[at].cover = cover /\ b = layers[at].base
                                 /\ \A i \in DOMAIN layers : layers[i].cover = cover => at <= i
<1>6. \A cover \in {"BKN", "OVC"} :
          \/ Base(layers, cover) = 999 /\ \A i \in DOMAIN layers : layers[i].cover # cover
          \/ First(cover, Base(layers, cover))
  BY BaseIs
<1> HIDE DEF bases, layers, c
<1>7. c \in bases /\ \A b \in bases : c <= b
  <2>1. CASE \A i \in DOMAIN layers : layers[i].cover # "BKN"
    <3>1. Base(layers, "BKN") = 999
      BY <1>6, <2>1
    <3>2. c = Base(layers, "OVC")
      BY <1>5, <3>1
    <3>3. CASE c = 999 /\ \A i \in DOMAIN layers : layers[i].cover # "OVC"
      BY <1>2, <1>4, <2>1, <3>3
    <3>4. CASE First("OVC", c)
      <4>1. PICK at \in DOMAIN layers :
                /\ layers[at].cover = "OVC" /\ c = layers[at].base
                /\ \A i \in DOMAIN layers : layers[i].cover = "OVC" => at <= i
        BY <3>4
      <4>2. c \in bases /\ c \in 0..999
        BY <1>1, <1>3, <4>1
      <4>3. \A i \in DOMAIN layers : layers[i].cover = "OVC" => c <= layers[i].base
        BY <1>10, <4>1
      <4> QED
        BY <1>2, <2>1, <4>2, <4>3
    <3> QED
      BY <1>6, <3>2, <3>3, <3>4
  <2>2. CASE \E i \in DOMAIN layers : layers[i].cover = "BKN"
    <3>1. PICK at \in DOMAIN layers :
              /\ layers[at].cover = "BKN" /\ Base(layers, "BKN") = layers[at].base
              /\ \A i \in DOMAIN layers : layers[i].cover = "BKN" => at <= i
      BY <1>6, <2>2
    <3>2. ASSUME NEW i \in DOMAIN layers, layers[i].cover \in {"BKN", "OVC"}
          PROVE  layers[at].base <= layers[i].base
      <4>1. at <= i
        BY <1>1, <3>1, <3>2
      <4> QED
        BY <1>10, <4>1
    <3>3. layers[at].base \in bases /\ layers[at].base \in 0..999
      BY <1>1, <1>3, <3>1
    <3>4. c = layers[at].base
      <4>1. CASE layers[at].base # 999
        BY <1>5, <3>1, <4>1
      <4>2. CASE layers[at].base = 999
        <5>1. c = Base(layers, "OVC")
          BY <1>5, <3>1, <4>2
        <5>2. CASE First("OVC", c)
          <6>1. PICK i \in DOMAIN layers : layers[i].cover = "OVC" /\ c = layers[i].base
            BY <5>2
          <6>2. layers[at].base <= layers[i].base /\ layers[i].base \in 0..999
            BY <1>1, <3>2, <6>1
          <6> QED
            BY <4>2, <6>1, <6>2
        <5> QED
          BY <1>6, <4>2, <5>1, <5>2
      <4> QED
        BY <4>1, <4>2
    <3> QED
      BY <1>2, <3>2, <3>3, <3>4
  <2> QED
    BY <2>1, <2>2
<1>8. Min(bases) \in bases /\ \A b \in bases : Min(bases) <= b
  BY <1>4, LeastNumber
<1>9. c = Min(bases) /\ Min(bases) \in Nat
  <2>1. c \in Nat /\ Min(bases) \in Nat
    BY <1>4, <1>7, <1>8
  <2>2. c <= Min(bases)
    BY <1>7, <1>8
  <2>3. Min(bases) <= c
    BY <1>7, <1>8
  <2> QED
    BY <2>1, <2>2, <2>3
<1> QED
  BY <1>9 DEF c, bases, layers

(* The numbers of the visibility.                                          *)
LEMMA VisibilityTypes ==
    ASSUME NEW body, WellFormed(body)
    PROVE  /\ body.vis.form \in {"whole", "mixed", "fraction", "none"}
           /\ body.vis.whole \in Nat /\ body.vis.num \in Nat /\ body.vis.den \in Nat \ {0}
<1> DEFINE v == body.vis
           w == v.whole
           n == v.num
           d == v.den
<1>1. /\ v.form \in {"whole", "mixed", "fraction", "none"}
      /\ w \in 0..99 /\ n \in 0..99 /\ d \in 1..99
  <2>1. v \in [form : {"whole", "mixed", "fraction", "none"},
               whole : 0..99, num : 0..99, den : 1..99]
    BY DEF WellFormed
  <2> HIDE DEF v
  <2> QED
    BY <2>1
<1> HIDE DEF w, n, d
<1>2. w \in Nat /\ n \in Nat /\ d \in Nat \ {0}
  BY <1>1
<1> QED
  BY <1>1, <1>2 DEF w, n, d

(* What a report's label is, by the text's visibility and clouds.          *)
LEMMA VisibilityIs ==
    ASSUME NEW body, WellFormed(body), body.vis.form \in {"mixed", "fraction"}, IsShort(body.vis)
    PROVE  (16 * body.vis.num) \div body.vis.den \in 0..15
<1> DEFINE n == body.vis.num
           d == body.vis.den
<1>1. n \in Nat /\ d \in Nat \ {0} /\ n < d
  BY VisibilityTypes DEF WellFormed
<1>2. d < 10
  BY <1>1 DEF IsShort, Digits
<1> HIDE DEF n, d
<1>3. d \in {1, 2, 3, 4, 5, 6, 7, 8, 9}
  BY <1>1, <1>2
<1>4. (16 * n) \div d \in 0..15
  BY <1>1, <1>3
<1> QED
  BY <1>4 DEF n, d

LEMMA LabelIs ==
    ASSUME NEW type, NEW body, WellFormed(body),
           body.vis.form \notin {"mixed", "fraction"} \/ IsShort(body.vis),
           parseFlightCondition(type, body) # NoLabel
    PROVE  parseFlightCondition(type, body) = ReferenceCondition(body)
<1> DEFINE v == body.vis
           vis == (IF v.form = "fraction" THEN 0 ELSE 16 * v.whole)
                  + (IF v.form = "whole" THEN 0 ELSE (16 * v.num) \div v.den)
           asRead == visability(v)
           c == ceiling(body.layers)
           Worse(x) == IF x >= 81 /\ c >= 31 THEN "VFR" ELSE IF x >= 48 /\ c >= 10 THEN "MVFR"
                       ELSE IF x >= 16 /\ c >= 5 THEN "IFR" ELSE "LIFR"
<1>1. c = Min(Heights(body.layers)) /\ c \in Nat
  BY CeilingIs
<1>2. ReferenceCondition(body) = Conditions[Min({Rank(vis, <<16, 48, 81>>), Rank(c, <<5, 10, 31>>)})]
  BY <1>1 DEF ReferenceCondition, Heights
<1>3. parseFlightCondition(type, body) =
          IF v.form = "fraction" /\ IsShort(v) THEN "LIFR"
          ELSE IF asRead > 80 /\ c > 30 THEN "VFR"
          ELSE IF asRead >= 48 /\ c >= 10 THEN "MVFR"
          ELSE IF asRead >= 16 /\ c >= 5 THEN "IFR" ELSE "LIFR"
  BY DEF parseFlightCondition
<1>4. v.form \in {"mixed", "fraction"} \/ asRead # 0
  BY DEF parseFlightCondition
<1>5. /\ v.form \in {"whole", "mixed", "fraction", "none"} /\ v.whole \in Nat
      /\ v.form \notin {"mixed", "fraction"} \/ IsShort(v)
  BY VisibilityTypes
<1> DEFINE sixteenths == (16 * v.num) \div v.den
<1>6. v.form \in {"mixed", "fraction"} => sixteenths \in 0..15
  BY VisibilityIs
<1>7. asRead = CASE v.form = "mixed" /\ IsShort(v) -> 16 * v.whole + sixteenths
               [] v.form = "whole" -> 16 * v.whole
               [] v.form \in {"mixed", "fraction"} /\ ~IsShort(v) -> 16 * v.num
               [] OTHER -> 0
  BY DEF visability
<1>8. vis = (IF v.form = "fraction" THEN 0 ELSE 16 * v.whole) + (IF v.form = "whole" THEN 0 ELSE sixteenths)
  OBVIOUS
<1> HIDE DEF v, vis, asRead, c, sixteenths
<1>9. CASE v.form = "fraction"
  <2>1. vis \in 0..15
    BY <1>5, <1>6, <1>8, <1>9
  <2>2. ReferenceCondition(body) = Worse(vis)
    BY <1>1, <1>2, <2>1, WorseOf
  <2>3. Worse(vis) = "LIFR"
    BY <2>1
  <2>4. parseFlightCondition(type, body) = "LIFR"
    BY <1>3, <1>5, <1>9
  <2> QED
    BY <2>2, <2>3, <2>4
<1>10. CASE v.form # "fraction"
  <2>1. v.form \in {"whole", "mixed"}
    BY <1>4, <1>5, <1>7, <1>10
  <2>2. vis = asRead /\ vis \in Nat
    <3>1. CASE v.form = "whole"
      BY <1>5, <1>7, <1>8, <3>1
    <3>2. CASE v.form = "mixed"
      BY <1>5, <1>6, <1>7, <1>8, <3>2
    <3> QED
      BY <2>1, <3>1, <3>2
  <2>3. ReferenceCondition(body) = Worse(vis)
    BY <1>1, <1>2, <2>2, WorseOf
  <2>4. parseFlightCondition(type, body) =
          IF vis > 80 /\ c > 30 THEN "VFR"
          ELSE IF vis >= 48 /\ c >= 10 THEN "MVFR"
          ELSE IF vis >= 16 /\ c >= 5 THEN "IFR" ELSE "LIFR"
    BY <1>3, <1>10, <2>2
  <2>5. (vis > 80 <=> vis >= 81) /\ (c > 30 <=> c >= 31)
    BY <1>1, <2>2
  <2> QED
    BY <2>3, <2>4, <2>5
<1> QED
  BY <1>9, <1>10

(* The invariants give the property.                                       *)
LEMMA LabelsAreHonest == WeatherInv /\ LabelInv => LabelHonest
<1> SUFFICES ASSUME WeatherInv, LabelInv, ~malformed,
                    NEW w \in ToSet(watch_list) \cup ToSet(data_list),
                    w.flight_condition # NoLabel,
                    LET body == w.report[1].Data IN
                       body.vis.form \notin {"mixed", "fraction"} \/ IsShort(body.vis)
             PROVE  w.flight_condition = ReferenceCondition(w.report[1].Data)
  BY DEF LabelHonest
<1>1. Labelled(w)
  BY DEF LabelInv, ToSet
<1>2. PICK obj \in Reports :
          w.report = <<obj>> /\ w.flight_condition = parseFlightCondition(obj.Type, obj.Data)
  BY <1>1 DEF Labelled
<1>3. w.report[1] = obj
  BY <1>2
<1>4. WellFormed(obj.Data)
  BY <1>2, WeatherAssumption
<1> QED
  BY <1>2, <1>3, <1>4, LabelIs

-------------------------------------------------------------------------------
(* The page GPS/AHRS.                                                      *)

Texts == DOMAIN MSG
TextLines == Texts \cup ErrorTexts
AllLines == TextLines \X (1..3)

(* A text begins at a place, with all its lines and none anywhere else; or *)
(* it is not there.                                                        *)
TextAt(ms, g, at) ==
    /\ at \in 1..Len(ms) /\ at + MSG[g] - 1 <= Len(ms)
    /\ \A i \in 1..Len(ms) : ms[i][1] = g <=> at <= i /\ i <= at + MSG[g] - 1
    /\ \A i \in 1..Len(ms) : ms[i][1] = g => ms[i] = <<g, i - at + 1>>
NoText(ms, g) == \A i \in 1..Len(ms) : ms[i][1] # g
WholeText(ms, g) == NoText(ms, g) \/ \E at \in 1..Len(ms) : TextAt(ms, g, at)

(* A list of whole texts and of errors, each of one line.                  *)
IsList(ms) ==
    /\ ms \in Seq(AllLines)
    /\ \A g \in Texts : WholeText(ms, g)
    /\ \A i \in 1..Len(ms) : ms[i][1] \in ErrorTexts => ms[i] = <<ms[i][1], 1>>

Errors(ms, e) == {i \in DOMAIN ms : ms[i][1] = e}

GpsInv ==
    /\ IsList(messages)
    /\ removals \in Seq(ErrorTexts)
    /\ ErrorsTimed
    /\ OffMeansWhy

LEMMA TextSizes ==
    /\ Texts = {"GROUND_TEST", "LEVELING", "PSEUDO_AHRS", "NO_AHRS"}
    /\ \A g \in Texts : MSG[g] \in 2..3
BY DEF Texts, MSG

(* indexOf finds a text where it begins.                                   *)
LEMMA IndexOfText ==
    ASSUME NEW ms, Len(ms) \in Nat, NEW g \in Texts
    PROVE  /\ NoText(ms, g) => indexOf(ms, <<g, 1>>) = 0
           /\ \A at : TextAt(ms, g, at) => indexOf(ms, <<g, 1>>) = at
<1> DEFINE I == {i \in 1..Len(ms) : ms[i] = <<g, 1>>}
<1>1. indexOf(ms, <<g, 1>>) = IF I # {} THEN Min(I) ELSE 0
  BY DEF indexOf, SelectInSeq
<1>2. ASSUME NoText(ms, g) PROVE I = {}
  BY <1>2 DEF NoText
<1>3. ASSUME NEW at, TextAt(ms, g, at) PROVE I = {at}
  <2>1. /\ at \in 1..Len(ms)
        /\ \A i \in 1..Len(ms) : ms[i][1] = g => ms[i] = <<g, i - at + 1>>
    BY <1>3 DEF TextAt
  <2>2. ms[at][1] = g
    BY <1>3, TextSizes DEF TextAt
  <2>3. \A i \in I : i = at
    <3> SUFFICES ASSUME NEW i \in I PROVE i = at
      OBVIOUS
    <3>1. ms[i] = <<g, 1>> /\ ms[i][1] = g
      OBVIOUS
    <3>2. ms[i] = <<g, i - at + 1>>
      BY <2>1, <3>1
    <3>3. 1 = i - at + 1
      BY <3>1, <3>2
    <3> QED
      BY <2>1, <3>3
  <2>4. ms[at] = <<g, 1>>
    BY <2>1, <2>2
  <2> QED
    BY <2>1, <2>3, <2>4
<1>4. ASSUME NEW at \in Nat PROVE Min({at}) = at
  <2>1. {at} \in SUBSET Nat /\ {at} # {}
    OBVIOUS
  <2> QED
    BY <2>1, LeastNumber
<1> HIDE DEF I
<1>5. ASSUME NEW at, TextAt(ms, g, at) PROVE indexOf(ms, <<g, 1>>) = at
  <2>1. at \in Nat
    BY <1>5 DEF TextAt
  <2> QED
    BY <1>1, <1>3, <1>4, <1>5, <2>1
<1> QED
  BY <1>1, <1>2, <1>5

(* What splice leaves: the elements before and after the ones taken out.   *)
Old(i, at, count) == IF i < at THEN i ELSE i + count

LEMMA SpliceKeeps ==
    ASSUME NEW S, NEW ms \in Seq(S), NEW at \in 1..Len(ms), NEW count \in Nat,
           at + count - 1 <= Len(ms)
    PROVE  /\ splice(ms, at, count) \in Seq(S)
           /\ Len(splice(ms, at, count)) = Len(ms) - count
           /\ \A i \in 1..(Len(ms) - count) :
                 /\ Old(i, at, count) \in 1..Len(ms)
                 /\ splice(ms, at, count)[i] = ms[Old(i, at, count)]
<1> DEFINE n == Len(ms) - count
           r == splice(ms, at, count)
<1>1. n \in Nat /\ Len(ms) \in Nat
  BY LenProperties
<1>2. r = [i \in 1..n |-> IF i < at THEN ms[i] ELSE ms[i + count]]
  BY DEF splice
<1>3. \A i \in 1..n : Old(i, at, count) \in 1..Len(ms) /\ r[i] = ms[Old(i, at, count)]
  BY <1>1, <1>2 DEF Old
<1>4. \A i \in 1..n : ms[Old(i, at, count)] \in S
  BY <1>3, ElementOfSeq
<1>5. r \in [1..n -> S]
  BY <1>2, <1>3, <1>4
<1>6. r \in Seq(S) /\ Len(r) = n
  <2>1. r \in Seq(S)
    BY <1>1, <1>5
  <2>2. DOMAIN r = 1..n
    BY <1>2
  <2> QED
    BY <1>1, <2>1, <2>2
<1> QED
  BY <1>3, <1>6

(* The places of the elements of a kind.  splice leaves as many as there   *)
(* were outside of what it takes out.                                      *)
Places(s, P) == {i \in DOMAIN s : s[i] \in P}
Outside(s, P, at, count) == Places(s, P) \ (at .. (at + count - 1))

LEMMA SpliceCounts ==
    ASSUME NEW S, NEW ms \in Seq(S), NEW at \in 1..Len(ms), NEW count \in Nat,
           at + count - 1 <= Len(ms), NEW P
    PROVE  Cardinality(Places(splice(ms, at, count), P))
               = Cardinality(Outside(ms, P, at, count))
<1> DEFINE r == splice(ms, at, count)
           n == Len(ms) - count
           A == {i \in DOMAIN r : r[i] \in P}
           B == {i \in DOMAIN ms : ms[i] \in P} \ (at .. (at + count - 1))
           f == [i \in A |-> Old(i, at, count)]
<1>1. /\ r \in Seq(S) /\ Len(r) = n /\ Len(ms) \in Nat /\ n \in Nat
      /\ \A i \in 1..n : Old(i, at, count) \in 1..Len(ms) /\ r[i] = ms[Old(i, at, count)]
  BY SpliceKeeps, LenProperties
<1>2. DOMAIN r = 1..n /\ DOMAIN ms = 1..Len(ms)
  BY <1>1, LenProperties
<1> HIDE DEF r, n
<1>3. \A i \in A : i \in 1..n /\ f[i] \in B
  BY <1>1, <1>2 DEF Old
<1>4. \A i, j \in A : f[i] = f[j] => i = j
  BY <1>2, <1>3 DEF Old
<1>5. \A j \in B : \E i \in A : f[i] = j
  <2> SUFFICES ASSUME NEW j \in B PROVE \E i \in A : f[i] = j
    OBVIOUS
  <2>1. j \in 1..Len(ms) /\ ms[j] \in P /\ (j < at \/ j >= at + count)
    BY <1>1, <1>2
  <2> DEFINE i == IF j < at THEN j ELSE j - count
  <2>2. i \in 1..n /\ Old(i, at, count) = j
    BY <1>1, <2>1 DEF Old, n
  <2>3. i \in A
    BY <1>1, <1>2, <2>1, <2>2
  <2>4. f[i] = j
    BY <2>2, <2>3
  <2> QED
    BY <2>3, <2>4
<1>6. f \in Bijection(A, B)
  <2>1. f \in [A -> B]
    BY <1>3
  <2> HIDE DEF f, A, B
  <2> QED
    BY <1>4, <1>5, <2>1 DEF Bijection, Injection, Surjection, IsInjective
<1>7. IsFiniteSet(A) /\ IsFiniteSet(B)
  <2>1. IsFiniteSet(1..n) /\ IsFiniteSet(1..Len(ms))
    BY <1>1, FS_Interval
  <2>2. A \subseteq 1..n /\ B \subseteq 1..Len(ms)
    BY <1>2
  <2> QED
    BY <2>1, <2>2, FS_Subset
<1> HIDE DEF A, B, f
<1>8. Cardinality(A) = Cardinality(B)
  <2>1. ExistsBijection(A, B)
    BY <1>6 DEF ExistsBijection
  <2> QED
    BY <1>7, <2>1, FS_Bijection
<1> QED
  BY <1>8 DEF A, B, r, Places, Outside

(* A text of which nothing is taken out stays whole.                       *)
LEMMA SpliceWhole ==
    ASSUME NEW ms, IsList(ms), NEW at \in 1..Len(ms), NEW count \in Nat \ {0},
           at + count - 1 <= Len(ms), NEW h \in Texts,
           \A i \in at .. (at + count - 1) : ms[i][1] # h
    PROVE  /\ WholeText(splice(ms, at, count), h)
           /\ NoText(splice(ms, at, count), h) <=> NoText(ms, h)
<1> DEFINE r == splice(ms, at, count)
           n == Len(ms) - count
<1>1. /\ ms \in Seq(AllLines) /\ Len(ms) \in Nat /\ n \in Nat
      /\ Len(r) = n
      /\ \A i \in 1..n : Old(i, at, count) \in 1..Len(ms) /\ r[i] = ms[Old(i, at, count)]
  BY SpliceKeeps, LenProperties DEF IsList
<1> HIDE DEF r
<1>2. CASE NoText(ms, h)
  <2>1. NoText(r, h)
    BY <1>1, <1>2 DEF NoText
  <2> QED
    BY <1>2, <2>1 DEF WholeText, r
<1>3. ASSUME NEW b \in 1..Len(ms), TextAt(ms, h, b) PROVE ~NoText(ms, h) /\ WholeText(r, h) /\ ~NoText(r, h)
  <2> DEFINE k == MSG[h]
             c == IF b < at THEN b ELSE b - count
  <2>1. k \in Nat \ {0}
    BY TextSizes
  <2>2. /\ b + k - 1 <= Len(ms)
        /\ \A i \in 1..Len(ms) : ms[i][1] = h <=> b <= i /\ i <= b + k - 1
        /\ \A i \in 1..Len(ms) : ms[i][1] = h => ms[i] = <<h, i - b + 1>>
    BY <1>3 DEF TextAt
  <2> HIDE DEF k
  <2>3. ms[b][1] = h
    BY <1>1, <2>1, <2>2
  <2>4. b + k - 1 < at \/ at + count <= b
    <3> SUFFICES ASSUME at <= b + k - 1, b < at + count PROVE FALSE
      BY <1>1, <2>1
    <3>1. CASE b < at
      <4>1. at \in at .. (at + count - 1) /\ ms[at][1] = h
        BY <2>1, <2>2, <3>1
      <4> QED
        BY <4>1
    <3>2. CASE at <= b
      <4>1. b \in at .. (at + count - 1)
        BY <3>2
      <4> QED
        BY <2>3, <4>1
    <3> QED
      BY <3>1, <3>2
  <2>5. c \in 1..n /\ c + k - 1 <= n
    BY <1>1, <2>1, <2>2, <2>4
  <2>6. \A i \in 1..n : c <= i /\ i <= c + k - 1 <=> b <= Old(i, at, count) /\ Old(i, at, count) <= b + k - 1
    <3> SUFFICES ASSUME NEW i \in 1..n
                 PROVE  c <= i /\ i <= c + k - 1
                            <=> b <= Old(i, at, count) /\ Old(i, at, count) <= b + k - 1
      OBVIOUS
    <3>1. CASE b + k - 1 < at
      <4>1. c = b
        BY <2>1, <3>1
      <4> QED
        BY <1>1, <2>1, <3>1, <4>1 DEF Old
    <3>2. CASE at + count <= b
      <4>1. c = b - count
        BY <3>2
      <4> QED
        BY <1>1, <2>1, <3>2, <4>1 DEF Old
    <3> QED
      BY <2>4, <3>1, <3>2
  <2>7. \A i \in 1..n : c <= i /\ i <= c + k - 1 => Old(i, at, count) - b + 1 = i - c + 1
    BY <1>1, <2>1, <2>4, <2>5 DEF Old
  <2> HIDE DEF c, n
  <2>8. \A i \in 1..n : r[i][1] = h <=> c <= i /\ i <= c + k - 1
    <3> SUFFICES ASSUME NEW i \in 1..n
                 PROVE  r[i][1] = h <=> c <= i /\ i <= c + k - 1
      OBVIOUS
    <3> DEFINE o == Old(i, at, count)
    <3>1. o \in 1..Len(ms) /\ r[i] = ms[o]
      BY <1>1
    <3>2. c <= i /\ i <= c + k - 1 <=> b <= o /\ o <= b + k - 1
      BY <2>6
    <3> HIDE DEF o
    <3> QED
      BY <2>2, <3>1, <3>2
  <2>9. \A i \in 1..n : r[i][1] = h => r[i] = <<h, i - c + 1>>
    <3> SUFFICES ASSUME NEW i \in 1..n, r[i][1] = h PROVE r[i] = <<h, i - c + 1>>
      OBVIOUS
    <3> DEFINE o == Old(i, at, count)
    <3>1. o \in 1..Len(ms) /\ r[i] = ms[o]
      BY <1>1
    <3>2. o - b + 1 = i - c + 1
      BY <2>7, <2>8
    <3> HIDE DEF o
    <3>3. ms[o] = <<h, o - b + 1>>
      BY <2>2, <3>1
    <3> QED
      BY <3>1, <3>2, <3>3
  <2>10. TextAt(r, h, c)
    BY <1>1, <2>5, <2>8, <2>9 DEF TextAt, k
  <2>11. r[c][1] = h
    <3>1. c <= c /\ c <= c + k - 1
      BY <1>1, <2>1, <2>5
    <3> QED
      BY <2>5, <2>8, <3>1
  <2> QED
    BY <1>1, <2>3, <2>5, <2>10, <2>11 DEF WholeText, NoText
<1>4. WholeText(ms, h)
  BY DEF IsList
<1> QED
  BY <1>2, <1>3, <1>4 DEF WholeText, r

(* The lines left of a list are lines, and its errors are whole.           *)
LEMMA SpliceLines ==
    ASSUME NEW ms, IsList(ms), NEW at \in 1..Len(ms), NEW count \in Nat,
           at + count - 1 <= Len(ms)
    PROVE  LET r == splice(ms, at, count) IN
           /\ r \in Seq(AllLines)
           /\ \A i \in 1..Len(r) : r[i][1] \in ErrorTexts => r[i] = <<r[i][1], 1>>
<1> DEFINE r == splice(ms, at, count)
<1>1. /\ ms \in Seq(AllLines)
      /\ r \in Seq(AllLines) /\ Len(r) = Len(ms) - count
      /\ \A i \in 1..Len(r) : Old(i, at, count) \in 1..Len(ms) /\ r[i] = ms[Old(i, at, count)]
  BY SpliceKeeps DEF IsList
<1> HIDE DEF r
<1>2. \A i \in 1..Len(ms) : ms[i][1] \in ErrorTexts => ms[i] = <<ms[i][1], 1>>
  BY DEF IsList
<1>3. \A i \in 1..Len(r) : r[i][1] \in ErrorTexts => r[i] = <<r[i][1], 1>>
  <2> SUFFICES ASSUME NEW i \in 1..Len(r), r[i][1] \in ErrorTexts PROVE r[i] = <<r[i][1], 1>>
    OBVIOUS
  <2>1. PICK o \in 1..Len(ms) : r[i] = ms[o]
    BY <1>1
  <2> QED
    BY <1>2, <2>1
<1> QED
  BY <1>1, <1>3 DEF r

(* The number of errors left.                                              *)
ErrorsOutside(ms, e, at, count) == Errors(ms, e) \ (at .. (at + count - 1))

LEMMA SpliceErrors ==
    ASSUME NEW ms, IsList(ms), NEW at \in 1..Len(ms), NEW count \in Nat,
           at + count - 1 <= Len(ms), NEW e
    PROVE  Cardinality(Errors(splice(ms, at, count), e))
               = Cardinality(ErrorsOutside(ms, e, at, count))
<1> DEFINE r == splice(ms, at, count)
           P == {l \in AllLines : l[1] = e}
<1>1. ms \in Seq(AllLines) /\ r \in Seq(AllLines)
  BY SpliceLines DEF IsList
<1>2. Cardinality(Places(r, P)) = Cardinality(Outside(ms, P, at, count))
  BY <1>1, SpliceCounts
<1>3. /\ \A i \in DOMAIN ms : ms[i] \in AllLines
      /\ \A i \in DOMAIN r : r[i] \in AllLines
  BY <1>1, LenProperties, ElementOfSeq
<1> HIDE DEF r
<1>4. Places(ms, P) = Errors(ms, e) /\ Places(r, P) = Errors(r, e)
  BY <1>3 DEF Errors, Places
<1>5. Outside(ms, P, at, count) = ErrorsOutside(ms, e, at, count)
  BY <1>4 DEF Outside, ErrorsOutside
<1> QED
  BY <1>2, <1>4, <1>5 DEF r

(* ms with more lines, all of the text x, at its end.                      *)
Extends(r, ms, x) ==
    /\ r \in Seq(AllLines) /\ Len(ms) <= Len(r)
    /\ \A i \in 1..Len(ms) : r[i] = ms[i]
    /\ \A i \in (Len(ms) + 1)..Len(r) : r[i][1] = x

(* Nothing becomes of the other texts and errors.                          *)
LEMMA ExtendedWhole ==
    ASSUME NEW ms, IsList(ms), NEW r, NEW x, Extends(r, ms, x), NEW h \in Texts, h # x
    PROVE  WholeText(r, h) /\ (NoText(r, h) <=> NoText(ms, h))
<1>1. /\ Len(ms) \in Nat /\ Len(r) \in Nat /\ Len(ms) <= Len(r)
      /\ \A i \in 1..Len(ms) : r[i] = ms[i]
      /\ \A i \in 1..Len(r) : i > Len(ms) => r[i][1] # h
  <2>1. /\ ms \in Seq(AllLines) /\ r \in Seq(AllLines) /\ Len(ms) <= Len(r)
        /\ \A i \in 1..Len(ms) : r[i] = ms[i]
        /\ \A i \in (Len(ms) + 1)..Len(r) : r[i][1] = x
    BY DEF IsList, Extends
  <2>2. Len(ms) \in Nat /\ Len(r) \in Nat
    BY <2>1, LenProperties
  <2>3. \A i \in 1..Len(r) : i > Len(ms) => i \in (Len(ms) + 1)..Len(r)
    BY <2>2
  <2> QED
    BY <2>1, <2>2, <2>3
<1>2. CASE NoText(ms, h)
  <2>1. NoText(r, h)
    BY <1>1, <1>2 DEF NoText
  <2> QED
    BY <1>2, <2>1 DEF WholeText
<1>3. ASSUME NEW b \in 1..Len(ms), TextAt(ms, h, b) PROVE ~NoText(ms, h) /\ WholeText(r, h) /\ ~NoText(r, h)
  <2> DEFINE k == MSG[h]
  <2>1. k \in Nat \ {0}
    BY TextSizes
  <2>2. /\ b + k - 1 <= Len(ms)
        /\ \A i \in 1..Len(ms) : ms[i][1] = h <=> b <= i /\ i <= b + k - 1
        /\ \A i \in 1..Len(ms) : ms[i][1] = h => ms[i] = <<h, i - b + 1>>
    BY <1>3 DEF TextAt
  <2> HIDE DEF k
  <2>3. b \in 1..Len(r) /\ b + k - 1 <= Len(r) /\ b <= b + k - 1
    BY <1>1, <2>1, <2>2
  <2>4. \A i \in 1..Len(r) : r[i][1] = h <=> b <= i /\ i <= b + k - 1
    <3> SUFFICES ASSUME NEW i \in 1..Len(r) PROVE r[i][1] = h <=> b <= i /\ i <= b + k - 1
      OBVIOUS
    <3>1. CASE i <= Len(ms)
      <4>1. i \in 1..Len(ms) /\ r[i] = ms[i]
        BY <1>1, <3>1
      <4> QED
        BY <2>2, <4>1
    <3>2. CASE i > Len(ms)
      BY <1>1, <2>1, <2>2, <3>2
    <3> QED
      BY <1>1, <3>1, <3>2
  <2>5. \A i \in 1..Len(r) : r[i][1] = h => r[i] = <<h, i - b + 1>>
    <3> SUFFICES ASSUME NEW i \in 1..Len(r), r[i][1] = h PROVE r[i] = <<h, i - b + 1>>
      OBVIOUS
    <3>1. i \in 1..Len(ms)
      BY <1>1
    <3> QED
      BY <1>1, <2>2, <3>1
  <2>6. TextAt(r, h, b)
    BY <2>3, <2>4, <2>5 DEF TextAt, k
  <2>7. r[b][1] = h /\ ms[b][1] = h
    BY <1>1, <2>2, <2>3
  <2> QED
    BY <2>3, <2>6, <2>7 DEF WholeText, NoText
<1>4. WholeText(ms, h)
  BY DEF IsList
<1> QED
  BY <1>2, <1>3, <1>4 DEF WholeText

LEMMA ExtendedErrors ==
    ASSUME NEW ms, IsList(ms), NEW r, NEW x, Extends(r, ms, x), NEW e, e # x
    PROVE  Errors(r, e) = Errors(ms, e)
<1>1. /\ Len(ms) \in Nat /\ Len(r) \in Nat /\ Len(ms) <= Len(r)
      /\ DOMAIN ms = 1..Len(ms) /\ DOMAIN r = 1..Len(r)
      /\ \A i \in 1..Len(ms) : r[i] = ms[i]
      /\ \A i \in (Len(ms) + 1)..Len(r) : r[i][1] = x
  BY LenProperties DEF IsList, Extends
<1>2. \A i \in 1..Len(r) : r[i][1] = e => i \in 1..Len(ms)
  BY <1>1
<1>3. \A i \in 1..Len(ms) : i \in 1..Len(r)
  BY <1>1
<1> QED
  BY <1>1, <1>2, <1>3 DEF Errors

(* The indices of a kind are finitely many.                                *)
LEMMA FiniteErrors ==
    ASSUME NEW S, NEW ms \in Seq(S), NEW e
    PROVE  IsFiniteSet(Errors(ms, e)) /\ Cardinality(Errors(ms, e)) \in Nat
<1>1. Len(ms) \in Nat /\ DOMAIN ms = 1..Len(ms)
  BY LenProperties
<1>2. IsFiniteSet(1..Len(ms)) /\ Errors(ms, e) \subseteq 1..Len(ms)
  BY <1>1, FS_Interval DEF Errors
<1>3. IsFiniteSet(Errors(ms, e))
  BY <1>2, FS_Subset
<1> QED
  BY <1>3, FS_CardinalityType

(* A text that is shown and was not.                                       *)
LEMMA TextAdded ==
    ASSUME NEW ms, IsList(ms), NEW g \in Texts, NoText(ms, g)
    PROVE  LET r == ms \o Lines(g) IN
           /\ IsList(r) /\ ~NoText(r, g)
           /\ \A h \in Texts : h # g => (NoText(r, h) <=> NoText(ms, h))
           /\ \A e \in ErrorTexts : Errors(r, e) = Errors(ms, e)
<1> DEFINE t == Lines(g)
           k == MSG[g]
           n == Len(ms)
           r == ms \o t
<1>1. k \in 2..3 /\ ms \in Seq(AllLines) /\ n \in Nat
  BY TextSizes, LenProperties DEF IsList
<1>2. t = [i \in 1..k |-> <<g, i>>]
  BY DEF Lines
<1> HIDE DEF k, n
<1>3. \A i \in 1..k : <<g, i>> \in AllLines
  BY <1>1 DEF AllLines, TextLines
<1>4. t \in Seq(AllLines) /\ Len(t) = k /\ \A i \in 1..k : t[i] = <<g, i>>
  <2>1. t \in [1..k -> AllLines] /\ DOMAIN t = 1..k /\ \A i \in 1..k : t[i] = <<g, i>>
    BY <1>2, <1>3
  <2> HIDE DEF t
  <2>2. t \in Seq(AllLines)
    BY <1>1, <2>1
  <2> QED
    BY <1>1, <2>1, <2>2
<1> HIDE DEF t
<1>5. /\ r \in Seq(AllLines) /\ Len(r) = n + k
      /\ \A i \in 1..(n + k) : r[i] = IF i <= n THEN ms[i] ELSE t[i - n]
  BY <1>1, <1>4, ConcatProperties DEF n
<1> HIDE DEF r
<1>6. /\ \A i \in 1..n : r[i] = ms[i]
      /\ \A i \in (n + 1)..(n + k) : r[i] = <<g, i - n>>
  BY <1>1, <1>4, <1>5
<1>7. Extends(r, ms, g)
  BY <1>1, <1>5, <1>6 DEF Extends, n
<1>8. TextAt(r, g, n + 1)
  <2>1. n + 1 \in 1..Len(r) /\ (n + 1) + k - 1 <= Len(r)
    BY <1>1, <1>5
  <2>2. ASSUME NEW i \in 1..Len(r)
        PROVE  /\ r[i][1] = g <=> n + 1 <= i /\ i <= (n + 1) + k - 1
               /\ r[i][1] = g => r[i] = <<g, i - (n + 1) + 1>>
    <3>1. CASE i <= n
      <4>1. ms[i][1] # g
        BY <1>1, <3>1 DEF NoText, n
      <4> QED
        BY <1>1, <1>5, <1>6, <3>1, <4>1
    <3>2. CASE i > n
      <4>1. r[i] = <<g, i - n>> /\ i - (n + 1) + 1 = i - n
        BY <1>1, <1>5, <1>6, <3>2
      <4>2. r[i][1] = g
        BY <4>1
      <4> QED
        BY <1>1, <1>5, <3>2, <4>1, <4>2
    <3> QED
      BY <1>1, <3>1, <3>2
  <2> QED
    BY <2>1, <2>2 DEF TextAt, k
<1>9. ~NoText(r, g)
  BY <1>1, <1>5, <1>6 DEF NoText
<1>10. g \notin ErrorTexts
  BY GpsAssumption DEF Texts
<1>11. \A i \in 1..Len(r) : r[i][1] \in ErrorTexts => r[i] = <<r[i][1], 1>>
  <2> SUFFICES ASSUME NEW i \in 1..Len(r), r[i][1] \in ErrorTexts PROVE r[i] = <<r[i][1], 1>>
    OBVIOUS
  <2>1. CASE i > n
    <3>1. i \in (n + 1)..(n + k)
      BY <1>1, <1>5, <2>1
    <3>2. r[i][1] = g
      BY <1>6, <3>1
    <3> QED
      BY <1>10, <3>2
  <2>2. CASE i <= n
    <3>1. i \in 1..n
      BY <1>1, <2>2
    <3> QED
      BY <1>6, <3>1 DEF IsList, n
  <2> QED
    BY <1>1, <2>1, <2>2
<1>12. WholeText(r, g)
  BY <1>1, <1>5, <1>8 DEF WholeText
<1>13. \A h \in Texts : h # g => WholeText(r, h) /\ (NoText(r, h) <=> NoText(ms, h))
  BY <1>7, ExtendedWhole
<1>14. \A e \in ErrorTexts : Errors(r, e) = Errors(ms, e)
  BY <1>7, <1>10, ExtendedErrors
<1>15. IsList(r)
  BY <1>5, <1>11, <1>12, <1>13 DEF IsList
<1> QED
  BY <1>9, <1>13, <1>14, <1>15 DEF r, t

(* A text that is taken out.                                               *)
LEMMA TextRemoved ==
    ASSUME NEW ms, IsList(ms), NEW g \in Texts, NEW at \in 1..Len(ms), TextAt(ms, g, at)
    PROVE  LET r == splice(ms, at, MSG[g]) IN
           /\ IsList(r) /\ NoText(r, g)
           /\ \A h \in Texts : h # g => (NoText(r, h) <=> NoText(ms, h))
           /\ \A e \in ErrorTexts : Cardinality(Errors(r, e)) = Cardinality(Errors(ms, e))
<1> DEFINE k == MSG[g]
           r == splice(ms, at, k)
<1>1. k \in Nat \ {0} /\ at + k - 1 <= Len(ms) /\ ms \in Seq(AllLines) /\ Len(ms) \in Nat
  BY TextSizes, LenProperties DEF TextAt, IsList
<1>2. \A i \in 1..Len(ms) : ms[i][1] = g <=> i \in at .. (at + k - 1)
  BY <1>1 DEF TextAt
<1> HIDE DEF k
<1>3. \A i \in at .. (at + k - 1) : i \in 1..Len(ms) /\ ms[i][1] = g
  BY <1>1, <1>2
<1>4. \A h \in Texts : h # g => WholeText(r, h) /\ (NoText(r, h) <=> NoText(ms, h))
  BY <1>1, <1>3, SpliceWhole
<1>5. /\ Len(r) = Len(ms) - k
      /\ \A i \in 1..Len(r) : Old(i, at, k) \in 1..Len(ms) /\ r[i] = ms[Old(i, at, k)]
  BY <1>1, SpliceKeeps
<1>6. /\ r \in Seq(AllLines)
      /\ \A i \in 1..Len(r) : r[i][1] \in ErrorTexts => r[i] = <<r[i][1], 1>>
  BY <1>1, SpliceLines
<1>7. ASSUME NEW e \in ErrorTexts PROVE Cardinality(Errors(r, e)) = Cardinality(Errors(ms, e))
  <2>1. e # g
    BY GpsAssumption DEF Texts
  <2>2. ErrorsOutside(ms, e, at, k) = Errors(ms, e)
    BY <1>3, <2>1 DEF Errors, ErrorsOutside
  <2> QED
    BY <1>1, <2>2, SpliceErrors
<1> HIDE DEF r
<1>8. NoText(r, g)
  <2> SUFFICES ASSUME NEW i \in 1..Len(r) PROVE r[i][1] # g
    BY DEF NoText
  <2> DEFINE o == Old(i, at, k)
  <2>1. o \in 1..Len(ms) /\ r[i] = ms[o]
    BY <1>5
  <2>2. o \notin at .. (at + k - 1)
    BY <1>1, <1>5 DEF Old
  <2> HIDE DEF o
  <2> QED
    BY <1>2, <2>1, <2>2
<1>9. IsList(r)
  BY <1>4, <1>6, <1>8 DEF IsList, WholeText
<1> QED
  BY <1>4, <1>7, <1>8, <1>9 DEF r, k

(* The first line stands for the text.                                     *)
LEMMA SaysText ==
    ASSUME NEW ms, IsList(ms), NEW g \in Texts
    PROVE  /\ Says(ms, g) <=> ~NoText(ms, g)
           /\ Says(ms, g) => /\ indexOf(ms, <<g, 1>>) \in 1..Len(ms)
                             /\ TextAt(ms, g, indexOf(ms, <<g, 1>>))
<1>1. Len(ms) \in Nat /\ WholeText(ms, g)
  BY LenProperties DEF IsList
<1>2. CASE NoText(ms, g)
  <2>1. indexOf(ms, <<g, 1>>) = 0
    BY <1>1, <1>2, IndexOfText
  <2> QED
    BY <1>2, <2>1 DEF Says
<1>3. ASSUME NEW at \in 1..Len(ms), TextAt(ms, g, at)
      PROVE  ~NoText(ms, g) /\ Says(ms, g) /\ indexOf(ms, <<g, 1>>) = at
  <2>1. indexOf(ms, <<g, 1>>) = at
    BY <1>1, <1>3, IndexOfText
  <2>2. ms[at][1] = g
    BY <1>3, TextSizes DEF TextAt
  <2> QED
    BY <1>1, <2>1, <2>2 DEF Says, NoText
<1> QED
  BY <1>1, <1>2, <1>3 DEF WholeText

(* Show keeps the list whole, and leaves alone the other texts and the     *)
(* errors.                                                                 *)
LEMMA ShowKeeps ==
    ASSUME NEW ms, IsList(ms), NEW g \in Texts, NEW begins, NEW ends
    PROVE  LET r == Show(ms, g, begins, ends) IN
           /\ IsList(r)
           /\ \A h \in Texts : h # g => (Says(r, h) <=> Says(ms, h))
           /\ \A e \in ErrorTexts : Cardinality(Errors(r, e)) = Cardinality(Errors(ms, e))
<1> DEFINE r == Show(ms, g, begins, ends)
<1>0. SUFFICES /\ IsList(r)
               /\ \A h \in Texts : h # g => (NoText(r, h) <=> NoText(ms, h))
               /\ \A e \in ErrorTexts : Cardinality(Errors(r, e)) = Cardinality(Errors(ms, e))
  <2> HIDE DEF r
  <2>1. \A h \in Texts : (IsList(r) => (Says(r, h) <=> ~NoText(r, h))) /\ (Says(ms, h) <=> ~NoText(ms, h))
    BY SaysText
  <2> QED
    BY <1>0, <2>1 DEF r
<1>1. CASE ~Says(ms, g) /\ begins
  <2>1. r = ms \o Lines(g)
    BY <1>1 DEF Show
  <2>2. NoText(ms, g)
    BY <1>1, SaysText
  <2> QED
    BY <2>1, <2>2, TextAdded
<1>2. CASE Says(ms, g) /\ ends
  <2>1. r = splice(ms, indexOf(ms, <<g, 1>>), MSG[g])
    BY <1>2 DEF Show
  <2>2. /\ indexOf(ms, <<g, 1>>) \in 1..Len(ms)
        /\ TextAt(ms, g, indexOf(ms, <<g, 1>>))
    BY <1>2, SaysText
  <2> QED
    BY <2>1, <2>2, TextRemoved
<1>3. CASE ~(~Says(ms, g) /\ begins) /\ ~(Says(ms, g) /\ ends)
  <2>1. r = ms
    BY <1>3 DEF Show
  <2> QED
    BY <2>1
<1> QED
  BY <1>1, <1>2, <1>3

(* An error at the end of the list.                                        *)
LEMMA ErrorAdded ==
    ASSUME NEW ms, IsList(ms), NEW e \in ErrorTexts
    PROVE  LET r == Append(ms, <<e, 1>>) IN
           /\ IsList(r)
           /\ \A h \in Texts : NoText(r, h) <=> NoText(ms, h)
           /\ Cardinality(Errors(r, e)) = Cardinality(Errors(ms, e)) + 1
           /\ \A f \in ErrorTexts : f # e => Errors(r, f) = Errors(ms, f)
<1> DEFINE r == Append(ms, <<e, 1>>)
           n == Len(ms)
<1>1. ms \in Seq(AllLines) /\ n \in Nat /\ <<e, 1>> \in AllLines
  BY LenProperties DEF IsList, AllLines, TextLines
<1>2. /\ r \in Seq(AllLines) /\ Len(r) = n + 1
      /\ \A i \in 1..n : r[i] = ms[i]
      /\ r[n + 1] = <<e, 1>>
  BY <1>1, AppendProperties
<1> HIDE DEF r
<1>3. Extends(r, ms, e)
  BY <1>1, <1>2 DEF Extends
<1>4. e \notin Texts
  BY GpsAssumption DEF Texts
<1>5. \A h \in Texts : WholeText(r, h) /\ (NoText(r, h) <=> NoText(ms, h))
  BY <1>3, <1>4, ExtendedWhole
<1>6. \A f \in ErrorTexts : f # e => Errors(r, f) = Errors(ms, f)
  BY <1>3, ExtendedErrors
<1>7. \A i \in 1..Len(r) : r[i][1] \in ErrorTexts => r[i] = <<r[i][1], 1>>
  <2> SUFFICES ASSUME NEW i \in 1..Len(r), r[i][1] \in ErrorTexts PROVE r[i] = <<r[i][1], 1>>
    OBVIOUS
  <2>1. CASE i \in 1..n
    BY <1>2, <2>1 DEF IsList
  <2>2. CASE i = n + 1
    BY <1>2, <2>2
  <2> QED
    BY <1>1, <1>2, <2>1, <2>2
<1>8. IsList(r)
  BY <1>2, <1>5, <1>7 DEF IsList
<1>9. Errors(r, e) = Errors(ms, e) \cup {n + 1} /\ n + 1 \notin Errors(ms, e)
  <2>1. DOMAIN r = 1..(n + 1) /\ DOMAIN ms = 1..n
    BY <1>1, <1>2, LenProperties
  <2>2. r[n + 1][1] = e
    BY <1>2
  <2> HIDE DEF n
  <2>3. \A i \in 1..(n + 1) : i \in 1..n \/ i = n + 1
    BY <1>1
  <2>4. n + 1 \in 1..(n + 1) /\ n + 1 \notin 1..n /\ \A i \in 1..n : i \in 1..(n + 1)
    BY <1>1
  <2> QED
    BY <1>2, <2>1, <2>2, <2>3, <2>4 DEF Errors
<1>10. Cardinality(Errors(r, e)) = Cardinality(Errors(ms, e)) + 1
  <2>1. IsFiniteSet(Errors(ms, e))
    BY <1>1, FiniteErrors
  <2> QED
    BY <1>9, <2>1, FS_AddElement
<1> QED
  BY <1>5, <1>6, <1>8, <1>10 DEF r

(* An error is taken out.                                                  *)
LEMMA ErrorRemoved ==
    ASSUME NEW ms, IsList(ms), NEW e \in ErrorTexts, NEW at \in 1..Len(ms), ms[at][1] = e
    PROVE  LET r == splice(ms, at, 1) IN
           /\ IsList(r)
           /\ \A h \in Texts : NoText(r, h) <=> NoText(ms, h)
           /\ Cardinality(Errors(r, e)) = Cardinality(Errors(ms, e)) - 1
           /\ \A f \in ErrorTexts : f # e => Cardinality(Errors(r, f)) = Cardinality(Errors(ms, f))
<1> DEFINE r == splice(ms, at, 1)
<1>1. ms \in Seq(AllLines) /\ Len(ms) \in Nat /\ at + 1 - 1 <= Len(ms) /\ DOMAIN ms = 1..Len(ms)
  BY LenProperties DEF IsList
<1>2. at .. (at + 1 - 1) = {at} /\ ms[at][1] = e /\ e \notin Texts
  BY GpsAssumption DEF Texts
<1>3. \A h \in Texts : WholeText(r, h) /\ (NoText(r, h) <=> NoText(ms, h))
  <2> SUFFICES ASSUME NEW h \in Texts PROVE WholeText(r, h) /\ (NoText(r, h) <=> NoText(ms, h))
    OBVIOUS
  <2>1. \A i \in at .. (at + 1 - 1) : ms[i][1] # h
    BY <1>2
  <2> QED
    BY <1>1, <2>1, SpliceWhole
<1>4. /\ r \in Seq(AllLines)
      /\ \A i \in 1..Len(r) : r[i][1] \in ErrorTexts => r[i] = <<r[i][1], 1>>
  BY <1>1, SpliceLines
<1>5. IsList(r)
  BY <1>3, <1>4 DEF IsList
<1>6. ASSUME NEW f \in ErrorTexts
      PROVE  /\ Cardinality(Errors(r, f)) = Cardinality(Errors(ms, f) \ {at})
             /\ IsFiniteSet(Errors(ms, f))
             /\ at \in Errors(ms, f) <=> f = e
  <2> DEFINE one == 1
  <2>0. one \in Nat /\ at + one - 1 <= Len(ms) /\ r = splice(ms, at, one)
           /\ ErrorsOutside(ms, f, at, one) = Errors(ms, f) \ {at}
    BY <1>1, <1>2 DEF ErrorsOutside
  <2> HIDE DEF one, r
  <2>1. Cardinality(Errors(r, f)) = Cardinality(Errors(ms, f) \ {at})
    <3>1. Cardinality(Errors(splice(ms, at, one), f)) = Cardinality(ErrorsOutside(ms, f, at, one))
      BY <1>1, <2>0, SpliceErrors
    <3> QED
      BY <2>0, <3>1
  <2>2. at \in Errors(ms, f) <=> f = e
    BY <1>1, <1>2 DEF Errors
  <2> QED
    BY <1>1, <1>2, <2>1, <2>2, FiniteErrors
<1> HIDE DEF r
<1>7. Cardinality(Errors(r, e)) = Cardinality(Errors(ms, e)) - 1
  BY <1>6, FS_RemoveElement
<1>8. \A f \in ErrorTexts : f # e => Cardinality(Errors(r, f)) = Cardinality(Errors(ms, f))
  BY <1>6, FS_RemoveElement
<1> QED
  BY <1>3, <1>5, <1>7, <1>8 DEF r

(* The timers of an error, when one more is set and when the first is due. *)
Timers(rs, e) == {i \in DOMAIN rs : rs[i] = e}

LEMMA TimerSet ==
    ASSUME NEW rs \in Seq(ErrorTexts), NEW e \in ErrorTexts
    PROVE  /\ Append(rs, e) \in Seq(ErrorTexts)
           /\ Cardinality(Timers(Append(rs, e), e)) = Cardinality(Timers(rs, e)) + 1
           /\ \A f \in ErrorTexts : f # e => Timers(Append(rs, e), f) = Timers(rs, f)
<1> DEFINE r == Append(rs, e)
           n == Len(rs)
<1>1. n \in Nat /\ DOMAIN rs = 1..n
  BY LenProperties
<1>2. /\ r \in Seq(ErrorTexts) /\ Len(r) = n + 1
      /\ \A i \in 1..n : r[i] = rs[i]
      /\ r[n + 1] = e
  BY AppendProperties
<1>3. DOMAIN r = 1..(n + 1)
  BY <1>2, LenProperties
<1> HIDE DEF r, n
<1>4. \A i \in 1..(n + 1) : i \in 1..n \/ i = n + 1
  BY <1>1
<1>5. n + 1 \in 1..(n + 1) /\ n + 1 \notin 1..n /\ \A i \in 1..n : i \in 1..(n + 1)
  BY <1>1
<1>6. \A f \in ErrorTexts : f # e => Timers(r, f) = Timers(rs, f)
  BY <1>1, <1>2, <1>3, <1>4, <1>5 DEF Timers
<1>7. Timers(r, e) = Timers(rs, e) \cup {n + 1} /\ n + 1 \notin Timers(rs, e)
  BY <1>1, <1>2, <1>3, <1>4, <1>5 DEF Timers
<1>8. IsFiniteSet(Timers(rs, e))
  <2>1. IsFiniteSet(1..n) /\ Timers(rs, e) \subseteq 1..n
    BY <1>1, FS_Interval DEF Timers
  <2> QED
    BY <2>1, FS_Subset
<1>9. Cardinality(Timers(r, e)) = Cardinality(Timers(rs, e)) + 1
  BY <1>7, <1>8, FS_AddElement
<1> QED
  BY <1>2, <1>6, <1>9 DEF r

LEMMA TimerDue ==
    ASSUME NEW rs \in Seq(ErrorTexts), rs # <<>>
    PROVE  /\ Head(rs) \in ErrorTexts /\ Tail(rs) \in Seq(ErrorTexts)
           /\ Cardinality(Timers(rs, Head(rs))) \in Nat \ {0}
           /\ Cardinality(Timers(Tail(rs), Head(rs))) = Cardinality(Timers(rs, Head(rs))) - 1
           /\ \A f \in ErrorTexts : f # Head(rs) =>
                 Cardinality(Timers(Tail(rs), f)) = Cardinality(Timers(rs, f))
<1> DEFINE n == Len(rs)
<1>1. /\ n \in Nat \ {0} /\ DOMAIN rs = 1..n
      /\ Head(rs) = rs[1] /\ Head(rs) \in ErrorTexts /\ Tail(rs) \in Seq(ErrorTexts)
      /\ Len(Tail(rs)) = n - 1 /\ DOMAIN Tail(rs) = 1..(n - 1)
      /\ \A i \in 1..(n - 1) : Tail(rs)[i] = rs[i + 1]
  BY LenProperties, EmptySeq, HeadTailProperties, ElementOfSeq
<1>2. \A i \in 1..(n - 1) : Old(i, 1, 1) = i + 1
  BY <1>1 DEF Old
<1>3. ASSUME NEW f \in ErrorTexts
      PROVE  /\ Cardinality(Timers(Tail(rs), f)) = Cardinality(Timers(rs, f) \ {1})
             /\ IsFiniteSet(Timers(rs, f))
             /\ 1 \in Timers(rs, f) <=> f = Head(rs)
  <2>1. Tail(rs) = splice(rs, 1, 1)
    <3>1. 1 \in Nat /\ 1 \in 1..Len(rs) /\ 1 + 1 - 1 <= Len(rs)
      BY <1>1
    <3>2. /\ splice(rs, 1, 1) \in Seq(ErrorTexts) /\ Len(splice(rs, 1, 1)) = n - 1
          /\ \A i \in 1..(n - 1) : splice(rs, 1, 1)[i] = rs[Old(i, 1, 1)]
      <4> DEFINE one == 1
      <4>1. one \in Nat /\ one \in 1..Len(rs) /\ one + one - 1 <= Len(rs) /\ n - one = n - 1
        BY <3>1
      <4> HIDE DEF one, n
      <4>2. /\ splice(rs, one, one) \in Seq(ErrorTexts) /\ Len(splice(rs, one, one)) = Len(rs) - one
            /\ \A i \in 1..(Len(rs) - one) : splice(rs, one, one)[i] = rs[Old(i, one, one)]
        BY <4>1, SpliceKeeps
      <4> QED
        BY <4>2 DEF one, n
    <3>3. \A i \in 1..(n - 1) : splice(rs, 1, 1)[i] = Tail(rs)[i]
      BY <1>1, <1>2, <3>2
    <3> HIDE DEF n
    <3> QED
      BY <1>1, <3>2, <3>3, SeqEqual
  <2>2. \A at \in 1..Len(rs) : \A c \in Nat : \A P : at + c - 1 <= Len(rs) =>
            Cardinality(Places(splice(rs, at, c), P)) = Cardinality(Outside(rs, P, at, c))
    BY SpliceCounts
  <2>3. 1 \in 1..Len(rs) /\ 1 \in Nat /\ 1 + 1 - 1 <= Len(rs)
        /\ Outside(rs, {f}, 1, 1) = Places(rs, {f}) \ {1}
    BY <1>1 DEF Outside
  <2>4. Cardinality(Places(splice(rs, 1, 1), {f})) = Cardinality(Places(rs, {f}) \ {1})
    <3>1. Cardinality(Places(splice(rs, 1, 1), {f})) = Cardinality(Outside(rs, {f}, 1, 1))
      BY <2>2, <2>3, Zenon
    <3> QED
      BY <2>3, <3>1, Zenon
  <2>5. \A s : Places(s, {f}) = Timers(s, f)
    BY DEF Places, Timers
  <2>6. IsFiniteSet(1..n) /\ Timers(rs, f) \subseteq 1..n
    BY <1>1, FS_Interval DEF Timers
  <2>7. 1 \in Timers(rs, f) <=> f = Head(rs)
    BY <1>1 DEF Timers
  <2> QED
    BY <2>1, <2>4, <2>5, <2>6, <2>7, FS_Subset
<1>4. Cardinality(Timers(rs, Head(rs))) \in Nat \ {0}
  BY <1>1, <1>3, FS_CardinalityType, FS_EmptySet
<1>5. \A f \in ErrorTexts : Cardinality(Timers(rs, f) \ {1}) =
          IF 1 \in Timers(rs, f) THEN Cardinality(Timers(rs, f)) - 1 ELSE Cardinality(Timers(rs, f))
  BY <1>3, FS_RemoveElement
<1>6. \A f \in ErrorTexts : Cardinality(Timers(Tail(rs), f)) =
          IF f = Head(rs) THEN Cardinality(Timers(rs, f)) - 1 ELSE Cardinality(Timers(rs, f))
  BY <1>3, <1>5
<1> QED
  BY <1>1, <1>4, <1>6

LEMMA GpsInitInv == GpsInit => GpsInv
<1> SUFFICES ASSUME GpsInit PROVE GpsInv
  OBVIOUS
<1>1. messages = <<>> /\ removals = <<>> /\ display = "on"
  BY DEF GpsInit
<1>2. IsList(messages)
  BY <1>1 DEF IsList, WholeText, NoText
<1>3. ErrorsTimed
  <2>1. \A e : {i \in DOMAIN messages : messages[i][1] = e} = {} /\ {i \in DOMAIN removals : removals[i] = e} = {}
    BY <1>1
  <2> QED
    BY <2>1 DEF ErrorsTimed
<1> QED
  BY <1>1, <1>2, <1>3 DEF GpsInv, OffMeansWhy

(* A situation message: the four texts one after the other.                *)
LEMMA SituationStep ==
    ASSUME GpsInv, NEW poor \in BOOLEAN, NEW caging \in BOOLEAN, loadSituation(poor, caging)
    PROVE  GpsInv'
<1> DEFINE imu == IMU_Sensor_Enabled
           m1 == Show(messages, "GROUND_TEST", imu /\ poor, ~poor)
           m2 == Show(m1, "NO_AHRS", ~imu /\ poor, imu \/ ~poor)
           m3 == Show(m2, "LEVELING", caging, ~caging)
           m4 == Show(m3, "PSEUDO_AHRS", ~imu /\ ~poor, imu \/ poor)
           d2 == Switch(m1, m2, "NO_AHRS", display)
           d3 == Switch(m2, m3, "LEVELING", d2)
           SameErrors(r, s) == \A e \in ErrorTexts : Cardinality(Errors(r, e)) = Cardinality(Errors(s, e))
<1>1. messages' = m4 /\ display' = d3 /\ removals' = removals
  BY DEF loadSituation
<1>2. {"GROUND_TEST", "NO_AHRS", "LEVELING", "PSEUDO_AHRS"} \subseteq Texts
  BY TextSizes
<1>3. /\ IsList(m1) /\ SameErrors(m1, messages)
      /\ \A h \in Texts : h # "GROUND_TEST" => (Says(m1, h) <=> Says(messages, h))
  BY <1>2, ShowKeeps DEF GpsInv
<1> HIDE DEF m1
<1>4. /\ IsList(m2) /\ SameErrors(m2, m1)
      /\ \A h \in Texts : h # "NO_AHRS" => (Says(m2, h) <=> Says(m1, h))
  BY <1>2, <1>3, ShowKeeps
<1> HIDE DEF m2
<1>5. /\ IsList(m3) /\ SameErrors(m3, m2)
      /\ \A h \in Texts : h # "LEVELING" => (Says(m3, h) <=> Says(m2, h))
  BY <1>2, <1>4, ShowKeeps
<1> HIDE DEF m3
<1>6. /\ IsList(m4) /\ SameErrors(m4, m3)
      /\ \A h \in Texts : h # "PSEUDO_AHRS" => (Says(m4, h) <=> Says(m3, h))
  BY <1>2, <1>5, ShowKeeps
<1> HIDE DEF m4
<1>7. SameErrors(m4, messages)
  BY <1>3, <1>4, <1>5, <1>6
<1>8. ErrorsTimed'
  <2>1. \A e \in ErrorTexts : Cardinality(Errors(messages', e)) = Cardinality(Timers(removals', e))
    <3>1. \A e \in ErrorTexts : Cardinality(Errors(messages, e)) = Cardinality(Timers(removals, e))
      BY DEF GpsInv, ErrorsTimed, Errors, Timers
    <3> QED
      BY <1>1, <1>7, <3>1
  <2> QED
    BY <2>1 DEF ErrorsTimed, Errors, Timers
<1>9. d3 = "off" => Says(m4, "NO_AHRS") \/ Says(m4, "LEVELING")
  <2>1. /\ Says(m4, "NO_AHRS") <=> Says(m2, "NO_AHRS")
        /\ Says(m4, "LEVELING") <=> Says(m3, "LEVELING")
        /\ Says(m1, "NO_AHRS") <=> Says(messages, "NO_AHRS")
        /\ Says(m2, "LEVELING") <=> Says(messages, "LEVELING")
    BY <1>2, <1>3, <1>4, <1>5, <1>6
  <2>2. display = "off" => Says(messages, "NO_AHRS") \/ Says(messages, "LEVELING")
    BY DEF GpsInv, OffMeansWhy
  <2> QED
    BY <2>1, <2>2 DEF Switch
<1>10. OffMeansWhy'
  <2>1. \A g : Says(messages', g) <=> Says(m4, g)
    BY <1>1
  <2>2. OffMeansWhy' <=> (display' = "off" => Says(messages', "NO_AHRS") \/ Says(messages', "LEVELING"))
    BY DEF OffMeansWhy, Says, indexOf, SelectInSeq
  <2> QED
    BY <1>1, <1>9, <2>1, <2>2
<1>11. IsList(messages)' /\ (removals \in Seq(ErrorTexts))'
  <2>1. IsList(messages')
    BY <1>1, <1>6
  <2> QED
    BY <1>1, <2>1 DEF GpsInv, IsList, WholeText, TextAt, NoText
<1> QED
  BY <1>8, <1>10, <1>11 DEF GpsInv

(* The display is as it was, and so are the texts.                         *)
LEMMA StillWhy ==
    ASSUME GpsInv, NEW r, IsList(r), messages' = r, display' = display,
           \A h \in Texts : NoText(r, h) <=> NoText(messages, h)
    PROVE  OffMeansWhy' /\ IsList(messages)'
<1>1. \A h \in Texts : Says(r, h) <=> Says(messages, h)
  BY SaysText DEF GpsInv
<1>2. "NO_AHRS" \in Texts /\ "LEVELING" \in Texts
  BY TextSizes
<1>3. display = "off" => Says(r, "NO_AHRS") \/ Says(r, "LEVELING")
  BY <1>1, <1>2 DEF GpsInv, OffMeansWhy
<1>4. OffMeansWhy'
  <2>1. OffMeansWhy' <=> (display' = "off" => Says(messages', "NO_AHRS") \/ Says(messages', "LEVELING"))
    BY DEF OffMeansWhy, Says, indexOf, SelectInSeq
  <2> QED
    BY <1>3, <2>1
<1>5. IsList(messages)'
  <2>1. IsList(messages')
    OBVIOUS
  <2> QED
    BY <2>1 DEF IsList, WholeText, TextAt, NoText
<1> QED
  BY <1>4, <1>5

LEMMA NothingShown ==
    ASSUME GpsInv, UNCHANGED <<messages, display, removals>>
    PROVE  GpsInv'
<1>1. OffMeansWhy' /\ IsList(messages)'
  BY StillWhy DEF GpsInv
<1>2. ErrorsTimed'
  BY DEF GpsInv, ErrorsTimed
<1> QED
  BY <1>1, <1>2 DEF GpsInv

(* The answer to a button: the new error has a new timer.                  *)
LEMMA AnsweredStep ==
    ASSUME GpsInv, Answered
    PROVE  GpsInv'
<1>0. IsList(messages) /\ removals \in Seq(ErrorTexts) /\ display' = display
  BY DEF GpsInv, Answered
<1>1. CASE UNCHANGED <<messages, removals>>
  BY <1>0, <1>1, NothingShown
<1>2. ASSUME NEW e \in ErrorTexts, messages' = Append(messages, <<e, 1>>), removals' = Append(removals, e)
      PROVE  GpsInv'
  <2> DEFINE r == Append(messages, <<e, 1>>)
  <2>1. /\ IsList(r)
        /\ \A h \in Texts : NoText(r, h) <=> NoText(messages, h)
        /\ Cardinality(Errors(r, e)) = Cardinality(Errors(messages, e)) + 1
        /\ \A f \in ErrorTexts : f # e => Errors(r, f) = Errors(messages, f)
    BY <1>0, ErrorAdded
  <2>2. /\ removals' \in Seq(ErrorTexts)
        /\ Cardinality(Timers(removals', e)) = Cardinality(Timers(removals, e)) + 1
        /\ \A f \in ErrorTexts : f # e => Timers(removals', f) = Timers(removals, f)
    BY <1>0, <1>2, TimerSet
  <2>3. messages' = r
    BY <1>2
  <2> HIDE DEF r
  <2>4. \A f \in ErrorTexts : Cardinality(Errors(messages, f)) = Cardinality(Timers(removals, f))
    BY DEF GpsInv, ErrorsTimed, Errors, Timers
  <2>5. \A f \in ErrorTexts : Cardinality(Errors(r, f)) = Cardinality(Timers(removals', f))
    BY <2>1, <2>2, <2>4
  <2>6. ErrorsTimed'
    BY <2>3, <2>5 DEF ErrorsTimed, Errors, Timers
  <2>7. OffMeansWhy' /\ IsList(messages)'
    BY <1>0, <2>1, <2>3, StillWhy
  <2> QED
    BY <2>2, <2>6, <2>7 DEF GpsInv
<1> QED
  BY <1>1, <1>2 DEF Answered

(* The timer of an error finds it.                                         *)
LEMMA ErrorGone ==
    ASSUME GpsInv, ErrorTimeout
    PROVE  GpsInv'
<1> DEFINE e == Head(removals)
           I == {i \in 1..Len(messages) : messages[i] = <<e, 1>>}
           at == indexOf(messages, <<e, 1>>)
           r == splice(messages, at, 1)
<1>1. /\ IsList(messages) /\ removals \in Seq(ErrorTexts) /\ display' = display
      /\ removals # <<>> /\ removals' = Tail(removals)
      /\ messages' = splice(messages, IF at = 0 THEN Len(messages) ELSE at, 1)
  BY DEF GpsInv, ErrorTimeout
<1>2. \A f \in ErrorTexts : Cardinality(Errors(messages, f)) = Cardinality(Timers(removals, f))
  BY DEF GpsInv, ErrorsTimed, Errors, Timers
<1>3. /\ e \in ErrorTexts /\ removals' \in Seq(ErrorTexts)
      /\ Cardinality(Timers(removals, e)) \in Nat \ {0}
      /\ Cardinality(Timers(removals', e)) = Cardinality(Timers(removals, e)) - 1
      /\ \A f \in ErrorTexts : f # e => Cardinality(Timers(removals', f)) = Cardinality(Timers(removals, f))
  BY <1>1, TimerDue
<1> HIDE DEF e
<1>4. messages \in Seq(AllLines) /\ Len(messages) \in Nat /\ DOMAIN messages = 1..Len(messages)
  BY <1>1, LenProperties DEF IsList
<1>5. PICK i \in 1..Len(messages) : messages[i][1] = e
  <2>1. Errors(messages, e) # {}
    BY <1>2, <1>3, FS_EmptySet
  <2> QED
    BY <1>4, <2>1 DEF Errors
<1>6. i \in I
  BY <1>1, <1>3, <1>5 DEF IsList
<1>7. at = Min(I)
  <2>1. at = IF I # {} THEN Min(I) ELSE 0
    BY DEF indexOf, SelectInSeq
  <2> QED
    BY <1>6, <2>1
<1>8. at \in I
  <2>1. I \in SUBSET Nat /\ I # {}
    BY <1>4, <1>6
  <2> HIDE DEF I, at
  <2> QED
    BY <1>7, <2>1, LeastNumber
<1>9. at \in 1..Len(messages) /\ messages[at][1] = e
  <2>1. messages[at] = <<e, 1>> /\ at \in 1..Len(messages)
    BY <1>8
  <2> HIDE DEF at
  <2> QED
    BY <2>1
<1> HIDE DEF at, I
<1>10. messages' = r
  BY <1>1, <1>4, <1>9
<1>11. /\ IsList(r)
       /\ \A h \in Texts : NoText(r, h) <=> NoText(messages, h)
       /\ Cardinality(Errors(r, e)) = Cardinality(Errors(messages, e)) - 1
       /\ \A f \in ErrorTexts : f # e => Cardinality(Errors(r, f)) = Cardinality(Errors(messages, f))
  BY <1>1, <1>3, <1>9, ErrorRemoved
<1> HIDE DEF r
<1>12. \A f \in ErrorTexts : Cardinality(Errors(r, f)) = Cardinality(Timers(removals', f))
  BY <1>2, <1>3, <1>11
<1>13. ErrorsTimed'
  BY <1>10, <1>12 DEF ErrorsTimed, Errors, Timers
<1>14. OffMeansWhy' /\ IsList(messages)'
  BY <1>1, <1>10, <1>11, StillWhy
<1> QED
  BY <1>3, <1>13, <1>14 DEF GpsInv

LEMMA GpsStep == GpsInv /\ [GpsNext]_gpsVars => GpsInv'
<1> SUFFICES ASSUME GpsInv, [GpsNext]_gpsVars PROVE GpsInv'
  OBVIOUS
<1>1. ASSUME UNCHANGED <<messages, display, removals>> PROVE GpsInv'
  BY <1>1, NothingShown
<1>2. ASSUME NEW poor \in BOOLEAN, NEW caging \in BOOLEAN, loadSituation(poor, caging) PROVE GpsInv'
  BY <1>2, SituationStep
<1>3. CASE getAHRSSettings
  BY <1>1, <1>3 DEF getAHRSSettings
<1>4. CASE AHRSCage
  BY <1>1, <1>4 DEF AHRSCage
<1>5. CASE Answered
  BY <1>5, AnsweredStep
<1>6. CASE ErrorTimeout
  BY <1>6, ErrorGone
<1>7. CASE UNCHANGED gpsVars
  BY <1>1, <1>7 DEF gpsVars
<1> QED
  BY <1>2, <1>3, <1>4, <1>5, <1>6, <1>7 DEF GpsNext

(* What a run checks.                                                      *)
LEMMA GpsMessagesWhole == GpsInv => MessagesWhole
<1> SUFFICES ASSUME GpsInv, NEW g \in Texts
             PROVE  LET at == indexOf(messages, <<g, 1>>)
                        mine == {i \in DOMAIN messages : messages[i][1] = g}
                    IN  /\ mine = (IF at = 0 THEN {} ELSE at .. (at + MSG[g] - 1))
                        /\ \A i \in mine : messages[i] = <<g, i - at + 1>>
  BY DEF GpsInv, MessagesWhole, TextsWhole, Texts
<1> DEFINE at == indexOf(messages, <<g, 1>>)
           mine == {i \in DOMAIN messages : messages[i][1] = g}
<1>1. IsList(messages) /\ Len(messages) \in Nat /\ DOMAIN messages = 1..Len(messages)
  BY LenProperties DEF GpsInv, IsList
<1>2. CASE NoText(messages, g)
  <2>1. at = 0
    BY <1>1, <1>2, IndexOfText
  <2>2. mine = {}
    BY <1>1, <1>2 DEF NoText
  <2> QED
    BY <2>1, <2>2
<1>3. CASE ~NoText(messages, g)
  <2>1. at \in 1..Len(messages) /\ TextAt(messages, g, at)
    BY <1>1, <1>3, SaysText
  <2> HIDE DEF at
  <2>2. MSG[g] \in Nat
    BY TextSizes
  <2>3. \A i \in 1..Len(messages) : messages[i][1] = g <=> i \in at .. (at + MSG[g] - 1)
    BY <2>1, <2>2 DEF TextAt
  <2>4. at .. (at + MSG[g] - 1) \subseteq 1..Len(messages)
    BY <1>1, <2>1, <2>2 DEF TextAt
  <2>5. mine = at .. (at + MSG[g] - 1)
    BY <1>1, <2>3, <2>4
  <2>6. \A i \in mine : messages[i] = <<g, i - at + 1>>
    BY <1>1, <2>1 DEF TextAt
  <2>7. at # 0
    BY <2>1
  <2> QED
    BY <2>5, <2>6, <2>7 DEF at
<1> QED
  BY <1>2, <1>3

-------------------------------------------------------------------------------
(* The interface is each of the pages.                                     *)
LEMMA EachPage ==
    ASSUME [Next]_vars
    PROVE  /\ [PagesNext]_pagesVars /\ [RadarNext]_radarVars /\ [LimitsNext]_limitsVars
           /\ [SettingsNext]_settingsVars /\ [GpsNext]_gpsVars /\ [WeatherNext]_weatherVars
BY DEF Next, vars

(* THEOREM: whatever an aircraft goes through on the page Radar, its       *)
(* record knows all that it has on the screen, and its alarm counter is    *)
(* back to zero when it was last drawn outside.                            *)
THEOREM RadarInvariant == Spec => []RadarInv
<1>1. Init => RadarInv
  BY RadarInitInv DEF Init
<1>2. RadarInv /\ [Next]_vars => RadarInv'
  BY RadarStep, EachPage
<1> QED
  BY <1>1, <1>2, PTL DEF Spec

(* THEOREM: no symbol, trace or circle stays behind on the radar.          *)
THEOREM RadarHasNoGhosts == Spec => []NoGhosts
<1>1. RadarInv => NoGhosts
  BY DEF RadarInv, NoGhosts, Sound, OwnElements, One
<1> QED
  BY RadarInvariant, <1>1, PTL

(* THEOREM: an aircraft last drawn outside will be announced when it       *)
(* enters the inner circle.                                                *)
THEOREM RadarIsArmed == Spec => []Armed
<1>1. RadarInv => Armed
  BY DEF RadarInv, Armed, Sound, IsArmed
<1> QED
  BY RadarInvariant, <1>1, PTL

(* THEOREM: once the greeting of handleRadarWS, the clicks and what they   *)
(* have caused are done with, the page Radar shows the limits the server   *)
(* has, unless a POST has overlapped another or the sending of the         *)
(* greeting, or has failed.                                                *)
THEOREM RadarLimitsSettle == Spec => []RadarSettles
<1>1. Init => LimitsInv
  BY LimitsInitInv DEF Init
<1>2. LimitsInv /\ [Next]_vars => LimitsInv'
  BY LimitsStep, EachPage
<1>3. LimitsInv => RadarSettles
  BY DEF LimitsInv, RadarSettles, Latest
<1> QED
  BY <1>1, <1>2, <1>3, PTL DEF Spec

(* THEOREM: what the form of the page Settings shows, what the page        *)
(* believes, and the answers under way, agree as far as no request has     *)
(* failed or overtaken another.                                            *)
THEOREM SettingsInvariant == Spec => []SettingsInv
<1>1. Init => SettingsInv
  BY SettingsInitInv DEF Init
<1>2. SettingsInv /\ [Next]_vars => SettingsInv'
  BY SettingsStep, EachPage
<1> QED
  BY <1>1, <1>2, PTL DEF Spec

(* THEOREM: with every request answered, the toggles show what the server  *)
(* has, unless two requests have overlapped or one has failed.             *)
THEOREM SettingsShown == Spec => []FormIsTrue
<1>1. SettingsInv => FormIsTrue
  BY DEF SettingsInv, FormIsTrue, OneAtATime
<1> QED
  BY SettingsInvariant, <1>1, PTL

(* THEOREM: no answer, whatever it carries and in whatever order the       *)
(* answers come, makes the page Settings send; and until a request has     *)
(* failed, a toggle is sent without any other.                             *)
THEOREM SettingsSentByUser == Spec => SentOnlyByUser
<1>1. SettingsInv /\ [Next]_vars => [UserSends]_settingsVars
  BY SettingsSends, EachPage
<1>2. Spec => [][UserSends]_settingsVars
  BY <1>1, SettingsInvariant, PTL DEF Spec
<1>3. [][UserSends]_settingsVars => SentOnlyByUser
  BY DEF UserSends, SentOnlyByUser
<1> QED
  BY <1>2, <1>3

(* THEOREM: both lists of the page Weather show the newest first, the      *)
(* watch list among the reports of a type for a place, although several of *)
(* these may be on it and a later one replaces one of them.                *)
THEOREM WeatherNewestFirst == Spec => []NewestFirst
<1>1. Init => WeatherInv
  BY WeatherInitInv DEF Init
<1>2. WeatherInv /\ [Next]_vars => WeatherInv'
  BY WeatherStep, EachPage
<1>3. WeatherInv => NewestFirst
  BY DEF WeatherInv
<1> QED
  BY <1>1, <1>2, <1>3, PTL DEF Spec

(* THEOREM: a label on the page Weather belongs to the report beside it,   *)
(* and is the flight condition of that report, whatever reports come and   *)
(* in whatever order - as far as parseFlightCondition can read its         *)
(* visibility, and until a report has thrown an exception.                 *)
THEOREM LabelsHonest == Spec => []LabelHonest
<1>1. Init => WeatherInv /\ LabelInv
  <2>1. WeatherInit => LabelInv
    BY DEF WeatherInit, LabelInv
  <2> QED
    BY <2>1, WeatherInitInv DEF Init
<1>2. WeatherInv /\ LabelInv /\ [Next]_vars => (WeatherInv /\ LabelInv)'
  BY WeatherStep, LabelStep, EachPage
<1> QED
  BY <1>1, <1>2, LabelsAreHonest, PTL DEF Spec

(* THEOREM: every text on the page GPS/AHRS is there once and with all its *)
(* lines, and every error has a timer that takes it away: no removal has   *)
(* taken a line of another message.                                        *)
THEOREM GpsMessages == Spec => []MessagesWhole
<1>1. Init => GpsInv
  BY GpsInitInv DEF Init
<1>2. GpsInv /\ [Next]_vars => GpsInv'
  BY GpsStep, EachPage
<1> QED
  BY <1>1, <1>2, GpsMessagesWhole, PTL DEF Spec

(* THEOREM: the sockets, the $scopes that hold them and their timers fit   *)
(* together, whatever pages are visited and whatever is lost meanwhile.    *)
THEOREM PagesInvariant == Spec => []PagesInv
<1>1. Init => PagesInv
  BY PagesInitInv DEF Init
<1>2. PagesInv /\ [Next]_vars => PagesInv'
  BY PagesStep, EachPage
<1> QED
  BY <1>1, <1>2, PTL DEF Spec

(* THEOREM: no page is fed by the socket of another, and none has two,     *)
(* although they share a global variable.                                  *)
THEOREM SocketsHaveOneOwner == Spec => []OneOwner
<1>1. PagesInv => OneOwner
  BY DEF PagesInv
<1> QED
  BY PagesInvariant, <1>1, PTL

(* THEOREM: ConnectState of the page that is shown is "Connected" exactly  *)
(* while its socket is open, and the view, which follows it from digest to *)
(* digest (onclose has one, onopen only on Map), never says "Connected"    *)
(* of a socket that is not open.                                           *)
THEOREM ShownConnectState == Spec => []ConnectStateHonest
<1>1. Init => ViewFollows
  BY ViewInit DEF Init
<1>2. PagesInv /\ ViewFollows /\ [Next]_vars => ViewFollows'
  BY ViewStep, EachPage
<1>3. PagesInv /\ ViewFollows => ConnectStateHonest
  BY DEF PagesInv, ScopeHonest, ViewFollows, ConnectStateHonest
<1> QED
  BY PagesInvariant, <1>1, <1>2, <1>3, PTL DEF Spec

(* It also holds that no page is cut off for good, and that a page that is *)
(* left has no live socket unless it connects again.                       *)
LEMMA PagesGoOnInvariant == Spec => []PagesGoOn
<1>1. Init => PagesGoOn
  BY GoOnInit DEF Init
<1>2. PagesInv /\ PagesGoOn /\ [Next]_vars => PagesGoOn'
  BY GoOnStep, EachPage
<1> QED
  BY <1>1, <1>2, PagesInvariant, PTL DEF Spec

(* THEOREM: while Status, GPS/AHRS or Developer is shown and does not say  *)
(* "Connected", its socket is about to open or a timer is about to connect *)
(* it, whatever was lost before: the safety part of ShownPageReconnects    *)
(* (connect and onclose of the three pages).                               *)
THEOREM ShownPageNeverCutOff == Spec => []ShownWaitsForSomething
BY PagesInvariant, PagesGoOnInvariant, ShownWaits, PTL

(* THEOREM: Traffic, Weather, Map and Radar have neither a live socket nor *)
(* a timer once they are left: the safety part of LeftPageLetsGo (onExit   *)
(* of the four pages).                                                     *)
THEOREM LeftPageHoldsNothing == Spec => []LeftPageIsLeft
BY PagesInvariant, PagesGoOnInvariant, LeftLetsGo, PTL

================================================================================
