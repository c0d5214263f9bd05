------------------------------- MODULE MapPage -------------------------------
(***************************************************************************)
(* The page Map (web/plates/js/map.js): aircraft with a position, each     *)
(* with a marker and, once it has moved, a trail on the layers of the map. *)
(* Unlike TrafficPage it lets the aircraft age by itself, every second.    *)
(*                                                                         *)
(* An aircraft is the object parsed from the last message, with            *)
(* said         the Age in the message,                                    *)
(* elapsed      Date.now() - receivedTs, kept up to date by MapTick,       *)
(* ageReceived  0 while undefined: JavaScript's ! does not tell them apart,*)
(* points       the length of posHistory, 2 for more                       *)
(***************************************************************************)
EXTENDS CraftService

VARIABLES
    aircraft,         \* $scope.aircraft
    aircraftSymbols,  \* per craft, the markers on the layer of symbols
    aircraftTrails    \* per craft, the trails on the layer of trails, either
                      \* drawn for it or for one that isSameAircraft

mapVars == <<aircraft, aircraftSymbols, aircraftTrails>>

MapInit(Crafts) ==
    /\ aircraft = <<>>
    /\ aircraftSymbols = [c \in Crafts |-> 0]
    /\ aircraftTrails = [c \in Crafts |-> 0]

(* The object that the message becomes, given the one it replaces.         *)
Fresh(m, points) ==
    [id |-> m.id, ais |-> m.ais, Age |-> m.Age, said |-> m.Age,
     elapsed |-> 0, ageReceived |-> 0, points |-> points]

(* $scope.onMessage; moved: the position is more than 100 m away from the  *)
(* last one that was recorded.  The trail appears with the second position.*)
onMessage(m, moved) ==
    LET i == IndexIn(aircraft, m.id)
        old == aircraft[i]
        points == IF i /= 0 /\ (moved \/ old.points = 2) THEN 2 ELSE 1
    IN
    IF ~m.pos \/ isTrafficAged(m.ais, m.Age) THEN UNCHANGED mapVars
    ELSE /\ aircraft' = IF i = 0 THEN Append(aircraft, Fresh(m, points))
                        ELSE ReplaceAt(aircraft, i, Fresh(m, points))
         /\ aircraftSymbols' = [c \in DOMAIN aircraftSymbols |-> aircraftSymbols[c] +
                (IF isSameAircraft(c, m.id) /\ i = 0 THEN 1 ELSE 0)]
         /\ aircraftTrails' = [c \in DOMAIN aircraftTrails |-> aircraftTrails[c] +
                (IF isSameAircraft(c, m.id) /\ i /= 0 /\ points = 2 /\ old.points = 1
                 THEN 1 ELSE 0)]

(* Mutant: the Age at reception is remembered anew each time.              *)
updateAge_Again(ac) == [ac EXCEPT !.ageReceived = ac.Age, !.Age = ac.Age + ac.elapsed]

(* $scope.updateAges, for one aircraft: "Remember the Age value when we    *)
(* received the traffic".  A value of 0 is not remembered: the next update *)
(* remembers the Age that this one has computed.                           *)
updateAge(ac) ==
    LET received == IF ac.ageReceived = 0 THEN ac.Age ELSE ac.ageReceived IN
    [ac EXCEPT !.ageReceived = received, !.Age = received + ac.elapsed]

(* Mutant: the trail stays on its layer.                                   *)
update_TrailStays ==
    LET aged == [i \in DOMAIN aircraft |-> updateAge(aircraft[i])]
        gone == {i \in DOMAIN aged : isTrafficAged(aged[i].ais, aged[i].Age)}
        Gone(c) == \E i \in gone : isSameAircraft(aged[i].id, c)
    IN  /\ aircraft' \in Remaining(aged, DOMAIN aged \ gone)
        /\ aircraftSymbols' = [c \in DOMAIN aircraftSymbols |->
                aircraftSymbols[c] - (IF Gone(c) THEN 1 ELSE 0)]
        /\ UNCHANGED aircraftTrails

(* Mutant: the ages stay what the messages said.                           *)
update_NoAges ==
    /\ aircraft' \in Remaining(aircraft, {i \in DOMAIN aircraft :
                          ~isTrafficAged(aircraft[i].ais, aircraft[i].Age)})
    /\ UNCHANGED <<aircraftSymbols, aircraftTrails>>

(* $scope.update: updateAges, then removeStaleTraffic.                     *)
update ==
    LET aged == [i \in DOMAIN aircraft |-> updateAge(aircraft[i])]
        gone == {i \in DOMAIN aged : isTrafficAged(aged[i].ais, aged[i].Age)}
        Gone(c) == \E i \in gone : isSameAircraft(aged[i].id, c)
        Trail(c) == \E i \in gone : isSameAircraft(aged[i].id, c) /\ aged[i].points = 2
    IN  /\ aircraft' \in Remaining(aged, DOMAIN aged \ gone)
        /\ aircraftSymbols' = [c \in DOMAIN aircraftSymbols |->
                aircraftSymbols[c] - (IF Gone(c) THEN 1 ELSE 0)]
        /\ aircraftTrails' = [c \in DOMAIN aircraftTrails |->
                aircraftTrails[c] - (IF Trail(c) THEN 1 ELSE 0)]

(* The browser's clock, up to the bound max.                               *)
MapTick(max) ==
    /\ aircraft' = [i \in DOMAIN aircraft |->
          [aircraft[i] EXCEPT !.elapsed = IF @ < max THEN @ + 1 ELSE @]]
    /\ UNCHANGED <<aircraftSymbols, aircraftTrails>>

OnMap(c) == IndexIn(aircraft, c) /= 0

===============================================================================
