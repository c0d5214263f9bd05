--------------------------- MODULE TrafficDisplays ---------------------------
(***************************************************************************)
(* A browser that shows the page Traffic or the page Map, fed by the       *)
(* server's table: who forgets an aircraft, when, and whether the other    *)
(* side notices.                                                           *)
(***************************************************************************)
EXTENDS TrafficFeed, TrafficPage, MapPage

VARIABLE shown  \* the page that is shown

vars == <<feedVars, pageVars, mapVars, shown>>

Init ==
    /\ FeedInit /\ PageInit /\ MapInit(Craft)
    /\ shown \in {"traffic", "map"}

(* The next message reaches the page.                                      *)
Deliver ==
    /\ wire /= <<>>
    /\ wire' = Tail(wire)
    /\ \/ shown = "traffic" /\ onmessage(Head(wire)) /\ UNCHANGED mapVars
       \/ /\ shown = "map"
          /\ \E moved \in BOOLEAN : onMessage(Head(wire), moved)
          /\ UNCHANGED pageVars
    /\ UNCHANGED <<traffic, sinceSend, conn, shown>>

(* The pages' timers.  A browser may run them late, so there is no bound   *)
(* on the time between two calls.                                          *)
Clear ==
    /\ shown = "traffic"
    /\ clearStaleTraffic
    /\ UNCHANGED <<feedVars, mapVars, shown>>

Update ==
    /\ shown = "map"
    /\ update
    /\ UNCHANGED <<feedVars, pageVars, shown>>

Server == FeedNext /\ UNCHANGED <<pageVars, mapVars, shown>>

Tick == FeedTick /\ MapTick(Cap) /\ UNCHANGED <<pageVars, shown>>

Next == Server \/ Deliver \/ Clear \/ Update \/ Tick

(* The server's ticker, the socket and the pages' timers keep going.       *)
Fairness ==
    /\ WF_vars(Tick) /\ WF_vars(sendTrafficUpdates /\ UNCHANGED <<pageVars, mapVars, shown>>)
    /\ WF_vars(Deliver) /\ WF_vars(Clear) /\ WF_vars(Update)

Spec == Init /\ [][Next]_vars
FairSpec == Spec /\ Fairness

-------------------------------------------------------------------------------
DisplaysTypeOK ==
    /\ FeedTypeOK
    /\ \A l \in {data_list, data_list_invalid} :
          \A i \in DOMAIN l : l[i].id \in Craft /\ l[i].Age \in 0..Cap
    /\ \A i \in DOMAIN aircraft :
          /\ aircraft[i].elapsed \in 0..Cap
          /\ aircraft[i].Age \in 0..(3 * Cap)

(* No aircraft is listed twice, neither in one list nor in both, however   *)
(* its position comes and goes (traffic.js, onmessage); and none on the    *)
(* map (map.js, onMessage).                                                *)
ListedOnce ==
    \A l \in {data_list \o data_list_invalid, aircraft} :
        \A i, j \in DOMAIN l : isSameAircraft(l[i].id, l[j].id) => i = j

(* What is on the layers of the map belongs to an aircraft of the list:    *)
(* one marker for each, and at most one trail.                             *)
NoGhostOnMap ==
    \A c \in Craft :
        /\ aircraftSymbols[c] = (IF OnMap(c) THEN 1 ELSE 0)
        /\ aircraftTrails[c] = (IF OnMap(c) /\ aircraft[IndexIn(aircraft, c)].points = 2
                                THEN 1 ELSE 0)

(* "If a valid position for an aircraft has not been received within the   *)
(* last 60 seconds, the aircraft is removed from the list" (traffic-help): *)
(* one that the server has forgotten disappears from the lists, as long as *)
(* their socket is open and fed.  The page has no clock: it takes a last   *)
(* message that is past the page's limit already, and the server's limit   *)
(* is only one second further.                                             *)
ListForgets ==
    \A c \in Craft :
        (shown = "traffic" /\ ~traffic[c].in) ~> (~OnPage(c) \/ traffic[c].in \/ conn # "open")

(* The map forgets it whether the socket is open or not.                   *)
MapForgets ==
    \A c \in Craft :
        (shown = "map" /\ ~traffic[c].in) ~> (~OnMap(c) \/ traffic[c].in)

(* The age that the map computes is at least the true one and at most      *)
(* twice the time since the message older than the message said, although  *)
(* an Age of 0 is remembered a second time (map.js, updateAges).           *)
MapAgeHonest ==
    [][Update => \A i \in DOMAIN aircraft' :
            LET ac == aircraft'[i] IN
            /\ ac.said + ac.elapsed <= ac.Age
            /\ ac.Age <= ac.said + 2 * ac.elapsed]_vars

===============================================================================
