-------------------------- MODULE MCTrafficDisplays --------------------------
(* Model checking TrafficDisplays.  The limits keep the order and the      *)
(* distances of the real ones: the page's is one Period below the server's *)
(* for aircraft, and equal to it for vessels.  Late calls of               *)
(* sendTrafficUpdates, which only ListForgets depends on, are late by half *)
(* a Period.                                                               *)
EXTENDS TrafficDisplays

(* Two aircraft with the same address, of which one is not an ICAO address *)
(* (the server keeps them apart, ogn.go), and a vessel.                    *)
plane == [addr |-> 1, atype |-> 0]
glider == [addr |-> 1, atype |-> 1]
ship == [addr |-> 2, atype |-> 1]
MCCraft == {plane, glider, ship}
MCAis == {ship}
MCAircraft == {glider}

(* A vessel has nothing in common with the aircraft, and on the map none   *)
(* has with another: there, one at a time.  Reports of the glider come     *)
(* from OGN, and have a position.                                          *)
Few ==
    LET Ids(l) == {l[i].id : i \in DOMAIN l}
        present == {c \in Craft : traffic[c].in} \cup Ids(data_list)
                       \cup Ids(data_list_invalid) \cup Ids(aircraft)
    IN
    /\ \/ Cardinality(present) <= 1
       \/ shown = "traffic" /\ present \cap Ais = {}
    /\ \A c \in Craft \cap {glider} : traffic[c].in => traffic[c].pos

(* What the server hears when the page is told nothing more is of no       *)
(* interest: then the table only ages.                                     *)
Told ==
    conn \in {"connecting", "open"} \/
        \A c \in Craft : traffic'[c].in => /\ traffic[c].in /\ traffic'[c].pos = traffic[c].pos
                                          /\ traffic'[c].since >= traffic[c].since

MCSpec == Init /\ [][Next /\ Few' /\ Told]_vars /\ Fairness

===============================================================================
