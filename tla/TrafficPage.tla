----------------------------- MODULE TrafficPage -----------------------------
(***************************************************************************)
(* The page Traffic (web/plates/js/traffic.js): the list of the aircraft   *)
(* with a position and the list of the ones without, filled by the socket  *)
(* and cleared of old entries every ten seconds.  An entry's Age is what   *)
(* the last message said: the page has no clock of its own for it.         *)
(***************************************************************************)
EXTENDS CraftService

VARIABLES
    data_list,         \* $scope.data_list
    data_list_invalid  \* $scope.data_list_invalid

pageVars == <<data_list, data_list_invalid>>

PageInit == data_list = <<>> /\ data_list_invalid = <<>>

(* setAircraft does not copy TargetType, so that no entry of the lists is  *)
(* ever taken for a vessel.                                                *)
setAircraft(m) == [id |-> m.id, ais |-> FALSE, Age |-> m.Age, altAged |-> m.altAged]

(* Mutant: an aircraft is added without a look at the list.                *)
Listed_Twice(list, m, belongs) ==
    LET i == IndexIn(list, m.id) IN
    IF belongs THEN <<setAircraft(m)>> \o list
    ELSE IF i = 0 THEN list ELSE RemoveAt(list, i)

(* What a message does to a list: an aircraft that belongs there is        *)
(* updated in place or added in front, any other is removed.               *)
Listed(list, m, belongs) ==
    LET i == IndexIn(list, m.id) IN
    IF belongs
    THEN IF i = 0 THEN <<setAircraft(m)>> \o list ELSE ReplaceAt(list, i, setAircraft(m))
    ELSE IF i = 0 THEN list ELSE RemoveAt(list, i)

(* socket.onmessage                                                        *)
onmessage(m) ==
    /\ data_list' = Listed(data_list, m, m.pos)
    /\ data_list_invalid' = Listed(data_list_invalid, m, ~m.pos)

(* clearStaleTraffic                                                       *)
clearStaleTraffic ==
    LET Current(e) == ~isTrafficAged(e.ais, e.Age) IN
    /\ data_list' \in
          Remaining(data_list, {i \in DOMAIN data_list : Current(data_list[i])})
    /\ data_list_invalid' \in
          Remaining(data_list_invalid, {i \in DOMAIN data_list_invalid :
              Current(data_list_invalid[i]) /\ ~data_list_invalid[i].altAged})

OnPage(c) == \E l \in {data_list, data_list_invalid} : IndexIn(l, c) /= 0

===============================================================================
