--------------------------- MODULE MCWebInterface ---------------------------
(* Model checking WebInterface: every page is visited, so that each meets  *)
(* each; the weather reports are chosen around the limits of the flight    *)
(* conditions.                                                             *)
EXTENDS WebInterface

MCPages == DOMAIN Slot

Whole(n) == [form |-> "whole", whole |-> n, num |-> 0, den |-> 1]
Fraction(n, d) == [form |-> "fraction", whole |-> 0, num |-> n, den |-> d]
Mixed(w, n, d) == [form |-> "mixed", whole |-> w, num |-> n, den |-> d]
NoVisibility == [form |-> "none", whole |-> 0, num |-> 0, den |-> 1]
Layer(c, b) == [cover |-> c, base |-> b]

Visibilities ==
    {Whole(n) : n \in {0, 1, 2, 3, 5, 6, 10}}
        \cup {Fraction(1, 2), Fraction(3, 16), Mixed(1, 1, 2), Mixed(2, 3, 4), NoVisibility}
Skies ==
    {<<>>, <<Layer("SCT", 4), Layer("OVC", 31)>>, <<Layer("BKN", 4), Layer("OVC", 10)>>,
     <<Layer("BKN", 9), Layer("BKN", 31)>>}
        \cup {<<Layer("BKN", b)>> : b \in {4, 5, 9, 10, 30, 31}}
Clear == [vis |-> Whole(10), layers |-> <<>>]
Low == [vis |-> Fraction(1, 2), layers |-> <<Layer("OVC", 4)>>]

MCReports ==
    [Type : {"METAR"}, Location : {"KBOS"}, Time : {"recent"},
     Data : [vis : Visibilities, layers : Skies]]
        \cup [Type : {"METAR"}, Location : {"KBOS"}, Time : {"old", "short"}, Data : {Low}]
        \cup [Type : {"TAF", "TAF.AMD"}, Location : {"KBOS"}, Time : {"recent", "short"},
              Data : {Clear}]
        \cup [Type : {"TAF"}, Location : {"KORD"}, Time : {"recent"}, Data : {Clear}]
MCWatchList == {"KBOS"}

(* Other weather than these two comes in the only report.                  *)
FewSkies ==
    received > 1 => \A w \in ToSet(data_list) \cup ToSet(watch_list) :
                       w.report[1].Data \in {Clear, Low}

(* One aircraft may be on either list of the radar, the other one only on  *)
(* that of the aircraft without a position.                                *)
CONSTANT Silent
OneWithPosition == radar[Silent].list /= "valid"

MCSpec == Init /\ [][Next /\ FewSkies' /\ OneWithPosition']_vars /\ Fairness

===============================================================================
