----------------------------- MODULE WeatherPage -----------------------------
(***************************************************************************)
(* The page Weather (web/plates/js/weather.js): the reports received, the  *)
(* ones for the places on the watch list, and the flight condition each    *)
(* is labelled with.                                                       *)
(*                                                                         *)
(* A report's text is what parseFlightCondition finds in it: the group     *)
(* before "SM" and the layers of clouds in hundreds of feet, lowest first. *)
(* Its time is within 30 minutes or before, or too short to be parsed.     *)
(***************************************************************************)
EXTENDS Integers, SequencesExt

CONSTANTS
    Reports,       \* what the server may send: [Type, Location, Time, Data]
    CONF_WATCHLIST,
    MAX_DATALIST,  \* 10
    MaxReports     \* bound on the reports received

(* How a text is written, whatever it says: a whole number has two digits, *)
(* or one before a fraction; fractions are proper, with parts of one or    *)
(* two digits; clouds come in the order of their height, and none above an *)
(* overcast sky.                                                           *)
WellFormed(body) ==
    /\ body.vis \in [form : {"whole", "mixed", "fraction", "none"},
                     whole : 0..99, num : 0..99, den : 1..99]
    /\ body.vis.form = "mixed" => body.vis.whole < 10
    /\ body.vis.form \in {"mixed", "fraction"} => body.vis.num < body.vis.den
    /\ body.layers \in Seq([cover : {"FEW", "SCT", "BKN", "OVC"}, base : 0..999])
    /\ \A i, j \in DOMAIN body.layers :
          i < j => /\ body.layers[i].base <= body.layers[j].base
                   /\ body.layers[i].cover /= "OVC"

ASSUME WeatherAssumption ==
    /\ MAX_DATALIST \in Nat \ {0} /\ MaxReports \in Nat
    /\ \A r \in Reports : WellFormed(r.Data)

VARIABLES
    watching,       \* the places of the watch list
    settingsAsked,  \* is the request of updateWatchList under way?
    watch_list,
    data_list,
    received,       \* how many reports have come
    malformed       \* history: has one of them thrown an exception?

weatherVars == <<watching, settingsAsked, watch_list, data_list, received, malformed>>

Locations == {r.Location : r \in Reports}

(* The controller: updateWatchList, with its request under way.            *)
WeatherInit ==
    /\ watching = CONF_WATCHLIST
    /\ settingsAsked = TRUE
    /\ watch_list = <<>> /\ data_list = <<>>
    /\ received = 0
    /\ malformed = FALSE

(* The answer to updateWatchList, or its failure.                          *)
updateWatchList ==
    /\ settingsAsked
    /\ settingsAsked' = FALSE
    /\ watching' \in SUBSET Locations \cup {watching}
    /\ UNCHANGED <<watch_list, data_list, received, malformed>>

-------------------------------------------------------------------------------
(* parseFlightCondition.  The group before "SM" is a whole number, a       *)
(* fraction, both ("1 1/2"), or missing; a fraction is known by the length *)
(* of three characters, and one that is longer is read up to its "/".      *)
(* Left out: a digit at the end of the group before a fraction is read as  *)
(* whole miles.  That group is the wind's, in tens of degrees: it is a 0.  *)
Digits(n) == IF n < 10 THEN 1 ELSE 2
IsShort(v) == Digits(v.num) = 1 /\ Digits(v.den) = 1

(* Visibility in sixteenths of a mile; 0 where the code gives up.          *)
visability(v) ==
    CASE v.form = "mixed" /\ IsShort(v) -> 16 * v.whole + (16 * v.num) \div v.den
      [] v.form = "whole" -> 16 * v.whole
      [] v.form \in {"mixed", "fraction"} /\ ~IsShort(v) -> 16 * v.num
      [] OTHER -> 0

Base(layers, cover) ==
    LET at == SelectInSeq(layers, LAMBDA l : l.cover = cover)
    IN  IF at = 0 THEN 999 ELSE layers[at].base

(* Mutant: an overcast layer is looked for before a broken one.            *)
ceiling_OvcFirst(layers) ==
    IF Base(layers, "OVC") /= 999 THEN Base(layers, "OVC") ELSE Base(layers, "BKN")

(* The first broken layer, or else the first overcast one.                 *)
ceiling(layers) ==
    IF Base(layers, "BKN") /= 999 THEN Base(layers, "BKN") ELSE Base(layers, "OVC")

NoLabel == ""
parseFlightCondition(type, body) ==
    LET v == visability(body.vis)
        c == ceiling(body.layers)
    IN  IF type \notin {"METAR", "SPECI"} THEN NoLabel
        ELSE IF body.vis.form = "fraction" /\ IsShort(body.vis) THEN "LIFR"
        ELSE IF v = 0 /\ ~(body.vis.form = "mixed" /\ IsShort(body.vis)) THEN NoLabel
        ELSE IF v > 5 * 16 /\ c > 30 THEN "VFR"
        ELSE IF v >= 3 * 16 /\ c >= 10 THEN "MVFR"
        ELSE IF v >= 16 /\ c >= 5 THEN "IFR"
        ELSE "LIFR"

EmptyItem == [type |-> "", update |-> FALSE, flight_condition |-> NoLabel, location |-> "",
              report |-> <<>>, number |-> 0, stale |-> FALSE]

(* setDataItem.  A time that parseShortDatetime cannot read makes it throw *)
(* after the label and before the text.                                    *)
Throws(obj) == obj.Time = "short"
setDataItem(obj, item) ==
    [type |-> IF obj.Type = "TAF.AMD" THEN "TAF" ELSE obj.Type,
     update |-> obj.Type = "TAF.AMD",
     flight_condition |-> parseFlightCondition(obj.Type, obj.Data),
     location |-> obj.Location,
     report |-> IF Throws(obj) THEN item.report ELSE <<obj>>,
     number |-> IF Throws(obj) THEN item.number ELSE received + 1,
     stale |-> IF Throws(obj) THEN item.stale ELSE obj.Time = "old"]

(* Mutant: a new item is added at the end.                                 *)
Watched_AtEnd(obj) ==
    LET found == SelectInSeq(watch_list, LAMBDA w :
                     w.type = obj.Type /\ w.location = obj.Location)
    IN  CASE obj.Location \notin watching -> watch_list
          [] obj.Location \in watching /\ found > 0 ->
                 [watch_list EXCEPT ![found] = setDataItem(obj, @)]
          [] OTHER -> IF Throws(obj) THEN watch_list
                      ELSE Append(watch_list, setDataItem(obj, EmptyItem))

(* The watch list after a report: the first item of its type and place is  *)
(* changed, or a new one is put in front.  An amendment finds none, since  *)
(* its item has the type "TAF".                                            *)
Watched(obj) ==
    LET found == SelectInSeq(watch_list, LAMBDA w :
                     w.type = obj.Type /\ w.location = obj.Location)
    IN  CASE obj.Location \notin watching -> watch_list
          [] obj.Location \in watching /\ found > 0 ->
                 [watch_list EXCEPT ![found] = setDataItem(obj, @)]
          [] OTHER -> IF Throws(obj) THEN watch_list
                      ELSE <<setDataItem(obj, EmptyItem)>> \o watch_list

(* onmessage: the watch list, then the scrolling list of the last reports. *)
onReport(obj) ==
    LET longer == <<setDataItem(obj, EmptyItem)>> \o data_list IN
    /\ received < MaxReports
    /\ received' = received + 1
    /\ watch_list' = Watched(obj)
    /\ data_list' = IF Throws(obj) THEN data_list
                    ELSE IF Len(longer) > MAX_DATALIST THEN Front(longer) ELSE longer
    /\ malformed' = (malformed \/ Throws(obj))
    /\ UNCHANGED <<watching, settingsAsked>>

(* A report on the watch list becomes older than 30 minutes.               *)
GrowsOld(i) ==
    /\ ~watch_list[i].stale
    /\ watch_list' = [watch_list EXCEPT ![i].stale = TRUE]
    /\ UNCHANGED <<watching, settingsAsked, data_list, received, malformed>>

(* clearStaleMessages, every five minutes: what is not stale is left, in   *)
(* its order.                                                              *)
clearStaleMessages ==
    /\ LET left == {i \in DOMAIN watch_list : ~watch_list[i].stale} IN
       \E at \in [1..Cardinality(left) -> left] :
          /\ \A k, l \in DOMAIN at : k < l => at[k] < at[l]
          /\ watch_list' = [k \in DOMAIN at |-> watch_list[at[k]]]
    /\ UNCHANGED <<watching, settingsAsked, data_list, received, malformed>>

WeatherNext ==
    \/ updateWatchList \/ clearStaleMessages
    \/ \E obj \in Reports : onReport(obj)
    \/ \E i \in DOMAIN watch_list : GrowsOld(i)

-------------------------------------------------------------------------------
SameKind(v, w) == v.type = w.type /\ v.location = w.location

(* Both lists show the newest first: the scrolling list throughout, the    *)
(* watch list among the reports of a type for a place - of which there may *)
(* be several, as an amendment never replaces what it amends, and a later  *)
(* report replaces one of them (onmessage, clearStaleMessages).            *)
NewestFirst ==
    /\ \A i, j \in DOMAIN data_list : i < j => data_list[i].number > data_list[j].number
    /\ \A i, j \in DOMAIN watch_list :
          i < j /\ SameKind(watch_list[i], watch_list[j])
              => watch_list[i].number > watch_list[j].number

(* The worse of the conditions by visibility and by the lowest layer that  *)
(* covers more than half of the sky.                                       *)
Conditions == <<"LIFR", "IFR", "MVFR", "VFR">>
Rank(x, limits) == 1 + Cardinality({i \in DOMAIN limits : x >= limits[i]})
ReferenceCondition(body) ==
    LET v == body.vis
        vis == (IF v.form = "fraction" THEN 0 ELSE 16 * v.whole)
               + (IF v.form = "whole" THEN 0 ELSE (16 * v.num) \div v.den)
        bases == {999} \cup {l.base : l \in {k \in ToSet(body.layers) : k.cover \in {"BKN", "OVC"}}}
    IN  Conditions[Min({Rank(vis, <<16, 48, 81>>), Rank(Min(bases), <<5, 10, 31>>)})]

(* A label that is shown belongs to the text beside it, and is the flight  *)
(* condition of that text - unless an exception has left a new label with  *)
(* an old text, and unless the visibility is a fraction of more than three *)
(* characters (setDataItem, parseFlightCondition).                         *)
LabelHonest ==
    ~malformed =>
        \A w \in ToSet(watch_list) \cup ToSet(data_list) :
            LET body == w.report[1].Data IN
            w.flight_condition /= NoLabel /\ (body.vis.form \notin {"mixed", "fraction"} \/ IsShort(body.vis)) =>
                w.flight_condition = ReferenceCondition(body)

===============================================================================
