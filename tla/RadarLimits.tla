----------------------------- MODULE RadarLimits -----------------------------
(***************************************************************************)
(* The limits of the page Radar, AltDiffThreshold and DisplayRadius        *)
(* (web/plates/js/radar.js), and the settings RadarLimits and RadarRange   *)
(* of the server, which tells every browser of each change, and a browser  *)
(* whose socket /radar it accepts (handleRadarWS) of their values.         *)
(***************************************************************************)
EXTENDS Integers, Sequences

CONSTANTS
    Levels,    \* the steps of each limit are 1..Levels
    MaxClicks  \* bound on the clicks

ASSUME LimitsAssumption == Levels \in Nat \ {0} /\ MaxClicks \in Nat

VARIABLES
    limits,       \* AltDiffThreshold and DisplayRadius, by the names of the settings
    radarServer,  \* RadarLimits and RadarRange in globalSettings
    posts,        \* the POSTs of communicateLimits that are under way
    broadcasts,   \* settings on their way through radarUpdate and the socket /radar
    greeting,     \* how far handleRadarWS is, and the text it is about to send
    clicks,       \* how many there were
    trouble       \* history: has a POST overlapped another or the greeting, or failed?

limitsVars == <<limits, radarServer, posts, broadcasts, greeting, clicks, trouble>>

Limits == [RadarLimits : 1..Levels, RadarRange : 1..Levels]

(* RadarRenderer sets the page's limits; the socket is not accepted yet.   *)
LimitsInit ==
    /\ limits = [RadarLimits |-> 1, RadarRange |-> 1]
    /\ radarServer \in Limits
    /\ posts = <<>>
    /\ broadcasts = <<>>
    /\ greeting = [pc |-> "open", json |-> <<>>]
    /\ clicks = 0
    /\ trouble = FALSE

(* The buttons: one limit, one step, as far as there is one.               *)
Step(n, up) == IF up THEN IF n < Levels THEN n + 1 ELSE n ELSE IF n > 1 THEN n - 1 ELSE n
zoom(up) == [limits EXCEPT !.RadarRange = Step(@, up)]
alt(up) == [limits EXCEPT !.RadarLimits = Step(@, up)]

(* communicateLimits: both limits change on the page at once and are sent  *)
(* in one POST.                                                            *)
communicateLimits(new) ==
    /\ limits' = new
    /\ posts' = Append(posts, [set |-> new, keys |-> DOMAIN new, json |-> <<>>])
    /\ trouble' = (trouble \/ posts /= <<>>)

Click ==
    /\ clicks < MaxClicks
    /\ clicks' = clicks + 1
    /\ \E up \in BOOLEAN : communicateLimits(zoom(up)) \/ communicateLimits(alt(up))
    /\ UNCHANGED <<radarServer, broadcasts, greeting>>

Without(p) == [i \in 1..(Len(posts) - 1) |-> IF i < p THEN posts[i] ELSE posts[i + 1]]

(* handleRadarWS: the socket gets what radarUpdate has not sent yet, ...   *)
AddSocket ==
    /\ greeting.pc = "open"
    /\ greeting' = [greeting EXCEPT !.pc = "added"]
    /\ \E n \in 0..Len(broadcasts) :
          broadcasts' = SubSeq(broadcasts, n + 1, Len(broadcasts))
    /\ UNCHANGED <<limits, radarServer, posts, clicks, trouble>>

(* ... then the settings are converted to text, and the text is queued.    *)
GreetingText ==
    /\ greeting.pc = "added" /\ greeting.json = <<>>
    /\ greeting' = [greeting EXCEPT !.json = <<radarServer>>]
    /\ UNCHANGED <<limits, radarServer, posts, broadcasts, clicks, trouble>>

SendGreeting ==
    /\ greeting.json /= <<>>
    /\ greeting' = [pc |-> "sent", json |-> <<>>]
    /\ broadcasts' = broadcasts \o greeting.json
    /\ UNCHANGED <<limits, radarServer, posts, clicks, trouble>>

(* Mutant: the text is made before the setting is changed.                 *)
SetKey_JsonFirst(p, k) ==
    /\ k \in posts[p].keys
    /\ posts[p].json = <<>>
    /\ radarServer' = [radarServer EXCEPT ![k] = posts[p].set[k]]
    /\ posts' = [posts EXCEPT ![p].keys = @ \ {k}, ![p].json = <<radarServer>>]
    /\ trouble' = (trouble \/ greeting.json /= <<>>)
    /\ UNCHANGED <<limits, broadcasts, greeting, clicks>>

(* handleSettingsSetRequest: the keys of a POST in any order; after each,  *)
(* SendJSON converts all settings to text, and then queues it.             *)
SetKey(p, k) ==
    /\ k \in posts[p].keys
    /\ posts[p].json = <<>>
    /\ radarServer' = [radarServer EXCEPT ![k] = posts[p].set[k]]
    /\ posts' = [posts EXCEPT ![p].keys = @ \ {k}, ![p].json = <<radarServer'>>]
    /\ trouble' = (trouble \/ greeting.json /= <<>>)
    /\ UNCHANGED <<limits, broadcasts, greeting, clicks>>

SendJSON(p) ==
    /\ posts[p].json /= <<>>
    /\ broadcasts' = broadcasts \o posts[p].json
    /\ posts' = IF posts[p].keys = {} THEN Without(p) ELSE [posts EXCEPT ![p].json = <<>>]
    /\ UNCHANGED <<limits, radarServer, greeting, clicks, trouble>>

(* The POST fails.  "do nothing": the page keeps what it has.              *)
PostFails(p) ==
    /\ DOMAIN posts[p].set = posts[p].keys
    /\ posts' = Without(p)
    /\ trouble' = TRUE
    /\ UNCHANGED <<limits, radarServer, broadcasts, greeting, clicks>>

(* onSettingsMessage                                                       *)
onSettingsMessage ==
    /\ greeting.pc /= "open" /\ broadcasts /= <<>>
    /\ limits' = Head(broadcasts)
    /\ broadcasts' = Tail(broadcasts)
    /\ UNCHANGED <<radarServer, posts, greeting, clicks, trouble>>

LimitsNext ==
    \/ Click \/ onSettingsMessage
    \/ AddSocket \/ GreetingText \/ SendGreeting
    \/ \E p \in DOMAIN posts :
          \/ \E k \in posts[p].keys : SetKey(p, k)
          \/ SendJSON(p) \/ PostFails(p)

-------------------------------------------------------------------------------
(* Once the socket's greeting, the clicks and what they have caused are    *)
(* done with, the page shows the limits that the server has, although it   *)
(* is told of every POST twice, the first time perhaps with only one limit *)
(* changed, and of others' before the greeting - unless two POSTs have     *)
(* overlapped, one has failed, or one has changed a setting while the      *)
(* greeting's text of the old ones was about to be queued.                 *)
RadarSettles ==
    greeting.pc = "sent" /\ posts = <<>> /\ broadcasts = <<>> /\ ~trouble
        => limits = radarServer

===============================================================================
