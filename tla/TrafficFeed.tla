----------------------------- MODULE TrafficFeed -----------------------------
(***************************************************************************)
(* What the web pages are told about the traffic: the table `traffic` of   *)
(* main/traffic.go, as far as its ages go, and the socket /traffic through *)
(* which every change of it is broadcast.                                  *)
(*                                                                         *)
(* Time is counted in units of which Period make up the second between two *)
(* calls of sendTrafficUpdates.  Ages are capped at Cap, beyond every      *)
(* limit they are compared with.  A message reaches the page before the    *)
(* next unit of time begins.                                               *)
(***************************************************************************)
EXTENDS Integers, SequencesExt

CONSTANTS
    Craft,         \* records [addr, atype]: an address and its Addr_type
    Ais,           \* the ones received by AIS
    ServerMax,     \* cleanupOldEntries: 60 seconds
    ServerAisMax,  \* ... and 15 minutes
    Quiet,         \* 2 seconds, after which sendTrafficUpdates repeats a target
    Period,        \* time between two calls of sendTrafficUpdates
    Jitter,        \* how late such a call may be: heartBeatSender does other work
    OgnMaxAge,     \* importOgnTrafficMessage: reports up to 30 seconds old
    MaxWire        \* bound: messages under way (the channel holds 1024)

ASSUME FeedAssumption ==
    /\ IsFiniteSet(Craft) /\ Ais \subseteq Craft
    /\ {ServerMax, ServerAisMax, Quiet, Jitter, OgnMaxAge} \subseteq Nat
    /\ MaxWire \in Nat \ {0}
    /\ Period \in Nat \ {0}
    /\ ServerMax <= ServerAisMax

VARIABLES
    traffic,    \* per craft its entry in the table
    sinceSend,  \* time since the last sendTrafficUpdates
    conn,       \* the page's socket; "deaf" when the server has dropped it
    wire        \* the messages on their way to the page

feedVars == <<traffic, sinceSend, conn, wire>>

Cap == ServerAisMax + Period + 1
Sat(n) == IF n > Cap THEN Cap ELSE n

(* An entry: whether there is one, the time since Last_seen, the field Age *)
(* (which only sendTrafficUpdates computes) and Position_valid.            *)
Absent == [in |-> FALSE, since |-> 0, Age |-> 0, pos |-> FALSE]
Entries == [in : BOOLEAN, since : 0..Cap, Age : 0..Cap, pos : BOOLEAN]

Messages == [id : Craft, ais : BOOLEAN, Age : 0..Cap, pos : BOOLEAN, altAged : BOOLEAN]

FeedTypeOK ==
    /\ traffic \in [Craft -> Entries]
    /\ sinceSend \in 0..(Period + Jitter)
    /\ conn \in {"connecting", "open", "deaf", "closed"}
    /\ wire \in Seq(Messages)

FeedInit ==
    /\ traffic = [c \in Craft |-> Absent]
    /\ sinceSend = 0
    /\ conn = "connecting"
    /\ wire = <<>>

(* The JSON texts of an entry.  altAged stands for the field AgeLastAlt: is *)
(* it beyond the page's limit?  Only who has no position is asked for it.  *)
Json(c, e) ==
    {[id |-> c, ais |-> c \in Ais, Age |-> e.Age, pos |-> e.pos, altAged |-> a] :
        a \in {b \in BOOLEAN : e.pos => ~b}}

(* registerTrafficUpdate, trafficUpdate.SendJSON: to whoever is connected. *)
(* Send waits while the channel is full.                                   *)
registerTrafficUpdate(msgs) ==
    /\ Len(wire) < MaxWire
    /\ wire' = IF conn = "open" THEN wire \o msgs ELSE wire

(* A target was heard, and is now e; its Age is still the one computed by  *)
(* the last sendTrafficUpdates (0 if it is new).                           *)
Heard(c, e) ==
    /\ traffic' = [traffic EXCEPT ![c] = [e EXCEPT !.in = TRUE]]
    /\ \E m \in Json(c, e) : registerTrafficUpdate(<<m>>)
    /\ UNCHANGED <<sinceSend, conn>>

(* A position of 1090ES, UAT, FLARM or AIS.                                *)
HearPosition(c) == Heard(c, [traffic[c] EXCEPT !.since = 0, !.pos = TRUE])

(* A position of OGN is as old as its time stamp says, and sets Age; one   *)
(* that is too old, or older than what is known, is discarded.             *)
HearOgn(c) ==
    /\ c \notin Ais
    /\ \E a \in 0..OgnMaxAge :
          /\ a <= Cap
          /\ traffic[c].in => a <= traffic[c].since
          /\ Heard(c, [traffic[c] EXCEPT !.since = a, !.Age = a, !.pos = TRUE])

(* Static data of a vessel count as Last_seen; without a distance to it    *)
(* they are kept and not broadcast.                                        *)
HearShipData(c) ==
    LET e == [traffic[c] EXCEPT !.in = TRUE, !.since = 0] IN
    /\ c \in Ais
    /\ \/ Heard(c, e)
       \/ traffic' = [traffic EXCEPT ![c] = e] /\ UNCHANGED <<sinceSend, conn, wire>>

(* A UAT frame without a position invalidates the one before, and leaves   *)
(* Last_seen alone.                                                        *)
HearUatFrame(c) ==
    /\ c \notin Ais
    /\ Heard(c, [traffic[c] EXCEPT !.pos = FALSE])

(* A Mode S reply: the Last_seen of a target without position becomes its  *)
(* Last_alt, which is now or between Last_seen and now.                    *)
HearModeS(c) ==
    /\ c \notin Ais
    /\ \E s \in 0..traffic[c].since :
          /\ traffic[c].pos => s = traffic[c].since
          /\ Heard(c, [traffic[c] EXCEPT !.since = s])

(* removeTarget: "Make sure the web interface times it out.."              *)
removeTarget(c) ==
    /\ c \notin Ais
    /\ traffic[c].in
    /\ traffic' = [traffic EXCEPT ![c] = Absent]
    /\ \E m \in Json(c, [traffic[c] EXCEPT !.Age = ServerMax, !.pos = FALSE]) :
          registerTrafficUpdate(<<m>>)
    /\ UNCHANGED <<sinceSend, conn>>

(* cleanupOldEntries: what it leaves in the table.                         *)
Kept == {c \in Craft :
            /\ traffic[c].in
            /\ traffic[c].since <= (IF c \in Ais THEN ServerAisMax ELSE ServerMax)}

(* sendTrafficUpdates, once per second: forget what is too old, compute    *)
(* the ages, repeat what was not heard of late.  (Go walks through the     *)
(* table in any order; the pages treat every target by itself.)            *)
sendTrafficUpdates ==
    LET aged == [c \in Craft |-> IF c \in Kept
                                 THEN [traffic[c] EXCEPT !.Age = traffic[c].since]
                                 ELSE Absent]
        quiet == SetToSeq({c \in Kept : aged[c].Age > Quiet})
    IN  /\ sinceSend >= Period
        /\ sinceSend' = 0
        /\ traffic' = aged
        /\ \E msgs \in [DOMAIN quiet -> UNION {Json(c, aged[c]) : c \in Kept}] :
              /\ \A i \in DOMAIN quiet : msgs[i] \in Json(quiet[i], aged[quiet[i]])
              /\ registerTrafficUpdate(msgs)
        /\ UNCHANGED conn

(* handleTrafficWS: a new socket first gets every target with a position.  *)
handleTrafficWS ==
    LET known == SetToSeq({c \in Craft : traffic[c].in /\ traffic[c].pos}) IN
    /\ conn = "connecting"
    /\ conn' = "open"
    /\ wire' = [i \in DOMAIN known |-> CHOOSE m \in Json(known[i], traffic[known[i]]) : TRUE]
    /\ UNCHANGED <<traffic, sinceSend>>

(* uibroadcaster.writer: a message cannot be written within a second.  The *)
(* socket leaves the list, unclosed, and is told no more; what was written *)
(* before may still arrive.                                                *)
WriteFails ==
    /\ conn = "open"
    /\ conn' = "deaf"
    /\ \E k \in 1..Len(wire) : wire' = SubSeq(wire, 1, k - 1)
    /\ UNCHANGED <<traffic, sinceSend>>

(* The connection is lost, with what is under way.  The pages of this feed *)
(* never connect again: see WebPages.                                      *)
Drop ==
    /\ conn /= "closed"
    /\ conn' = "closed"
    /\ wire' = <<>>
    /\ UNCHANGED <<traffic, sinceSend>>

(* Time passes in the table; never past a call that is due.                *)
FeedTick ==
    /\ wire = <<>>
    /\ sinceSend < Period + Jitter
    /\ sinceSend' = sinceSend + 1
    /\ traffic' = [c \in Craft |-> IF traffic[c].in
                                   THEN [traffic[c] EXCEPT !.since = Sat(@ + 1)]
                                   ELSE traffic[c]]
    /\ UNCHANGED <<conn, wire>>

FeedNext ==
    \/ \E c \in Craft : \/ HearPosition(c) \/ HearOgn(c) \/ HearShipData(c)
                       \/ HearUatFrame(c) \/ HearModeS(c) \/ removeTarget(c)
    \/ sendTrafficUpdates
    \/ handleTrafficWS
    \/ WriteFails
    \/ Drop

===============================================================================
