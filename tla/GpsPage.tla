------------------------------- MODULE GpsPage -------------------------------
(***************************************************************************)
(* The messages over the attitude display of the page GPS/AHRS             *)
(* (web/plates/js/gps.js, ahrs.js).  They are kept in one list of lines,   *)
(* which the situation messages, the answers to two buttons and the timers *)
(* of those answers change.  A text is found by its first line, and taken  *)
(* out by counting lines from there.                                       *)
(***************************************************************************)
EXTENDS Integers, SequencesExt

CONSTANTS
    ErrorTexts,  \* the texts of failed requests (response.data)
    MaxErrors    \* bound on the failures within a second

(* The number of lines of each text.                                       *)
MSG == [GROUND_TEST |-> 2, LEVELING |-> 3, PSEUDO_AHRS |-> 2, NO_AHRS |-> 2]

(* What the server answers is none of the page's own texts.                *)
ASSUME GpsAssumption == MaxErrors \in Nat /\ ErrorTexts \cap DOMAIN MSG = {}

VARIABLES
    messages,            \* ahrs.messages, a list of lines
    display,             \* "on" or "off": turn_on and turn_off of the renderer
    IMU_Sensor_Enabled,
    IsCaging,
    asked,               \* is the request of getAHRSSettings under way?
    posted,              \* requests to cage or calibrate under way
    removals             \* the timers that remove errors, in the order they expire

gpsVars == <<messages, display, IMU_Sensor_Enabled, IsCaging, asked, posted, removals>>

Lines(g) == [i \in 1..MSG[g] |-> <<g, i>>]

GpsInit ==
    /\ messages = <<>>
    /\ display = "on"
    /\ IMU_Sensor_Enabled = FALSE   \* undefined
    /\ IsCaging = FALSE             \* undefined
    /\ asked = TRUE
    /\ posted = 0
    /\ removals = <<>>

indexOf(ms, line) == SelectInSeq(ms, LAMBDA l : l = line)
Says(ms, g) == indexOf(ms, <<g, 1>>) > 0

(* Mutant: a text is taken out as an error is, one line.                   *)
splice_OneLine(ms, at, count) == [i \in 1..(Len(ms) - 1) |-> IF i < at THEN ms[i] ELSE ms[i + 1]]

(* splice(at, count)                                                       *)
splice(ms, at, count) ==
    [i \in 1..(Len(ms) - count) |-> IF i < at THEN ms[i] ELSE ms[i + count]]

(* A text is added when its condition begins, and removed when it ends.    *)
Show(ms, g, begins, ends) ==
    CASE ~Says(ms, g) /\ begins -> ms \o Lines(g)
      [] Says(ms, g) /\ ends -> splice(ms, indexOf(ms, <<g, 1>>), MSG[g])
      [] OTHER -> ms

(* Two of the texts switch the display.                                    *)
Switch(was, now, g, d) ==
    CASE Says(now, g) /\ ~Says(was, g) -> "off"
      [] Says(was, g) /\ ~Says(now, g) -> "on"
      [] OTHER -> d

(* loadSituation: poor is an accuracy of 30 m or worse, caging the bit     *)
(* 0x08 of AHRSStatus.                                                     *)
loadSituation(poor, caging) ==
    LET imu == IMU_Sensor_Enabled
        m1 == Show(messages, "GROUND_TEST", imu /\ poor, ~poor)
        m2 == Show(m1, "NO_AHRS", ~imu /\ poor, imu \/ ~poor)
        m3 == Show(m2, "LEVELING", caging, ~caging)
        m4 == Show(m3, "PSEUDO_AHRS", ~imu /\ ~poor, imu \/ poor)
    IN  /\ messages' = m4
        /\ display' = Switch(m2, m3, "LEVELING", Switch(m1, m2, "NO_AHRS", display))
        /\ IsCaging' = caging
        /\ UNCHANGED <<IMU_Sensor_Enabled, asked, posted, removals>>

(* getAHRSSettings is answered, or fails.                                  *)
getAHRSSettings ==
    /\ asked
    /\ asked' = FALSE
    /\ \/ IMU_Sensor_Enabled' \in BOOLEAN
       \/ UNCHANGED IMU_Sensor_Enabled
    /\ UNCHANGED <<messages, display, IsCaging, posted, removals>>

(* AHRSCage and AHRSCalibrate: the buttons, unless it is caging already.   *)
AHRSCage ==
    /\ ~IsCaging
    /\ posted + Len(removals) < MaxErrors
    /\ posted' = posted + 1
    /\ UNCHANGED <<messages, display, IMU_Sensor_Enabled, IsCaging, asked, removals>>

(* The request succeeds, and nothing happens; or it fails, and its error   *)
(* is shown for a second.                                                  *)
Answered ==
    /\ posted > 0
    /\ posted' = posted - 1
    /\ \/ UNCHANGED <<messages, removals>>
       \/ \E e \in ErrorTexts :
             /\ messages' = Append(messages, <<e, 1>>)
             /\ removals' = Append(removals, e)
    /\ UNCHANGED <<display, IMU_Sensor_Enabled, IsCaging, asked>>

(* The timer of an error.  splice(-1, 1) would remove the last line.       *)
ErrorTimeout ==
    /\ removals /= <<>>
    /\ LET at == indexOf(messages, <<Head(removals), 1>>)
       IN  messages' = splice(messages, IF at = 0 THEN Len(messages) ELSE at, 1)
    /\ removals' = Tail(removals)
    /\ UNCHANGED <<display, IMU_Sensor_Enabled, IsCaging, asked, posted>>

GpsNext ==
    \/ \E poor, caging \in BOOLEAN : loadSituation(poor, caging)
    \/ getAHRSSettings \/ AHRSCage \/ Answered \/ ErrorTimeout

-------------------------------------------------------------------------------
(* Every text is there whole, and once, or not at all.                     *)
TextsWhole ==
    \A g \in DOMAIN MSG :
        LET at == indexOf(messages, <<g, 1>>)
            mine == {i \in DOMAIN messages : messages[i][1] = g}
        IN  /\ mine = (IF at = 0 THEN {} ELSE at .. (at + MSG[g] - 1))
            /\ \A i \in mine : messages[i] = <<g, i - at + 1>>

(* An error is there as often as a timer will remove it.                   *)
ErrorsTimed ==
    \A e \in ErrorTexts :
        Cardinality({i \in DOMAIN messages : messages[i][1] = e})
            = Cardinality({i \in DOMAIN removals : removals[i] = e})

(* The attitude is crossed out only while one of two texts says why.       *)
OffMeansWhy == display = "off" => Says(messages, "NO_AHRS") \/ Says(messages, "LEVELING")

(* The list always consists of whole texts and of the errors whose timers  *)
(* run, and the display does not stay off without one of them: whatever is *)
(* added or taken out while others are shown, and in whatever order,       *)
(* nothing tears a text or stays behind (loadSituation, AHRSCage,          *)
(* AHRSCalibrate, turn_on, turn_off).                                      *)
MessagesWhole == TextsWhole /\ ErrorsTimed /\ OffMeansWhy

===============================================================================
