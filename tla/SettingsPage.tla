----------------------------- MODULE SettingsPage -----------------------------
(***************************************************************************)
(* The page Settings (web/plates/js/settings.js) and the two requests of   *)
(* the server behind it.  The page keeps the settings twice: in $scope,    *)
(* which the form shows and changes, and in `settings`, what it believes   *)
(* the server to have.  A watch on the toggles sends what differs.         *)
(* Requests are answered in any order, and may fail.                       *)
(***************************************************************************)
EXTENDS Integers, SequencesExt

CONSTANTS
    Toggles,     \* the switches, watched by $watchGroup
    Fields,      \* the text fields, each sent by a button
    MaxRequests  \* bound on the requests sent

ASSUME SettingsAssumption == Toggles \cap Fields = {} /\ MaxRequests \in Nat

VARIABLES
    globalSettings,  \* the server's
    scope,           \* $scope
    settings,        \* the page's variable of that name
    requests,        \* under way, in the order of sending
    sent,            \* how many there were
    failed,          \* history: has a request failed?
    overlapped       \* history: have two been under way at a time?

settingsVars == <<globalSettings, scope, settings, requests, sent, failed, overlapped>>

Keys == Toggles \cup Fields
Values == {"on", "off"}
Unset == "undefined"

(* A request: what a POST sets (nothing for a GET) and, once the server    *)
(* has answered, the settings in its answer.                               *)
Request(body) == [body |-> body, answer |-> <<>>]
Get == Request(<<>>)

(* The controller's first getSettings is under way.                        *)
SettingsInit ==
    /\ globalSettings \in [Keys -> Values]
    /\ scope = [k \in Keys |-> Unset]
    /\ settings = [k \in Keys |-> Unset]
    /\ requests = <<Get>>
    /\ sent = 1
    /\ failed = FALSE /\ overlapped = FALSE

-------------------------------------------------------------------------------
Send(old, new) ==
    /\ sent + Len(new) <= MaxRequests
    /\ sent' = sent + Len(new)
    /\ requests' = old \o new
    /\ overlapped' = (overlapped \/ Len(old) + Len(new) > 1)

(* The listener of $watchGroup, which Angular calls when a toggle of       *)
(* $scope has changed: what differs from `settings` is sent in one POST.   *)
Dirty(sc, st) == {t \in Toggles : sc[t] /= Unset /\ st[t] /= Unset /\ sc[t] /= st[t]}

Digest(sc, st, old) ==
    LET dirty == IF \E t \in Toggles : sc[t] /= scope[t] THEN Dirty(sc, st) ELSE {} IN
    /\ scope' = sc
    /\ settings' = [k \in Keys |-> IF k \in dirty THEN sc[k] ELSE st[k]]
    /\ Send(old, IF dirty = {} THEN <<>> ELSE <<Request([t \in dirty |-> sc[t]])>>)

(* getSettings: at the start, and from the button of resetSettings.        *)
getSettings ==
    /\ Send(requests, <<Get>>)
    /\ UNCHANGED <<globalSettings, scope, settings, failed>>

(* The user switches a toggle.                                             *)
Toggle(t) ==
    /\ Digest([scope EXCEPT ![t] = IF @ = "on" THEN "off" ELSE "on"], settings, requests)
    /\ UNCHANGED <<globalSettings, failed>>

(* ... or edits a field.                                                   *)
Edit(f) ==
    /\ \E v \in Values \ {scope[f]} : scope' = [scope EXCEPT ![f] = v]
    /\ UNCHANGED <<globalSettings, settings, requests, sent, failed, overlapped>>

(* setSettings of some fields: `settings` follows at once.                 *)
setSettings(fs) ==
    /\ settings' = [k \in Keys |-> IF k \in fs THEN scope[k] ELSE settings[k]]
    /\ Send(requests, <<Request([k \in fs |-> scope[k]])>>)
    /\ UNCHANGED <<globalSettings, scope, failed>>

(* updateppm, updatePWMDutyMin, updateBaud: sent whenever there is a value *)
updateAlways(f) == scope[f] /= Unset /\ setSettings({f})

(* updatewatchlist, updatemodes, updatealtitudeoffset, updateGLimits: sent *)
(* if it is not what the server is believed to have.                       *)
updateChanged(f) == scope[f] /= settings[f] /\ setSettings({f})

(* updateWiFi: a whole form, if it is valid; `settings` is left alone.     *)
updateWiFi ==
    /\ \A f \in Fields : scope[f] /= Unset
    /\ Send(requests, <<Request([f \in Fields |-> scope[f]])>>)
    /\ UNCHANGED <<globalSettings, scope, settings, failed>>

(* updateOgnTrackerConfig: likewise, and the settings are read again after *)
(* a second (at the earliest at once).                                     *)
updateOgnTrackerConfig ==
    /\ \A f \in Fields : scope[f] /= Unset
    /\ Send(requests, <<Request([f \in Fields |-> scope[f]]), Get>>)
    /\ UNCHANGED <<globalSettings, scope, settings, failed>>

(* handleSettingsSetRequest, handleSettingsGetRequest: the keys are set,   *)
(* and all settings are the answer.                                        *)
handleSettings(i) ==
    LET body == requests[i].body
        new == [k \in Keys |-> IF k \in DOMAIN body THEN body[k] ELSE globalSettings[k]]
    IN  /\ requests[i].answer = <<>>
        /\ globalSettings' = new
        /\ requests' = [requests EXCEPT ![i].answer = <<new>>]
        /\ UNCHANGED <<scope, settings, sent, failed, overlapped>>

(* Mutant: the answer is noted in `settings` and not shown.                *)
loadSettings_NotShown(i) ==
    /\ requests[i].answer /= <<>>
    /\ Digest(scope, requests[i].answer[1], RemoveAt(requests, i))
    /\ UNCHANGED <<globalSettings, failed>>

(* Mutant: `settings` keeps what it was.                                   *)
loadSettings_ScopeOnly(i) ==
    /\ requests[i].answer /= <<>>
    /\ Digest(requests[i].answer[1], settings, RemoveAt(requests, i))
    /\ UNCHANGED <<globalSettings, failed>>

(* loadSettings: an answer arrives, and Angular digests.                   *)
loadSettings(i) ==
    LET data == requests[i].answer[1] IN
    /\ requests[i].answer /= <<>>
    /\ Digest(data, data, RemoveAt(requests, i))
    /\ UNCHANGED <<globalSettings, failed>>

(* A request fails, on its way or on its way back: all toggles are taken   *)
(* to be off, the form still shows what it did.                            *)
RequestFails(i) ==
    /\ requests' = RemoveAt(requests, i)
    /\ settings' = [k \in Keys |-> IF k \in Toggles THEN "off" ELSE settings[k]]
    /\ failed' = TRUE
    /\ UNCHANGED <<globalSettings, scope, sent, overlapped>>

SettingsNext ==
    \/ getSettings \/ updateWiFi \/ updateOgnTrackerConfig
    \/ \E t \in Toggles : Toggle(t)
    \/ \E f \in Fields : Edit(f) \/ updateAlways(f) \/ updateChanged(f)
    \/ \E i \in DOMAIN requests : handleSettings(i) \/ loadSettings(i) \/ RequestFails(i)

-------------------------------------------------------------------------------
(* The watch on the toggles does not take an answer for a change by the    *)
(* user: whatever an answer carries, and in whatever order the answers     *)
(* come, none makes the page send (loadSettings, $watchGroup); and as long *)
(* as no request has failed, a toggle is sent without any other.           *)
SentOnlyByUser ==
    [][sent' > sent =>
         /\ IsPrefix(requests, requests')
         /\ \A t \in Toggles : ~failed /\ scope'[t] /= scope[t] =>
               DOMAIN Last(requests').body = {t}]_settingsVars

(* When every request is answered the toggles show what the server has,    *)
(* unless two requests have overlapped or one has failed.                  *)
FormIsTrue ==
    requests = <<>> /\ ~failed /\ ~overlapped =>
        \A t \in Toggles : scope[t] = globalSettings[t]

===============================================================================
