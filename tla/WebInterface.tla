----------------------------- MODULE WebInterface -----------------------------
(***************************************************************************)
(* The web pages besides the two of TrafficDisplays, in one browser.  The  *)
(* data of the pages have nothing in common, and neither with the sockets  *)
(* that come and go with the pages: a behaviour follows one part, and the  *)
(* others stay as they are.                                                *)
(***************************************************************************)
EXTENDS WebPages, RadarPage, RadarLimits, SettingsPage, GpsPage, WeatherPage

VARIABLE part  \* what the behaviour is about

Parts == {"pages", "radar", "limits", "settings", "gps", "weather"}

vars == <<part, pagesVars, radarVars, limitsVars, settingsVars, gpsVars, weatherVars>>

Init ==
    /\ part \in Parts
    /\ PagesInit /\ RadarInit /\ LimitsInit /\ SettingsInit /\ GpsInit /\ WeatherInit
    /\ part /= "limits" => radarServer = limits
    /\ part /= "settings" => \A k \in Keys : globalSettings[k] = "off"

Next ==
    /\ UNCHANGED part
    /\ \/ /\ part = "pages" /\ PagesNext
          /\ UNCHANGED <<radarVars, limitsVars, settingsVars, gpsVars, weatherVars>>
       \/ /\ part = "radar" /\ RadarNext
          /\ UNCHANGED <<pagesVars, limitsVars, settingsVars, gpsVars, weatherVars>>
       \/ /\ part = "limits" /\ LimitsNext
          /\ UNCHANGED <<pagesVars, radarVars, settingsVars, gpsVars, weatherVars>>
       \/ /\ part = "settings" /\ SettingsNext
          /\ UNCHANGED <<pagesVars, radarVars, limitsVars, gpsVars, weatherVars>>
       \/ /\ part = "gps" /\ GpsNext
          /\ UNCHANGED <<pagesVars, radarVars, limitsVars, settingsVars, weatherVars>>
       \/ /\ part = "weather" /\ WeatherNext
          /\ UNCHANGED <<pagesVars, radarVars, limitsVars, settingsVars, gpsVars>>

(* On the page Radar: the interval of clearStaleTraffic keeps running, and *)
(* time passes.  Nothing is assumed of the answers to getClock.            *)
Fairness ==
    /\ PagesFairness
    /\ WF_radarVars(part = "radar" /\ RadarTick)
    /\ WF_radarVars(part = "radar" /\ clearStaleTraffic)

Spec == Init /\ [][Next]_vars /\ Fairness

===============================================================================
