------------------------------ MODULE Network -------------------------------
(***************************************************************************)
(* The board's Wi-Fi (firmware/main/net.cpp): the station with its stored    *)
(* credentials, the setup access point it falls back to, and the link window *)
(* during which the provisioning manager drives the radio.  Five tasks meet   *)
(* here: the Wi-Fi events, the watch task, the web server and the console     *)
(* with new credentials, and the cloud task with the link window.            *)
(*                                                                         *)
(* A network is both an SSID and the password that opens it.  Times are ages *)
(* in units of the watch task's second, saturated just above ApAfter.        *)
(***************************************************************************)
EXTENDS Naturals

CONSTANTS
  None,            \* no network
  Networks,        \* the networks people may name
  ApAfter          \* AP_AFTER_MS, a natural number

VARIABLES
  stored,     \* KEY_SSID and KEY_PASS on flash
  config,     \* the driver's station configuration
  configured, \* sStaConfigured
  link,       \* the station: Down, Trying (a connect() is under way), Up
  lost,       \* a STA_DISCONNECTED event waits for OnWifi
  connected,  \* sStatus.connected
  paused,     \* sPaused
  window,     \* the cloud task and its link window: Waiting, Closed, Paused, Provisioning, Joined
  onAir,      \* the driver's mode is APSTA: the open access point is up
  apStarted,  \* sApStarted
  age,        \* since sLastConnectedMs
  watch,      \* what the watch task has decided: Sleep, Raise, Lower
  request     \* SetCredentials under way: the network and its next step

flash == <<stored, request>>
station == <<config, configured, link, lost, connected>>
radio == <<onAir, apStarted>>
vars == <<stored, config, configured, link, lost, connected, paused, window, onAir, apStarted, age, watch, request>>

Keys == Networks \cup {None}
Credentials == [ssid : Keys, pass : Keys]
NoCredentials == [ssid |-> None, pass |-> None]
Idle == [net |-> None, step |-> "Idle"]
Own(n) == [ssid |-> n, pass |-> n]
WindowOpen == window \in {"Paused", "Provisioning", "Joined"}
Opens(c) == c.ssid # None /\ c.ssid = c.pass

TypeOK ==
  /\ stored \in Credentials
  /\ config \in Credentials
  /\ configured \in BOOLEAN
  /\ link \in {"Down", "Trying", "Up"}
  /\ lost \in BOOLEAN
  /\ connected \in BOOLEAN
  /\ paused \in BOOLEAN
  /\ window \in {"Waiting", "Closed", "Paused", "Provisioning", "Joined"}
  /\ onAir \in BOOLEAN
  /\ apStarted \in BOOLEAN
  /\ age \in 0..ApAfter + 1
  /\ watch \in {"Sleep", "Raise", "Lower"}
  /\ request \in {Idle} \cup [net : Networks, step : {"Ssid", "Pass", "Apply"}]

-----------------------------------------------------------------------------
(* Boot: the station with what is stored, or the access point at once.       *)

Started(s) ==
  /\ config' = IF s.ssid # None THEN s ELSE NoCredentials
  /\ configured' = (s.ssid # None)
  /\ link' = IF s.ssid # None THEN "Trying" ELSE "Down"
  /\ lost' = FALSE /\ connected' = FALSE
  /\ paused' = FALSE /\ window' = "Waiting"
  /\ onAir' = (s.ssid = None) /\ apStarted' = (s.ssid = None)
  /\ age' = 0
  /\ watch' = "Sleep"
  /\ request' = Idle

Init ==
  /\ stored = NoCredentials /\ config = NoCredentials /\ configured = FALSE
  /\ link = "Down" /\ lost = FALSE /\ connected = FALSE
  /\ paused = FALSE /\ window = "Waiting"
  /\ onAir = TRUE /\ apStarted = TRUE
  /\ age = 0
  /\ watch = "Sleep"
  /\ request = Idle

\* A restart, or a power loss in the middle of anything.
Reboot == Started(stored) /\ UNCHANGED stored

-----------------------------------------------------------------------------
(* The driver: attempts fail, succeed, links break. Each failure and each     *)
(* loss becomes one event.                                                   *)

Break ==
  /\ link # "Down"
  /\ link' = "Down" /\ lost' = TRUE
  /\ UNCHANGED <<stored, config, configured, connected, paused, window, onAir, apStarted, age, watch, request>>

\* The station joins and gets its address: OnIp.
OnIp ==
  /\ link = "Trying" /\ Opens(config) /\ ~lost
  /\ link' = "Up" /\ connected' = TRUE /\ age' = 0
  /\ UNCHANGED <<stored, config, configured, lost, paused, window, onAir, apStarted, watch, request>>

Reconnected == IF configured /\ ~paused /\ link = "Down" THEN "Trying" ELSE link

OnWifi ==
  /\ lost
  /\ lost' = FALSE /\ connected' = FALSE
  /\ link' = Reconnected
  /\ UNCHANGED <<stored, config, configured, paused, window, onAir, apStarted, age, watch, request>>

-----------------------------------------------------------------------------
(* The watch task: what it decides once a second, and what it then does.     *)

StartAp == onAir' = (onAir \/ ~apStarted) /\ apStarted' = TRUE
StopAp == onAir' = (onAir /\ ~apStarted) /\ apStarted' = FALSE

LongDown == age > ApAfter

Decide ==
  /\ watch = "Sleep"
  /\ watch' = IF connected THEN "Lower" ELSE IF ~paused /\ LongDown THEN "Raise" ELSE "Sleep"
  /\ UNCHANGED <<flash, station, paused, window, radio, age>>

Act ==
  /\ \/ watch = "Raise" /\ StartAp
     \/ watch = "Lower" /\ StopAp
  /\ watch' = "Sleep"
  /\ UNCHANGED <<flash, station, paused, window, age>>

Pass ==
  /\ age <= ApAfter
  /\ age' = age + 1
  /\ UNCHANGED <<flash, station, paused, window, radio, watch>>

-----------------------------------------------------------------------------
(* New credentials from the page or the console: checked, then stored one     *)
(* key at a time (each write may fail), then used.                           *)

SetCredentials(n) ==
  /\ request = Idle /\ ~paused
  /\ request' = [net |-> n, step |-> "Ssid"]
  /\ UNCHANGED <<stored, station, paused, window, radio, age, watch>>

StoreKey(key, step, next) ==
  /\ request.step = step
  /\ \/ /\ stored' = [stored EXCEPT ![key] = request.net]
        /\ request' = [request EXCEPT !.step = next]
     \/ stored' = stored /\ request' = Idle
  /\ UNCHANGED <<station, paused, window, radio, age, watch>>

StoreSsid == StoreKey("ssid", "Ssid", "Pass")
StorePass == StoreKey("pass", "Pass", "Apply")

\* esp_wifi_disconnect, ConfigureSta, esp_wifi_connect.
UseStored ==
  /\ request.step = "Apply"
  /\ config' = stored /\ configured' = TRUE
  /\ lost' = (lost \/ link # "Down")
  /\ link' = "Trying"
  /\ age' = 0
  /\ request' = Idle
  /\ UNCHANGED <<stored, connected, paused, window, radio, watch>>

Forget ==
  /\ request = Idle
  /\ stored' = NoCredentials
  /\ configured' = FALSE
  /\ lost' = (lost \/ link # "Down")
  /\ link' = "Down"
  /\ StartAp
  /\ UNCHANGED <<config, connected, paused, window, age, watch, request>>

-----------------------------------------------------------------------------
(* The link window. The provisioning manager forces station mode, lets go of  *)
(* the station and may empty its configuration; the app may make it join a    *)
(* network, which is remembered.                                            *)

\* Before it takes a request for a window the cloud task waits for a connection.
WaitForNetwork ==
  /\ window = "Waiting" /\ connected
  /\ window' = "Closed"
  /\ UNCHANGED <<flash, station, paused, radio, age, watch>>

PauseStation ==
  /\ window = "Closed"
  /\ paused' = TRUE /\ window' = "Paused"
  /\ UNCHANGED <<flash, station, radio, age, watch>>

Provision ==
  /\ window = "Paused"
  /\ window' = "Provisioning"
  /\ onAir' = FALSE
  /\ config' \in {config, NoCredentials}
  /\ link' = "Down" /\ lost' = (lost \/ link # "Down")
  /\ UNCHANGED <<flash, configured, connected, paused, apStarted, age, watch>>

\* The app's network works (OnIp) and is kept (RememberCredentials), as far as the flash takes it.
Join(n) ==
  /\ window = "Provisioning" /\ ~lost
  /\ window' = "Joined"
  /\ config' = Own(n)
  /\ link' = "Up" /\ connected' = TRUE /\ age' = 0
  /\ \/ stored' = Own(n) /\ configured' = TRUE
     \/ stored' = [stored EXCEPT !.ssid = n] /\ UNCHANGED configured
     \/ UNCHANGED <<stored, configured>>
  /\ UNCHANGED <<lost, paused, onAir, apStarted, watch, request>>

\* Mutated: the access point is taken to be as it was before the window.
ResumeStationAsBefore ==
  /\ WindowOpen
  /\ window' = "Waiting" /\ paused' = FALSE
  /\ apStarted' = apStarted
  /\ age' = 0
  /\ IF window = "Joined" \/ stored.ssid = None
       THEN UNCHANGED <<config, configured, link>>
       ELSE /\ config' = stored /\ configured' = TRUE
            /\ link' = IF link = "Down" THEN "Trying" ELSE link
  /\ UNCHANGED <<flash, lost, connected, onAir, watch>>

ResumeStation ==
  /\ WindowOpen
  /\ window' = "Waiting" /\ paused' = FALSE
  /\ apStarted' = FALSE
  /\ age' = 0
  /\ IF window = "Joined" \/ stored.ssid = None
       THEN UNCHANGED <<config, configured, link>>
       ELSE /\ config' = stored /\ configured' = TRUE
            /\ link' = IF link = "Down" THEN "Trying" ELSE link
  /\ UNCHANGED <<flash, lost, connected, onAir, watch>>

-----------------------------------------------------------------------------

People == \E n \in Networks : SetCredentials(n) \/ Join(n)
UseCredentials == StoreSsid \/ StorePass \/ UseStored

Next ==
  \/ Break \/ OnIp \/ OnWifi
  \/ Decide \/ Act \/ Pass
  \/ People \/ UseCredentials \/ Forget
  \/ WaitForNetwork \/ PauseStation \/ Provision \/ ResumeStation
  \/ Reboot

(* Every task keeps running, a request once accepted is finished, a window   *)
(* ends (it has its own timeout), and a network that is there lets the       *)
(* station in when it keeps trying.                                         *)
Spec ==
  /\ Init /\ [][Next]_vars
  /\ WF_vars(OnWifi) /\ WF_vars(Decide) /\ WF_vars(Act) /\ WF_vars(Pass)
  /\ WF_vars(UseCredentials) /\ WF_vars(ResumeStation)
  /\ SF_vars(OnIp)

-----------------------------------------------------------------------------
(* Safety net: a board that has had no connection for AP_AFTER_MS is         *)
(* reachable again, over its own access point if need be, unless a person    *)
(* starts something new (credentials, a link window) first, which starts the *)
(* time over.  That holds for credentials that were only half stored, too.   *)
Unreachable == LongDown /\ ~connected /\ ~onAir /\ ~WindowOpen
BoardIsReachable == Unreachable ~> ~Unreachable
=============================================================================
