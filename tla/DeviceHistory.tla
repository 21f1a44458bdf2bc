--------------------------- MODULE DeviceHistory ----------------------------
(***************************************************************************)
(* The App with history variables about who decided on a device.            *)
(***************************************************************************)
EXTENDS App

VARIABLES
  given,         \* per device: what stood when it was switched by hand; None: it is not
  runExclusive,  \* the run in progress has been an exclusive one from its first tick on
  sinceBelow,    \* since the boost began, or a reading was below its target
  early          \* the boost reached its target before it had been held for hold_s

deviceHistory == <<given, runExclusive, sinceBelow, early>>
dvars == <<vars, deviceHistory>>

Standing(d) == [level |-> level, fault |-> fault, why |-> autoWhy[d]]

DeviceInit ==
  /\ Init
  /\ given = [d \in Slots |-> None]
  /\ runExclusive = FALSE
  /\ sinceBelow = 0 /\ early = FALSE

DeviceTick ==
  \E reading \in Readings, local \in Clocks :
    /\ Tick(reading, local)
    /\ given' = [d \in Slots |-> IF manual'[d] = "Auto" THEN None ELSE given[d]]
    /\ runExclusive' = (testRunning' /\ config.test.exclusive /\ (~testRunning \/ runExclusive))
    /\ sinceBelow' = IF ~boost.running \/ (reading # None /\ reading < config.boost.target)
                     THEN 0 ELSE sinceBelow
    /\ early' = (/\ boost.running /\ TheBoost!Reaches(BoostInput(reading, local))
                 /\ sinceBelow' < config.boost.hold)

DeviceSetConfig ==
  /\ SetConfig
  /\ runExclusive' = (runExclusive /\ config'.test.exclusive)
  /\ UNCHANGED <<given, sinceBelow, early>>

DeviceSetManual(d) ==
  /\ SetManual(d)
  /\ given' = IF manual'[d] = manual[d] THEN given
              ELSE [given EXCEPT ![d] = IF manual'[d] = "Auto" THEN None ELSE Standing(d)]
  /\ UNCHANGED <<runExclusive, sinceBelow, early>>

DevicePass ==
  /\ Pass
  /\ sinceBelow' = More(sinceBelow, AgeCap)
  /\ UNCHANGED <<given, runExclusive, early>>

DeviceReboot ==
  /\ Reboot
  /\ given' = [d \in Slots |-> None]
  /\ runExclusive' = FALSE
  /\ sinceBelow' = 0 /\ early' = FALSE

DeviceNext ==
  \/ DeviceTick
  \/ DeviceSetConfig
  \/ \E d \in Slots : DeviceSetManual(d)
  \/ DevicePass
  \/ DeviceReboot
  \/ (Ack \/ (\E seen \in Level \cup {None} : SuspendAlerts(seen)) \/ ResumeAlerts
      \/ SetMaintenance \/ \E d \in Slots : SuspendDevice(d)) /\ UNCHANGED deviceHistory

DeviceSpec == DeviceInit /\ [][DeviceNext]_dvars

-----------------------------------------------------------------------------
(* A device switched by hand is back to automatic as soon as anything it was *)
(* switched under has changed: the level, the FAULT or what demands it       *)
(* ("until the next scheduled or triggered change", app.hpp:207).            *)
ManualIsCurrent ==
  \A d \in Slots : manual[d] # "Auto" => given[d] = Standing(d)

(* In an alert or a FAULT, what the ladder wants on has power, whatever      *)
(* test, boost, windows and configurations were doing when it came up,       *)
(* unless the device is out of order or was switched off by hand since.      *)
(* A device without a relay is a plug, which its task switches by deviceOn.  *)
Powered(d) ==
  /\ d \in deviceOn
  /\ config.relay[d] # None => (config.relay[d].channel \in energised <=> ~config.relay[d].nc)

AlertHasItsDevices ==
  level # Normal \/ fault =>
    \A d \in ladderOn : outLeft[d] # None \/ manual[d] = "Off" \/ Powered(d)

(* "During a run only the tested device runs" (README.md:265): while a run   *)
(* that has been exclusive all along is on, no window, boost or hand keeps   *)
(* another device on; a pulse device has its normal power.                   *)
ExclusiveRunIsAlone ==
  runExclusive => deviceOn \subseteq testOn \cup ladderOn

(* The boost is done for the day only after every reading of the last hold_s *)
(* was at the target: dips, missed readings, pauses and a new target count.  *)
BoostHoldsTheTarget == ~early
=============================================================================
