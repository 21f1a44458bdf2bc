-------------------------------- MODULE App ---------------------------------
(***************************************************************************)
(* The orchestrator of core/src/app.cpp: what the parts of one sample make   *)
(* of each other, and what people do between two samples.                   *)
(*                                                                         *)
(* Tick is App::Tick, called by the sampling task.  The ladder and the daily *)
(* test step as their contracts allow (LadderContract, TestContract), the    *)
(* boost as its code does (Boost).  Every other operation is one call of a   *)
(* web handler, console command or link, under the same lock, at any time   *)
(* between two ticks; Pass is a unit of time going by.                      *)
(*                                                                         *)
(* A reading is what the boost tells apart.  Records, the daily summary, the *)
(* filters, Tuya links and everything that is only displayed is left out,    *)
(* and so is RunTest: the contract lets a run begin with or without it.      *)
(***************************************************************************)
EXTENDS Integers

CONSTANTS
  NDevices,           \* DEVICES
  Channels,           \* the relay channels
  Days,               \* local day indexes
  DayMinutes,         \* the minutes of a day
  Configs,            \* the configurations that may be stored
  Readings,           \* what the probe may read; None: a failed or frozen reading
  Clocks,             \* the local times a sample may find; None: not known
  None,               \* an empty std::optional
  AgeCap,             \* the hold's age saturates here
  MaintenanceTime,    \* MAINTENANCE_S
  OutTimes,           \* for how long a device may be put out of order
  Commands,           \* what else people may ask for
  ManualStates,       \* what a device may be switched to by hand
  YellowRepeat,       \* YELLOW_REPEAT_MS
  RedRepeat,          \* RED_REPEAT_MS
  RestartWindow,      \* RESTART_WINDOW_MIN
  RestartMinUptime    \* RESTART_MIN_UPTIME_S

Normal == 0
Yellow == 2
Red == 3
Level == Normal .. Red

Slots == 0 .. NDevices - 1
Minutes == 0 .. DayMinutes - 1
Local == [day: Days, minute: Minutes]
Demand == {"Ladder", "Test", "Boost", "Window"}

Relay == [channel: Channels, nc: BOOLEAN]

ASSUME ConstantsAreTyped ==
  /\ {NDevices, DayMinutes, AgeCap, MaintenanceTime} \subseteq Nat \ {0}
  /\ {YellowRepeat, RedRepeat, RestartWindow, RestartMinUptime} \subseteq Nat
  /\ RedRepeat <= YellowRepeat
  /\ OutTimes \subseteq Nat \ {0}
  /\ ManualStates \subseteq {"On", "Off"}
  /\ Commands \subseteq {"Ack", "SuspendAlerts", "Maintenance"}
  /\ None \notin Int \cup Days
  /\ Clocks \subseteq Local \cup {None}
  /\ Readings \subseteq Nat \cup {None}

VARIABLES
  config,            \* mCfg
  level, fault, silenced, autoAcked, alertsSuspended, ladderOn,  \* the ladder's output
  testRunning, testOn, testCut,                                  \* the daily test's
  boost,
  maintenanceLeft,  \* until maintenance mode ends by itself; None: not in maintenance
  outLeft,          \* per device: until it is back in order; None: in order
  manual,           \* per device: switched by hand, or "Auto"
  autoWhy,          \* per device: the demands of the last tick
  deviceOn,         \* the devices that are meant to be powered
  energised,        \* the relay channels that are energised
  pending,          \* what the next tick takes to the ladder
  lastPush,         \* since the last alert went to the phones; saturates at YellowRepeat
  uptime,           \* saturates at RestartMinUptime
  restartDay, restartDue

ladderVars == <<level, fault, silenced, autoAcked, alertsSuspended, ladderOn>>
testVars == <<testRunning, testOn, testCut>>
deviceVars == <<outLeft, manual, autoWhy, deviceOn, energised>>
clockVars == <<lastPush, uptime>>
restartVars == <<restartDay, restartDue>>

vars == <<config, ladderVars, testVars, boost, maintenanceLeft, deviceVars, pending,
          clockVars, restartVars>>

\* Ladder and Test are contracts, Boost is the code's.
TheLadder == INSTANCE LadderContract WITH
  Devices <- Slots, config <- config.ladder, suspended <- alertsSuspended, on <- ladderOn
TheTest == INSTANCE TestContract WITH
  config <- config.test, running <- testRunning, on <- testOn, cut <- testCut
TheBoost == INSTANCE Boost WITH
  config <- config.boost, state <- boost

Config ==
  [ladder: [faultLevel: {Yellow, Red}, dayAlarm: {"Sound", "AutoAck", "Suppress"},
            devices: [Slots -> [trigger: Level, mode: {"On", "PulseOff"}, ackSilences: BOOLEAN]]],
   test: [exclusive: BOOLEAN, deficit: Nat, deficitDevice: Slots, test: [Slots -> Nat]],
   boost: TheBoost!Config, windows: [Slots -> SUBSET Minutes],
   relay: [Slots -> Relay \cup {None}], restart: Minutes \cup {None}]

\* What config::Validate demands of the relays: no two devices share one.
Validated(c) ==
  \A d, e \in Slots :
    d # e /\ c.relay[d] # None /\ c.relay[e] # None => c.relay[d].channel # c.relay[e].channel

ASSUME ConfigsAreValid == \A c \in Configs : c \in Config /\ Validated(c)

NothingPending == [ack |-> FALSE, suspend |-> "Nothing"]

TypeOK ==
  /\ config \in Configs
  /\ level \in Level /\ ladderOn \subseteq Slots
  /\ {fault, silenced, autoAcked, alertsSuspended, testRunning, restartDue} \subseteq BOOLEAN
  /\ testOn \subseteq 0 .. NDevices /\ testCut \in Slots \cup {None}
  /\ TheBoost!TypeOK
  /\ maintenanceLeft \in 0 .. MaintenanceTime \cup {None}
  /\ outLeft \in [Slots -> Nat \cup {None}]
  /\ manual \in [Slots -> {"Auto", "On", "Off"}]
  /\ autoWhy \in [Slots -> SUBSET Demand]
  /\ deviceOn \subseteq Slots /\ energised \subseteq Channels
  /\ pending \in [ack: BOOLEAN, suspend: TheLadder!SuspendRequest]
  /\ lastPush \in 0 .. YellowRepeat /\ uptime \in 0 .. RestartMinUptime
  /\ restartDay \in Days \cup {None}

\* A board that has just started: nothing but the configuration is remembered.
Booted ==
  /\ level = Normal
  /\ fault = FALSE
  /\ silenced = FALSE /\ autoAcked = FALSE
  /\ alertsSuspended = FALSE
  /\ ladderOn = {}
  /\ testRunning = FALSE /\ testOn = {} /\ testCut = None
  /\ boost = TheBoost!Idle
  /\ maintenanceLeft = None
  /\ outLeft = [d \in Slots |-> None]
  /\ manual = [d \in Slots |-> "Auto"]
  /\ autoWhy = [d \in Slots |-> {}]
  /\ deviceOn = {} /\ energised = {}
  /\ pending = NothingPending
  /\ lastPush = 0 /\ uptime = 0
  /\ restartDay = None /\ restartDue = FALSE

Init == config \in Configs /\ Booted

-----------------------------------------------------------------------------
(* What becomes of a device: ResolveDevice and UpdateRelays.                 *)

InMaintenance == maintenanceLeft # None

\* Out of order beats everything; switched by hand, it stays so; else any demand keeps it on.
Resolved(d, why, hand, out) ==
  /\ out = None
  /\ hand = "On" \/ (hand = "Auto" /\ why # {})

Resolve(ds) ==
  deviceOn' = (deviceOn \ ds) \cup {d \in ds : Resolved(d, autoWhy'[d], manual'[d], outLeft'[d])}

\* The channels that the devices' state and wiring call for.
Energised ==
  {config.relay[d].channel : d \in {e \in Slots :
     config.relay[e] # None /\ (e \in deviceOn <=> ~config.relay[e].nc)}}

UpdateRelays == energised' = Energised'

-----------------------------------------------------------------------------
(* The parts of a tick, in their order.                                      *)

\* What has run out ends with the tick, before anything is asked for.
Expired(left) == IF left = 0 THEN None ELSE left

ExpireTimers ==
  /\ outLeft' = [d \in Slots |-> Expired(outLeft[d])]
  /\ maintenanceLeft' = Expired(maintenanceLeft)

StepLadder(reading) == TheLadder!Step(reading = None, pending.ack, pending.suspend)

\* Mutated: the test is told of the alert of the sample before.
StepTestBeforeLadder ==
  /\ TheTest!Step(level # Normal, fault, maintenanceLeft' # None,
                  {d \in Slots : outLeft'[d] # None})
  /\ pending' = NothingPending

\* The test is told of the alert of this sample.
StepTest ==
  /\ TheTest!Step(level' # Normal, fault', maintenanceLeft' # None,
                  {d \in Slots : outLeft'[d] # None})
  /\ pending' = NothingPending

BoostInput(reading, local) ==
  [local |-> local, mgl |-> reading, testRunning |-> testRunning',
   maintenance |-> maintenanceLeft' # None]

StepBoost(reading, local) == TheBoost!Step(BoostInput(reading, local))

\* An exclusive run holds the windows off.
HoldOff == config.test.exclusive /\ testRunning'
TestStarts == HoldOff /\ ~testRunning
LevelChanged == level' # level \/ fault' # fault

\* Mutated: nothing holds the windows off.
InWindowAnyway(d, local) == local # None /\ local.minute \in config.windows[d]

InWindow(d, local) == ~HoldOff /\ local # None /\ local.minute \in config.windows[d]

Why(d, local) ==
  IF testCut' = d THEN {}
  ELSE (IF d \in ladderOn' THEN {"Ladder"} ELSE {})
       \cup (IF d \in testOn' THEN {"Test"} ELSE {})
       \cup (IF d \in TheBoost!On' THEN {"Boost"} ELSE {})
       \cup (IF InWindow(d, local) THEN {"Window"} ELSE {})

\* Mutated: a level that asks for nothing else leaves the switch as it is.
ManualEndsOnDemand(d) == TestStarts \/ autoWhy'[d] # autoWhy[d]

\* A manual switch lasts until the next scheduled or triggered change.
ManualEnds(d) == TestStarts \/ autoWhy'[d] # autoWhy[d] \/ LevelChanged

MergeDemands(local) ==
  /\ autoWhy' = [d \in Slots |-> Why(d, local)]
  /\ manual' = [d \in Slots |-> IF ManualEnds(d) THEN "Auto" ELSE manual[d]]
  /\ Resolve(Slots)
  /\ UpdateRelays

\* A deeper level and a FAULT are pushed by the sample that finds them ...
AlertPushed == level' > level \/ (fault' /\ ~fault)

\* ... and a standing alarm again and again, until a person has acknowledged it.
Unheard ==
  /\ fault' \/ level' >= Yellow
  /\ ~(silenced' /\ ~autoAcked')
  /\ maintenanceLeft' = None /\ ~alertsSuspended'

\* Mutated: the day's automatic ack is taken for somebody.
AlertRepeatsUnlessSilenced ==
  /\ ~AlertPushed /\ Unheard /\ ~silenced'
  /\ lastPush >= IF fault' \/ level' = Red THEN RedRepeat ELSE YellowRepeat

AlertRepeats ==
  /\ ~AlertPushed /\ Unheard
  /\ lastPush >= IF fault' \/ level' = Red THEN RedRepeat ELSE YellowRepeat

PushAlerts == lastPush' = IF AlertPushed \/ AlertRepeats THEN 0 ELSE lastPush

\* Nothing a reboot would interrupt or forget.
RestartAllowed ==
  /\ level' = Normal /\ ~fault' /\ ~testRunning' /\ ~boost'.running /\ maintenanceLeft' = None
  /\ \A d \in Slots : outLeft'[d] = None /\ manual'[d] = "Auto"

RestartTime(local) ==
  /\ config.restart # None /\ local # None
  /\ (local.minute + DayMinutes - config.restart) % DayMinutes < RestartWindow

DailyRestart(local) ==
  /\ restartDue' = (/\ RestartTime(local) /\ uptime >= RestartMinUptime
                    /\ restartDay # local.day /\ RestartAllowed)
  /\ restartDay' = IF restartDue' THEN local.day ELSE restartDay

Tick(reading, local) ==
  /\ UNCHANGED <<config, uptime>>
  /\ ExpireTimers
  /\ StepLadder(reading)
  /\ StepTest
  /\ StepBoost(reading, local)
  /\ MergeDemands(local)
  /\ PushAlerts
  /\ DailyRestart(local)

-----------------------------------------------------------------------------
(* What people do between two ticks. *)

Ack ==
  /\ "Ack" \in Commands
  /\ level # Normal \/ fault
  /\ pending' = [pending EXCEPT !.ack = TRUE]
  /\ UNCHANGED <<config, ladderVars, testVars, boost, maintenanceLeft, deviceVars,
                 clockVars, restartVars>>

\* Mutated: whatever the person saw.
SuspendAlertsUnseen(seen) ==
  /\ "SuspendAlerts" \in Commands
  /\ ~fault /\ level # Normal
  /\ pending' = [pending EXCEPT !.suspend = "Suspend"]
  /\ UNCHANGED <<config, ladderVars, testVars, boost, maintenanceLeft, deviceVars,
                 clockVars, restartVars>>

\* Refused if the level is now deeper than the one the person saw.
SuspendAlerts(seen) ==
  /\ "SuspendAlerts" \in Commands
  /\ seen # None => level <= seen
  /\ ~fault /\ level # Normal
  /\ pending' = [pending EXCEPT !.suspend = "Suspend"]
  /\ UNCHANGED <<config, ladderVars, testVars, boost, maintenanceLeft, deviceVars,
                 clockVars, restartVars>>

ResumeAlerts ==
  /\ alertsSuspended
  /\ pending' = [pending EXCEPT !.suspend = "Resume"]
  /\ UNCHANGED <<config, ladderVars, testVars, boost, maintenanceLeft, deviceVars,
                 clockVars, restartVars>>

\* Entering maintenance mode again restarts the countdown.
SetMaintenance ==
  /\ "Maintenance" \in Commands
  /\ maintenanceLeft' \in {MaintenanceTime, None}
  /\ UNCHANGED <<config, ladderVars, testVars, boost, deviceVars, pending,
                 clockVars, restartVars>>

\* A device may have moved to another relay: the relays follow at once, the rest with the next tick.
SetConfig ==
  /\ config' \in Configs
  /\ deviceOn' = deviceOn
  /\ UpdateRelays
  /\ UNCHANGED <<ladderVars, testVars, boost, maintenanceLeft, outLeft, manual, autoWhy,
                 pending, clockVars, restartVars>>

SuspendDevice(d) ==
  /\ \E t \in OutTimes \cup {None} : outLeft' = [outLeft EXCEPT ![d] = t]
  /\ UNCHANGED <<manual, autoWhy>>
  /\ Resolve({d})
  /\ config' = config
  /\ UpdateRelays
  /\ UNCHANGED <<ladderVars, testVars, boost, maintenanceLeft, pending, clockVars, restartVars>>

\* Refused while an exclusive test runs, except to go back to automatic.
SetManual(d) ==
  /\ \E s \in ManualStates \cup {"Auto"} :
       /\ s = "Auto" \/ ~(config.test.exclusive /\ testRunning)
       /\ manual' = [manual EXCEPT ![d] = s]
  /\ outLeft' = [outLeft EXCEPT ![d] = Expired(@)]
  /\ autoWhy' = autoWhy
  /\ Resolve({d})
  /\ config' = config
  /\ UpdateRelays
  /\ UNCHANGED <<ladderVars, testVars, boost, maintenanceLeft, pending, clockVars, restartVars>>

\* A restart or a loss of power: everything but the configuration is gone.
Reboot ==
  /\ config' = config
  /\ level' = Normal
  /\ fault' = FALSE
  /\ silenced' = FALSE /\ autoAcked' = FALSE
  /\ alertsSuspended' = FALSE
  /\ ladderOn' = {}
  /\ testRunning' = FALSE /\ testOn' = {} /\ testCut' = None
  /\ boost' = TheBoost!Idle
  /\ maintenanceLeft' = None
  /\ outLeft' = [d \in Slots |-> None]
  /\ manual' = [d \in Slots |-> "Auto"]
  /\ autoWhy' = [d \in Slots |-> {}]
  /\ deviceOn' = {} /\ energised' = {}
  /\ pending' = NothingPending
  /\ lastPush' = 0 /\ uptime' = 0
  /\ restartDay' = None /\ restartDue' = FALSE

-----------------------------------------------------------------------------
\* Nothing runs out twice: what is left stays at 0 until the next tick sees it.
Less(left) == IF left \in {None, 0} THEN left ELSE left - 1
More(age, cap) == IF age < cap THEN age + 1 ELSE age

Pass ==
  /\ TheBoost!Later
  /\ maintenanceLeft' = Less(maintenanceLeft)
  /\ outLeft' = [d \in Slots |-> Less(outLeft[d])]
  /\ lastPush' = More(lastPush, YellowRepeat)
  /\ uptime' = More(uptime, RestartMinUptime)
  /\ UNCHANGED <<config, ladderVars, testVars, manual, autoWhy, deviceOn, energised,
                 pending, restartVars>>

Next ==
  \/ \E reading \in Readings, local \in Clocks : Tick(reading, local)
  \/ Ack
  \/ \E seen \in Level \cup {None} : SuspendAlerts(seen)
  \/ ResumeAlerts
  \/ SetMaintenance
  \/ SetConfig
  \/ \E d \in Slots : SuspendDevice(d) \/ SetManual(d)
  \/ Reboot
  \/ Pass

Spec == Init /\ [][Next]_vars
=============================================================================
