----------------------------- MODULE AppProofs ------------------------------
(***************************************************************************)
(* What is proved of the App, for every set of configurations, clocks and   *)
(* readings, any number of devices, and every ladder and test that keep     *)
(* their contracts: who decides on a device, and what reaches the phones.   *)
(***************************************************************************)
EXTENDS DeviceHistory, PushHistory, TLAPS

-----------------------------------------------------------------------------
(* Types. *)

LEMMA ConfigParts ==
  ASSUME config \in Configs
  PROVE  /\ config \in Config /\ Validated(config)
         /\ config.test.deficitDevice \in Slots
         /\ config.boost.hold \in 0 .. AgeCap
         /\ \A d \in Slots : config.relay[d] # None => config.relay[d].channel \in Channels
<1>1. config \in Config /\ Validated(config)
  BY ConfigsAreValid
<1>2. config.test.deficitDevice \in Slots
  BY <1>1 DEF Config
<1>3. config.boost \in TheBoost!Config
  BY <1>1 DEF Config
<1>4. config.boost.hold \in 0 .. AgeCap
  BY <1>3 DEF TheBoost!Config
<1>5. config.relay \in [Slots -> Relay \cup {None}]
  BY <1>1 DEF Config
<1>6. \A d \in Slots : config.relay[d] # None => config.relay[d].channel \in Channels
  BY <1>5 DEF Relay
<1>7. QED BY <1>1, <1>2, <1>4, <1>6

LEMMA EnergisedType ==
  ASSUME config' \in Configs, UpdateRelays
  PROVE  energised' \subseteq Channels
<1>1. config' \in Config
  BY ConfigsAreValid
<1>2. config'.relay \in [Slots -> Relay \cup {None}]
  BY <1>1 DEF Config
<1>3. \A d \in Slots : config'.relay[d] # None => config'.relay[d].channel \in Channels
  BY <1>2 DEF Relay
<1>4. QED BY <1>3 DEF UpdateRelays, Energised

\* What holds of the timers.
LEMMA TimersType ==
  ASSUME TypeOK
  PROVE  /\ \A d \in Slots : /\ Expired(outLeft[d]) \in Nat \cup {None}
                             /\ Less(outLeft[d]) \in Nat \cup {None}
                             /\ Less(outLeft[d]) = None <=> outLeft[d] = None
         /\ Expired(maintenanceLeft) \in 0 .. MaintenanceTime \cup {None}
         /\ Less(maintenanceLeft) \in 0 .. MaintenanceTime \cup {None}
<1>1. None \notin Int /\ MaintenanceTime \in Nat
  BY ConstantsAreTyped
<1>2. outLeft \in [Slots -> Nat \cup {None}]
  BY DEF TypeOK
<1>3. maintenanceLeft \in 0 .. MaintenanceTime \cup {None}
  BY DEF TypeOK
<1>4. ASSUME NEW d \in Slots
      PROVE  /\ Expired(outLeft[d]) \in Nat \cup {None}
             /\ Less(outLeft[d]) \in Nat \cup {None}
             /\ Less(outLeft[d]) = None <=> outLeft[d] = None
  BY <1>1, <1>2 DEF Expired, Less
<1>5. QED BY <1>1, <1>3, <1>4 DEF Expired, Less

LEMMA BoostStepType ==
  ASSUME TypeOK, NEW reading \in Readings, NEW local \in Clocks, StepBoost(reading, local)
  PROVE  boost' \in TheBoost!State
<1> DEFINE in == BoostInput(reading, local)
<1>1. boost \in TheBoost!State
  BY DEF TypeOK, TheBoost!TypeOK
<1>2. /\ in.local = local /\ in.mgl = reading
      /\ local # None => local.day \in Days
      /\ AgeCap \in Nat
  BY ConstantsAreTyped DEF BoostInput, Local
<1>3. TheBoost!Held(in) \in 0 .. AgeCap \cup {None}
  BY <1>1, <1>2 DEF TheBoost!Held, TheBoost!State
<1>4. ASSUME NEW day \in Days \cup {None}, TheBoost!Stops(day)
      PROVE  boost' \in TheBoost!State
  BY <1>4 DEF TheBoost!Stops, TheBoost!State
<1>5. CASE TheBoost!EndsWithWindow(in)
  <2>1. (IF in.local = None THEN boost.doneDay ELSE in.local.day) \in Days \cup {None}
    BY <1>1, <1>2 DEF TheBoost!State
  <2>2. QED BY <1>4, <1>5, <2>1 DEF TheBoost!EndsWithWindow
<1>6. CASE TheBoost!Pauses(in)
  BY <1>1, <1>4, <1>6 DEF TheBoost!Pauses, TheBoost!State
<1>7. CASE TheBoost!Reaches(in) /\ TheBoost!Stops(in.local.day)
  <2>1. in.local.day \in Days
    BY <1>2, <1>7 DEF TheBoost!Reaches, TheBoost!Undisturbed, TheBoost!Open
  <2>2. QED BY <1>4, <1>7, <2>1
<1>8. CASE TheBoost!RunsOn(in)
  BY <1>1, <1>3, <1>8 DEF TheBoost!RunsOn, TheBoost!State
<1>9. CASE boost' = [boost EXCEPT !.running = TRUE]
  BY <1>1, <1>9 DEF TheBoost!State
<1>10. CASE UNCHANGED boost
  BY <1>1, <1>10
<1>11. QED
  BY <1>5, <1>6, <1>7, <1>8, <1>9, <1>10 DEF StepBoost, TheBoost!Step

LEMMA ResolveType ==
  ASSUME TypeOK, NEW ds \in SUBSET Slots, Resolve(ds)
  PROVE  deviceOn' \subseteq Slots
  BY DEF Resolve, TypeOK

LEMMA TickKeepsType ==
  ASSUME TypeOK, NEW reading \in Readings, NEW local \in Clocks, Tick(reading, local)
  PROVE  TypeOK'
<1>1. config' \in Configs /\ config \in Configs
  BY DEF Tick, TypeOK
<1>2. level' \in Level /\ {fault', silenced', autoAcked', alertsSuspended'} \subseteq BOOLEAN
      /\ ladderOn' \subseteq Slots
  BY DEF Tick, StepLadder, TheLadder!Step, TheLadder!LevelMoves, TheLadder!SilenceMoves,
         TheLadder!SuspendMoves, TheLadder!DevicesMove, TypeOK, Level, Normal, Red,
         TheLadder!Level, TheLadder!Normal, TheLadder!Red
<1>3. /\ testRunning' \in BOOLEAN /\ testOn' \subseteq 0 .. NDevices
      /\ testCut' \in Slots \cup {None}
      /\ pending' = NothingPending
  BY <1>1, ConfigParts DEF Tick, StepTest, TheTest!Step, TheTest!RunMoves,
         TheTest!DevicesMove, TheTest!CutMoves
<1>4. /\ outLeft' \in [Slots -> Nat \cup {None}]
      /\ maintenanceLeft' \in 0 .. MaintenanceTime \cup {None}
  BY TimersType DEF Tick, ExpireTimers
<1>5. boost' \in TheBoost!State
  BY BoostStepType DEF Tick
<1>6. manual' \in [Slots -> {"Auto", "On", "Off"}]
  BY DEF Tick, MergeDemands, TypeOK
<1>7. autoWhy' \in [Slots -> SUBSET Demand]
  <2>1. \A d \in Slots : Why(d, local) \in SUBSET Demand
    BY DEF Why, Demand
  <2>2. QED BY <2>1 DEF Tick, MergeDemands
<1>8. deviceOn' \subseteq Slots /\ energised' \subseteq Channels
  BY <1>1, ResolveType, EnergisedType DEF Tick, MergeDemands
<1>9. lastPush' \in 0 .. YellowRepeat /\ uptime' \in 0 .. RestartMinUptime
  BY ConstantsAreTyped DEF Tick, PushAlerts, TypeOK
<1>10. restartDay' \in Days \cup {None} /\ restartDue' \in BOOLEAN
  <2>1. restartDue' \in BOOLEAN
    BY DEF Tick, DailyRestart, RestartTime
  <2>2. restartDue' => local.day \in Days
    BY ConstantsAreTyped DEF Tick, DailyRestart, RestartTime, Local
  <2>3. QED BY <2>1, <2>2 DEF Tick, DailyRestart, TypeOK
<1>11. pending' \in [ack: BOOLEAN, suspend: TheLadder!SuspendRequest]
  BY <1>3 DEF NothingPending, TheLadder!SuspendRequest
<1>12. QED
  BY <1>1, <1>2, <1>3, <1>4, <1>5, <1>6, <1>7, <1>8, <1>9, <1>10, <1>11
  DEF TypeOK, TheBoost!TypeOK

LEMMA BootedType ==
  ASSUME config \in Configs, Booted
  PROVE  TypeOK
<1>1. TheBoost!Idle \in TheBoost!State
  BY DEF TheBoost!Idle, TheBoost!State
<1>2. Normal \in Level
  BY DEF Level, Normal, Red
<1>3. NothingPending \in [ack: BOOLEAN, suspend: TheLadder!SuspendRequest]
  BY DEF NothingPending, TheLadder!SuspendRequest
<1>4. 0 \in 0 .. YellowRepeat /\ 0 \in 0 .. RestartMinUptime
  BY ConstantsAreTyped
<1>5. QED BY <1>1, <1>2, <1>3, <1>4 DEF Booted, TypeOK, TheBoost!TypeOK

LEMMA RebootKeepsType ==
  ASSUME TypeOK, Reboot
  PROVE  TypeOK'
<1>1. TheBoost!Idle \in TheBoost!State
  BY DEF TheBoost!Idle, TheBoost!State
<1>2. Normal \in Level
  BY DEF Level, Normal, Red
<1>3. NothingPending \in [ack: BOOLEAN, suspend: TheLadder!SuspendRequest]
  BY DEF NothingPending, TheLadder!SuspendRequest
<1>4. 0 \in 0 .. YellowRepeat /\ 0 \in 0 .. RestartMinUptime
  BY ConstantsAreTyped
<1>5. boost' \in TheBoost!State
  BY <1>1 DEF Reboot
<1>6. QED BY <1>1, <1>2, <1>3, <1>4, <1>5 DEF Reboot, TypeOK, TheBoost!TypeOK

LEMMA PassKeepsType ==
  ASSUME TypeOK, Pass
  PROVE  TypeOK'
<1>1. boost' \in TheBoost!State
  <2>1. boost \in TheBoost!State /\ AgeCap \in Nat
    BY ConstantsAreTyped DEF TypeOK, TheBoost!TypeOK
  <2>2. (IF boost.atTarget = None \/ boost.atTarget = AgeCap THEN boost.atTarget
         ELSE boost.atTarget + 1) \in 0 .. AgeCap \cup {None}
    BY <2>1 DEF TheBoost!State
  <2>3. QED BY <2>1, <2>2 DEF Pass, TheBoost!Later, TheBoost!State
<1>2. /\ maintenanceLeft' \in 0 .. MaintenanceTime \cup {None}
      /\ outLeft' \in [Slots -> Nat \cup {None}]
  BY TimersType DEF Pass
<1>3. lastPush' \in 0 .. YellowRepeat /\ uptime' \in 0 .. RestartMinUptime
  BY ConstantsAreTyped DEF Pass, More, TypeOK
<1>4. QED
  BY <1>1, <1>2, <1>3 DEF Pass, TypeOK, ladderVars, testVars, restartVars, TheBoost!TypeOK

\* Everything else that people do changes a few variables each.
LEMMA CommandKeepsType ==
  ASSUME TypeOK,
         Ack \/ (\E seen \in Level \cup {None} : SuspendAlerts(seen)) \/ ResumeAlerts \/ SetMaintenance
  PROVE  TypeOK'
<1>1. pending \in [ack: BOOLEAN, suspend: TheLadder!SuspendRequest]
  BY DEF TypeOK
<1>2. pending' \in [ack: BOOLEAN, suspend: TheLadder!SuspendRequest]
  BY <1>1 DEF Ack, SuspendAlerts, ResumeAlerts, SetMaintenance, TheLadder!SuspendRequest
<1>3. maintenanceLeft' \in 0 .. MaintenanceTime \cup {None}
  BY ConstantsAreTyped DEF Ack, SuspendAlerts, ResumeAlerts, SetMaintenance, TypeOK
<1>4. UNCHANGED <<config, ladderVars, testVars, boost, deviceVars, clockVars, restartVars>>
  BY DEF Ack, SuspendAlerts, ResumeAlerts, SetMaintenance
<1>5. QED
  BY <1>2, <1>3, <1>4
  DEF TypeOK, ladderVars, testVars, deviceVars, clockVars, restartVars, TheBoost!TypeOK

LEMMA SetConfigKeepsType ==
  ASSUME TypeOK, SetConfig
  PROVE  TypeOK'
<1>1. config' \in Configs /\ energised' \subseteq Channels /\ deviceOn' = deviceOn
  BY EnergisedType DEF SetConfig
<1>2. QED
  BY <1>1
  DEF SetConfig, TypeOK, ladderVars, testVars, clockVars, restartVars, TheBoost!TypeOK

LEMMA DeviceCommandKeepsType ==
  ASSUME TypeOK, NEW d \in Slots, SuspendDevice(d) \/ SetManual(d)
  PROVE  TypeOK'
<1>1. /\ outLeft \in [Slots -> Nat \cup {None}] /\ manual \in [Slots -> {"Auto", "On", "Off"}]
      /\ OutTimes \subseteq Nat /\ ManualStates \subseteq {"On", "Off"}
  BY ConstantsAreTyped DEF TypeOK
<1>2. /\ outLeft' \in [Slots -> Nat \cup {None}]
      /\ manual' \in [Slots -> {"Auto", "On", "Off"}]
      /\ autoWhy' = autoWhy
  BY <1>1, TimersType DEF SuspendDevice, SetManual
<1>3. config' \in Configs /\ Resolve({d}) /\ UpdateRelays
  BY DEF SuspendDevice, SetManual, TypeOK
<1>4. deviceOn' \subseteq Slots /\ energised' \subseteq Channels
  BY <1>3, ResolveType, EnergisedType
<1>5. UNCHANGED <<ladderVars, testVars, boost, maintenanceLeft, pending, clockVars, restartVars>>
  BY DEF SuspendDevice, SetManual
<1>6. QED
  BY <1>2, <1>3, <1>4, <1>5
  DEF TypeOK, ladderVars, testVars, clockVars, restartVars, TheBoost!TypeOK

\* The App's own step under every step of the histories.
LEMMA DeviceNextIsNext ==
  ASSUME DeviceNext
  PROVE  Next
BY DEF DeviceNext, DeviceTick, DeviceSetConfig, DeviceSetManual, DevicePass, DeviceReboot, Next

LEMMA PushNextIsNext ==
  ASSUME PushNext
  PROVE  Next
BY DEF PushNext, PushTick, PushPass, PushAck, PushSuspendAlerts, PushReboot, Next

LEMMA NextKeepsType ==
  ASSUME TypeOK, [Next]_vars
  PROVE  TypeOK'
<1>1. CASE UNCHANGED vars
  BY <1>1
  DEF vars, TypeOK, ladderVars, testVars, deviceVars, clockVars, restartVars, TheBoost!TypeOK
<1>2. CASE Next
  BY <1>2, TickKeepsType, CommandKeepsType, SetConfigKeepsType, DeviceCommandKeepsType,
     RebootKeepsType, PassKeepsType
  DEF Next
<1>3. QED BY <1>1, <1>2

LEMMA DeviceNextKeepsType ==
  ASSUME TypeOK, [DeviceNext]_dvars
  PROVE  TypeOK'
<1>1. [Next]_vars
  BY DeviceNextIsNext DEF dvars
<1>2. QED BY <1>1, NextKeepsType

LEMMA PushNextKeepsType ==
  ASSUME TypeOK, [PushNext]_pvars
  PROVE  TypeOK'
<1>1. [Next]_vars
  BY PushNextIsNext DEF pvars
<1>2. QED BY <1>1, NextKeepsType

(* Every variable of the App keeps its type, whatever is asked of it and     *)
(* whichever configurations are stored meanwhile: no timer runs past its     *)
(* zero, maintenance never lasts longer than MAINTENANCE_S, and no device is *)
(* on, demanded or energised that does not exist, but for the self test's.   *)
THEOREM TypeCorrect == DeviceSpec => []TypeOK
<1>1. DeviceInit => TypeOK
  BY BootedType DEF DeviceInit, Init
<1>2. TypeOK /\ [DeviceNext]_dvars => TypeOK'
  BY DeviceNextKeepsType
<1>3. QED BY <1>1, <1>2, PTL DEF DeviceSpec

-----------------------------------------------------------------------------
(* What a device was switched under. *)

ManualInv ==
  /\ TypeOK
  /\ given = [d \in Slots |-> given[d]]
  /\ ManualIsCurrent

\* Neither level nor demands change between two ticks but by a reboot.
LEMMA OnlyTicksDemand ==
  ASSUME DeviceNext, ~DeviceTick, ~DeviceReboot
  PROVE  UNCHANGED <<level, fault, ladderOn, testRunning, testOn, autoWhy>>
<1>1. CASE DeviceSetConfig
  BY <1>1 DEF DeviceSetConfig, SetConfig, ladderVars, testVars
<1>2. CASE DevicePass
  BY <1>2 DEF DevicePass, Pass, ladderVars, testVars
<1>3. CASE \E d \in Slots : SetManual(d) \/ SuspendDevice(d)
  BY <1>3 DEF SetManual, SuspendDevice, ladderVars, testVars
<1>4. CASE Ack \/ (\E seen \in Level \cup {None} : SuspendAlerts(seen)) \/ ResumeAlerts \/ SetMaintenance
  BY <1>4
  DEF Ack, SuspendAlerts, ResumeAlerts, SetMaintenance, ladderVars, testVars, deviceVars
<1>5. QED BY <1>1, <1>2, <1>3, <1>4 DEF DeviceNext, DeviceSetManual

LEMMA ManualStep ==
  ASSUME ManualInv, [DeviceNext]_dvars
  PROVE  ManualInv'
<1>1. TypeOK' /\ TypeOK
  BY DeviceNextKeepsType DEF ManualInv
<1> SUFFICES /\ given' = [d \in Slots |-> given'[d]]
             /\ \A d \in Slots : manual'[d] # "Auto" => given'[d] = Standing(d)'
  BY <1>1 DEF ManualInv, ManualIsCurrent
<1>2. CASE DeviceTick
  <2>1. PICK reading \in Readings, local \in Clocks :
          /\ MergeDemands(local)
          /\ given' = [d \in Slots |-> IF manual'[d] = "Auto" THEN None ELSE given[d]]
    BY <1>2 DEF DeviceTick, Tick
  <2>2. ASSUME NEW d \in Slots, manual'[d] # "Auto"
        PROVE  given'[d] = Standing(d)'
    <3>1. ~ManualEnds(d) /\ manual[d] # "Auto"
      BY <2>1, <2>2 DEF MergeDemands
    <3>2. level' = level /\ fault' = fault /\ autoWhy'[d] = autoWhy[d]
      BY <3>1 DEF ManualEnds, LevelChanged
    <3>3. given[d] = Standing(d)
      BY <3>1 DEF ManualInv, ManualIsCurrent
    <3>4. QED BY <2>1, <2>2, <3>2, <3>3 DEF Standing
  <2>3. QED BY <2>1, <2>2
<1>3. CASE \E e \in Slots : DeviceSetManual(e)
  <2>1. PICK e \in Slots : DeviceSetManual(e)
    BY <1>3
  <2>2. PICK s \in ManualStates \cup {"Auto"} : manual' = [manual EXCEPT ![e] = s]
    BY <2>1 DEF DeviceSetManual, SetManual
  <2>3. UNCHANGED <<level, fault, autoWhy>>
    BY <2>1 DEF DeviceSetManual, SetManual, ladderVars
  <2>4. manual \in [Slots -> {"Auto", "On", "Off"}]
    BY <1>1 DEF TypeOK
  <2>5. given' = IF manual'[e] = manual[e] THEN given
                 ELSE [given EXCEPT ![e] = IF manual'[e] = "Auto" THEN None ELSE Standing(e)]
    BY <2>1 DEF DeviceSetManual
  <2>6. given = [d \in Slots |-> given[d]]
    BY DEF ManualInv
  <2>7. CASE manual'[e] = manual[e]
    <3>1. manual' = manual /\ given' = given
      BY <2>2, <2>4, <2>5, <2>7
    <3>2. QED BY <2>3, <2>6, <3>1 DEF ManualInv, ManualIsCurrent, Standing
  <2>8. CASE manual'[e] # manual[e]
    <3>1. /\ given' = [d \in Slots |-> given'[d]]
          /\ manual'[e] # "Auto" => given'[e] = Standing(e)
          /\ \A d \in Slots \ {e} : manual'[d] = manual[d] /\ given'[d] = given[d]
      BY <2>2, <2>4, <2>5, <2>6, <2>8
    <3>2. QED BY <2>3, <3>1 DEF ManualInv, ManualIsCurrent, Standing
  <2>9. QED BY <2>7, <2>8
<1>4. CASE DeviceReboot
  BY <1>4 DEF DeviceReboot, Reboot
<1>5. CASE UNCHANGED <<level, fault, autoWhy, manual, given>>
  BY <1>5 DEF ManualInv, ManualIsCurrent, Standing
<1>6. CASE DeviceNext /\ ~DeviceTick /\ ~DeviceReboot /\ ~\E e \in Slots : DeviceSetManual(e)
  <2>1. UNCHANGED <<level, fault, autoWhy>>
    BY <1>6, OnlyTicksDemand
  <2>2. UNCHANGED <<manual, given>>
    BY <1>6
    DEF DeviceNext, DeviceSetConfig, SetConfig, DevicePass, Pass, SuspendDevice, Ack, SuspendAlerts, ResumeAlerts,
        SetMaintenance, deviceHistory, deviceVars
  <2>3. QED BY <1>5, <2>1, <2>2
<1>7. QED
  BY <1>2, <1>3, <1>4, <1>5, <1>6 DEF dvars, vars, deviceHistory, ladderVars, deviceVars

(* A device switched by hand is back to automatic as soon as the level, the   *)
(* FAULT or anything that demands it has changed.                            *)
THEOREM ManualStaysCurrent == DeviceSpec => []ManualIsCurrent
<1>1. DeviceInit => ManualInv
  <2> SUFFICES ASSUME DeviceInit PROVE ManualInv
    OBVIOUS
  <2>1. TypeOK
    BY BootedType DEF DeviceInit, Init
  <2>2. \A d \in Slots : manual[d] = "Auto"
    BY DEF DeviceInit, Init, Booted
  <2>3. given = [d \in Slots |-> given[d]]
    BY DEF DeviceInit
  <2>4. QED BY <2>1, <2>2, <2>3 DEF ManualInv, ManualIsCurrent
<1>2. ManualInv /\ [DeviceNext]_dvars => ManualInv'
  BY ManualStep
<1>3. ManualInv => ManualIsCurrent
  BY DEF ManualInv
<1>4. QED BY <1>1, <1>2, <1>3, PTL DEF DeviceSpec

-----------------------------------------------------------------------------
(* The power of an alert's devices. *)

\* In an alert the relays follow the devices, which follow the ladder.
Settled(d) == outLeft[d] # None \/ manual[d] = "Off" \/ d \in deviceOn

AlertInv ==
  /\ TypeOK
  /\ level # Normal \/ fault =>
       /\ energised = Energised
       /\ \A d \in ladderOn : "Ladder" \in autoWhy[d] /\ Settled(d)

LEMMA AlertTick ==
  ASSUME TypeOK, NEW reading \in Readings, NEW local \in Clocks, Tick(reading, local),
         level' # Normal \/ fault'
  PROVE  /\ energised' = Energised'
         /\ \A d \in ladderOn' : "Ladder" \in autoWhy'[d] /\ Settled(d)'
<1>1. TypeOK'
  BY TickKeepsType
<1>2. energised' = Energised'
  BY DEF Tick, MergeDemands, UpdateRelays
<1>3. testCut' = None
  BY DEF Tick, StepTest, TheTest!Step, TheTest!RunMoves, TheTest!CutMoves
<1>4. ASSUME NEW d \in ladderOn'
      PROVE  "Ladder" \in autoWhy'[d] /\ Settled(d)'
  <2>1. d \in Slots /\ manual'[d] \in {"Auto", "On", "Off"}
    BY <1>1 DEF TypeOK
  <2>2. d # None
    BY <2>1, ConstantsAreTyped DEF Slots
  <2>3. "Ladder" \in autoWhy'[d]
    BY <1>3, <1>4, <2>1, <2>2 DEF Tick, MergeDemands, Why
  <2>4. outLeft'[d] = None /\ manual'[d] # "Off" => Resolved(d, autoWhy'[d], manual'[d], outLeft'[d])
    BY <2>1, <2>3 DEF Resolved
  <2>5. Resolve(Slots)
    BY DEF Tick, MergeDemands
  <2>6. QED BY <2>1, <2>3, <2>4, <2>5 DEF Resolve, Settled
<1>5. QED BY <1>2, <1>4

\* A command to a device leaves its demands and settles the device.
LEMMA AlertDeviceCommand ==
  ASSUME AlertInv, NEW e \in Slots, SuspendDevice(e) \/ SetManual(e), level # Normal \/ fault
  PROVE  /\ energised' = Energised'
         /\ \A d \in ladderOn' : "Ladder" \in autoWhy'[d] /\ Settled(d)'
<1>1. TypeOK /\ TypeOK'
  BY DeviceCommandKeepsType DEF AlertInv
<1>2. /\ Resolve({e}) /\ energised' = Energised'
      /\ autoWhy' = autoWhy /\ ladderOn' = ladderOn
  BY DEF SuspendDevice, SetManual, UpdateRelays, ladderVars
<1>3. \A d \in Slots \ {e} : outLeft'[d] = outLeft[d] /\ manual'[d] = manual[d]
  BY <1>1 DEF SuspendDevice, SetManual, TypeOK
<1>4. ASSUME NEW d \in ladderOn
      PROVE  "Ladder" \in autoWhy'[d] /\ Settled(d)'
  <2>1. d \in Slots /\ "Ladder" \in autoWhy'[d] /\ Settled(d)
    BY <1>1, <1>2 DEF AlertInv, TypeOK
  <2>2. CASE d = e
    <3>1. manual'[e] \in {"Auto", "On", "Off"}
      BY <1>1 DEF TypeOK
    <3>2. outLeft'[e] = None /\ manual'[e] # "Off" => Resolved(e, autoWhy'[e], manual'[e], outLeft'[e])
      BY <2>1, <2>2, <3>1 DEF Resolved
    <3>3. QED BY <1>2, <2>1, <2>2, <3>2 DEF Resolve, Settled
  <2>3. CASE d # e
    BY <1>2, <1>3, <2>1, <2>3 DEF Resolve, Settled
  <2>4. QED BY <2>2, <2>3
<1>5. QED BY <1>2, <1>4

LEMMA AlertStep ==
  ASSUME AlertInv, [DeviceNext]_dvars
  PROVE  AlertInv'
<1>1. TypeOK' /\ TypeOK
  BY DeviceNextKeepsType DEF AlertInv
<1> SUFFICES ASSUME level' # Normal \/ fault'
             PROVE  /\ energised' = Energised'
                    /\ \A d \in ladderOn' : "Ladder" \in autoWhy'[d] /\ Settled(d)'
  BY <1>1 DEF AlertInv
<1>2. CASE \E reading \in Readings, local \in Clocks : Tick(reading, local)
  BY <1>1, <1>2, AlertTick
<1>3. CASE \E e \in Slots : SuspendDevice(e) \/ SetManual(e)
  <2>1. level # Normal \/ fault
    BY <1>3 DEF SuspendDevice, SetManual, ladderVars
  <2>2. QED BY <1>3, <2>1, AlertDeviceCommand
<1>4. CASE Reboot
  BY <1>4 DEF Reboot
<1>5. CASE SetConfig
  <2>1. /\ energised' = Energised'
        /\ UNCHANGED <<level, fault, ladderOn, autoWhy, outLeft, manual, deviceOn>>
    BY <1>5 DEF SetConfig, UpdateRelays, ladderVars
  <2>2. QED BY <2>1 DEF AlertInv, Settled
<1>6. CASE Pass
  <2>1. UNCHANGED <<config, level, fault, ladderOn, autoWhy, manual, deviceOn, energised>>
    BY <1>6 DEF Pass, ladderVars
  <2>2. \A d \in Slots : outLeft'[d] = None <=> outLeft[d] = None
    BY <1>1, <1>6, TimersType DEF Pass
  <2>3. ladderOn \subseteq Slots /\ Energised' = Energised
    BY <1>1, <2>1 DEF TypeOK, Energised
  <2>4. QED BY <2>1, <2>2, <2>3 DEF AlertInv, Settled
<1>7. CASE UNCHANGED <<config, ladderVars, deviceVars>>
  BY <1>7 DEF ladderVars, deviceVars, AlertInv, Settled, Energised
<1>8. CASE Ack \/ (\E seen \in Level \cup {None} : SuspendAlerts(seen)) \/ ResumeAlerts \/ SetMaintenance
  BY <1>7, <1>8 DEF Ack, SuspendAlerts, ResumeAlerts, SetMaintenance
<1>9. QED
  BY <1>2, <1>3, <1>4, <1>5, <1>6, <1>7, <1>8, DeviceNextIsNext DEF Next, dvars, vars

(* In an alert or a FAULT the ladder's devices have power, whatever test,     *)
(* boost, windows and configurations were doing, unless they are out of      *)
(* order or were switched off by hand.                                       *)
THEOREM AlertKeepsItsDevices == DeviceSpec => []AlertHasItsDevices
<1>1. DeviceInit => AlertInv
  <2>1. DeviceInit => TypeOK
    BY BootedType DEF DeviceInit, Init
  <2>2. DeviceInit => level = Normal /\ ~fault
    BY DEF DeviceInit, Init, Booted
  <2>3. QED BY <2>1, <2>2 DEF AlertInv
<1>2. AlertInv /\ [DeviceNext]_dvars => AlertInv'
  BY AlertStep
<1>3. AlertInv => AlertHasItsDevices
  <2> SUFFICES ASSUME AlertInv, level # Normal \/ fault, NEW d \in ladderOn,
                      d \in deviceOn, config.relay[d] # None
               PROVE  config.relay[d].channel \in energised <=> ~config.relay[d].nc
    BY DEF AlertHasItsDevices, Powered, AlertInv, Settled
  <2>1. d \in Slots /\ Validated(config)
    BY ConfigParts DEF AlertInv, TypeOK
  <2>2. config.relay[d].channel \in Energised
          <=> \E e \in Slots : /\ config.relay[e] # None
                               /\ config.relay[e].channel = config.relay[d].channel
                               /\ e \in deviceOn <=> ~config.relay[e].nc
    BY DEF Energised
  <2>3. \A e \in Slots :
          config.relay[e] # None /\ config.relay[e].channel = config.relay[d].channel => e = d
    BY <2>1 DEF Validated
  <2>4. QED BY <2>1, <2>2, <2>3 DEF AlertInv
<1>4. QED BY <1>1, <1>2, <1>3, PTL DEF DeviceSpec

-----------------------------------------------------------------------------
(* The exclusive run. *)

ExclusiveInv ==
  /\ TypeOK
  /\ runExclusive =>
       /\ config.test.exclusive /\ testRunning
       /\ \A d \in Slots : manual[d] = "Auto" /\ (autoWhy[d] # {} => d \in testOn \cup ladderOn)
       /\ deviceOn \subseteq testOn \cup ladderOn

LEMMA BoostYields ==
  ASSUME TypeOK, NEW reading, NEW local, StepBoost(reading, local), testRunning'
  PROVE  ~boost'.running
<1>1. ~TheBoost!Undisturbed(BoostInput(reading, local))
  BY DEF TheBoost!Undisturbed, BoostInput
<1>2. QED
  BY <1>1
  DEF StepBoost, TheBoost!Step, TheBoost!EndsWithWindow, TheBoost!Pauses, TheBoost!Reaches,
      TheBoost!RunsOn, TheBoost!Starts, TheBoost!Stops

LEMMA ExclusiveTick ==
  ASSUME ExclusiveInv, DeviceTick, runExclusive'
  PROVE  /\ config'.test.exclusive /\ testRunning'
         /\ \A d \in Slots : manual'[d] = "Auto" /\ (autoWhy'[d] # {} => d \in testOn' \cup ladderOn')
         /\ deviceOn' \subseteq testOn' \cup ladderOn'
<1>1. PICK reading \in Readings, local \in Clocks :
        /\ Tick(reading, local)
        /\ runExclusive' = (testRunning' /\ config.test.exclusive /\ (~testRunning \/ runExclusive))
  BY DEF DeviceTick
<1>2. config'.test.exclusive /\ testRunning' /\ HoldOff /\ (~testRunning \/ runExclusive)
  BY <1>1 DEF Tick, HoldOff
<1>3. ASSUME NEW d \in Slots
      PROVE  manual'[d] = "Auto"
  <2>1. CASE ~testRunning
    BY <1>1, <1>2, <2>1 DEF Tick, MergeDemands, ManualEnds, TestStarts
  <2>2. CASE runExclusive
    BY <1>1, <2>2 DEF Tick, MergeDemands, ExclusiveInv
  <2>3. QED BY <1>2, <2>1, <2>2
<1>4. ASSUME NEW d \in Slots, autoWhy'[d] # {}
      PROVE  d \in testOn' \cup ladderOn'
  <2>1. autoWhy'[d] = Why(d, local)
    BY <1>1 DEF Tick, MergeDemands
  <2>2. ~InWindow(d, local)
    BY <1>2 DEF InWindow
  <2>3. d \notin TheBoost!On'
    BY <1>1, <1>2, BoostYields DEF ExclusiveInv, Tick, TheBoost!On
  <2>4. QED BY <1>4, <2>1, <2>2, <2>3 DEF Why
<1>5. deviceOn \subseteq Slots /\ Resolve(Slots)
  BY <1>1 DEF Tick, MergeDemands, ExclusiveInv, TypeOK
<1>6. QED BY <1>2, <1>3, <1>4, <1>5 DEF Resolve, Resolved

LEMMA ExclusiveStep ==
  ASSUME ExclusiveInv, [DeviceNext]_dvars
  PROVE  ExclusiveInv'
<1>1. TypeOK' /\ TypeOK
  BY DeviceNextKeepsType DEF ExclusiveInv
<1> SUFFICES ASSUME runExclusive'
             PROVE  /\ config'.test.exclusive /\ testRunning'
                    /\ \A d \in Slots :
                         manual'[d] = "Auto" /\ (autoWhy'[d] # {} => d \in testOn' \cup ladderOn')
                    /\ deviceOn' \subseteq testOn' \cup ladderOn'
  BY <1>1 DEF ExclusiveInv
<1>2. CASE DeviceTick
  BY <1>2, ExclusiveTick
<1>3. CASE DeviceSetConfig
  BY <1>3 DEF DeviceSetConfig, SetConfig, testVars, ladderVars, ExclusiveInv
<1>4. CASE DeviceReboot
  BY <1>4 DEF DeviceReboot
<1>5. CASE \E e \in Slots : DeviceSetManual(e) \/ (SuspendDevice(e) /\ UNCHANGED deviceHistory)
  <2>1. PICK e \in Slots : DeviceSetManual(e) \/ (SuspendDevice(e) /\ UNCHANGED deviceHistory)
    BY <1>5
  <2>2. /\ runExclusive /\ Resolve({e})
        /\ UNCHANGED <<config, testRunning, testOn, ladderOn, autoWhy>>
    BY <2>1 DEF DeviceSetManual, SetManual, SuspendDevice, deviceHistory, testVars, ladderVars
  <2>3. manual' = manual
    <3>1. manual \in [Slots -> {"Auto", "On", "Off"}] /\ manual[e] = "Auto"
      BY <1>1, <2>2 DEF TypeOK, ExclusiveInv
    <3>2. CASE SetManual(e)
      BY <2>2, <3>1, <3>2 DEF SetManual, ExclusiveInv
    <3>3. QED BY <2>1, <3>2 DEF DeviceSetManual, SuspendDevice
  <2>4. QED BY <2>2, <2>3 DEF ExclusiveInv, Resolve, Resolved
<1>6. CASE UNCHANGED <<config, testRunning, testOn, ladderOn, autoWhy, manual, deviceOn, runExclusive>>
  BY <1>6 DEF ExclusiveInv
<1>7. CASE DevicePass
  BY <1>6, <1>7 DEF DevicePass, Pass, testVars, ladderVars
<1>8. CASE (Ack \/ (\E seen \in Level \cup {None} : SuspendAlerts(seen)) \/ ResumeAlerts \/ SetMaintenance)
           /\ UNCHANGED deviceHistory
  BY <1>6, <1>8
  DEF Ack, SuspendAlerts, ResumeAlerts, SetMaintenance, testVars, ladderVars, deviceVars, deviceHistory
<1>9. CASE UNCHANGED dvars
  BY <1>6, <1>9 DEF dvars, vars, deviceHistory, testVars, ladderVars, deviceVars
<1>10. QED BY <1>2, <1>3, <1>4, <1>5, <1>7, <1>8, <1>9 DEF DeviceNext

(* While a run that has been exclusive all along is on, no window, boost or   *)
(* hand keeps another device on.                                             *)
THEOREM ExclusiveRunStaysAlone == DeviceSpec => []ExclusiveRunIsAlone
<1>1. DeviceInit => ExclusiveInv
  <2>1. DeviceInit => TypeOK
    BY BootedType DEF DeviceInit, Init
  <2>2. QED BY <2>1 DEF ExclusiveInv, DeviceInit
<1>2. ExclusiveInv /\ [DeviceNext]_dvars => ExclusiveInv'
  BY ExclusiveStep
<1>3. ExclusiveInv => ExclusiveRunIsAlone
  BY DEF ExclusiveInv, ExclusiveRunIsAlone
<1>4. QED BY <1>1, <1>2, <1>3, PTL DEF DeviceSpec

-----------------------------------------------------------------------------
(* The boost's hold. *)

\* The hold is never older than the last reading below the target.
BoostInv ==
  /\ TypeOK
  /\ sinceBelow \in Nat
  /\ ~boost.running => boost.atTarget = None
  /\ boost.atTarget # None => boost.atTarget <= sinceBelow
  /\ ~early

LEMMA BoostTick ==
  ASSUME BoostInv, DeviceTick
  PROVE  /\ sinceBelow' \in Nat
         /\ ~boost'.running => boost'.atTarget = None
         /\ boost'.atTarget # None => boost'.atTarget <= sinceBelow'
         /\ ~early'
<1>1. PICK reading \in Readings, local \in Clocks :
        /\ StepBoost(reading, local)
        /\ sinceBelow' = IF ~boost.running \/ (reading # None /\ reading < config.boost.target)
                         THEN 0 ELSE sinceBelow
        /\ early' = (/\ boost.running /\ TheBoost!Reaches(BoostInput(reading, local))
                     /\ sinceBelow' < config.boost.hold)
  BY DEF DeviceTick, Tick
<1> DEFINE in == BoostInput(reading, local)
<1>2. /\ boost \in TheBoost!State /\ config.boost.hold \in Nat /\ sinceBelow \in Nat
      /\ in.mgl = reading /\ None \notin Int /\ AgeCap \in Nat
  BY ConfigParts, ConstantsAreTyped DEF BoostInv, TypeOK, TheBoost!TypeOK, BoostInput
<1>3. sinceBelow' \in Nat
  BY <1>1, <1>2
<1>4. boost.running /\ TheBoost!Held(in) # None => TheBoost!Held(in) <= sinceBelow'
  BY <1>1, <1>2 DEF TheBoost!Held, TheBoost!State, BoostInv
<1>5. ~early'
  <2> SUFFICES ASSUME boost.running, TheBoost!Reaches(in)
               PROVE  ~(sinceBelow' < config.boost.hold)
    BY <1>1
  <2>1. TheBoost!Held(in) # None /\ TheBoost!Held(in) >= config.boost.hold
    BY DEF TheBoost!Reaches
  <2>2. TheBoost!Held(in) \in Nat
    BY <1>2, <2>1 DEF TheBoost!Held, TheBoost!State
  <2>3. QED BY <1>2, <1>3, <1>4, <2>1, <2>2
<1>6. /\ ~boost'.running => boost'.atTarget = None
      /\ boost'.atTarget # None => boost'.atTarget <= sinceBelow'
  <2>1. CASE boost.running /\ TheBoost!RunsOn(in)
    <3>1. boost'.running /\ boost'.atTarget = TheBoost!Held(in)
      BY <1>2, <2>1 DEF TheBoost!RunsOn, TheBoost!State
    <3>2. QED BY <1>4, <2>1, <3>1
  <2>2. CASE boost'.running = FALSE /\ boost'.atTarget = None
    BY <2>2
  <2>3. CASE ~boost.running /\ boost'.atTarget = boost.atTarget
    BY <1>2, <2>3 DEF BoostInv
  <2>4. TheBoost!EndsWithWindow(in) \/ TheBoost!Pauses(in) \/ TheBoost!Stops(in.local.day)
          => boost'.running = FALSE /\ boost'.atTarget = None
    BY DEF TheBoost!EndsWithWindow, TheBoost!Pauses, TheBoost!Stops
  <2>5. ~boost.running => boost'.atTarget = boost.atTarget
    BY <1>1, <1>2 DEF StepBoost, TheBoost!Step, TheBoost!State
  <2>6. QED BY <1>1, <2>1, <2>2, <2>3, <2>4, <2>5 DEF StepBoost, TheBoost!Step
<1>7. QED BY <1>3, <1>5, <1>6

LEMMA BoostInvStep ==
  ASSUME BoostInv, [DeviceNext]_dvars
  PROVE  BoostInv'
<1>1. TypeOK'
  BY DeviceNextKeepsType DEF BoostInv
<1>2. CASE DeviceTick
  BY <1>1, <1>2, BoostTick DEF BoostInv
<1>3. CASE DevicePass
  <2>1. boost \in TheBoost!State /\ AgeCap \in Nat /\ None \notin Int
    BY ConstantsAreTyped DEF BoostInv, TypeOK, TheBoost!TypeOK
  <2>2. /\ boost'.running = boost.running
        /\ boost'.atTarget = IF boost.atTarget = None \/ boost.atTarget = AgeCap
                             THEN boost.atTarget ELSE boost.atTarget + 1
    BY <1>3, <2>1 DEF DevicePass, Pass, TheBoost!Later, TheBoost!State
  <2>3. sinceBelow' = More(sinceBelow, AgeCap) /\ early' = early
    BY <1>3 DEF DevicePass
  <2>4. QED BY <1>1, <2>1, <2>2, <2>3 DEF BoostInv, More, TheBoost!State
<1>4. CASE DeviceReboot
  BY <1>1, <1>4 DEF DeviceReboot, Reboot, TheBoost!Idle, BoostInv
<1>5. CASE UNCHANGED <<boost, sinceBelow, early>>
  BY <1>1, <1>5 DEF BoostInv
<1>6. CASE DeviceNext /\ ~DeviceTick /\ ~DevicePass /\ ~DeviceReboot
  BY <1>5, <1>6
  DEF DeviceNext, DeviceSetConfig, SetConfig, DeviceSetManual, SetManual, SuspendDevice, Ack, SuspendAlerts,
      ResumeAlerts, SetMaintenance, deviceHistory
<1>7. QED BY <1>2, <1>3, <1>4, <1>5, <1>6 DEF dvars, vars, deviceHistory

(* The boost reaches its target only after hold_s of readings at it.          *)
THEOREM BoostEarnsItsEnd == DeviceSpec => []BoostHoldsTheTarget
<1>1. DeviceInit => BoostInv
  <2>1. DeviceInit => TypeOK
    BY BootedType DEF DeviceInit, Init
  <2>2. QED BY <2>1 DEF BoostInv, DeviceInit, Init, Booted, TheBoost!Idle
<1>2. BoostInv /\ [DeviceNext]_dvars => BoostInv'
  BY BoostInvStep
<1>3. BoostInv => BoostHoldsTheTarget
  BY DEF BoostInv, BoostHoldsTheTarget
<1>4. QED BY <1>1, <1>2, <1>3, PTL DEF DeviceSpec

-----------------------------------------------------------------------------
(* What reaches the phones, and what people silence. *)

\* The push timer is no younger than the alarm has been unheard.
RepeatInv ==
  /\ unheard \in 0 .. YellowRepeat \cup {None}
  /\ unheard # None => unheard <= lastPush
  /\ ~late

\* What is asked of the next tick is about what stands now.
PendingInv ==
  /\ pending.ack => ackedFor = [level |-> level, fault |-> fault]
  /\ pending.suspend = "Suspend" => level <= seenLevel
  /\ seenLevel \in Level /\ ackedFor.level \in Level

PushInv == TypeOK /\ PendingInv /\ SilencesAreForWhatWasShown

LEMMA MoreIsMonotone ==
  ASSUME NEW cap \in Nat, NEW a \in 0 .. cap, NEW b \in 0 .. cap, a <= b
  PROVE  More(a, cap) \in 0 .. cap /\ More(a, cap) <= More(b, cap)
  BY DEF More

LEMMA RepeatTick ==
  ASSUME TypeOK, RepeatInv, PushTick, RedRepeat > 0
  PROVE  RepeatInv'
<1>1. PICK reading \in Readings, local \in Clocks : Tick(reading, local)
  BY DEF PushTick
<1> DEFINE due == IF fault' \/ level' = Red THEN RedRepeat ELSE YellowRepeat
<1>2. /\ unheard' = IF ~Unheard THEN None
                    ELSE IF AlertPushed \/ AlertRepeats \/ unheard = None THEN 0 ELSE unheard
      /\ late' = (unheard' # None /\ unheard' >= due)
      /\ lastPush' = IF AlertPushed \/ AlertRepeats THEN 0 ELSE lastPush
  BY <1>1 DEF PushTick, Tick, PushAlerts
<1>3. /\ due \in Nat \ {0} /\ YellowRepeat \in Nat \ {0} /\ None \notin Int
      /\ lastPush \in 0 .. YellowRepeat
  BY ConstantsAreTyped DEF TypeOK
<1>4. CASE ~Unheard
  BY <1>2, <1>4 DEF RepeatInv
<1>5. CASE Unheard /\ (AlertPushed \/ AlertRepeats \/ unheard = None)
  <2>1. unheard' = 0
    BY <1>2, <1>5
  <2>2. lastPush' \in 0 .. YellowRepeat
    BY <1>2, <1>3
  <2>3. ~late'
    <3>1. ~(unheard' >= due)
      BY <1>3, <2>1
    <3>2. QED BY <1>2, <3>1
  <2>4. QED BY <1>3, <2>1, <2>2, <2>3 DEF RepeatInv
<1>6. CASE Unheard /\ ~AlertPushed /\ ~AlertRepeats /\ unheard # None
  <2>1. ~(lastPush >= due)
    BY <1>6 DEF AlertRepeats
  <2>2. unheard \in Nat /\ unheard <= lastPush
    BY <1>6 DEF RepeatInv
  <2>3. unheard' = unheard /\ lastPush' = lastPush
    BY <1>2, <1>6
  <2>4. QED BY <1>2, <1>3, <2>1, <2>2, <2>3 DEF RepeatInv
<1>7. QED BY <1>4, <1>5, <1>6

LEMMA RepeatStep ==
  ASSUME TypeOK, RepeatInv, [PushNext]_pvars, RedRepeat > 0
  PROVE  RepeatInv'
<1>1. CASE PushTick
  BY <1>1, RepeatTick
<1>2. CASE PushPass
  <2>1. /\ lastPush' = More(lastPush, YellowRepeat)
        /\ unheard' = IF unheard = None THEN None ELSE More(unheard, YellowRepeat)
        /\ late' = late
    BY <1>2 DEF PushPass, Pass
  <2>2. YellowRepeat \in Nat /\ lastPush \in 0 .. YellowRepeat
    BY ConstantsAreTyped DEF TypeOK
  <2>3. CASE unheard = None
    BY <2>1, <2>3 DEF RepeatInv
  <2>4. CASE unheard # None
    <3>1. unheard \in 0 .. YellowRepeat /\ unheard <= lastPush
      BY <2>4 DEF RepeatInv
    <3>2. QED BY <2>1, <2>2, <2>4, <3>1, MoreIsMonotone DEF RepeatInv
  <2>5. QED BY <2>3, <2>4
<1>3. CASE PushReboot
  BY <1>3 DEF PushReboot, RepeatInv
<1>4. CASE UNCHANGED <<unheard, late, lastPush>>
  BY <1>4 DEF RepeatInv
<1>5. QED
  BY <1>1, <1>2, <1>3, <1>4
  DEF PushNext, PushAck, PushSuspendAlerts, Ack, SuspendAlerts, SetMaintenance, ResumeAlerts,
      SetConfig, SuspendDevice, SetManual, pvars, vars, pushHistory, clockVars

(* An alarm that nobody has acknowledged, suspended or put into maintenance   *)
(* is pushed again in every RED_REPEAT_MS or YELLOW_REPEAT_MS, whichever its  *)
(* level calls for, if these are not zero.                                    *)
THEOREM AlarmStaysRepeated ==
  ASSUME RedRepeat > 0
  PROVE  PushSpec => []AlarmIsRepeated
<1>1. PushInit => TypeOK /\ RepeatInv
  <2>1. PushInit => TypeOK
    BY BootedType DEF PushInit, Init
  <2>2. PushInit => RepeatInv
    BY DEF PushInit, RepeatInv
  <2>3. QED BY <2>1, <2>2
<1>2. TypeOK /\ RepeatInv /\ [PushNext]_pvars => (TypeOK /\ RepeatInv)'
  BY RepeatStep, PushNextKeepsType
<1>3. RepeatInv => AlarmIsRepeated
  BY DEF RepeatInv, AlarmIsRepeated
<1>4. QED BY <1>1, <1>2, <1>3, PTL DEF PushSpec

\* What a tick makes of the silences, whatever the ladder is.
LEMMA SilencesTick ==
  ASSUME PushInv, PushTick
  PROVE  PendingInv' /\ SilencesAreForWhatWasShown'
<1>1. PICK reading \in Readings, local \in Clocks : Tick(reading, local)
  BY DEF PushTick
<1>2. /\ TheLadder!LevelMoves(reading = None)
      /\ TheLadder!SilenceMoves(pending.ack)
      /\ TheLadder!SuspendMoves(pending.suspend)
      /\ pending' = NothingPending
      /\ UNCHANGED <<ackedFor, seenLevel>>
  BY <1>1 DEF PushTick, Tick, StepLadder, StepTest, TheLadder!Step
<1>3. /\ level \in Level /\ fault \in BOOLEAN
      /\ seenLevel \in Level /\ ackedFor.level \in Level
  BY DEF PushInv, TypeOK, PendingInv
<1>4. level' \in Level /\ fault' \in BOOLEAN
  BY <1>2, <1>3 DEF TheLadder!LevelMoves, TheLadder!Level, TheLadder!Normal, TheLadder!Red,
                    Level, Normal, Red
<1>5. PendingInv'
  BY <1>2, <1>3 DEF PendingInv, NothingPending
<1>6. ASSUME silenced', ~autoAcked'
      PROVE  level' <= ackedFor'.level /\ (fault' => ackedFor'.fault)
  <2>1. ~TheLadder!Rearmed /\ (pending.ack \/ (silenced /\ ~autoAcked))
    BY <1>2, <1>6 DEF TheLadder!SilenceMoves
  <2>2. level' <= level /\ (fault' => fault)
    BY <1>3, <1>4, <2>1 DEF TheLadder!Rearmed, Level, Normal, Red
  <2>3. level <= ackedFor.level /\ (fault => ackedFor.fault)
    <3>1. CASE pending.ack
      BY <1>3, <3>1 DEF PushInv, PendingInv, Level, Normal, Red
    <3>2. CASE silenced /\ ~autoAcked
      BY <3>2 DEF PushInv, SilencesAreForWhatWasShown
    <3>3. QED BY <2>1, <3>1, <3>2
  <2>4. QED BY <1>2, <1>3, <1>4, <2>2, <2>3 DEF Level, Normal, Red
<1>7. ASSUME alertsSuspended'
      PROVE  level' <= seenLevel' /\ ~fault'
  <2>1. /\ ~fault' /\ level' <= level
        /\ pending.suspend = "Suspend" \/ alertsSuspended
    BY <1>2, <1>7 DEF TheLadder!SuspendMoves
  <2>2. level <= seenLevel
    BY <2>1 DEF PushInv, PendingInv, SilencesAreForWhatWasShown
  <2>3. QED BY <1>2, <1>3, <1>4, <2>1, <2>2 DEF Level, Normal, Red
<1>8. QED BY <1>5, <1>6, <1>7 DEF SilencesAreForWhatWasShown

LEMMA SilencesStep ==
  ASSUME PushInv, [PushNext]_pvars
  PROVE  PendingInv' /\ SilencesAreForWhatWasShown'
<1>1. CASE PushTick
  BY <1>1, SilencesTick
<1>2. CASE PushAck
  <2>1. /\ ackedFor' = [level |-> level, fault |-> fault]
        /\ pending' = [pending EXCEPT !.ack = TRUE]
        /\ UNCHANGED <<ladderVars, seenLevel>>
    BY <1>2 DEF PushAck, Ack
  <2>2. pending'.suspend = pending.suspend /\ level \in Level
    BY <2>1 DEF PushInv, TypeOK
  <2>3. level <= level
    BY <2>2 DEF Level, Normal, Red
  <2>4. QED
    BY <2>1, <2>2, <2>3 DEF ladderVars, PushInv, PendingInv, SilencesAreForWhatWasShown
<1>3. CASE PushSuspendAlerts
  <2>1. PICK seen \in Level \cup {None} :
          SuspendAlerts(seen) /\ seenLevel' = IF seen = None THEN level ELSE seen
    BY <1>3 DEF PushSuspendAlerts
  <2>2. /\ pending' = [pending EXCEPT !.suspend = "Suspend"]
        /\ UNCHANGED <<ladderVars, ackedFor>>
        /\ ~fault /\ (seen # None => level <= seen)
    BY <1>3, <2>1 DEF PushSuspendAlerts, SuspendAlerts
  <2>3. pending'.ack = pending.ack /\ level \in Level
    BY <2>2 DEF PushInv, TypeOK
  <2>4. level <= seenLevel' /\ seenLevel' \in Level
    BY <2>1, <2>2, <2>3 DEF Level, Normal, Red
  <2>5. QED
    BY <2>2, <2>3, <2>4 DEF ladderVars, PushInv, PendingInv, SilencesAreForWhatWasShown
<1>4. CASE PushReboot
  BY <1>4 DEF PushReboot, Reboot, NothingPending, PushInv, PendingInv, SilencesAreForWhatWasShown
<1>5. CASE ResumeAlerts /\ UNCHANGED pushHistory
  <2>1. /\ pending' = [pending EXCEPT !.suspend = "Resume"]
        /\ UNCHANGED <<ladderVars, ackedFor, seenLevel>>
    BY <1>5 DEF ResumeAlerts, pushHistory
  <2>2. pending'.ack = pending.ack /\ pending'.suspend # "Suspend"
    BY <2>1 DEF PushInv, TypeOK
  <2>3. QED
    BY <2>1, <2>2 DEF ladderVars, PushInv, PendingInv, SilencesAreForWhatWasShown
<1>6. CASE UNCHANGED <<ladderVars, pending, ackedFor, seenLevel>>
  BY <1>6 DEF ladderVars, PushInv, PendingInv, SilencesAreForWhatWasShown
<1>7. QED
  BY <1>1, <1>2, <1>3, <1>4, <1>5, <1>6
  DEF PushNext, PushPass, Pass, SetMaintenance, SetConfig, SuspendDevice, SetManual,
      pvars, vars, pushHistory

(* No silence is ever in effect for more than the person who gave it was      *)
(* shown: an ack covers the level and FAULT it was accepted at, a suspend     *)
(* the level on the phone.                                                    *)
THEOREM SilencesStayForWhatWasShown == PushSpec => []SilencesAreForWhatWasShown
<1>1. PushInit => PushInv
  <2>1. PushInit => TypeOK
    BY BootedType DEF PushInit, Init
  <2>2. PushInit => PendingInv /\ SilencesAreForWhatWasShown
    BY DEF PushInit, Init, Booted, NothingPending, PendingInv, SilencesAreForWhatWasShown,
           Level, Normal, Red
  <2>3. QED BY <2>1, <2>2 DEF PushInv
<1>2. PushInv /\ [PushNext]_pvars => PushInv'
  BY SilencesStep, PushNextKeepsType DEF PushInv
<1>3. PushInv => SilencesAreForWhatWasShown
  BY DEF PushInv
<1>4. QED BY <1>1, <1>2, <1>3, PTL DEF PushSpec
=============================================================================
