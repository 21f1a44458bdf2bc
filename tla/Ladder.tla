------------------------------- MODULE Ladder -------------------------------
(***************************************************************************)
(* The escalation ladder of core/src/ladder.cpp: one Sample action is one   *)
(* call of ladder::Step, which the sampling task makes once per sample      *)
(* period with the corrected, filtered reading.                             *)
(*                                                                         *)
(* Time.  The code stores absolute milliseconds and compares differences    *)
(* with the clock.  Here a variable that the code names ...SinceMs holds    *)
(* the age of that instant and one it names ...UntilMs holds what is left   *)
(* (0: unset or run out, which the code never tells apart), in units of the *)
(* shortest sample period.  Ages saturate at AgeCap, which is above every   *)
(* duration they are compared with, so nothing else is bounded.             *)
(*                                                                         *)
(* Data.  Readings and thresholds are natural numbers (mg/L in steps), a    *)
(* fall is how much the reading lost over the slope's window.               *)
(***************************************************************************)
EXTENDS Integers

CONSTANTS
  Devices,         \* the device slots (DEVICES of them in the code)
  Configs,         \* the configurations that may be stored while it runs
  Inputs,          \* the samples Step may be given
  None,            \* an empty std::optional
  AgeCap,          \* ages saturate here
  FailureCap,      \* the failure counter saturates here (UINT32_MAX)
  DayAckAfter,     \* DAY_ACK_AFTER_S
  AlertSuspendMax  \* ALERT_SUSPEND_MAX_S

Normal == 0
Blue == 1
Yellow == 2
Red == 3
Level == Normal .. Red
AlertLevel == Blue .. Red
NoTrigger == Normal       \* Trigger::None: a device no level switches

Age == 0 .. AgeCap
OptionalAge == Age \cup {None}

DeviceConfig ==
  [trigger: {NoTrigger} \cup AlertLevel, mode: {"On", "PulseOff"}, ackSilences: BOOLEAN]

Config ==
  [mgl: [AlertLevel -> Nat], hysteresis: [AlertLevel -> Nat], dwell: [AlertLevel -> Nat],
   blueSlope: Nat, suddenSlope: Nat, suddenExtend: Nat, recoverSustain: Nat, ackSilence: Nat,
   faultFailures: Nat \ {0}, faultAlert: BOOLEAN, faultLevel: Level,
   pulse: Nat \ {0}, pulseMinInterval: Nat,
   nightLock: BOOLEAN, nightStart: Nat, nightEnd: Nat, unknownTimeIsNight: BOOLEAN,
   dayAlarm: {"Sound", "AutoAck", "Suppress"}, devices: [Devices -> DeviceConfig]]

Input ==
  [reading: Nat \cup {None}, fall: Int, fastFall: Int, elapsed: Nat \ {0},
   minute: Nat \cup {None}, ack: BOOLEAN, suspend: Nat \cup {None}, maintenance: BOOLEAN]

\* What config::Validate demands of the ladder's part, so what Configs may hold.
Validated(c) ==
  /\ \A l \in {Yellow, Red} : c.mgl[l - 1] - c.hysteresis[l - 1] > c.mgl[l] + c.hysteresis[l]
  /\ c.suddenSlope > 0 => c.suddenSlope > c.blueSlope
  /\ c.recoverSustain > 0
  /\ c.nightStart # c.nightEnd
  /\ c.faultLevel >= Yellow

ASSUME NoneIsNoNumber == None \notin Int
ASSUME CapsArePositive == AgeCap \in Nat \ {0} /\ FailureCap \in Nat \ {0}
ASSUME DurationConstants == DayAckAfter \in Nat \ {0} /\ AlertSuspendMax \in Nat
ASSUME ConfigsAreValid == \A c \in Configs : c \in Config /\ Validated(c)
ASSUME InputsAreTyped == Inputs \subseteq Input
ASSUME CapsExceedDurations ==
  \A c \in Configs :
    /\ c.faultFailures <= FailureCap
    /\ \A l \in AlertLevel : c.dwell[l] + c.suddenExtend <= AgeCap
    /\ {c.recoverSustain, c.pulse, c.pulseMinInterval, DayAckAfter} \subseteq Age

VARIABLES
  config,               \* App::mCfg.ladder
  level, fault, consecutiveFailures,
  belowSince,           \* per alert level: since when its entry condition holds
  aboveSince,           \* since when the reading is above the level's exit threshold
  ackLeft, ackByHand,
  soundingSince,        \* day auto_ack: since when the unacknowledged alarm sounds
  suspendLeft,          \* alertsSuspendedUntilMs
  suspect, nightArmed,
  pulse,                \* per device: State::pulse
  out                   \* what the last Step put out

levelVars == <<level, fault, consecutiveFailures, belowSince, aboveSince, suspect, nightArmed>>
alarmVars == <<ackLeft, ackByHand, soundingSince, suspendLeft>>
vars == <<config, levelVars, alarmVars, pulse, out>>

PulseState == [active: BOOLEAN, wasActive: BOOLEAN, lastStart: OptionalAge]
Output == [sound: BOOLEAN, silenced: BOOLEAN, suppressed: BOOLEAN, on: [Devices -> BOOLEAN]]

TypeOK ==
  /\ config \in Configs
  /\ level \in Level
  /\ fault \in BOOLEAN
  /\ consecutiveFailures \in 0 .. FailureCap
  /\ belowSince \in [AlertLevel -> OptionalAge]
  /\ aboveSince \in OptionalAge
  /\ ackLeft \in Nat
  /\ ackByHand \in BOOLEAN
  /\ soundingSince \in OptionalAge
  /\ suspendLeft \in 0 .. AlertSuspendMax
  /\ suspect \in BOOLEAN
  /\ nightArmed \in BOOLEAN
  /\ pulse \in [Devices -> PulseState]
  /\ out \in Output

Init ==
  /\ config \in Configs
  /\ level = Normal
  /\ fault = FALSE
  /\ consecutiveFailures = 0
  /\ belowSince = [l \in AlertLevel |-> None]
  /\ aboveSince = None
  /\ ackLeft = 0
  /\ ackByHand = FALSE
  /\ soundingSince = None
  /\ suspendLeft = 0
  /\ suspect = FALSE
  /\ nightArmed = FALSE
  /\ pulse = [d \in Devices |-> [active |-> FALSE, wasActive |-> FALSE, lastStart |-> None]]
  /\ out = [sound |-> FALSE, silenced |-> FALSE, suppressed |-> FALSE, on |-> [d \in Devices |-> FALSE]]

-----------------------------------------------------------------------------
(* Time and the night window. *)

Aged(age, elapsed) ==
  IF age = None THEN None ELSE IF age + elapsed > AgeCap THEN AgeCap ELSE age + elapsed

\* The age of a timer that is started now unless it already runs.
Running(age, elapsed) == IF age = None THEN 0 ELSE Aged(age, elapsed)

Left(left, elapsed) == IF left > elapsed THEN left - elapsed ELSE 0

IsNight(minute) ==
  IF minute = None THEN config.unknownTimeIsNight
  ELSE IF config.nightStart <= config.nightEnd
    THEN minute >= config.nightStart /\ minute < config.nightEnd
    ELSE minute >= config.nightStart \/ minute < config.nightEnd

-----------------------------------------------------------------------------
(* UpdateFault: consecutive failed reads raise FAULT, one reading ends it. *)

UpdateFault(in) ==
  /\ consecutiveFailures' =
       IF in.reading # None THEN 0
       ELSE IF consecutiveFailures < FailureCap THEN consecutiveFailures + 1
       ELSE FailureCap
  /\ fault' = /\ in.reading = None
              /\ \/ fault
                 \/ config.faultAlert /\ consecutiveFailures' >= config.faultFailures

-----------------------------------------------------------------------------
(* UpdateLevel: deeper after a dwell below an entry threshold, shallower one *)
(* level at a time after a sustained time above the exit threshold.          *)

EntryCondition(l, in) ==
  \/ in.reading < config.mgl[l] - config.hysteresis[l]
  \/ l = Blue /\ config.blueSlope > 0 /\ in.fall >= config.blueSlope

SuddenDrop(in) == config.suddenSlope > 0 /\ in.fastFall >= config.suddenSlope

ExtendedDwell(l) == config.dwell[l] + (IF suspect' THEN config.suddenExtend ELSE 0)

\* The levels deeper than the current one whose dwell has elapsed at this reading.
DwellElapsed ==
  {l \in AlertLevel : l > level /\ belowSince'[l] # None /\ belowSince'[l] >= ExtendedDwell(l)}

AboveExit(in) == level # Normal /\ in.reading > config.mgl[level] + config.hysteresis[level]

HeldByNight(in) == config.nightLock /\ nightArmed /\ IsNight(in.minute) /\ level = Blue

\* Mutated: an entry timer runs on when a reading speaks against its level.
UpdateTimersNeverReset(in) ==
  /\ belowSince' = [l \in AlertLevel |->
       IF EntryCondition(l, in) THEN Running(belowSince[l], in.elapsed)
       ELSE Aged(belowSince[l], in.elapsed)]
  /\ suspect' = \/ SuddenDrop(in)
                \/ suspect /\ \E l \in AlertLevel : EntryCondition(l, in)

UpdateTimers(in) ==
  /\ belowSince' = [l \in AlertLevel |->
       IF EntryCondition(l, in) THEN Running(belowSince[l], in.elapsed) ELSE None]
  /\ suspect' = \/ SuddenDrop(in)
                \/ suspect /\ \E l \in AlertLevel : EntryCondition(l, in)

Escalate(in) ==
  /\ DwellElapsed # {}
  /\ level' \in DwellElapsed
  /\ \A l \in DwellElapsed : l <= level'
  /\ aboveSince' = None

Recover(in) ==
  /\ DwellElapsed = {}
  /\ AboveExit(in)
  /\ LET sustained == Running(aboveSince, in.elapsed)
         steps == ~HeldByNight(in) /\ sustained >= config.recoverSustain
     IN /\ level' = IF steps THEN level - 1 ELSE level
        /\ aboveSince' = IF steps THEN None ELSE sustained

StayAtLevel(in) ==
  /\ DwellElapsed = {}
  /\ ~AboveExit(in)
  /\ level' = level
  /\ aboveSince' = IF level = Normal THEN Aged(aboveSince, in.elapsed) ELSE None

\* Mutated: an outage leaves the recovery timer running.
FreezeLevelKeepingTimer(in) ==
  /\ UNCHANGED <<level, suspect>>
  /\ belowSince' = [l \in AlertLevel |-> Aged(belowSince[l], in.elapsed)]
  /\ aboveSince' = Aged(aboveSince, in.elapsed)

\* Mutated: a failed read stops the entry timers.
FreezeLevelStoppingEntry(in) ==
  /\ UNCHANGED <<level, suspect>>
  /\ belowSince' = [l \in AlertLevel |-> None]
  /\ aboveSince' = IF consecutiveFailures' >= config.faultFailures THEN None
                   ELSE Aged(aboveSince, in.elapsed)

\* A failed read freezes the level; an outage (not one missed read) stops the recovery timer.
FreezeLevel(in) ==
  /\ UNCHANGED <<level, suspect>>
  /\ belowSince' = [l \in AlertLevel |-> Aged(belowSince[l], in.elapsed)]
  /\ aboveSince' = IF consecutiveFailures' >= config.faultFailures THEN None
                   ELSE Aged(aboveSince, in.elapsed)

UpdateLevel(in) ==
  \/ in.reading = None /\ FreezeLevel(in)
  \/ /\ in.reading # None
     /\ UpdateTimers(in)
     /\ Escalate(in) \/ Recover(in) \/ StayAtLevel(in)

\* Mutated: a lost clock disarms the night lock.
UpdateNightArmedKnownTime(in) ==
  nightArmed' = /\ in.minute # None /\ IsNight(in.minute)
                /\ nightArmed \/ (config.nightLock /\ level' # Normal)

UpdateNightArmed(in) ==
  nightArmed' = /\ IsNight(in.minute)
                /\ nightArmed \/ (config.nightLock /\ level' # Normal)

-----------------------------------------------------------------------------
(* The alert suspend, the acknowledgement and the day's alarm.               *)

\* Mutated: a FAULT does not end a suspend.
ResumesWithoutFault(in) ==
  \/ level' = Normal
  \/ level' > level
  \/ suspendLeft <= in.elapsed
  \/ in.suspend = 0

Resumes(in) ==
  \/ fault'
  \/ level' = Normal
  \/ level' > level
  \/ suspendLeft <= in.elapsed
  \/ in.suspend = 0

SuspendFor(in) ==
  IF in.suspend = None THEN 0
  ELSE IF in.suspend > AlertSuspendMax THEN AlertSuspendMax ELSE in.suspend

UpdateSuspension(in) ==
  suspendLeft' =
    IF SuspendFor(in) > 0 /\ ~fault' /\ level' # Normal /\ level' <= level THEN SuspendFor(in)
    ELSE IF suspendLeft = 0 \/ Resumes(in) THEN 0
    ELSE suspendLeft - in.elapsed

\* The alarm is a new one: deeper, or a FAULT.  An ack of the old one does not cover it.
Rearmed == level' > level \/ (fault' /\ ~fault)

AckTaken(in) == in.ack /\ ~Rearmed

\* Mutated: a new alarm leaves the ack in effect.
AckHeldOverNewAlarm(in) ==
  IF AckTaken(in) THEN config.ackSilence ELSE Left(ackLeft, in.elapsed)

\* Mutated: an ack holds until the alarm re-arms.
AckHeldForever(in) ==
  IF Rearmed THEN 0 ELSE IF in.ack THEN config.ackSilence ELSE ackLeft

AckHeld(in) ==
  IF Rearmed THEN 0 ELSE IF in.ack THEN config.ackSilence ELSE Left(ackLeft, in.elapsed)

Alarm(in) == (level' # Normal \/ fault') /\ ~in.maintenance /\ suspendLeft' = 0

\* By day with auto_ack an unsilenced alarm is timed ...
TimedByDay(in) ==
  ~IsNight(in.minute) /\ config.dayAlarm = "AutoAck" /\ Alarm(in) /\ AckHeld(in) = 0

\* ... and acknowledges itself once it has been timed for long enough.
AutoAcks(in) ==
  /\ TimedByDay(in)
  /\ soundingSince # None
  /\ Aged(soundingSince, in.elapsed) >= DayAckAfter

\* Mutated: the sounding timer survives a break in the alarm.
UpdateAckOverBreaks(in) ==
  /\ ackLeft' = IF AutoAcks(in) THEN config.ackSilence ELSE AckHeld(in)
  /\ ackByHand' = (~AutoAcks(in) /\ (AckTaken(in) \/ ackByHand))
  /\ soundingSince' = IF TimedByDay(in) /\ ~AutoAcks(in) THEN Running(soundingSince, in.elapsed)
                      ELSE Aged(soundingSince, in.elapsed)

UpdateAck(in) ==
  /\ ackLeft' = IF AutoAcks(in) THEN config.ackSilence ELSE AckHeld(in)
  /\ ackByHand' = (~AutoAcks(in) /\ (AckTaken(in) \/ ackByHand))
  /\ soundingSince' = IF TimedByDay(in) /\ ~AutoAcks(in) THEN Running(soundingSince, in.elapsed)
                      ELSE None

Silenced(in) == AckHeld(in) > 0 \/ AutoAcks(in)

Suppressed(in) == ~IsNight(in.minute) /\ config.dayAlarm = "Suppress"

-----------------------------------------------------------------------------
(* UpdateDevices: what runs at the level the devices are driven by.          *)

Deeper(l, m) == IF l > m THEN l ELSE m

\* Mutated: a FAULT drives no devices.
DevicesLevelWithoutFault == IF suspendLeft' > 0 THEN Normal ELSE level'

DevicesLevel ==
  IF suspendLeft' > 0 THEN Normal
  ELSE IF fault' THEN Deeper(level', Deeper(config.faultLevel, Yellow))
  ELSE level'

Active(d) == config.devices[d].trigger # NoTrigger /\ config.devices[d].trigger <= DevicesLevel

PulseStarts(d, in) ==
  /\ config.devices[d].mode = "PulseOff"
  /\ Active(d) /\ ~pulse[d].wasActive /\ ~pulse[d].active
  /\ ~fault' /\ ~in.maintenance
  /\ \/ pulse[d].lastStart = None
     \/ Aged(pulse[d].lastStart, in.elapsed) >= config.pulseMinInterval

\* Mutated: a running pulse waits for a FAULT to end.
UpdatePulseHeldByFault(in) ==
  pulse' = [d \in Devices |->
    LET start == IF PulseStarts(d, in) THEN 0 ELSE Aged(pulse[d].lastStart, in.elapsed)
    IN [active    |-> /\ PulseStarts(d, in) \/ pulse[d].active
                      /\ fault' \/ (start # None /\ start < config.pulse),
        wasActive |-> Active(d),
        lastStart |-> start]]

UpdatePulse(in) ==
  pulse' = [d \in Devices |->
    LET start == IF PulseStarts(d, in) THEN 0 ELSE Aged(pulse[d].lastStart, in.elapsed)
    IN IF config.devices[d].mode # "PulseOff" THEN [pulse[d] EXCEPT !.lastStart = start]
       ELSE [active    |-> /\ PulseStarts(d, in) \/ pulse[d].active
                           /\ start # None /\ start < config.pulse,
             wasActive |-> Active(d),
             lastStart |-> start]]

DeviceOn(d, in) ==
  CASE config.devices[d].mode = "PulseOff" -> ~pulse'[d].active
    [] config.devices[d].mode = "On" /\ config.devices[d].ackSilences ->
         /\ Active(d) /\ DevicesLevel >= Yellow
         /\ ~Silenced(in) /\ ~Suppressed(in) /\ ~in.maintenance
    [] OTHER -> Active(d)

UpdateOutput(in) ==
  out' = [sound      |-> Alarm(in) /\ ~Silenced(in) /\ ~Suppressed(in),
          silenced   |-> Silenced(in),
          suppressed |-> Suppressed(in),
          on         |-> [d \in Devices |-> DeviceOn(d, in)]]

-----------------------------------------------------------------------------
Sample(in) ==
  /\ UpdateFault(in)
  /\ UpdateLevel(in)
  /\ UpdateNightArmed(in)
  /\ UpdateSuspension(in)
  /\ UpdateAck(in)
  /\ UpdatePulse(in)
  /\ UpdateOutput(in)
  /\ UNCHANGED config

\* App::SetConfig between two samples: the ladder's state is kept as it is.
SetConfig ==
  /\ config' \in Configs
  /\ config' # config
  /\ UNCHANGED <<levelVars, alarmVars, pulse, out>>

Next == (\E in \in Inputs : Sample(in)) \/ SetConfig

Spec == Init /\ [][Next]_vars

-----------------------------------------------------------------------------
(* The ladder against what App::Tick and the daily test rely on.             *)

Contract == INSTANCE LadderContract WITH
  silenced  <- out.silenced,
  autoAcked <- out.silenced /\ ~ackByHand,
  suspended <- suspendLeft > 0,
  on        <- {d \in Devices : out.on[d]}

Request(in) ==
  IF in.suspend = None THEN "Nothing" ELSE IF in.suspend = 0 THEN "Resume" ELSE "Suspend"

(* The ladder keeps its contract: a missed read moves nothing but FAULT,     *)
(* recovery goes level by level, a silence or suspend given by hand covers   *)
(* no new alarm, and the devices of what stands are on.                      *)
KeepsContract ==
  /\ Contract!Init
  /\ [][\A in \in Inputs : Sample(in) =>
          Contract!Step(in.reading = None, in.ack, Request(in))]_vars
=============================================================================
