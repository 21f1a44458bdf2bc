---------------------------- MODULE LadderProofs ----------------------------
(***************************************************************************)
(* What is proved of the ladder, for every set of valid configurations, of  *)
(* samples and of devices: its types, its contract, and what its histories  *)
(* say of the level, the alarm and the pulse devices.                       *)
(***************************************************************************)
EXTENDS LevelHistory, AlarmHistory, PulseHistory, TLAPS

-----------------------------------------------------------------------------
(* Types. *)

LEMMA AgedType ==
  ASSUME NEW age \in OptionalAge, NEW elapsed \in Nat
  PROVE  /\ Aged(age, elapsed) \in OptionalAge
         /\ age # None => Aged(age, elapsed) \in Age
         /\ Running(age, elapsed) \in Age
  BY NoneIsNoNumber, CapsArePositive DEF Aged, Running, OptionalAge, Age

LEMMA AgeOrder ==
  ASSUME NEW a \in Age, NEW b \in Age, NEW elapsed \in Nat, a <= b
  PROVE  /\ Aged(a, elapsed) <= Aged(b, elapsed)
         /\ Aged(a, elapsed) \in Age /\ Aged(b, elapsed) \in Age
         /\ Running(a, elapsed) = Aged(a, elapsed)
  BY NoneIsNoNumber, CapsArePositive DEF Aged, Running, Age

LEMMA AgeIsNumber ==
  ASSUME NEW a \in OptionalAge, a # None
  PROVE  a \in Age
  BY DEF OptionalAge

LEMMA LeftType ==
  ASSUME NEW left \in Nat, NEW elapsed \in Nat
  PROVE  Left(left, elapsed) \in Nat /\ Left(left, elapsed) <= left
  BY DEF Left

\* What a sample starts from: typed variables, a valid configuration, a typed input.
SampleContext(in) == TypeOK /\ in \in Input /\ config \in Config /\ Validated(config)

LEMMA SampleContextHolds ==
  ASSUME TypeOK, NEW in \in Inputs
  PROVE  SampleContext(in)
  BY ConfigsAreValid, InputsAreTyped DEF SampleContext, TypeOK

LEMMA FaultType ==
  ASSUME NEW in, SampleContext(in), UpdateFault(in)
  PROVE  consecutiveFailures' \in 0 .. FailureCap /\ fault' \in BOOLEAN
  BY CapsArePositive DEF SampleContext, TypeOK, UpdateFault, Input

LEMMA LevelType ==
  ASSUME NEW in, SampleContext(in), UpdateLevel(in)
  PROVE  /\ level' \in Level
         /\ belowSince' \in [AlertLevel -> OptionalAge]
         /\ aboveSince' \in OptionalAge
         /\ suspect' \in BOOLEAN
<1>1. in.elapsed \in Nat /\ level \in Level /\ aboveSince \in OptionalAge
      /\ belowSince \in [AlertLevel -> OptionalAge] /\ suspect \in BOOLEAN
  BY DEF SampleContext, TypeOK, Input
<1>2. \A l \in AlertLevel : /\ Aged(belowSince[l], in.elapsed) \in OptionalAge
                            /\ Running(belowSince[l], in.elapsed) \in OptionalAge
  BY <1>1, AgedType DEF OptionalAge
<1>3. /\ Aged(aboveSince, in.elapsed) \in OptionalAge
      /\ Running(aboveSince, in.elapsed) \in OptionalAge
  BY <1>1, AgedType DEF OptionalAge
<1>4. CASE FreezeLevel(in)
  BY <1>1, <1>2, <1>3, <1>4 DEF FreezeLevel, OptionalAge
<1>5. CASE UpdateTimers(in) /\ (Escalate(in) \/ Recover(in) \/ StayAtLevel(in))
  <2>1. belowSince' \in [AlertLevel -> OptionalAge] /\ suspect' \in BOOLEAN
    BY <1>1, <1>2, <1>5 DEF UpdateTimers, OptionalAge
  <2>2. level' \in Level /\ aboveSince' \in OptionalAge
    <3>1. CASE Escalate(in)
      BY <3>1 DEF Escalate, DwellElapsed, AlertLevel, Level, Normal, Blue, Red, OptionalAge
    <3>2. CASE Recover(in)
      BY <3>2, <1>1, <1>3 DEF Recover, AboveExit, Level, Normal, Red, OptionalAge
    <3>3. CASE StayAtLevel(in)
      BY <3>3, <1>1, <1>3 DEF StayAtLevel, OptionalAge
    <3>4. QED BY <1>5, <3>1, <3>2, <3>3
  <2>3. QED BY <2>1, <2>2
<1>6. QED BY <1>4, <1>5 DEF UpdateLevel

LEMMA SuspensionType ==
  ASSUME NEW in, SampleContext(in), UpdateSuspension(in)
  PROVE  suspendLeft' \in 0 .. AlertSuspendMax
<1>1. /\ in.elapsed \in Nat \ {0} /\ in.suspend \in Nat \cup {None}
      /\ suspendLeft \in 0 .. AlertSuspendMax
  BY DEF SampleContext, TypeOK, Input
<1>2. SuspendFor(in) \in 0 .. AlertSuspendMax
  BY <1>1, NoneIsNoNumber, DurationConstants DEF SuspendFor
<1>3. ~Resumes(in) => suspendLeft > in.elapsed
  BY <1>1, DurationConstants DEF Resumes
<1>4. QED BY <1>1, <1>2, <1>3, DurationConstants DEF UpdateSuspension

LEMMA AckType ==
  ASSUME NEW in, SampleContext(in), UpdateAck(in)
  PROVE  ackLeft' \in Nat /\ ackByHand' \in BOOLEAN /\ soundingSince' \in OptionalAge
<1>1. /\ in.elapsed \in Nat /\ in.ack \in BOOLEAN /\ config.ackSilence \in Nat
      /\ ackLeft \in Nat /\ ackByHand \in BOOLEAN /\ soundingSince \in OptionalAge
  BY DEF SampleContext, TypeOK, Input, Config
<1>2. AckHeld(in) \in Nat
  BY <1>1, LeftType DEF AckHeld
<1>3. Running(soundingSince, in.elapsed) \in OptionalAge
  BY <1>1, AgedType DEF OptionalAge
<1>4. QED BY <1>1, <1>2, <1>3 DEF UpdateAck, OptionalAge

LEMMA PulseType ==
  ASSUME NEW in, SampleContext(in), UpdatePulse(in)
  PROVE  pulse' \in [Devices -> PulseState]
<1> SUFFICES ASSUME NEW d \in Devices PROVE pulse'[d] \in PulseState
  BY DEF UpdatePulse
<1>1. pulse[d] \in PulseState /\ in.elapsed \in Nat
  BY DEF SampleContext, TypeOK, Input
<1> DEFINE start == IF PulseStarts(d, in) THEN 0 ELSE Aged(pulse[d].lastStart, in.elapsed)
<1>2. start \in OptionalAge
  <2>1. pulse[d].lastStart \in OptionalAge
    BY <1>1 DEF PulseState
  <2>2. Aged(pulse[d].lastStart, in.elapsed) \in OptionalAge
    BY <1>1, <2>1, AgedType
  <2>3. 0 \in OptionalAge
    BY CapsArePositive DEF OptionalAge, Age
  <2>4. QED BY <2>2, <2>3
<1>3. CASE config.devices[d].mode # "PulseOff"
  <2>1. pulse'[d] = [pulse[d] EXCEPT !.lastStart = start]
    BY <1>3 DEF UpdatePulse
  <2>2. QED BY <1>1, <1>2, <2>1 DEF PulseState
<1>4. CASE config.devices[d].mode = "PulseOff"
  <2>1. pulse'[d] = [active    |-> /\ PulseStarts(d, in) \/ pulse[d].active
                                   /\ start # None /\ start < config.pulse,
                     wasActive |-> Active(d),
                     lastStart |-> start]
    BY <1>4 DEF UpdatePulse
  <2>2. /\ Active(d) \in BOOLEAN
        /\ (/\ PulseStarts(d, in) \/ pulse[d].active
            /\ start # None /\ start < config.pulse) \in BOOLEAN
    BY DEF Active
  <2>3. QED BY <1>2, <2>1, <2>2 DEF PulseState
<1>5. QED BY <1>3, <1>4

LEMMA OutputType ==
  ASSUME NEW in, SampleContext(in), UpdateOutput(in)
  PROVE  out' \in Output
<1>1. in.maintenance \in BOOLEAN
  BY DEF SampleContext, Input
<1>2. Alarm(in) \in BOOLEAN /\ Silenced(in) \in BOOLEAN /\ Suppressed(in) \in BOOLEAN
  BY <1>1 DEF Alarm, Silenced, Suppressed
<1>3. \A d \in Devices : DeviceOn(d, in) \in BOOLEAN
  BY <1>1, <1>2 DEF DeviceOn, Active
<1>4. QED BY <1>2, <1>3 DEF UpdateOutput, Output

LEMMA SampleKeepsType ==
  ASSUME TypeOK, NEW in \in Inputs, Sample(in)
  PROVE  TypeOK'
<1>1. SampleContext(in)
  BY SampleContextHolds
<1>2. nightArmed' \in BOOLEAN
  BY DEF Sample, UpdateNightArmed
<1>3. config' \in Configs
  BY DEF Sample, TypeOK
<1>4. consecutiveFailures' \in 0 .. FailureCap /\ fault' \in BOOLEAN
  BY <1>1, FaultType DEF Sample
<1>5. /\ level' \in Level /\ belowSince' \in [AlertLevel -> OptionalAge]
      /\ aboveSince' \in OptionalAge /\ suspect' \in BOOLEAN
  BY <1>1, LevelType DEF Sample
<1>6. suspendLeft' \in 0 .. AlertSuspendMax
  BY <1>1, SuspensionType DEF Sample
<1>7. ackLeft' \in Nat /\ ackByHand' \in BOOLEAN /\ soundingSince' \in OptionalAge
  BY <1>1, AckType DEF Sample
<1>8. pulse' \in [Devices -> PulseState] /\ out' \in Output
  BY <1>1, PulseType, OutputType DEF Sample
<1>9. QED BY <1>2, <1>3, <1>4, <1>5, <1>6, <1>7, <1>8 DEF TypeOK

LEMMA InitType ==
  ASSUME Init
  PROVE  TypeOK
<1>1. None \in OptionalAge /\ Normal \in Level
  BY DEF OptionalAge, Level, Normal, Red
<1>2. pulse \in [Devices -> PulseState]
  BY <1>1 DEF Init, PulseState
<1>3. out \in Output
  BY DEF Init, Output
<1>4. belowSince \in [AlertLevel -> OptionalAge]
  BY <1>1 DEF Init
<1>5. consecutiveFailures \in 0 .. FailureCap /\ suspendLeft \in 0 .. AlertSuspendMax
  BY CapsArePositive, DurationConstants DEF Init
<1>6. QED BY <1>1, <1>2, <1>3, <1>4, <1>5 DEF Init, TypeOK

LEMMA NextKeepsType ==
  ASSUME TypeOK, [Next]_vars
  PROVE  TypeOK'
<1>1. CASE \E in \in Inputs : Sample(in)
  BY <1>1, SampleKeepsType
<1>2. CASE SetConfig
  BY <1>2 DEF SetConfig, TypeOK, levelVars, alarmVars
<1>3. CASE UNCHANGED vars
  BY <1>3 DEF TypeOK, vars, levelVars, alarmVars
<1>4. QED BY <1>1, <1>2, <1>3 DEF Next

(* Every variable keeps its type through every sample and configuration       *)
(* change: the failure counter saturates, the timers never lose their age.    *)
THEOREM TypeCorrect == Spec => []TypeOK
<1>1. Init => TypeOK
  BY InitType
<1>2. TypeOK /\ [Next]_vars => TypeOK'
  BY NextKeepsType
<1>3. QED BY <1>1, <1>2, PTL DEF Spec

-----------------------------------------------------------------------------
(* The contract: what the App and the daily test are checked against is what *)
(* the ladder does.                                                          *)

\* A silence that still has time left is one that the last sample put out.
SilenceInv == ackLeft > 0 => out.silenced

LEMMA SampleKeepsSilence ==
  ASSUME NEW in, Sample(in)
  PROVE  SilenceInv'
<1>1. out'.silenced = Silenced(in)
  BY DEF Sample, UpdateOutput
<1>2. QED BY <1>1 DEF Sample, UpdateAck, Silenced, SilenceInv

LEMMA LevelsMove ==
  ASSUME NEW in, SampleContext(in), UpdateFault(in), UpdateLevel(in)
  PROVE  Contract!LevelMoves(in.reading = None)
<1>1. level \in Level /\ level' \in Level /\ fault' \in BOOLEAN
  BY LevelType, FaultType DEF SampleContext, TypeOK
<1>2. Contract!Level = Level
  BY DEF Contract!Level, Contract!Normal, Contract!Red, Level, Normal, Red
<1>3. CASE in.reading = None
  BY <1>1, <1>3 DEF UpdateLevel, FreezeLevel, Contract!LevelMoves
<1>4. CASE in.reading # None
  <2>1. ~fault'
    BY <1>4 DEF UpdateFault
  <2>2. level' >= level - 1
    <3>1. CASE Escalate(in)
      BY <1>1, <3>1 DEF Escalate, DwellElapsed, AlertLevel, Level, Normal, Blue, Red
    <3>2. CASE Recover(in)
      BY <1>1, <3>2 DEF Recover, Level, Normal, Red
    <3>3. CASE StayAtLevel(in)
      BY <1>1, <3>3 DEF StayAtLevel, Level, Normal, Red
    <3>4. QED BY <1>4, <3>1, <3>2, <3>3 DEF UpdateLevel
  <2>3. QED BY <1>1, <1>2, <1>4, <2>1, <2>2 DEF Contract!LevelMoves
<1>5. QED BY <1>3, <1>4

LEMMA SilenceMoves ==
  ASSUME NEW in, SampleContext(in), SilenceInv, UpdateAck(in), UpdateOutput(in)
  PROVE  Contract!SilenceMoves(in.ack)
<1>1. /\ out'.silenced = Silenced(in)
      /\ Silenced(in) \in BOOLEAN /\ ackByHand' \in BOOLEAN
      /\ ackLeft \in Nat /\ in.elapsed \in Nat
  BY AckType DEF UpdateOutput, Silenced, SampleContext, TypeOK, Input
<1>2. Contract!Rearmed <=> Rearmed
  BY DEF Contract!Rearmed, Rearmed
<1>3. CASE AutoAcks(in)
  <2>1. out'.silenced /\ ~ackByHand'
    BY <1>1, <1>3 DEF Silenced, UpdateAck
  <2>2. config.dayAlarm = "AutoAck" /\ (level' # Normal \/ fault')
    BY <1>3 DEF AutoAcks, TimedByDay, Alarm
  <2>3. QED
    BY <1>1, <2>1, <2>2 DEF Contract!SilenceMoves, Contract!Normal, Normal
<1>4. CASE ~AutoAcks(in) /\ ~out'.silenced
  BY <1>1, <1>4 DEF Contract!SilenceMoves
<1>5. CASE ~AutoAcks(in) /\ out'.silenced
  <2>1. AckHeld(in) > 0
    BY <1>1, <1>5 DEF Silenced
  <2>2. ~Rearmed
    BY <2>1 DEF AckHeld
  <2>3. ackByHand' <=> in.ack \/ ackByHand
    BY <1>5, <2>2 DEF UpdateAck, AckTaken
  <2>4. in.ack \/ out.silenced
    BY <1>1, <2>1, <2>2 DEF AckHeld, Left, SilenceInv
  <2>5. QED BY <1>1, <1>2, <1>5, <2>2, <2>3, <2>4 DEF Contract!SilenceMoves
<1>6. QED BY <1>1, <1>3, <1>4, <1>5

LEMMA SuspendMoves ==
  ASSUME NEW in, SampleContext(in), UpdateLevel(in), UpdateSuspension(in)
  PROVE  Contract!SuspendMoves(Request(in))
<1>1. /\ level \in Level /\ level' \in Level
      /\ suspendLeft \in Nat /\ suspendLeft' \in Nat
      /\ in.suspend \in Nat \cup {None}
  BY LevelType, SuspensionType, DurationConstants DEF SampleContext, TypeOK, Input
<1> SUFFICES ASSUME suspendLeft' > 0
             PROVE  /\ ~fault' /\ level' # Normal /\ level' <= level
                    /\ Request(in) = "Suspend" \/ (suspendLeft > 0 /\ Request(in) = "Nothing")
  BY DEF Contract!SuspendMoves, Contract!Normal, Normal
<1>2. CASE SuspendFor(in) > 0 /\ ~fault' /\ level' # Normal /\ level' <= level
  <2>1. in.suspend # None /\ in.suspend # 0
    BY <1>1, <1>2, DurationConstants DEF SuspendFor
  <2>2. QED BY <1>2, <2>1 DEF Request
<1>3. CASE ~(SuspendFor(in) > 0 /\ ~fault' /\ level' # Normal /\ level' <= level)
  <2>1. suspendLeft # 0 /\ ~Resumes(in)
    BY <1>3 DEF UpdateSuspension
  <2>2. ~fault' /\ level' # Normal /\ level' <= level /\ in.suspend # 0
    BY <1>1, <2>1 DEF Resumes, Level, Normal, Red
  <2>3. QED BY <1>1, <2>1, <2>2 DEF Request
<1>4. QED BY <1>2, <1>3

LEMMA DevicesMove ==
  ASSUME NEW in, SampleContext(in), UpdateOutput(in)
  PROVE  Contract!DevicesMove
<1>1. Contract!DevicesLevel = DevicesLevel
  BY DEF Contract!DevicesLevel, DevicesLevel, Contract!Deeper, Deeper,
         Contract!Normal, Normal, Contract!Yellow, Yellow
<1>2. \A d \in Devices : out'.on[d] = DeviceOn(d, in)
  BY DEF UpdateOutput
<1>3. ASSUME NEW d \in Devices, config.devices[d].mode = "On"
      PROVE  /\ out'.on[d] => Contract!Active(d)
             /\ Contract!Active(d) /\ ~config.devices[d].ackSilences => out'.on[d]
  <2>1. Contract!Active(d) <=> Active(d)
    BY <1>1 DEF Contract!Active, Active, Contract!Normal, NoTrigger, Normal
  <2>2. CASE config.devices[d].ackSilences
    BY <1>2, <1>3, <2>1, <2>2 DEF DeviceOn
  <2>3. CASE ~config.devices[d].ackSilences
    BY <1>2, <1>3, <2>1, <2>3 DEF DeviceOn
  <2>4. QED BY <2>2, <2>3
<1>4. QED BY <1>3 DEF Contract!DevicesMove

(* A sample is a step of the contract: a missed read moves nothing but FAULT,  *)
(* recovery goes level by level, a silence or suspend given by hand covers no *)
(* new alarm, and the devices of what stands are on.                           *)
THEOREM LadderKeepsContract == Spec => KeepsContract
<1> DEFINE Keeps == \A in \in Inputs : Sample(in) =>
                      Contract!Step(in.reading = None, in.ack, Request(in))
           Inv == TypeOK /\ SilenceInv
<1>1. Init => Contract!Init
  BY DEF Init, Contract!Init, Contract!Normal, Normal
<1>2. Init => Inv
  <2>1. Init => TypeOK
    BY InitType
  <2>2. Init => SilenceInv
    BY DEF Init, SilenceInv
  <2>3. QED BY <2>1, <2>2
<1>3. Inv /\ [Next]_vars => Inv'
  <2> SUFFICES ASSUME Inv, [Next]_vars PROVE SilenceInv'
    BY NextKeepsType
  <2>1. CASE \E in \in Inputs : Sample(in)
    BY <2>1, SampleKeepsSilence
  <2>2. CASE UNCHANGED <<alarmVars, out>>
    BY <2>2 DEF alarmVars, SilenceInv
  <2>3. QED BY <2>1, <2>2 DEF Next, SetConfig, vars
<1>4. Inv => Keeps
  <2> SUFFICES ASSUME Inv, NEW in \in Inputs, Sample(in)
               PROVE  Contract!Step(in.reading = None, in.ack, Request(in))
    OBVIOUS
  <2>1. SampleContext(in)
    BY SampleContextHolds
  <2>2. QED
    BY <2>1, LevelsMove, SilenceMoves, SuspendMoves, DevicesMove DEF Sample, Contract!Step
<1>5. Inv => [Keeps]_vars
  BY <1>4
<1>6. QED BY <1>1, <1>2, <1>3, <1>5, PTL DEF Spec, KeepsContract

-----------------------------------------------------------------------------
(* The level: the code's timers never claim more evidence than the readings gave. *)

\* An entry timer is no older than the last reading that spoke against the level.
EntryTimersInv ==
  \A l \in AlertLevel : belowSince[l] # None => belowSince[l] <= sinceHigh[l]

\* The recovery timer is no older than the last thing that spoke against recovering.
RecoveryTimerInv ==
  aboveSince # None => level # Normal /\ aboveSince <= sinceLow[level]

\* With the night lock on, an alert at night arms it, and an armed lock holds an alert.
NightInv ==
  config.nightLock => /\ nightAlert => nightArmed
                      /\ nightArmed => level # Normal

LevelInv ==
  /\ TypeOK
  /\ LevelHistoryTypeOK
  /\ EntryTimersInv
  /\ RecoveryTimerInv

LEMMA LevelHistoryStep ==
  ASSUME LevelInv, NEW in \in Inputs, Sample(in), RecordLevel(in)
  PROVE  LevelHistoryTypeOK'
<1>1. in.elapsed \in Nat
  BY InputsAreTyped DEF Input
<1>2. 0 \in Age /\ \A a \in Age : a <= a
  BY CapsArePositive DEF Age
<1>3. \A l \in AlertLevel : /\ Aged(sinceHigh[l], in.elapsed) \in Age
                            /\ Aged(sinceLow[l], in.elapsed) \in Age
  BY <1>1, <1>2, AgeOrder DEF LevelInv, LevelHistoryTypeOK
<1>4. nightAlert' \in BOOLEAN
  BY DEF RecordLevel
<1>5. QED BY <1>2, <1>3, <1>4 DEF RecordLevel, LevelHistoryTypeOK

LEMMA EntryTimersStep ==
  ASSUME LevelInv, NEW in \in Inputs, Sample(in), RecordLevel(in)
  PROVE  EntryTimersInv'
<1> SUFFICES ASSUME NEW l \in AlertLevel, belowSince'[l] # None
             PROVE  belowSince'[l] <= sinceHigh'[l]
  BY DEF EntryTimersInv
<1>1. /\ in.elapsed \in Nat /\ sinceHigh[l] \in Age /\ belowSince[l] \in OptionalAge
      /\ belowSince[l] # None => belowSince[l] <= sinceHigh[l]
  BY InputsAreTyped DEF Input, LevelInv, TypeOK, LevelHistoryTypeOK, EntryTimersInv
<1>2. ~NoReasonToEnter(l, in) =>
        sinceHigh'[l] = Aged(sinceHigh[l], in.elapsed) /\ sinceHigh'[l] \in Age
  <2>1. sinceHigh[l] <= sinceHigh[l]
    BY <1>1 DEF Age
  <2>2. QED BY <1>1, <2>1, AgeOrder DEF RecordLevel
<1>3. CASE in.reading = None
  <2>1. belowSince'[l] = Aged(belowSince[l], in.elapsed)
    BY <1>3 DEF Sample, UpdateLevel, FreezeLevel
  <2>2. belowSince[l] # None
    BY <2>1 DEF Aged
  <2>3. ~NoReasonToEnter(l, in)
    BY <1>3 DEF NoReasonToEnter
  <2>4. QED BY <1>1, <1>2, <2>1, <2>2, <2>3, AgeIsNumber, AgeOrder
<1>4. CASE in.reading # None
  <2>1. /\ EntryCondition(l, in)
        /\ belowSince'[l] = Running(belowSince[l], in.elapsed)
    BY <1>4 DEF Sample, UpdateLevel, UpdateTimers
  <2>2. ~NoReasonToEnter(l, in)
    BY <2>1 DEF NoReasonToEnter
  <2>3. CASE belowSince[l] = None
    <3>1. belowSince'[l] = 0
      BY <2>1, <2>3 DEF Running
    <3>2. QED BY <1>2, <2>2, <3>1 DEF Age
  <2>4. CASE belowSince[l] # None
    <3>1. belowSince[l] \in Age /\ belowSince[l] <= sinceHigh[l]
      BY <1>1, <2>4, AgeIsNumber
    <3>2. QED BY <1>1, <1>2, <2>1, <2>2, <3>1, AgeOrder
  <2>5. QED BY <2>3, <2>4
<1>5. QED BY <1>3, <1>4

\* What a sample does to the recovery timer and to the level it belongs to.
LEMMA RecoveryTimerStep ==
  ASSUME LevelInv, NEW in \in Inputs, Sample(in), RecordLevel(in), aboveSince' # None
  PROVE  level' = level /\ level # Normal /\ aboveSince' <= sinceLow'[level]
<1>1. /\ in.elapsed \in Nat /\ level \in Level /\ aboveSince \in OptionalAge
      /\ sinceLow \in [AlertLevel -> Age]
      /\ aboveSince # None => level # Normal /\ aboveSince <= sinceLow[level]
  BY InputsAreTyped DEF Input, LevelInv, TypeOK, LevelHistoryTypeOK, RecoveryTimerInv
<1>2. level # Normal => level \in AlertLevel
  BY <1>1 DEF Level, AlertLevel, Normal, Blue, Red
<1>3. ASSUME level' = level, level # Normal, ~NoReasonToLeave(level, in)
      PROVE  sinceLow'[level] = Aged(sinceLow[level], in.elapsed) /\ sinceLow'[level] \in Age
  <2>1. sinceLow[level] \in Age /\ sinceLow[level] <= sinceLow[level]
    BY <1>1, <1>2, <1>3 DEF Age
  <2>2. QED BY <1>1, <1>2, <1>3, <2>1, AgeOrder DEF RecordLevel
<1>4. CASE in.reading = None
  <2>1. /\ level' = level
        /\ consecutiveFailures' < config.faultFailures
        /\ aboveSince' = Aged(aboveSince, in.elapsed)
    <3>1. consecutiveFailures' \in Nat /\ config.faultFailures \in Nat
      BY SampleContextHolds, FaultType, CapsArePositive
      DEF LevelInv, Sample, SampleContext, Config
    <3>2. QED BY <1>4, <3>1 DEF Sample, UpdateLevel, FreezeLevel
  <2>2. aboveSince # None
    BY <2>1 DEF Aged
  <2>3. ~NoReasonToLeave(level, in)
    <3>1. consecutiveFailures' \in Nat /\ config.faultFailures \in Nat
      BY SampleContextHolds, FaultType, CapsArePositive
      DEF LevelInv, Sample, SampleContext, Config
    <3>2. QED BY <1>4, <2>1, <3>1 DEF NoReasonToLeave
  <2>4. aboveSince \in Age /\ sinceLow[level] \in Age
    BY <1>1, <1>2, <2>2, AgeIsNumber
  <2>5. QED BY <1>1, <1>3, <2>1, <2>2, <2>3, <2>4, AgeOrder
<1>5. CASE in.reading # None /\ Escalate(in)
  BY <1>5 DEF Escalate
<1>6. CASE in.reading # None /\ Recover(in)
  <2>1. /\ level' = level
        /\ level # Normal
        /\ aboveSince' = Running(aboveSince, in.elapsed)
        /\ in.reading > config.mgl[level] + config.hysteresis[level]
    BY <1>6 DEF Recover, AboveExit
  <2>2. ~NoReasonToLeave(level, in)
    <3>1. /\ in.reading \in Nat
          /\ config.mgl[level] \in Nat /\ config.hysteresis[level] \in Nat
      BY <1>2, <1>6, <2>1, SampleContextHolds DEF LevelInv, SampleContext, Input, Config
    <3>2. QED BY <1>6, <2>1, <3>1 DEF NoReasonToLeave
  <2>3. CASE aboveSince = None
    <3>1. aboveSince' = 0
      BY <2>1, <2>3 DEF Running
    <3>2. QED BY <1>3, <2>1, <2>2, <3>1 DEF Age
  <2>4. CASE aboveSince # None
    <3>1. aboveSince \in Age /\ sinceLow[level] \in Age
      BY <1>1, <1>2, <2>1, <2>4, AgeIsNumber
    <3>2. QED BY <1>1, <1>3, <2>1, <2>2, <2>4, <3>1, AgeOrder
  <2>5. QED BY <2>3, <2>4
<1>7. CASE in.reading # None /\ StayAtLevel(in)
  <2>1. level = Normal /\ aboveSince' = Aged(aboveSince, in.elapsed)
    BY <1>7 DEF StayAtLevel
  <2>2. QED BY <1>1, <2>1 DEF Aged
<1>8. QED BY <1>4, <1>5, <1>6, <1>7 DEF Sample, UpdateLevel

LEMMA LevelInvariant == LevelSpec => []LevelInv
<1>1. LevelInit => LevelInv
  <2> SUFFICES ASSUME LevelInit PROVE LevelInv
    OBVIOUS
  <2>1. TypeOK
    BY InitType DEF LevelInit
  <2>2. LevelHistoryTypeOK
    <3>1. 0 \in Age
      BY CapsArePositive DEF Age
    <3>2. QED BY <3>1 DEF LevelInit, LevelHistoryTypeOK
  <2>3. EntryTimersInv /\ RecoveryTimerInv
    BY DEF LevelInit, Init, EntryTimersInv, RecoveryTimerInv
  <2>4. QED BY <2>1, <2>2, <2>3 DEF LevelInv
<1>2. LevelInv /\ [LevelNext]_lvars => LevelInv'
  <2> SUFFICES ASSUME LevelInv, [LevelNext]_lvars PROVE LevelInv'
    OBVIOUS
  <2>1. CASE LevelSample
    <3>1. PICK in \in Inputs : Sample(in) /\ RecordLevel(in)
      BY <2>1 DEF LevelSample
    <3>2. TypeOK'
      BY <3>1, SampleKeepsType DEF LevelInv
    <3>3. RecoveryTimerInv'
      BY <3>1, RecoveryTimerStep DEF RecoveryTimerInv
    <3>4. QED
      BY <3>1, <3>2, <3>3, EntryTimersStep, LevelHistoryStep DEF LevelInv
  <2>2. CASE SetConfig /\ UNCHANGED levelHistory
    <3>1. TypeOK'
      BY <2>2, NextKeepsType DEF Next, LevelInv
    <3>2. QED
      BY <2>2, <3>1
      DEF SetConfig, levelHistory, levelVars, LevelInv, LevelHistoryTypeOK, EntryTimersInv, RecoveryTimerInv
  <2>3. CASE UNCHANGED lvars
    <3>1. TypeOK'
      BY <2>3, NextKeepsType DEF lvars, LevelInv
    <3>2. QED
      BY <2>3, <3>1
      DEF lvars, vars, levelHistory, levelVars, LevelInv, LevelHistoryTypeOK, EntryTimersInv, RecoveryTimerInv
  <2>4. QED BY <2>1, <2>2, <2>3 DEF LevelNext
<1>3. QED BY <1>1, <1>2, PTL DEF LevelSpec

(* No level is entered before its dwell, and the extension of a sudden drop,  *)
(* has passed since the last reading that spoke against it: however samples   *)
(* are missed and whatever configuration is stored meanwhile.                 *)
THEOREM EscalationEarned == LevelSpec => EscalationIsEarned
<1> DEFINE Step == level' > level => sinceHigh'[level'] >= ExtendedDwell(level')
<1>1. LevelInv /\ LevelInv' /\ [LevelNext]_lvars => [Step]_lvars
  <2> SUFFICES ASSUME LevelInv, LevelInv', LevelNext, level' > level
               PROVE  sinceHigh'[level'] >= ExtendedDwell(level')
    OBVIOUS
  <2>1. level \in Level
    BY DEF LevelInv, TypeOK
  <2>2. CASE LevelSample
    <3>1. PICK in \in Inputs : Sample(in) /\ RecordLevel(in)
      BY <2>2 DEF LevelSample
    <3>2. CASE FreezeLevel(in)
      BY <2>1, <3>2 DEF FreezeLevel, Level, Normal, Red
    <3>3. CASE Escalate(in)
      <4>1. level' \in DwellElapsed
        BY <3>3 DEF Escalate
      <4>2. level' \in AlertLevel /\ belowSince'[level'] # None
            /\ belowSince'[level'] >= ExtendedDwell(level')
        BY <4>1 DEF DwellElapsed
      <4>3. belowSince'[level'] <= sinceHigh'[level']
        BY <4>2 DEF LevelInv, EntryTimersInv
      <4>4. belowSince'[level'] \in Age /\ sinceHigh'[level'] \in Age
        BY <4>2, AgeIsNumber DEF LevelInv, TypeOK, LevelHistoryTypeOK
      <4>5. ExtendedDwell(level') \in Nat
        <5>1. config \in Config
          BY SampleContextHolds, <3>1 DEF LevelInv, SampleContext
        <5>2. config.dwell[level'] \in Nat /\ config.suddenExtend \in Nat
          BY <4>2, <5>1 DEF Config
        <5>3. QED BY <5>2 DEF ExtendedDwell
      <4>6. QED BY <4>2, <4>3, <4>4, <4>5 DEF Age
    <3>4. CASE Recover(in)
      BY <2>1, <3>4 DEF Recover, Level, Normal, Red
    <3>5. CASE StayAtLevel(in)
      BY <2>1, <3>5 DEF StayAtLevel, Level, Normal, Red
    <3>6. QED BY <3>1, <3>2, <3>3, <3>4, <3>5 DEF Sample, UpdateLevel
  <2>3. CASE SetConfig /\ UNCHANGED levelHistory
    BY <2>1, <2>3 DEF SetConfig, levelVars, Level, Normal, Red
  <2>4. QED BY <2>2, <2>3 DEF LevelNext
<1>2. QED BY <1>1, LevelInvariant, PTL DEF LevelSpec, EscalationIsEarned

(* Every step back is to the next level up only, after a full sustained time  *)
(* above that level's own exit threshold with no outage in it.                *)
THEOREM RecoveryEarned == LevelSpec => RecoveryIsEarned
<1> DEFINE Step == level' < level => /\ level' = level - 1
                                     /\ sinceLow'[level] >= config.recoverSustain
<1>1. LevelInv /\ LevelInv' /\ [LevelNext]_lvars => [Step]_lvars
  <2> SUFFICES ASSUME LevelInv, LevelInv', LevelNext, level' < level
               PROVE  level' = level - 1 /\ sinceLow'[level] >= config.recoverSustain
    OBVIOUS
  <2>1. level \in Level
    BY DEF LevelInv, TypeOK
  <2>2. CASE LevelSample
    <3>1. PICK in \in Inputs : Sample(in) /\ RecordLevel(in)
      BY <2>2 DEF LevelSample
    <3>2. CASE FreezeLevel(in)
      BY <2>1, <3>2 DEF FreezeLevel, Level, Normal, Red
    <3>3. CASE Escalate(in)
      BY <2>1, <3>3 DEF Escalate, DwellElapsed, Level, AlertLevel, Normal, Blue, Red
    <3>4. CASE StayAtLevel(in)
      BY <2>1, <3>4 DEF StayAtLevel, Level, Normal, Red
    <3>5. CASE in.reading # None /\ Recover(in)
      <4> DEFINE sustained == Running(aboveSince, in.elapsed)
      <4>1. /\ level' = level - 1 /\ level # Normal
            /\ sustained >= config.recoverSustain
            /\ in.reading > config.mgl[level] + config.hysteresis[level]
        BY <2>1, <3>5 DEF Recover, AboveExit, Level, Normal, Red
      <4>2. level \in AlertLevel
        BY <2>1, <4>1 DEF Level, AlertLevel, Normal, Blue, Red
      <4>3. /\ in.elapsed \in Nat /\ in.reading \in Nat
            /\ config.mgl[level] \in Nat /\ config.hysteresis[level] \in Nat
            /\ config.recoverSustain \in Nat /\ config.recoverSustain > 0
        BY <3>1, <3>5, <4>2, SampleContextHolds
        DEF LevelInv, SampleContext, Input, Config, Validated
      <4>4. aboveSince # None /\ sustained = Aged(aboveSince, in.elapsed)
        BY <4>1, <4>3 DEF Running
      <4>5. aboveSince \in Age /\ sinceLow[level] \in Age /\ aboveSince <= sinceLow[level]
        BY <4>2, <4>4, AgeIsNumber DEF LevelInv, TypeOK, LevelHistoryTypeOK, RecoveryTimerInv
      <4>6. ~NoReasonToLeave(level, in)
        BY <3>5, <4>1, <4>3 DEF NoReasonToLeave
      <4>7. sinceLow'[level] = Aged(sinceLow[level], in.elapsed)
        BY <2>1, <3>1, <4>1, <4>2, <4>6 DEF RecordLevel, Level, Normal, Red
      <4>8. /\ sustained <= sinceLow'[level]
            /\ sustained \in Age /\ sinceLow'[level] \in Age
        BY <4>3, <4>4, <4>5, <4>7, AgeOrder
      <4>9. QED BY <4>1, <4>3, <4>8 DEF Age
    <3>6. QED BY <3>1, <3>2, <3>3, <3>4, <3>5 DEF Sample, UpdateLevel
  <2>3. CASE SetConfig /\ UNCHANGED levelHistory
    BY <2>1, <2>3 DEF SetConfig, levelVars, Level, Normal, Red
  <2>4. QED BY <2>2, <2>3 DEF LevelNext
<1>2. QED BY <1>1, LevelInvariant, PTL DEF LevelSpec, RecoveryIsEarned

(* Once an alert stood at night the night lock holds at least Blue until the  *)
(* night is over, if the lock is not switched on or off meanwhile.            *)
THEOREM NightFloorHolds ==
  ASSUME \A c, d \in Configs : c.nightLock = d.nightLock
  PROVE  LevelSpec => []NightFloor
<1>1. LevelInit => NightInv
  BY DEF LevelInit, Init, NightInv
<1>2. LevelInv /\ NightInv /\ [LevelNext]_lvars => NightInv'
  <2> SUFFICES ASSUME LevelInv, NightInv, [LevelNext]_lvars PROVE NightInv'
    OBVIOUS
  <2>1. level \in Level /\ config \in Configs
    BY DEF LevelInv, TypeOK
  <2>2. CASE LevelSample
    <3>1. PICK in \in Inputs : Sample(in) /\ RecordLevel(in)
      BY <2>2 DEF LevelSample
    <3> SUFFICES ASSUME config'.nightLock
                 PROVE  (nightAlert' => nightArmed') /\ (nightArmed' => level' # Normal)
      BY DEF NightInv
    <3>2. config.nightLock /\ (nightAlert => nightArmed) /\ (nightArmed => level # Normal)
      BY <3>1 DEF Sample, NightInv
    <3>3. nightAlert' => nightArmed'
      BY <3>1, <3>2 DEF Sample, RecordLevel, UpdateNightArmed
    <3>4. ASSUME nightArmed', level' = Normal PROVE FALSE
      <4>1. nightArmed /\ IsNight(in.minute) /\ level # Normal
        BY <3>1, <3>2, <3>4 DEF Sample, UpdateNightArmed
      <4>2. CASE FreezeLevel(in)
        BY <3>4, <4>1, <4>2 DEF FreezeLevel
      <4>3. CASE Escalate(in)
        BY <3>4, <4>3 DEF Escalate, DwellElapsed, AlertLevel, Normal, Blue, Red
      <4>4. CASE StayAtLevel(in)
        BY <3>4, <4>1, <4>4 DEF StayAtLevel
      <4>5. CASE Recover(in)
        <5>1. level = Blue /\ ~HeldByNight(in)
          BY <2>1, <3>4, <4>1, <4>5 DEF Recover, Level, Normal, Blue, Red
        <5>2. QED BY <3>2, <4>1, <5>1 DEF HeldByNight
      <4>6. QED BY <3>1, <4>2, <4>3, <4>4, <4>5 DEF Sample, UpdateLevel
    <3>5. QED BY <3>3, <3>4
  <2>3. CASE SetConfig /\ UNCHANGED levelHistory
    <3>1. config'.nightLock = config.nightLock
      BY <2>1, <2>3 DEF SetConfig
    <3>2. QED BY <2>3, <3>1 DEF SetConfig, levelHistory, levelVars, NightInv
  <2>4. CASE UNCHANGED lvars
    BY <2>4 DEF lvars, vars, levelHistory, levelVars, NightInv
  <2>5. QED BY <2>2, <2>3, <2>4 DEF LevelNext
<1>3. NightInv => NightFloor
  BY DEF NightInv, NightFloor
<1>4. QED BY <1>1, <1>2, <1>3, LevelInvariant, PTL DEF LevelSpec

-----------------------------------------------------------------------------
(* The alarm: what silences and suspends it. *)

\* A pressed ack that still runs covers only what stood when it was pressed.
AckInv ==
  /\ ackLeft > 0 /\ ackByHand => level <= ackedLevel /\ (fault => ackedFault)
  /\ out.silenced /\ ackByHand => ackLeft > 0
  /\ ackLeft > 0 => out.silenced

\* The day's timer runs only while the alarm sounds, and no longer than it has.
SoundingInv == soundingSince # None => out.sound /\ soundingSince <= sounded

AlarmInv ==
  /\ TypeOK
  /\ AlarmHistoryTypeOK
  /\ AckInv
  /\ SuspendCoversWhatStood
  /\ SoundingInv

LEMMA AckInvStep ==
  ASSUME AlarmInv, NEW in \in Inputs, Sample(in), RecordAlarm(in)
  PROVE  AckInv'
<1>1. SampleContext(in)
  BY SampleContextHolds DEF AlarmInv
<1>2. /\ level \in Level /\ fault \in BOOLEAN /\ ackLeft \in Nat /\ ackByHand \in BOOLEAN
      /\ in.elapsed \in Nat /\ config.ackSilence \in Nat
  BY <1>1 DEF SampleContext, TypeOK, Input, Config
<1>3. level' \in Level /\ fault' \in BOOLEAN
  BY <1>1, LevelType, FaultType DEF Sample
<1>4. out'.silenced = Silenced(in)
  BY DEF Sample, UpdateOutput
<1>5. CASE AutoAcks(in)
  BY <1>4, <1>5 DEF Sample, UpdateAck, AckInv, Silenced
<1>6. CASE ~AutoAcks(in)
  <2>1. /\ ackLeft' = AckHeld(in)
        /\ out'.silenced <=> AckHeld(in) > 0
        /\ ackByHand' => AckTaken(in) \/ ackByHand
    BY <1>4, <1>6 DEF Sample, UpdateAck, Silenced
  <2>2. ASSUME ackLeft' > 0, ackByHand'
        PROVE  level' <= ackedLevel' /\ (fault' => ackedFault')
    <3>1. ~Rearmed
      BY <2>1, <2>2 DEF AckHeld
    <3>2. level' <= level /\ (fault' => fault)
      BY <3>1, <1>2, <1>3 DEF Rearmed, Level, Normal, Red
    <3>3. CASE AckTaken(in)
      BY <3>2, <3>3 DEF RecordAlarm
    <3>4. CASE ~AckTaken(in)
      <4>1. ackByHand /\ ~in.ack
        BY <2>1, <2>2, <3>1, <3>4 DEF AckTaken
      <4>2. ackLeft > 0
        BY <1>2, <2>1, <2>2, <3>1, <4>1 DEF AckHeld, Left
      <4>3. level <= ackedLevel /\ (fault => ackedFault)
        BY <4>1, <4>2 DEF AlarmInv, AckInv
      <4>4. ackedLevel' = ackedLevel /\ ackedFault' = ackedFault
        BY <3>4 DEF RecordAlarm
      <4>5. ackedLevel \in Level
        BY DEF AlarmInv, AlarmHistoryTypeOK
      <4>6. QED BY <3>2, <4>3, <4>4, <4>5, <1>2, <1>3 DEF Level, Normal, Red
    <3>5. QED BY <3>3, <3>4
  <2>3. QED BY <2>1, <2>2 DEF AckInv
<1>7. QED BY <1>5, <1>6

LEMMA SuspendStep ==
  ASSUME AlarmInv, NEW in \in Inputs, Sample(in), RecordAlarm(in)
  PROVE  SuspendCoversWhatStood'
<1>1. SampleContext(in)
  BY SampleContextHolds DEF AlarmInv
<1>2. /\ level \in Level /\ suspendedLevel \in Level /\ suspendLeft \in Nat /\ in.elapsed \in Nat
  BY <1>1, DurationConstants DEF SampleContext, TypeOK, Input, AlarmInv, AlarmHistoryTypeOK
<1>3. level' \in Level /\ fault' \in BOOLEAN
  BY <1>1, LevelType, FaultType DEF Sample
<1> SUFFICES ASSUME suspendLeft' > 0
             PROVE  /\ Normal < level' /\ level' <= suspendedLevel'
                    /\ ~fault'
                    /\ ~out'.sound
  BY DEF SuspendCoversWhatStood
<1>4. ~out'.sound
  <2>1. suspendLeft' # 0
    BY <1>1, SuspensionType, DurationConstants DEF Sample
  <2>2. ~Alarm(in)
    BY <2>1 DEF Alarm
  <2>3. QED BY <2>2 DEF Sample, UpdateOutput
<1>5. CASE SuspendFor(in) > 0 /\ ~fault' /\ level' # Normal /\ level' <= level
  BY <1>2, <1>3, <1>4, <1>5 DEF RecordAlarm, Level, Normal, Red
<1>6. CASE ~(SuspendFor(in) > 0 /\ ~fault' /\ level' # Normal /\ level' <= level)
  <2>1. suspendLeft # 0 /\ ~Resumes(in)
    BY <1>6 DEF Sample, UpdateSuspension
  <2>2. ~fault' /\ level' # Normal /\ ~(level' > level)
    BY <2>1 DEF Resumes
  <2>3. level' <= level
    BY <2>2, <1>2, <1>3 DEF Level, Normal, Red
  <2>4. suspendedLevel' = suspendedLevel
    BY <1>6, <2>2, <2>3 DEF RecordAlarm
  <2>5. level <= suspendedLevel
    BY <2>1, <1>2 DEF AlarmInv, SuspendCoversWhatStood
  <2>6. QED BY <1>2, <1>3, <1>4, <2>2, <2>3, <2>4, <2>5 DEF Level, Normal, Red
<1>7. QED BY <1>5, <1>6

\* An automatic ack finds the alarm sounding, for at least the timer's age.
LEMMA AutoAckSounded ==
  ASSUME AlarmInv, NEW in \in Inputs, Sample(in), RecordAlarm(in), soundingSince # None
  PROVE  /\ Aged(soundingSince, in.elapsed) <= sounded'
         /\ Aged(soundingSince, in.elapsed) \in Age /\ sounded' \in Age
<1>1. in.elapsed \in Nat /\ soundingSince \in Age /\ sounded \in Age
  BY InputsAreTyped DEF AlarmInv, TypeOK, AlarmHistoryTypeOK, OptionalAge, Input
<1>2. out.sound /\ soundingSince <= sounded
  BY DEF AlarmInv, SoundingInv
<1>3. sounded' = Aged(sounded, in.elapsed)
  BY <1>2 DEF RecordAlarm, SoundedBefore
<1>4. soundingSince <= soundingSince
  BY <1>1 DEF Age
<1>5. QED BY <1>1, <1>2, <1>3, <1>4, AgeOrder

LEMMA SoundingStep ==
  ASSUME AlarmInv, NEW in \in Inputs, Sample(in), RecordAlarm(in)
  PROVE  SoundingInv'
<1> SUFFICES ASSUME soundingSince' # None
             PROVE  out'.sound /\ soundingSince' <= sounded'
  BY DEF SoundingInv
<1>1. TimedByDay(in) /\ ~AutoAcks(in)
  BY DEF Sample, UpdateAck
<1>2. out'.sound
  <2>1. ~Silenced(in)
    BY <1>1 DEF TimedByDay, Silenced
  <2>2. Alarm(in) /\ ~Suppressed(in)
    BY <1>1 DEF TimedByDay, Suppressed
  <2>3. QED BY <2>1, <2>2 DEF Sample, UpdateOutput
<1>3. soundingSince' = Running(soundingSince, in.elapsed)
  BY <1>1 DEF Sample, UpdateAck
<1>4. CASE soundingSince = None
  <2>1. soundingSince' = 0
    BY <1>3, <1>4 DEF Running
  <2>2. sounded \in Age /\ in.elapsed \in Nat
    BY InputsAreTyped DEF AlarmInv, AlarmHistoryTypeOK, Input
  <2>3. sounded <= sounded /\ 0 \in Age
    BY <2>2, CapsArePositive DEF Age
  <2>4. sounded' \in Age
    BY <2>2, <2>3, AgeOrder DEF RecordAlarm, SoundedBefore
  <2>5. QED BY <1>2, <2>1, <2>4 DEF Age
<1>5. CASE soundingSince # None
  BY <1>2, <1>3, <1>5, AutoAckSounded DEF Running
<1>6. QED BY <1>4, <1>5

LEMMA AlarmHistoryStep ==
  ASSUME AlarmInv, NEW in \in Inputs, Sample(in), RecordAlarm(in)
  PROVE  AlarmHistoryTypeOK'
<1>1. /\ level \in Level /\ fault \in BOOLEAN /\ in.elapsed \in Nat /\ AlarmHistoryTypeOK
  BY InputsAreTyped DEF AlarmInv, TypeOK, Input
<1>2. 0 \in Age /\ \A a \in Age : a <= a
  BY CapsArePositive DEF Age
<1>3. \A a \in Age : SoundedBefore(a, in) \in Age
  BY <1>1, <1>2, AgeOrder DEF SoundedBefore
<1>4. QED BY <1>1, <1>2, <1>3 DEF RecordAlarm, AlarmHistoryTypeOK

LEMMA AlarmInvariant == AlarmSpec => []AlarmInv
<1>1. AlarmInit => AlarmInv
  <2> SUFFICES ASSUME AlarmInit PROVE AlarmInv
    OBVIOUS
  <2>1. TypeOK
    BY InitType DEF AlarmInit
  <2>2. 0 \in Age /\ Normal \in Level
    BY CapsArePositive DEF Age, Level, Normal, Red
  <2>3. AlarmHistoryTypeOK
    BY <2>2 DEF AlarmInit, AlarmHistoryTypeOK
  <2>4. ackLeft = 0 /\ ~out.silenced /\ soundingSince = None /\ suspendLeft = 0 /\ ~ackByHand
    BY DEF AlarmInit, Init
  <2>5. QED
    BY <2>1, <2>3, <2>4 DEF AlarmInv, AckInv, SuspendCoversWhatStood, SoundingInv
<1>2. AlarmInv /\ [AlarmNext]_avars => AlarmInv'
  <2> SUFFICES ASSUME AlarmInv, [AlarmNext]_avars PROVE AlarmInv'
    OBVIOUS
  <2>1. CASE AlarmSample
    <3>1. PICK in \in Inputs : Sample(in) /\ RecordAlarm(in)
      BY <2>1 DEF AlarmSample
    <3>2. TypeOK'
      BY <3>1, SampleKeepsType DEF AlarmInv
    <3>3. QED
      BY <3>1, <3>2, AckInvStep, SuspendStep, SoundingStep, AlarmHistoryStep DEF AlarmInv
  <2>2. CASE SetConfig /\ UNCHANGED alarmHistory
    <3>1. TypeOK'
      BY <2>2, NextKeepsType DEF Next, AlarmInv
    <3>2. QED
      BY <2>2, <3>1
      DEF SetConfig, alarmHistory, levelVars, alarmVars, AlarmInv, AlarmHistoryTypeOK, AckInv,
          SuspendCoversWhatStood, SoundingInv
  <2>3. CASE UNCHANGED avars
    <3>1. TypeOK'
      BY <2>3, NextKeepsType DEF avars, AlarmInv
    <3>2. QED
      BY <2>3, <3>1
      DEF avars, vars, alarmHistory, levelVars, alarmVars, AlarmInv, AlarmHistoryTypeOK, AckInv,
          SuspendCoversWhatStood, SoundingInv
  <2>4. QED BY <2>1, <2>2, <2>3 DEF AlarmNext
<1>3. QED BY <1>1, <1>2, PTL DEF AlarmSpec

(* A pressed ack never silences a deeper level or a FAULT that came after it. *)
THEOREM AckCovers == AlarmSpec => []AckCoversWhatStood
<1>1. AlarmInv => AckCoversWhatStood
  BY DEF AlarmInv, AckInv, AckCoversWhatStood
<1>2. QED BY <1>1, AlarmInvariant, PTL

(* A suspend covers only the alert it was given in, and is silent.            *)
THEOREM SuspendCovers == AlarmSpec => []SuspendCoversWhatStood
<1>1. AlarmInv => SuspendCoversWhatStood
  BY DEF AlarmInv
<1>2. QED BY <1>1, AlarmInvariant, PTL

(* The day's automatic ack is taken only from an alarm that has sounded for   *)
(* DAY_ACK_AFTER_S without a break.                                           *)
THEOREM AutoAckIsEarned == AlarmSpec => AutoAckFollowsSounding
<1> DEFINE Step == out'.silenced /\ ~out.silenced /\ ~ackByHand' => sounded' >= DayAckAfter
<1>1. AlarmInv /\ [AlarmNext]_avars => [Step]_avars
  <2> SUFFICES ASSUME AlarmInv, AlarmNext, out'.silenced, ~out.silenced, ~ackByHand'
               PROVE  sounded' >= DayAckAfter
    OBVIOUS
  <2>1. CASE AlarmSample
    <3>1. PICK in \in Inputs : Sample(in) /\ RecordAlarm(in)
      BY <2>1 DEF AlarmSample
    <3>2. AutoAcks(in)
      <4> SUFFICES ASSUME ~AutoAcks(in) PROVE FALSE
        OBVIOUS
      <4>1. AckHeld(in) > 0 /\ ~AckTaken(in)
        BY <3>1 DEF Sample, UpdateOutput, UpdateAck, Silenced
      <4>2. ~Rearmed /\ ~in.ack
        BY <4>1 DEF AckHeld, AckTaken
      <4>3. ackLeft \in Nat /\ in.elapsed \in Nat
        BY InputsAreTyped DEF AlarmInv, TypeOK, Input
      <4>4. ackLeft > 0
        BY <4>1, <4>2, <4>3 DEF AckHeld, Left
      <4>5. QED BY <4>4 DEF AlarmInv, AckInv
    <3>3. soundingSince # None /\ Aged(soundingSince, in.elapsed) >= DayAckAfter
      BY <3>2 DEF AutoAcks
    <3>4. QED BY <3>1, <3>3, AutoAckSounded, DurationConstants DEF Age
  <2>2. CASE SetConfig /\ UNCHANGED alarmHistory
    BY <2>2 DEF SetConfig
  <2>3. QED BY <2>1, <2>2 DEF AlarmNext
<1>2. QED BY <1>1, AlarmInvariant, PTL DEF AlarmSpec, AutoAckFollowsSounding

-----------------------------------------------------------------------------
(* The pulse devices. *)

\* The code's pulse state against what was put out: a running pulse is a device that is off, the
\* last start is the last cut, and a level that was seen inactive since is not an old activation.
PulseInv ==
  \A d \in Devices :
    /\ pulse[d].active <=> offFor[d] # None
    /\ offFor[d] # None => offFor[d] = pulse[d].lastStart
    /\ sinceCut[d] = pulse[d].lastStart
    /\ ~pulse[d].wasActive => rested[d]
    /\ ~PulseDevice(d) => ~pulse[d].active

\* What a sample does to one pulse device.
LEMMA PulseMoves ==
  ASSUME TypeOK, PulseInv, NEW in \in Inputs, Sample(in), NEW d \in Devices, PulseDevice(d)
  PROVE  /\ out'.on[d] <=> ~pulse'[d].active
         /\ pulse'[d].wasActive = Active(d)
         /\ IsCut(d) <=> PulseStarts(d, in)
         /\ pulse'[d].lastStart = IF PulseStarts(d, in) THEN 0
                                  ELSE Aged(pulse[d].lastStart, in.elapsed)
         /\ pulse'[d].active => /\ PulseStarts(d, in) \/ pulse[d].active
                               /\ pulse'[d].lastStart < config.pulse
<1> DEFINE start == IF PulseStarts(d, in) THEN 0 ELSE Aged(pulse[d].lastStart, in.elapsed)
<1>1. pulse'[d] = [active    |-> /\ PulseStarts(d, in) \/ pulse[d].active
                                 /\ start # None /\ start < config.pulse,
                   wasActive |-> Active(d),
                   lastStart |-> start]
  BY DEF Sample, UpdatePulse, PulseDevice
<1>2. /\ pulse'[d].active <=> (/\ PulseStarts(d, in) \/ pulse[d].active
                               /\ start # None /\ start < config.pulse)
      /\ pulse'[d].wasActive = Active(d)
      /\ pulse'[d].lastStart = start
  BY <1>1
<1>3. out'.on[d] <=> ~pulse'[d].active
  BY DEF Sample, UpdateOutput, DeviceOn, PulseDevice
<1>4. PulseStarts(d, in) => pulse'[d].active
  <2>1. config.pulse \in Nat \ {0}
    BY SampleContextHolds DEF SampleContext, Config
  <2>2. QED BY <1>2, <2>1, NoneIsNoNumber
<1>5. PulseStarts(d, in) => offFor[d] = None
  BY DEF PulseStarts, PulseInv
<1>6. IsCut(d) => PulseStarts(d, in)
  BY <1>2, <1>3 DEF IsCut, PulseInv
<1>7. QED BY <1>2, <1>3, <1>4, <1>5, <1>6 DEF IsCut

LEMMA PulseInvStep ==
  ASSUME TypeOK, PulseInv, NEW in \in Inputs, Sample(in), RecordPulse(in)
  PROVE  PulseInv'
<1> SUFFICES ASSUME NEW d \in Devices
             PROVE  /\ pulse'[d].active <=> offFor'[d] # None
                    /\ offFor'[d] # None => offFor'[d] = pulse'[d].lastStart
                    /\ sinceCut'[d] = pulse'[d].lastStart
                    /\ ~pulse'[d].wasActive => rested'[d]
                    /\ ~PulseDevice(d) => ~pulse'[d].active
  BY DEF PulseInv, PulseDevice, Sample
<1>1. /\ pulse[d].active <=> offFor[d] # None
      /\ offFor[d] # None => offFor[d] = pulse[d].lastStart
      /\ sinceCut[d] = pulse[d].lastStart
      /\ ~pulse[d].wasActive => rested[d]
  BY DEF PulseInv
<1>2. /\ offFor'[d] = IF PulseDevice(d) /\ ~out'.on[d] THEN Running(offFor[d], in.elapsed) ELSE None
      /\ sinceCut'[d] = IF IsCut(d) THEN 0 ELSE Aged(sinceCut[d], in.elapsed)
      /\ rested'[d] <=> ~IsCut(d) /\ (rested[d] \/ ~Active(d))
  BY DEF RecordPulse
<1>3. CASE PulseDevice(d)
  <2>1. /\ sinceCut'[d] = pulse'[d].lastStart
        /\ pulse'[d].wasActive = Active(d)
    BY <1>1, <1>2, <1>3, PulseMoves
  <2>2. ~pulse'[d].wasActive => rested'[d]
    BY <1>2, <1>3, <2>1, PulseMoves DEF PulseStarts
  <2>3. CASE out'.on[d]
    BY <1>2, <1>3, <2>1, <2>2, <2>3, PulseMoves
  <2>4. CASE ~out'.on[d] /\ PulseStarts(d, in)
    <3>1. offFor[d] = None /\ pulse'[d].lastStart = 0 /\ pulse'[d].active
      BY <1>3, <2>4, PulseMoves DEF IsCut
    <3>2. offFor'[d] = 0
      BY <1>2, <1>3, <2>4, <3>1 DEF Running
    <3>3. 0 # None
      BY NoneIsNoNumber
    <3>4. pulse'[d].wasActive
      BY <1>3, <2>4, PulseMoves DEF PulseStarts
    <3>5. QED BY <1>3, <2>1, <2>2, <3>1, <3>2, <3>3, <3>4
  <2>5. CASE ~out'.on[d] /\ ~PulseStarts(d, in)
    <3>1. pulse'[d].active /\ pulse[d].active
      BY <1>3, <2>5, PulseMoves
    <3>2. offFor[d] # None /\ offFor[d] = pulse[d].lastStart
      BY <1>1, <3>1
    <3>3. /\ offFor'[d] = Aged(offFor[d], in.elapsed)
          /\ pulse'[d].lastStart = Aged(pulse[d].lastStart, in.elapsed)
      BY <1>2, <1>3, <2>5, <3>2, PulseMoves DEF Running
    <3>4. offFor'[d] # None
      <4>1. pulse[d].lastStart \in OptionalAge /\ in.elapsed \in Nat
        BY InputsAreTyped DEF TypeOK, PulseState, Input
      <4>2. Aged(offFor[d], in.elapsed) \in Age
        BY <3>2, <4>1, AgedType
      <4>3. QED BY <3>3, <4>2, NoneIsNoNumber DEF Age
    <3>5. QED BY <1>3, <2>1, <2>2, <2>5, <3>1, <3>2, <3>3, <3>4
  <2>6. QED BY <2>3, <2>4, <2>5, <1>3, PulseMoves
<1>4. CASE ~PulseDevice(d)
  <2>1. ~PulseStarts(d, in) /\ ~IsCut(d)
    BY <1>4 DEF PulseStarts, IsCut, PulseDevice
  <2>2. pulse'[d] = [pulse[d] EXCEPT !.lastStart = Aged(pulse[d].lastStart, in.elapsed)]
    BY <1>4, <2>1 DEF Sample, UpdatePulse, PulseDevice
  <2>3. /\ pulse'[d].active = pulse[d].active
        /\ pulse'[d].wasActive = pulse[d].wasActive
        /\ pulse'[d].lastStart = Aged(pulse[d].lastStart, in.elapsed)
    BY <2>2 DEF TypeOK, PulseState
  <2>4. ~pulse[d].active /\ offFor[d] = None
    BY <1>1, <1>4 DEF PulseInv
  <2>5. QED BY <1>1, <1>2, <1>4, <2>1, <2>3, <2>4
<1>5. QED BY <1>3, <1>4

(* A pulse device is cut once per activation of its level and briefly, if no  *)
(* configuration turns a device into a pulse device or back.                  *)
THEOREM PumpStaysSpared ==
  ASSUME \A c, e \in Configs : \A d \in Devices : c.devices[d].mode = e.devices[d].mode
  PROVE  PulseSpec => PumpIsSpared
<1> DEFINE Inv == TypeOK /\ PulseInv
           Step == \A in \in Inputs : Sample(in) => \A d \in Devices : IsBrief(d)' /\ IsRare(d, in)
<1>1. PulseInit => Inv
  <2> SUFFICES ASSUME PulseInit PROVE TypeOK /\ PulseInv
    OBVIOUS
  <2>1. TypeOK
    BY InitType DEF PulseInit
  <2>2. ASSUME NEW d \in Devices
        PROVE  /\ offFor[d] = None /\ sinceCut[d] = None /\ rested[d]
               /\ ~pulse[d].active /\ pulse[d].lastStart = None
    <3>1. pulse[d] = [active |-> FALSE, wasActive |-> FALSE, lastStart |-> None]
      BY DEF PulseInit, Init
    <3>2. QED BY <3>1 DEF PulseInit
  <2>3. QED BY <2>1, <2>2 DEF PulseInv
<1>2. Inv /\ [PulseNext]_pvars => Inv'
  <2> SUFFICES ASSUME Inv, [PulseNext]_pvars PROVE Inv'
    OBVIOUS
  <2>1. CASE PulseSample
    <3>1. PICK in \in Inputs : Sample(in) /\ RecordPulse(in)
      BY <2>1 DEF PulseSample, Ticks
    <3>2. QED BY <3>1, SampleKeepsType, PulseInvStep
  <2>2. CASE SetConfig /\ UNCHANGED pulseHistory
    <3>1. \A d \in Devices : PulseDevice(d)' <=> PulseDevice(d)
      BY <2>2 DEF SetConfig, TypeOK, PulseDevice
    <3>2. PulseInv'
      BY <2>2, <3>1 DEF SetConfig, pulseHistory, PulseInv
    <3>3. QED BY <2>2, <3>2, NextKeepsType DEF Next
  <2>3. CASE UNCHANGED pvars
    <3>1. TypeOK'
      BY <2>3, NextKeepsType DEF pvars
    <3>2. QED BY <2>3, <3>1 DEF pvars, vars, pulseHistory, PulseInv, PulseDevice
  <2>4. QED BY <2>1, <2>2, <2>3 DEF PulseNext
<1>3. Inv /\ Inv' => Step
  <2> SUFFICES ASSUME Inv, Inv', NEW in \in Inputs, Sample(in), NEW d \in Devices
               PROVE  IsBrief(d)' /\ IsRare(d, in)
    OBVIOUS
  <2>1. IsBrief(d)'
    <3> SUFFICES ASSUME offFor'[d] # None PROVE offFor'[d] < config'.pulse
      BY DEF IsBrief
    <3>1. pulse'[d].active /\ offFor'[d] = pulse'[d].lastStart
      BY DEF PulseInv
    <3>2. config' = config
      BY DEF Sample
    <3>3. PulseDevice(d)
      BY <3>1, <3>2 DEF PulseInv, PulseDevice
    <3>4. QED BY <3>1, <3>2, <3>3, PulseMoves
  <2>2. IsRare(d, in)
    <3> SUFFICES ASSUME IsCut(d)
                 PROVE  /\ rested[d]
                        /\ \/ sinceCut[d] = None
                           \/ Aged(sinceCut[d], in.elapsed) >= config.pulseMinInterval
                        /\ ~fault' /\ ~in.maintenance
      BY DEF IsRare
    <3>1. PulseStarts(d, in)
      BY PulseMoves DEF IsCut
    <3>2. QED BY <3>1 DEF PulseStarts, PulseInv
  <2>3. QED BY <2>1, <2>2
<1>4. Inv /\ Inv' => [Step]_pvars
  BY <1>3
<1>5. QED BY <1>1, <1>2, <1>4, PTL DEF PulseSpec, PumpIsSpared
=============================================================================
