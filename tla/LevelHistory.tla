---------------------------- MODULE LevelHistory ----------------------------
(***************************************************************************)
(* The ladder with history variables about its level: what the readings    *)
(* have been, told without the code's own timers, so that the properties    *)
(* below compare the level with the evidence and not with the timers.       *)
(***************************************************************************)
EXTENDS Ladder

VARIABLES
  sinceHigh,   \* per level: since a reading last was no reason to enter it
  sinceLow,    \* per level: since it was entered, a reading was no reason to leave it, or an outage
  nightAlert   \* an alert stood at some sample of this night

levelHistory == <<sinceHigh, sinceLow, nightAlert>>
lvars == <<vars, levelHistory>>

LevelHistoryTypeOK ==
  /\ sinceHigh \in [AlertLevel -> Age]
  /\ sinceLow \in [AlertLevel -> Age]
  /\ nightAlert \in BOOLEAN

LevelInit ==
  /\ Init
  /\ sinceHigh = [l \in AlertLevel |-> 0]
  /\ sinceLow = [l \in AlertLevel |-> 0]
  /\ nightAlert = FALSE

\* This sample is no reason to go as deep as l.
NoReasonToEnter(l, in) == in.reading # None /\ ~EntryCondition(l, in)

\* This sample is no reason to go shallower than l: too low, or too many failed reads in a row.
NoReasonToLeave(l, in) ==
  IF in.reading = None THEN consecutiveFailures' >= config.faultFailures
  ELSE in.reading <= config.mgl[l] + config.hysteresis[l]

RecordLevel(in) ==
  /\ sinceHigh' = [l \in AlertLevel |->
       IF NoReasonToEnter(l, in) THEN 0 ELSE Aged(sinceHigh[l], in.elapsed)]
  /\ sinceLow' = [l \in AlertLevel |->
       IF NoReasonToLeave(l, in) \/ (level' # level /\ level' = l) THEN 0
       ELSE Aged(sinceLow[l], in.elapsed)]
  /\ nightAlert' = (IsNight(in.minute) /\ (nightAlert \/ level' # Normal))

LevelSample == \E in \in Inputs : Sample(in) /\ RecordLevel(in)

LevelNext ==
  \/ LevelSample
  \/ SetConfig /\ UNCHANGED levelHistory

LevelSpec == LevelInit /\ [][LevelNext]_lvars

-----------------------------------------------------------------------------
(* The level goes deeper only on evidence: no reading since the dwell (and   *)
(* the extension of a sudden drop) was a reason not to be at that level.     *)
(* UpdateLevel's entry timers, which failed reads leave running.             *)
EscalationIsEarned ==
  [][level' > level => sinceHigh'[level'] >= ExtendedDwell(level')]_lvars

(* The level goes shallower one level at a time, each after a full sustained *)
(* time above its own exit threshold with no outage in it: neither the level *)
(* before nor the blind time counts.  UpdateLevel and UpdateFault share the  *)
(* recovery timer.                                                           *)
RecoveryIsEarned ==
  [][level' < level => /\ level' = level - 1
                       /\ sinceLow'[level] >= config.recoverSustain]_lvars

(* Once an alert stood at night the night lock holds at least Blue until     *)
(* the night is over, whatever the readings do.                              *)
NightFloor == config.nightLock /\ nightAlert => level # Normal
=============================================================================
