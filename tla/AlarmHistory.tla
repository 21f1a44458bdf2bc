---------------------------- MODULE AlarmHistory ----------------------------
(***************************************************************************)
(* The ladder with history variables about its alarm: what stood when it    *)
(* was acknowledged or suspended, and for how long it has sounded.          *)
(***************************************************************************)
EXTENDS Ladder

VARIABLES
  ackedLevel, ackedFault,  \* what stood when the ack in effect was pressed
  suspendedLevel,          \* the level at which the suspend in effect was given
  sounded                  \* for how long the alarm has sounded without a break

alarmHistory == <<ackedLevel, ackedFault, suspendedLevel, sounded>>
avars == <<vars, alarmHistory>>

AlarmHistoryTypeOK ==
  /\ ackedLevel \in Level /\ ackedFault \in BOOLEAN
  /\ suspendedLevel \in Level
  /\ sounded \in Age

AlarmInit ==
  /\ Init
  /\ ackedLevel = Normal /\ ackedFault = FALSE
  /\ suspendedLevel = Normal
  /\ sounded = 0

\* How long the alarm of the last sample had sounded when this sample was taken.
SoundedBefore(age, in) == IF out.sound THEN Aged(age, in.elapsed) ELSE 0

RecordAlarm(in) ==
  /\ ackedLevel' = IF AckTaken(in) THEN level ELSE ackedLevel
  /\ ackedFault' = IF AckTaken(in) THEN fault ELSE ackedFault
  /\ suspendedLevel' = IF suspendLeft' > 0 /\ SuspendFor(in) > 0 THEN level ELSE suspendedLevel
  /\ sounded' = SoundedBefore(sounded, in)

AlarmSample == \E in \in Inputs : Sample(in) /\ RecordAlarm(in)

AlarmNext ==
  \/ AlarmSample
  \/ SetConfig /\ UNCHANGED alarmHistory

AlarmSpec == AlarmInit /\ [][AlarmNext]_avars

-----------------------------------------------------------------------------
(* A pressed ack silences only what stood when it was pressed: never a       *)
(* deeper level, and a FAULT only if there was one.  The re-arming in        *)
(* UpdateFault and UpdateLevel, and the ack Step drops.                      *)
AckCoversWhatStood ==
  out.silenced /\ ackByHand => level <= ackedLevel /\ (fault => ackedFault)

(* A suspend covers only the alert it was given in: not a deeper level, not  *)
(* a FAULT, not the quiet after the alert; and it is silent.                 *)
SuspendCoversWhatStood ==
  suspendLeft > 0 =>
    /\ Normal < level /\ level <= suspendedLevel
    /\ ~fault
    /\ ~out.sound

(* The day's automatic ack is taken only from an alarm that has sounded      *)
(* without a break for DAY_ACK_AFTER_S: no press, suspend, maintenance or    *)
(* night in between counts as sounding.                                      *)
AutoAckFollowsSounding ==
  [][out'.silenced /\ ~out.silenced /\ ~ackByHand' => sounded' >= DayAckAfter]_avars
=============================================================================
