---------------------------- MODULE LadderValues ----------------------------
(***************************************************************************)
(* The values the model-checking runs of the ladder share.                  *)
(*                                                                         *)
(* The thresholds leave a reading in every band the code tells apart: 0 is  *)
(* below Red's entry, 3 below Yellow's and above Red's exit, 5 inside       *)
(* Yellow's band, 7 below Blue's entry and above Yellow's exit, 9 inside    *)
(* Blue's band and 12 above every threshold.                                *)
(***************************************************************************)
EXTENDS Ladder

PerLevel(b, y, r) == [l \in AlertLevel |-> IF l = Blue THEN b ELSE IF l = Yellow THEN y ELSE r]

NoDevice == [trigger |-> NoTrigger, mode |-> "On", ackSilences |-> FALSE]

BaseConfig ==
  [mgl |-> PerLevel(9, 5, 1), hysteresis |-> PerLevel(1, 1, 0), dwell |-> PerLevel(2, 1, 0),
   blueSlope |-> 0, suddenSlope |-> 0, suddenExtend |-> 0, recoverSustain |-> 2, ackSilence |-> 3,
   faultFailures |-> 2, faultAlert |-> TRUE, faultLevel |-> Red, pulse |-> 1, pulseMinInterval |-> 2,
   nightLock |-> FALSE, nightStart |-> 3, nightEnd |-> 1, unknownTimeIsNight |-> TRUE,
   dayAlarm |-> "Sound", devices |-> [d \in Devices |-> NoDevice]]

\* A calm sample by day, one unit after the last one.
BaseInput ==
  [reading |-> 12, fall |-> 0, fastFall |-> 0, elapsed |-> 1, minute |-> 2,
   ack |-> FALSE, suspend |-> None, maintenance |-> FALSE]

Noon == 2
Midnight == 0
AllReadings == {0, 3, 5, 7, 9, 12, None}
=============================================================================
