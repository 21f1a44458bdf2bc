------------------------------ MODULE MCLevel -------------------------------
(* The ladder's level: every band of readings, missed reads, a slope and a   *)
(* sudden drop, day, night and an unknown time; no commands.                 *)
EXTENDS LevelHistory, LadderValues

LevelConfigs ==
  LET base == [BaseConfig EXCEPT !.nightLock = TRUE, !.suddenSlope = 2, !.suddenExtend = 2,
                                 !.blueSlope = 1]
  IN {base, [base EXCEPT !.dwell = PerLevel(1, 2, 1), !.suddenSlope = 0, !.recoverSustain = 3]}

Moments == {[fall |-> 0, fastFall |-> 0, minute |-> Noon],
            [fall |-> 1, fastFall |-> 0, minute |-> Midnight],
            [fall |-> 0, fastFall |-> 2, minute |-> None]}

LevelInputs ==
  {[BaseInput EXCEPT !.reading = r, !.elapsed = e, !.fall = m.fall, !.fastFall = m.fastFall,
                     !.minute = m.minute] :
     r \in AllReadings, e \in {1, 2}, m \in Moments}
=============================================================================
