------------------------------ MODULE MCPulse -------------------------------
(* Two pulse devices, one cut at Blue and one at Red, over levels that come  *)
(* and go, FAULTs that drive the devices, suspends and maintenance.          *)
EXTENDS PulseHistory, LadderValues

CONSTANTS Pump, Siren

\* A pump, and a device of level Yellow that is a siren or not.
PumpAt(l, siren) == [d \in Devices |->
  IF d = Pump THEN [NoDevice EXCEPT !.mode = "PulseOff", !.trigger = l]
  ELSE [NoDevice EXCEPT !.trigger = Yellow, !.ackSilences = siren]]

PulseConfigs ==
  LET base == [BaseConfig EXCEPT !.dwell = PerLevel(1, 0, 0), !.recoverSustain = 1, !.ackSilence = 1,
                                 !.suddenSlope = 2, !.suddenExtend = 1, !.nightLock = TRUE,
                                 !.dayAlarm = "AutoAck", !.faultFailures = 1,
                                 !.pulse = 2, !.pulseMinInterval = 3, !.devices = PumpAt(Blue, TRUE)]
  IN {base, [base EXCEPT !.dayAlarm = "Sound", !.faultFailures = 2,
                         !.pulseMinInterval = 1, !.devices = PumpAt(Red, FALSE)]}

PulseInputs ==
  {[BaseInput EXCEPT !.reading = r, !.minute = t] : r \in {0, 7, 12, None}, t \in {Noon, Midnight}}
  \cup {[BaseInput EXCEPT !.reading = 0, !.fastFall = 2], [BaseInput EXCEPT !.reading = 0, !.ack = TRUE],
        [BaseInput EXCEPT !.reading = 0, !.suspend = 1]}
  \cup {[BaseInput EXCEPT !.reading = r, !.maintenance = TRUE] : r \in {0, 12}}
=============================================================================
