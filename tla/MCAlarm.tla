------------------------------ MODULE MCAlarm -------------------------------
(* The ladder's alarm: acks, suspends, maintenance, FAULTs and the day's     *)
(* three ways of sounding, with a pump and a siren; levels come quickly.     *)
EXTENDS AlarmHistory, LadderValues

CONSTANTS Pump, Siren

DevicesOf == [d \in Devices |->
  IF d = Pump THEN [NoDevice EXCEPT !.trigger = Yellow]
  ELSE [NoDevice EXCEPT !.trigger = Blue, !.ackSilences = TRUE]]

AlarmConfigs ==
  {[BaseConfig EXCEPT !.dwell = PerLevel(1, 0, 0), !.recoverSustain = 1, !.ackSilence = 2,
                      !.faultFailures = 1, !.faultLevel = Yellow, !.dayAlarm = d,
                      !.pulseMinInterval = 1, !.devices = DevicesOf] :
     d \in {"AutoAck", "Suppress"}}

\* What may be pressed before one sample: nothing, one thing, or an ack in maintenance.
Quiet == [ack |-> FALSE, suspend |-> None, maintenance |-> FALSE]
Presses ==
  {Quiet, [Quiet EXCEPT !.ack = TRUE], [Quiet EXCEPT !.maintenance = TRUE],
   [Quiet EXCEPT !.ack = TRUE, !.maintenance = TRUE],
   [Quiet EXCEPT !.suspend = 0], [Quiet EXCEPT !.suspend = 2], [Quiet EXCEPT !.suspend = 3]}

AlarmInputs ==
  {[BaseInput EXCEPT !.reading = r, !.minute = t, !.ack = p.ack, !.suspend = p.suspend,
                     !.maintenance = p.maintenance] :
     r \in {0, 3, 12, None}, t \in {Noon, Midnight}, p \in Presses}
=============================================================================
