----------------------------- MODULE MCDevices ------------------------------
(* Who decides on a device: an aerator of level Yellow and a wave pump, both *)
(* tested, with windows, a boost, an induced deficit, a relay each that the  *)
(* next configuration exchanges, a hand on the aerator and device            *)
(* maintenance.                                                              *)
EXTENDS DeviceHistory

Aerator == 0
Pump == 1

PerDevice(a, b) == [d \in Slots |-> IF d = Aerator THEN a ELSE b]

OnRelay(n, nc) == [channel |-> n, nc |-> nc]

BaseConfig ==
  [ladder  |-> [faultLevel |-> Yellow, dayAlarm |-> "Sound",
                devices |-> PerDevice([trigger |-> Yellow, mode |-> "On", ackSilences |-> FALSE],
                                      [trigger |-> Normal, mode |-> "On", ackSilences |-> FALSE])],
   test    |-> [exclusive |-> TRUE, deficit |-> 1, deficitDevice |-> Aerator, test |-> PerDevice(1, 1)],
   boost   |-> [enabled |-> TRUE, start |-> 0, end |-> 1, target |-> 1, hold |-> 2, devices |-> {Pump}],
   windows |-> PerDevice({1}, {}),
   relay   |-> PerDevice(OnRelay(1, FALSE), OnRelay(2, TRUE)),
   restart |-> None]

DeviceConfigs ==
  {BaseConfig,
   [BaseConfig EXCEPT !.test.exclusive = FALSE, !.relay = PerDevice(OnRelay(2, FALSE), OnRelay(1, TRUE)),
                      !.ladder.devices[Pump] = [trigger |-> Yellow, mode |-> "PulseOff", ackSilences |-> FALSE]]}

At(day, minute) == [day |-> day, minute |-> minute]
DeviceClocks == {None, At(0, 0), At(0, 1)}
=============================================================================
