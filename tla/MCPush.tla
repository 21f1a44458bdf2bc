------------------------------- MODULE MCPush -------------------------------
(* Alerts on their way to the phones: all levels, FAULTs and automatic acks  *)
(* against acks, suspends by people who see an older level, maintenance and  *)
(* a device that may be out of order.                                        *)
EXTENDS PushHistory

PushConfigs ==
  {[ladder  |-> [faultLevel |-> Yellow, dayAlarm |-> "AutoAck",
                 devices |-> [d \in Slots |-> [trigger |-> Yellow, mode |-> "On", ackSilences |-> FALSE]]],
    test    |-> [exclusive |-> TRUE, deficit |-> 0, deficitDevice |-> 0, test |-> [d \in Slots |-> 0]],
    boost   |-> [enabled |-> FALSE, start |-> 0, end |-> 1, target |-> 1, hold |-> 1, devices |-> {}],
    windows |-> [d \in Slots |-> {}],
    relay   |-> [d \in Slots |-> None],
    restart |-> None]}
=============================================================================
