--------------------------- MODULE SelfTestValues ---------------------------
(***************************************************************************)
(* The values the model-checking runs of the self test share: two devices,   *)
(* the first of which must show less of a response than the second.          *)
(***************************************************************************)
EXTENDS SelfTest

PerDevice(a, b) == [d \in Slots |-> IF d = 0 THEN a ELSE b]

BaseConfig ==
  [windowStart |-> 1, windowEnd |-> 8, settle |-> 1, tail |-> 1, inconclusiveDays |-> 2,
   deficit |-> 0, deficitDevice |-> 0, exclusive |-> TRUE, noFailAbove |-> 2,
   test |-> PerDevice(2, 1), minResponse |-> PerDevice(1, 2)]

Read(room, known, rise, mgl) == [headroom |-> room, trend |-> known, rise |-> rise, mgl |-> mgl]

BaseInput ==
  [elapsed |-> 1, local |-> None, reading |-> Read(TRUE, TRUE, 0, 1), alert |-> FALSE, fault |-> FALSE,
   maintenance |-> FALSE, out |-> {}, runNow |-> FALSE, stray |-> 1]

At(day, minute) == [day |-> day, minute |-> minute]
=============================================================================
