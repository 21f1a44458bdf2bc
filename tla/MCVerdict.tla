----------------------------- MODULE MCVerdict ------------------------------
(* The runs of the self test: readings with and without headroom, trend and  *)
(* response, everything that disturbs a run, reboots, verdicts cleared, and  *)
(* configurations stored in the middle of a run.                             *)
EXTENDS VerdictHistory, SelfTestValues

\* Both devices stay tested, so that no run loses the device it is about to exercise.
TestedConfigs ==
  {BaseConfig,
   [BaseConfig EXCEPT !.deficit = 2, !.deficitDevice = NDevices - 1, !.test = PerDevice(1, 1)],
   [BaseConfig EXCEPT !.exclusive = FALSE]}

\* The devices' tests may be switched off while a run is in its deficit or between devices.
EmptiedConfigs ==
  {[BaseConfig EXCEPT !.deficit = 2],
   [BaseConfig EXCEPT !.test = PerDevice(0, 0)],
   [BaseConfig EXCEPT !.test = PerDevice(1, 0)]}

Readings ==
  {None, Read(TRUE, TRUE, 0, 1), Read(TRUE, TRUE, 1, 2), Read(TRUE, TRUE, 2, 1),
   Read(FALSE, TRUE, 0, 1), Read(TRUE, FALSE, 0, 1)}

RunInputs ==
  {[BaseInput EXCEPT !.reading = r, !.runNow = b] : r \in Readings, b \in BOOLEAN}
  \cup {[BaseInput EXCEPT !.alert = TRUE], [BaseInput EXCEPT !.fault = TRUE, !.reading = None],
        [BaseInput EXCEPT !.maintenance = TRUE, !.runNow = TRUE],
        [BaseInput EXCEPT !.out = {NDevices - 1}, !.runNow = TRUE]}
=============================================================================
