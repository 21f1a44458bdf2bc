----------------------------- MODULE MCSchedule -----------------------------
(* The schedule of the self test over days of a few samples, with a window   *)
(* of three of them, which the run of one device just fits: a clock that     *)
(* runs, gets lost and is set, headroom or none, skips, run now, reboots and *)
(* a configuration that stops judging.                                       *)
EXTENDS ScheduleHistory, SelfTestValues

ScheduleConfigs ==
  LET one == [BaseConfig EXCEPT !.windowStart = 1, !.windowEnd = 4, !.deficit = 1,
                                !.test = [d \in Slots |-> 1], !.minResponse = [d \in Slots |-> 0]]
  IN {one, [one EXCEPT !.tail = 0, !.exclusive = FALSE]}

\* Samples that know the time (whatever it is), and samples that do not.
TimedInputs ==
  LET base == [BaseInput EXCEPT !.local = At(0, 0)]
  IN {[base EXCEPT !.reading = r] : r \in {Read(FALSE, TRUE, 0, 1), Read(TRUE, FALSE, 0, 1)}}
     \cup {base, [base EXCEPT !.alert = TRUE], [base EXCEPT !.maintenance = TRUE],
           [base EXCEPT !.runNow = TRUE]}

ScheduleInputs ==
  TimedInputs
  \cup {[i EXCEPT !.local = None] : i \in {j \in TimedInputs : ~j.runNow /\ ~j.maintenance}}
=============================================================================
