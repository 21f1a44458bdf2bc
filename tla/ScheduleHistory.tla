-------------------------- MODULE ScheduleHistory ---------------------------
(***************************************************************************)
(* The self test on a wall clock that runs, a sample a minute, day after     *)
(* day, with history variables about its scheduled runs.  Only whether the   *)
(* clock is known is up to the sample; tick tells two samples that leave     *)
(* everything else unchanged from no sample at all.                         *)
(***************************************************************************)
EXTENDS SelfTest

CONSTANT DayMinutes

ASSUME ClockConstants == Days = 0 .. 2 /\ DayMinutes \in Nat \ {0}

VARIABLES
  clock,        \* the day and the minute of the last sample
  tick,
  dayRun,       \* the day of the last scheduled run with a known clock, across reboots
  sinceRun,     \* since any run, the time a reboot takes left out
  repeated,     \* a scheduled run came a second time in its day
  hadHeadroom,  \* there was headroom to measure when this run's first device started
  unjudged      \* scheduled runs in a row that came to their end without headroom

scheduleHistory == <<dayRun, sinceRun, repeated, hadHeadroom, unjudged>>
svars == <<vars, clock, tick, scheduleHistory>>

ScheduleInit ==
  /\ Init
  /\ clock = [day |-> 0, minute |-> 0] /\ tick = FALSE
  /\ dayRun = None /\ sinceRun = None
  /\ repeated = FALSE /\ hadHeadroom = FALSE
  /\ unjudged = 0

Scheduled == RunBegins /\ ~run'.manual

\* A scheduled, exclusive run that nothing disturbed: the only kind the streak is about.
Counts(in) == Has("RunEnd") /\ ~run.manual /\ ~Disturbed(in) /\ config.exclusive

RecordSchedule(in) ==
  /\ dayRun' = IF Scheduled /\ in.local # None THEN in.local.day ELSE dayRun
  /\ sinceRun' = IF RunBegins THEN 0 ELSE Aged(sinceRun, in.elapsed)
  /\ repeated' = /\ Scheduled
                 /\ IF in.local # None THEN in.local.day = dayRun
                    ELSE sinceRun # None /\ Aged(sinceRun, in.elapsed) < DayLength
  /\ hadHeadroom' = IF Has("RunStart") THEN config.exclusive /\ HasHeadroom(in)
                    ELSE hadHeadroom /\ ~Has("RunEnd")
  /\ unjudged' = IF ~config.exclusive \/ (Counts(in) /\ hadHeadroom) THEN 0
                 ELSE IF Counts(in) /\ unjudged < StreakCap THEN unjudged + 1
                 ELSE unjudged

\* The day index wraps: the code remembers two days, so of three it knows one to be new.
NextMinute ==
  IF clock.minute + 1 < DayMinutes THEN [clock EXCEPT !.minute = @ + 1]
  ELSE [day |-> (clock.day + 1) % 3, minute |-> 0]

\* A sample that knows the time knows this time.
Timed(in) == IF in.local = None THEN in ELSE [in EXCEPT !.local = clock']

Ticks(in) ==
  /\ clock' = NextMinute
  /\ Sample(Timed(in)) /\ RecordSchedule(Timed(in))
  /\ tick' = ~tick

ScheduleSample == \E in \in Inputs : Ticks(in)

\* The clock is set: to the first or the last minute of any day.
SetClock ==
  /\ clock' \in [day: Days, minute: {0, DayMinutes - 1}]
  /\ UNCHANGED <<vars, scheduleHistory, tick>>

ScheduleNext ==
  \/ ScheduleSample
  \/ SetClock
  \/ (SetConfig \/ Reboot \/ \E d \in Slots : ClearFailure(d)) /\ UNCHANGED <<scheduleHistory, clock, tick>>

\* The sampling task never stops calling Step: the task watchdog guards its loop.
ScheduleSpec == ScheduleInit /\ [][ScheduleNext]_svars /\ WF_svars(ScheduleSample)

-----------------------------------------------------------------------------
(* A day counts once.  The scheduled run does not come twice in a row in one *)
(* local day, and without a clock not within a day of the last, whatever     *)
(* reboots, run now, skipped attempts and a clock that comes and goes do to  *)
(* attemptedDay, lastRunDay and lastRunMs.                                  *)
NoRunTwiceADay == ~repeated

(* The inconclusive alert stands only while the last inconclusive_days of    *)
(* these runs all came to their end without headroom: aborted runs and run   *)
(* now count neither way, and a reboot forgets none of them.                 *)
AlertIsCounted == p.alert => unjudged >= config.inconclusiveDays

DaysAreCounted == NoRunTwiceADay /\ AlertIsCounted

(* Runs come and go: a run ends, however often configurations are stored,    *)
(* verdicts cleared or readings missed meanwhile, and the tank is given back *)
(* to its windows; and evenings that are calm from some day on are tested    *)
(* again and again: with a known clock, a trend, no run now and no           *)
(* disturbance, even without headroom.                                       *)
CalmEvening(in) ==
  /\ in.local # None /\ TrendReady(in)
  /\ ~in.alert /\ ~in.fault /\ ~in.maintenance /\ in.out = {} /\ ~in.runNow

CalmEveningsAreTested ==
  <>[][\E in \in Inputs : CalmEvening(in) /\ Ticks(in)]_svars
    => []<>(run.phase # "Idle" /\ ~run.manual)

RunsComeAndGo == []<>(run.phase = "Idle") /\ CalmEveningsAreTested
=============================================================================
