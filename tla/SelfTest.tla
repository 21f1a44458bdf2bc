------------------------------ MODULE SelfTest ------------------------------
(***************************************************************************)
(* The daily test run of core/src/selftest.cpp: one Sample action is one     *)
(* call of selftest::Step.  A run exercises the tested devices one after the *)
(* other and judges each by how far it raised saturation above the tank's    *)
(* own trend.                                                              *)
(*                                                                         *)
(* Time is told as in Ladder: the age of an instant, saturating at AgeCap.   *)
(* The wall clock (day and minute) is an input of its own: it may be unknown *)
(* and it may jump.  A reading is what the run asks of it: whether it leaves *)
(* headroom, whether the trend is known, how far it is above the trend since *)
(* the device started, and the mg/L.  What is kept only to be shown (the     *)
(* last outcome and response, the chirp, the clock flag of the log record)   *)
(* is left out, and so are the fields of a run that is over.                *)
(***************************************************************************)
EXTENDS Integers, FiniteSetsExt, Functions

CONSTANTS
  NDevices,        \* DEVICES
  Days,            \* local day indexes
  Configs,         \* the configurations that may be stored while it runs
  Inputs,          \* the samples Step may be given
  None,            \* an empty std::optional
  AgeCap,          \* ages saturate here
  StreakCap,       \* the streak counter saturates here
  DayLength,       \* DAY_MS
  UnitsPerMinute   \* units of time in a minute of the wall clock

Slots == 0 .. NDevices - 1
Age == 0 .. AgeCap
OptionalAge == Age \cup {None}
OptionalDay == Days \cup {None}

Config ==
  [windowStart: Nat, windowEnd: Nat, settle: Nat, tail: Nat, inconclusiveDays: Nat \ {0},
   deficit: Nat, deficitDevice: Slots, exclusive: BOOLEAN, noFailAbove: Nat,
   test: [Slots -> Nat], minResponse: [Slots -> Nat]]

Reading == [headroom: BOOLEAN, trend: BOOLEAN, rise: Nat, mgl: Nat]

Input ==
  [elapsed: Nat \ {0}, local: [day: Days, minute: Nat] \cup {None}, reading: Reading \cup {None},
   alert: BOOLEAN, fault: BOOLEAN, maintenance: BOOLEAN, out: SUBSET Slots, runNow: BOOLEAN,
   stray: Nat]     \* what a read past the end of a device array finds

ASSUME SizesArePositive == {NDevices, AgeCap, StreakCap, UnitsPerMinute} \subseteq Nat \ {0}
ASSUME ConfigsAreTyped == Configs \subseteq Config /\ \A c \in Configs : c.windowStart < c.windowEnd
ASSUME InputsAreTyped == Inputs \subseteq Input
ASSUME CapsExceedDurations ==
  /\ DayLength \in Age
  /\ \A c \in Configs :
       /\ c.inconclusiveDays <= StreakCap
       /\ {c.settle, c.tail, c.deficit} \cup {c.test[d] : d \in Slots} \subseteq Age

Phase == {"Idle", "Deficit", "Running", "Tail", "Settle"}
Outcome == {"Pass", "Fail", "Inconclusive", "Unchecked"}
SkipReason == {"NotNormal", "Fault", "Maintenance", "Missed", "NothingToRun", "DeviceOut"}

ASSUME NoneIsNoValue == None \notin Int /\ None \notin Days /\ None \notin SkipReason

VARIABLES
  config,        \* App::mCfg.test
  run,           \* the run in progress: State's phase, device, judged ...
  lastRun,       \* lastRunMs
  attemptedDay,
  p,             \* State::p, what survives a reboot ...
  stored,        \* ... and what of it is on flash
  out            \* what the last Step put out

vars == <<config, run, lastRun, attemptedDay, p, stored, out>>

Run ==
  [phase: Phase, device: 0 .. NDevices, age: Age, judged: BOOLEAN, deviceJudged: BOOLEAN,
   manual: BOOLEAN, aborted: BOOLEAN, startMgl: Nat, peak: Nat]

Persistent ==
  [failActive: [Slots -> BOOLEAN], streak: 0 .. StreakCap, alert: BOOLEAN, lastRunDay: OptionalDay]

Event ==
  [type: {"RunStart", "RunEnd", "InconclusiveAlert"}]
  \cup [type: {"DeviceStart", "FailAlert", "FailCleared"}, device: 0 .. NDevices]
  \cup [type: {"DeviceEnd"}, device: 0 .. NDevices, outcome: Outcome]
  \cup [type: {"Skipped"}, skip: SkipReason]

Output == [on: SUBSET (0 .. NDevices), cut: Slots \cup {None}, events: SUBSET Event]

TypeOK ==
  /\ config \in Configs
  /\ run \in Run
  /\ lastRun \in OptionalAge
  /\ attemptedDay \in OptionalDay
  /\ p \in Persistent /\ stored \in Persistent
  /\ out \in Output

NoRun ==
  [phase |-> "Idle", device |-> 0, age |-> 0, judged |-> FALSE, deviceJudged |-> FALSE,
   manual |-> FALSE, aborted |-> FALSE, startMgl |-> 0, peak |-> 0]

Untested ==
  [failActive |-> [d \in Slots |-> FALSE], streak |-> 0, alert |-> FALSE, lastRunDay |-> None]

Silent == [on |-> {}, cut |-> None, events |-> {}]

Init ==
  /\ config \in Configs
  /\ run = NoRun
  /\ lastRun = None
  /\ attemptedDay = None
  /\ p = Untested /\ stored = Untested
  /\ out = Silent

-----------------------------------------------------------------------------
(* What a configuration asks for. *)

Aged(age, elapsed) ==
  IF age = None THEN None ELSE IF age + elapsed > AgeCap THEN AgeCap ELSE age + elapsed

Tested == {d \in Slots : config.test[d] > 0}

\* The first tested device from a slot on; NDevices: there is none.
NextTested(from) ==
  LET later == {d \in Tested : d >= from} IN IF later = {} THEN NDevices ELSE Min(later)

DeficitConfigured == config.exclusive /\ config.deficit > 0

RunDuration ==
  LET n == Cardinality(Tested)
  IN FoldFunction(LAMBDA t, sum : t + sum, 0, config.test)
     + n * config.tail + (IF n > 0 THEN n - 1 ELSE 0) * config.settle
     + (IF DeficitConfigured THEN config.deficit ELSE 0)

\* An index past the last device reads whatever lies behind the array.
TestOf(d, in) == IF d \in Slots THEN config.test[d] ELSE in.stray
MinResponseOf(d, in) == IF d \in Slots THEN config.minResponse[d] ELSE in.stray

TestedOut(in) == Tested \cap in.out # {}

TrendReady(in) == in.reading # None /\ in.reading.trend
HasHeadroom(in) == in.reading # None /\ in.reading.headroom

-----------------------------------------------------------------------------
(* One device of a run. *)

\* Mutated: the peak of the device before it is kept.
BeginDeviceKeepingPeak(r, d, in, first) ==
  LET judged == IF first THEN config.exclusive /\ HasHeadroom(in) ELSE r.judged
  IN [r EXCEPT !.phase = "Running", !.device = d, !.age = 0, !.judged = judged,
               !.deviceJudged = judged /\ TrendReady(in),
               !.startMgl = IF in.reading = None THEN 0 ELSE in.reading.mgl]

BeginDevice(r, d, in, first) ==
  LET judged == IF first THEN config.exclusive /\ HasHeadroom(in) ELSE r.judged
  IN [r EXCEPT !.phase = "Running", !.device = d, !.age = 0, !.judged = judged,
               !.deviceJudged = judged /\ TrendReady(in),
               !.startMgl = IF in.reading = None THEN 0 ELSE in.reading.mgl,
               !.peak = 0]

BeginEvents(d, first) ==
  {[type |-> "DeviceStart", device |-> d]} \cup (IF first THEN {[type |-> "RunStart"]} ELSE {})

\* A missed reading measures nothing.
Measure(r, in) ==
  IF in.reading = None \/ in.reading.rise <= r.peak THEN r ELSE [r EXCEPT !.peak = in.reading.rise]

\* A miss that started near saturation is no verdict.
Verdict(r, in) ==
  LET demand == MinResponseOf(r.device, in)
      highDo == config.noFailAbove > 0 /\ r.startMgl >= config.noFailAbove
  IN IF r.aborted THEN "Inconclusive"
     ELSE IF ~config.exclusive \/ demand = 0 THEN "Unchecked"
     ELSE IF ~r.deviceJudged THEN "Inconclusive"
     ELSE IF r.peak >= demand THEN "Pass"
     ELSE IF highDo THEN "Unchecked" ELSE "Fail"

\* Past the last device, failActive[DEVICES] is the low byte of the streak behind it.
FailFlag(q, d) == IF d \in Slots THEN q.failActive[d] ELSE q.streak # 0

EndDevice(q, r, in) ==
  LET o == Verdict(r, in)
  IN IF r.device \in Slots
     THEN [q EXCEPT !.failActive[r.device] = o = "Fail" \/ (o # "Pass" /\ @)]
     ELSE [q EXCEPT !.streak = IF o = "Fail" THEN 1 ELSE IF o = "Pass" THEN 0 ELSE @]

EndDeviceEvents(q, r, in) ==
  LET o == Verdict(r, in)
  IN {[type |-> "DeviceEnd", device |-> r.device, outcome |-> o]}
     \cup (IF o = "Fail" THEN {[type |-> "FailAlert", device |-> r.device]} ELSE {})
     \cup (IF o = "Pass" /\ FailFlag(q, r.device)
           THEN {[type |-> "FailCleared", device |-> r.device]} ELSE {})

\* A scheduled run that came to its end unjudged adds to the streak of inconclusive days.
EndRun(q, r) ==
  IF r.manual \/ r.aborted \/ ~config.exclusive THEN q
  ELSE IF r.judged THEN [q EXCEPT !.streak = 0, !.alert = FALSE]
  ELSE LET streak == IF q.streak < StreakCap THEN q.streak + 1 ELSE StreakCap
       IN [q EXCEPT !.streak = streak, !.alert = @ \/ streak >= config.inconclusiveDays]

EndRunEvents(q, r) ==
  {[type |-> "RunEnd"]}
  \cup (IF EndRun(q, r).alert /\ ~q.alert THEN {[type |-> "InconclusiveAlert"]} ELSE {})

-----------------------------------------------------------------------------
(* Advance: the run in progress. *)

\* Checks switched off: a verdict nothing can clear any more is forgotten.
ForgetChecks ==
  IF config.exclusive THEN p
  ELSE [p EXCEPT !.failActive = [d \in Slots |-> FALSE], !.streak = 0, !.alert = FALSE]

ForgetEvents ==
  IF config.exclusive THEN {}
  ELSE {[type |-> "FailCleared", device |-> d] : d \in {e \in Slots : p.failActive[e]}}

\* Mutated: a device that went out of order disturbs no run.
DisturbedByAlert(in) == in.fault \/ in.alert

Disturbed(in) == in.fault \/ in.alert \/ TestedOut(in)

\* The age of the current phase at this sample.
PhaseAge(in) == Aged(run.age, in.elapsed)

\* A step that leaves the persistent state to ForgetChecks.
Puts(r, on, cut, events) ==
  /\ run' = r
  /\ p' = ForgetChecks
  /\ out' = [on |-> on, cut |-> cut, events |-> events \cup ForgetEvents]

Abort(in) ==
  /\ Disturbed(in)
  /\ LET r == [run EXCEPT !.aborted = TRUE]
         inDevice == run.phase \in {"Running", "Tail"}
         q == IF inDevice THEN EndDevice(ForgetChecks, r, in) ELSE ForgetChecks
     IN /\ run' = NoRun
        /\ p' = EndRun(q, r)
        /\ out' = [Silent EXCEPT !.events =
             ForgetEvents \cup EndRunEvents(q, r)
             \cup (IF inDevice THEN EndDeviceEvents(ForgetChecks, r, in) ELSE {})]

\* Mutated: the deficit lasts a sample longer.
DeficitOneLonger(in) ==
  /\ ~Disturbed(in) /\ run.phase = "Deficit"
  /\ IF run.age >= config.deficit
     THEN Puts(BeginDevice(run, NextTested(0), in, TRUE), {NextTested(0)}, None,
               BeginEvents(NextTested(0), TRUE))
     ELSE Puts([run EXCEPT !.age = PhaseAge(in)], {}, config.deficitDevice, {})

Deficit(in) ==
  /\ ~Disturbed(in) /\ run.phase = "Deficit"
  /\ IF PhaseAge(in) >= config.deficit
     THEN Puts(BeginDevice(run, NextTested(0), in, TRUE), {NextTested(0)}, None,
               BeginEvents(NextTested(0), TRUE))
     ELSE Puts([run EXCEPT !.age = PhaseAge(in)], {}, config.deficitDevice, {})

Running(in) ==
  /\ ~Disturbed(in) /\ run.phase = "Running"
  /\ IF PhaseAge(in) >= TestOf(run.device, in)
     THEN Puts([Measure(run, in) EXCEPT !.phase = "Tail", !.age = 0], {}, None, {})
     ELSE Puts([Measure(run, in) EXCEPT !.age = PhaseAge(in)], {run.device}, None, {})

TailRunsOn(in) ==
  /\ ~Disturbed(in) /\ run.phase = "Tail"
  /\ PhaseAge(in) < config.tail
  /\ Puts([Measure(run, in) EXCEPT !.age = PhaseAge(in)], {}, None, {})

TailEnds(in) ==
  /\ ~Disturbed(in) /\ run.phase = "Tail"
  /\ PhaseAge(in) >= config.tail
  /\ LET r == Measure(run, in)
         q == EndDevice(ForgetChecks, r, in)
         next == NextTested(run.device + 1)
         ended == ForgetEvents \cup EndDeviceEvents(ForgetChecks, r, in)
     IN IF next = NDevices
        THEN /\ run' = NoRun
             /\ p' = EndRun(q, r)
             /\ out' = [Silent EXCEPT !.events = ended \cup EndRunEvents(q, r)]
        ELSE /\ run' = [r EXCEPT !.phase = "Settle", !.device = next, !.age = 0]
             /\ p' = q
             /\ out' = [Silent EXCEPT !.events = ended]

Settle(in) ==
  /\ ~Disturbed(in) /\ run.phase = "Settle"
  /\ IF PhaseAge(in) >= config.settle
     THEN Puts(BeginDevice(run, run.device, in, FALSE), {run.device}, None,
               BeginEvents(run.device, FALSE))
     ELSE Puts([run EXCEPT !.age = PhaseAge(in)], {}, None, {})

Advance(in) ==
  /\ run.phase # "Idle"
  /\ Abort(in) \/ Deficit(in) \/ Running(in) \/ TailRunsOn(in) \/ TailEnds(in) \/ Settle(in)
  /\ attemptedDay' = attemptedDay
  /\ lastRun' = Aged(lastRun, in.elapsed)

-----------------------------------------------------------------------------
(* No run in progress: whether one is due, and what keeps it from starting.  *)

\* Without a clock a run is due a day after the last one or the last attempt.
DueUnknownTime(in) ==
  /\ Tested # {} /\ in.local = None
  /\ lastRun # None /\ Aged(lastRun, in.elapsed) >= DayLength
  /\ TrendReady(in)

DayIsOpen(in) ==
  /\ Tested # {} /\ in.local # None
  /\ in.local.day \notin {attemptedDay, p.lastRunDay}

\* Mutated: a run waits for headroom to the end of the window.
LatestStartAtEnd == config.windowEnd

\* The latest start that still finishes inside the window.
LatestStart ==
  LET need == (RunDuration + UnitsPerMinute - 1) \div UnitsPerMinute
      span == config.windowEnd - config.windowStart
  IN config.windowEnd - (IF need < span THEN need ELSE span)

DueInWindow(in) ==
  /\ DayIsOpen(in)
  /\ config.windowStart <= in.local.minute /\ in.local.minute < config.windowEnd
  /\ TrendReady(in)
  /\ in.local.minute < LatestStart /\ config.exclusive => HasHeadroom(in)

WindowMissed(in) == DayIsOpen(in) /\ in.local.minute >= config.windowEnd

Due(in) == in.runNow \/ DueUnknownTime(in) \/ DueInWindow(in)

SkipOf(in) ==
  CASE Tested = {} -> "NothingToRun"
    [] Tested # {} /\ in.fault -> "Fault"
    [] Tested # {} /\ ~in.fault /\ in.alert -> "NotNormal"
    [] Tested # {} /\ ~in.fault /\ ~in.alert /\ in.maintenance -> "Maintenance"
    [] OTHER -> IF TestedOut(in) THEN "DeviceOut" ELSE None

\* The attempt without a clock counts whether it runs or is skipped; so does the day's.
Skip(in) ==
  /\ Due(in) /\ SkipOf(in) # None
  /\ attemptedDay' = IF in.local # None /\ ~in.runNow THEN in.local.day ELSE attemptedDay
  /\ lastRun' = IF ~in.runNow /\ DueUnknownTime(in) THEN 0 ELSE Aged(lastRun, in.elapsed)
  /\ Puts(run, {}, None, {[type |-> "Skipped", skip |-> SkipOf(in)]})

\* Mutated: the day is not among what survives a reboot.
StartRunUnstored(in) ==
  /\ Due(in) /\ SkipOf(in) = None
  /\ lastRun' = 0
  /\ LET counts == in.local # None /\ ~in.runNow
         r == [run EXCEPT !.manual = in.runNow, !.aborted = FALSE]
         first == NextTested(0)
     IN /\ attemptedDay' = IF counts THEN in.local.day ELSE attemptedDay
        /\ p' = ForgetChecks
        /\ run' = IF DeficitConfigured THEN [r EXCEPT !.phase = "Deficit", !.age = 0]
                  ELSE BeginDevice(r, first, in, TRUE)
        /\ out' = IF DeficitConfigured
                  THEN [on |-> {}, cut |-> config.deficitDevice, events |-> ForgetEvents]
                  ELSE [on |-> {first}, cut |-> None,
                        events |-> ForgetEvents \cup BeginEvents(first, TRUE)]

StartRun(in) ==
  /\ Due(in) /\ SkipOf(in) = None
  /\ lastRun' = 0
  /\ LET counts == in.local # None /\ ~in.runNow
         r == [run EXCEPT !.manual = in.runNow, !.aborted = FALSE]
         first == NextTested(0)
     IN /\ attemptedDay' = IF counts THEN in.local.day ELSE attemptedDay
        /\ p' = IF counts THEN [ForgetChecks EXCEPT !.lastRunDay = in.local.day] ELSE ForgetChecks
        /\ run' = IF DeficitConfigured THEN [r EXCEPT !.phase = "Deficit", !.age = 0]
                  ELSE BeginDevice(r, first, in, TRUE)
        /\ out' = IF DeficitConfigured
                  THEN [on |-> {}, cut |-> config.deficitDevice, events |-> ForgetEvents]
                  ELSE [on |-> {first}, cut |-> None,
                        events |-> ForgetEvents \cup BeginEvents(first, TRUE)]

StayIdle(in) ==
  /\ ~Due(in)
  /\ attemptedDay' = IF WindowMissed(in) THEN in.local.day ELSE attemptedDay
  /\ lastRun' = Aged(lastRun, in.elapsed)
  /\ Puts(run, {}, None, IF WindowMissed(in) THEN {[type |-> "Skipped", skip |-> "Missed"]} ELSE {})

Idle(in) == run.phase = "Idle" /\ (Skip(in) \/ StartRun(in) \/ StayIdle(in))

-----------------------------------------------------------------------------
\* The sampling task stores what changed at the end of every sample (sampler::TickLocked).
Sample(in) ==
  /\ Idle(in) \/ Advance(in)
  /\ stored' = p'
  /\ UNCHANGED config

\* App::SetConfig between two samples; a run in progress goes on.
SetConfig ==
  /\ config' \in Configs
  /\ config' # config
  /\ UNCHANGED <<run, lastRun, attemptedDay, p, stored, out>>

\* App::ClearFailure: stored with the next sample.
ClearFailure(d) ==
  /\ p.failActive[d]
  /\ p' = [p EXCEPT !.failActive[d] = FALSE]
  /\ UNCHANGED <<config, run, lastRun, attemptedDay, stored, out>>

\* A reboot or a power loss between two samples.
Reboot ==
  /\ run' = NoRun
  /\ lastRun' = None
  /\ attemptedDay' = None
  /\ p' = stored
  /\ out' = Silent
  /\ UNCHANGED <<config, stored>>

-----------------------------------------------------------------------------
(* What has become of a run, for histories.                                 *)

Has(type) == \E e \in out'.events : e.type = type

RunBegins == run.phase = "Idle" /\ run'.phase # "Idle"

-----------------------------------------------------------------------------
Next ==
  \/ \E in \in Inputs : Sample(in)
  \/ SetConfig
  \/ \E d \in Slots : ClearFailure(d)
  \/ Reboot

Spec == Init /\ [][Next]_vars
=============================================================================
