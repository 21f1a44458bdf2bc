--------------------------- MODULE SelfTestProofs ---------------------------
(***************************************************************************)
(* What is proved of the daily self test, for every set of configurations   *)
(* and samples and any number of devices: its contract with the App, what a *)
(* verdict rests on, and what a day counts for.                             *)
(***************************************************************************)
EXTENDS VerdictHistory, ScheduleHistory, WellFoundedInduction, TLAPS

-----------------------------------------------------------------------------
(* Types. *)

\* What the constants are, in the form the proofs use.
LEMMA Constants ==
  /\ NDevices \in Nat \ {0} /\ AgeCap \in Nat \ {0} /\ StreakCap \in Nat \ {0}
  /\ None \notin Int /\ None \notin Days /\ None \notin SkipReason
  /\ \A c \in Configs : c \in Config /\ c.inconclusiveDays <= StreakCap
  /\ Inputs \subseteq Input
BY SizesArePositive, NoneIsNoValue, ConfigsAreTyped, CapsExceedDurations, InputsAreTyped

LEMMA MinOfNaturals ==
  ASSUME NEW S \in SUBSET Nat, S # {}
  PROVE  Min(S) \in S /\ \A n \in S : Min(S) <= n
<1> DEFINE less == OpToRel(<, Nat)
<1>1. IsWellFoundedOn(less, Nat)
  BY NatLessThanWellFounded
<1>2. \A n, m \in Nat : n < m => <<n, m>> \in less
  BY DEF OpToRel
<1> HIDE DEF less
<1>3. PICK m \in S : \A n \in S : <<n, m>> \notin less
  BY <1>1, WFMin
<1>4. ASSUME NEW n \in S
      PROVE  m <= n
  <2>1. n \in Nat /\ m \in Nat
    OBVIOUS
  <2>2. ~(n < m)
    BY <1>2, <1>3, <2>1
  <2>3. QED BY <2>1, <2>2
<1>5. QED BY <1>3, <1>4 DEF Min

LEMMA NextTestedType ==
  ASSUME config \in Configs, NEW from \in Nat
  PROVE  /\ NextTested(from) \in 0 .. NDevices
         /\ Tested # {} => NextTested(0) \in Slots
<1>1. /\ Tested \subseteq Slots /\ Slots \subseteq Nat
      /\ Slots \subseteq 0 .. NDevices /\ NDevices \in 0 .. NDevices
  BY Constants DEF Slots, Tested
<1>2. ASSUME NEW S \in SUBSET Slots, S # {}
      PROVE  Min(S) \in Slots
  BY <1>1, <1>2, MinOfNaturals
<1>3. NextTested(from) \in 0 .. NDevices
  BY <1>1, <1>2 DEF NextTested
<1>4. ASSUME Tested # {}
      PROVE  NextTested(0) \in Slots
  <2>1. {d \in Tested : d >= 0} = Tested
    <3>1. \A d \in Tested : d >= 0
      BY <1>1
    <3>2. QED BY <3>1
  <2>2. Min(Tested) \in Slots
    BY <1>1, <1>2, <1>4
  <2>3. QED BY <1>4, <2>1, <2>2 DEF NextTested
<1>5. QED BY <1>3, <1>4

\* An age stays an age, and stays unknown if it was.
LEMMA AgedType ==
  ASSUME NEW age \in OptionalAge, NEW in \in Input
  PROVE  /\ Aged(age, in.elapsed) \in OptionalAge
         /\ age \in Age => Aged(age, in.elapsed) \in Age
         /\ age = None <=> Aged(age, in.elapsed) = None
<1>1. in.elapsed \in Nat /\ AgeCap \in Nat /\ None \notin Int
  BY Constants DEF Input
<1>2. QED BY <1>1 DEF Aged, OptionalAge, Age

LEMMA BeginDeviceType ==
  ASSUME config \in Configs, NEW r \in Run, NEW d \in 0 .. NDevices, NEW in \in Input,
         NEW first \in BOOLEAN
  PROVE  BeginDevice(r, d, in, first) \in Run
<1>1. in.reading \in Reading \cup {None} /\ config.exclusive \in BOOLEAN
  BY Constants DEF Input, Config
<1>2. /\ HasHeadroom(in) \in BOOLEAN /\ TrendReady(in) \in BOOLEAN
      /\ (IF in.reading = None THEN 0 ELSE in.reading.mgl) \in Nat
  BY <1>1 DEF HasHeadroom, TrendReady, Reading
<1>3. 0 \in Age
  BY Constants DEF Age
<1>4. QED BY <1>1, <1>2, <1>3 DEF BeginDevice, Run, Phase

LEMMA MeasureType ==
  ASSUME NEW r \in Run, NEW in \in Input
  PROVE  Measure(r, in) \in Run
<1>1. in.reading \in Reading \cup {None}
  BY Constants DEF Input
<1>2. in.reading # None => in.reading.rise \in Nat
  BY <1>1 DEF Reading
<1>3. QED BY <1>2 DEF Measure, Run

LEMMA ForgetChecksType ==
  ASSUME TypeOK
  PROVE  ForgetChecks \in Persistent
<1>1. /\ [d \in Slots |-> FALSE] \in [Slots -> BOOLEAN]
      /\ p \in Persistent /\ 0 \in 0 .. StreakCap /\ FALSE \in BOOLEAN
  BY Constants DEF TypeOK
<1>2. QED BY <1>1 DEF ForgetChecks, Persistent

LEMMA PersistentTypes ==
  ASSUME TypeOK, NEW q \in Persistent, NEW r \in Run, NEW in \in Input
  PROVE  /\ EndDevice(q, r, in) \in Persistent
         /\ EndRun(q, r) \in Persistent
<1>1. StreakCap \in Nat \ {0}
  BY Constants
<1>2. EndDevice(q, r, in) \in Persistent
  <2>1. CASE r.device \in Slots
    BY <2>1 DEF EndDevice, Persistent
  <2>2. CASE r.device \notin Slots
    BY <1>1, <2>2 DEF EndDevice, Persistent
  <2>3. QED BY <2>1, <2>2
<1>3. EndRun(q, r) \in Persistent
  <2> DEFINE streak == IF q.streak < StreakCap THEN q.streak + 1 ELSE StreakCap
  <2>1. streak \in 0 .. StreakCap /\ q.alert \in BOOLEAN
    BY <1>1 DEF Persistent
  <2> DEFINE alert == q.alert \/ streak >= config.inconclusiveDays
  <2>2. EndRun(q, r) \in {q, [q EXCEPT !.streak = 0, !.alert = FALSE],
                           [q EXCEPT !.streak = streak, !.alert = alert]}
    BY DEF EndRun
  <2>3. alert \in BOOLEAN /\ 0 \in 0 .. StreakCap /\ FALSE \in BOOLEAN
    BY <1>1
  <2> HIDE DEF streak, alert
  <2>4. QED BY <2>1, <2>2, <2>3 DEF Persistent
<1>5. QED BY <1>2, <1>2, <1>3

LEMMA EventTypes ==
  ASSUME TypeOK, NEW q, NEW r \in Run, NEW in \in Input, NEW d \in 0 .. NDevices,
         NEW first \in BOOLEAN
  PROVE  /\ ForgetEvents \subseteq Event
         /\ BeginEvents(d, first) \subseteq Event
         /\ EndDeviceEvents(q, r, in) \subseteq Event
         /\ EndRunEvents(q, r) \subseteq Event
         /\ \A s \in SkipReason : {[type |-> "Skipped", skip |-> s]} \subseteq Event
<1>1. /\ \A t \in {"RunStart", "RunEnd", "InconclusiveAlert"} : [type |-> t] \in Event
      /\ \A t \in {"DeviceStart", "FailAlert", "FailCleared"} : \A e \in 0 .. NDevices :
           [type |-> t, device |-> e] \in Event
      /\ \A e \in 0 .. NDevices : \A o \in Outcome :
           [type |-> "DeviceEnd", device |-> e, outcome |-> o] \in Event
      /\ \A s \in SkipReason : [type |-> "Skipped", skip |-> s] \in Event
  BY DEF Event
<1>2. Slots \subseteq 0 .. NDevices
  BY Constants DEF Slots
<1>3. r.device \in 0 .. NDevices /\ Verdict(r, in) \in Outcome
  BY DEF Run, Verdict, Outcome
<1>4. ForgetEvents \subseteq Event
  BY <1>1, <1>2 DEF ForgetEvents
<1>5. BeginEvents(d, first) \subseteq Event
  BY <1>1 DEF BeginEvents
<1>6. EndDeviceEvents(q, r, in) \subseteq Event
  BY <1>1, <1>3 DEF EndDeviceEvents
<1>7. EndRunEvents(q, r) \subseteq Event
  BY <1>1 DEF EndRunEvents
<1>8. QED BY <1>1, <1>4, <1>5, <1>6, <1>7

LEMMA PutsType ==
  ASSUME TypeOK, NEW r \in Run, NEW on \in SUBSET (0 .. NDevices), NEW cut \in Slots \cup {None},
         NEW events \in SUBSET Event, Puts(r, on, cut, events)
  PROVE  run' \in Run /\ p' \in Persistent /\ out' \in Output
<1>1. r.device \in 0 .. NDevices
  BY DEF Run
<1>2. ForgetChecks \in Persistent
  BY ForgetChecksType
<1>3. ForgetEvents \subseteq Event
  <2>1. Slots \subseteq 0 .. NDevices
    BY Constants DEF Slots
  <2>2. QED BY <2>1 DEF ForgetEvents, Event
<1>4. QED BY <1>2, <1>3 DEF Puts, Output

LEMMA DeficitDeviceType ==
  ASSUME config \in Configs
  PROVE  config.deficitDevice \in Slots /\ config.exclusive \in BOOLEAN
BY Constants DEF Config

LEMMA NoRunType == NoRun \in Run
BY Constants DEF NoRun, Run, Phase, Age

LEMMA AdvanceKeepsType ==
  ASSUME TypeOK, NEW in \in Input, Advance(in)
  PROVE  run' \in Run /\ p' \in Persistent /\ out' \in Output
<1>1. /\ config \in Configs /\ run \in Run /\ p \in Persistent
      /\ run.device \in 0 .. NDevices /\ run.age \in Age
  BY DEF TypeOK, Run
<1>2. PhaseAge(in) \in Age /\ 0 \in Age
  BY <1>1, AgedType, Constants DEF PhaseAge, OptionalAge, Age
<1>3. Measure(run, in) \in Run
  BY <1>1, MeasureType
<1>4. \A d \in 0 .. NDevices : \A first \in BOOLEAN :
        BeginDevice(run, d, in, first) \in Run /\ BeginEvents(d, first) \in SUBSET Event
  BY <1>1, BeginDeviceType, EventTypes
<1>5. \A from \in Nat : NextTested(from) \in 0 .. NDevices
  BY <1>1, NextTestedType
<1>6. config.deficitDevice \in Slots
  BY <1>1, DeficitDeviceType
<1>7. {} \in SUBSET Event /\ {} \in SUBSET (0 .. NDevices) /\ None \in Slots \cup {None}
  OBVIOUS
<1>8. CASE Abort(in)
  <2> DEFINE r == [run EXCEPT !.aborted = TRUE]
             inDevice == run.phase \in {"Running", "Tail"}
             q == IF inDevice THEN EndDevice(ForgetChecks, r, in) ELSE ForgetChecks
  <2>1. r \in Run
    BY <1>1 DEF Run
  <2>2. q \in Persistent /\ EndRun(q, r) \in Persistent
    BY <1>1, <2>1, ForgetChecksType, PersistentTypes
  <2>3. ForgetEvents \cup EndRunEvents(q, r)
          \cup (IF inDevice THEN EndDeviceEvents(ForgetChecks, r, in) ELSE {}) \in SUBSET Event
    BY <1>4, <2>1, <1>1, EventTypes
  <2>4. out' \in Output
    BY <1>8, <2>3 DEF Abort, Silent, Output
  <2>5. QED BY <1>8, <2>2, <2>4, NoRunType DEF Abort
<1>9. CASE Deficit(in)
  <2>1. [run EXCEPT !.age = PhaseAge(in)] \in Run
    BY <1>1, <1>2 DEF Run
  <2>2. NextTested(0) \in 0 .. NDevices
    BY <1>5
  <2>3. QED BY <1>1, <1>4, <1>6, <1>7, <1>9, <2>1, <2>2, PutsType DEF Deficit
<1>10. CASE Running(in)
  <2>1. /\ [Measure(run, in) EXCEPT !.phase = "Tail", !.age = 0] \in Run
        /\ [Measure(run, in) EXCEPT !.age = PhaseAge(in)] \in Run
    BY <1>2, <1>3 DEF Run, Phase
  <2>2. QED BY <1>1, <1>7, <1>10, <2>1, PutsType DEF Running
<1>11. CASE TailRunsOn(in)
  <2>1. [Measure(run, in) EXCEPT !.age = PhaseAge(in)] \in Run
    BY <1>2, <1>3 DEF Run
  <2>2. QED BY <1>7, <1>11, <2>1, PutsType DEF TailRunsOn
<1>12. CASE TailEnds(in)
  <2> DEFINE r == Measure(run, in)
             q == EndDevice(ForgetChecks, r, in)
             next == NextTested(run.device + 1)
  <2>1. q \in Persistent /\ EndRun(q, r) \in Persistent
    BY <1>1, <1>3, ForgetChecksType, PersistentTypes
  <2>2. next \in 0 .. NDevices
    BY <1>1, <1>5
  <2>3. [r EXCEPT !.phase = "Settle", !.device = next, !.age = 0] \in Run
    BY <1>2, <1>3, <2>2 DEF Run, Phase
  <2>4. /\ ForgetEvents \cup EndDeviceEvents(ForgetChecks, r, in) \in SUBSET Event
        /\ EndRunEvents(q, r) \in SUBSET Event
    BY <1>1, <1>3, EventTypes
  <2>5. out' \in Output
    BY <1>12, <2>4 DEF TailEnds, Silent, Output
  <2>6. QED BY <1>12, <2>1, <2>3, <2>5, NoRunType DEF TailEnds
<1>13. CASE Settle(in)
  <2>1. [run EXCEPT !.age = PhaseAge(in)] \in Run
    BY <1>1, <1>2 DEF Run
  <2>2. QED BY <1>1, <1>4, <1>7, <1>13, <2>1, PutsType DEF Settle
<1>14. QED BY <1>8, <1>9, <1>10, <1>11, <1>12, <1>13 DEF Advance

LEMMA IdleKeepsType ==
  ASSUME TypeOK, NEW in \in Input, Idle(in)
  PROVE  run' \in Run /\ p' \in Persistent /\ out' \in Output
<1>1. config \in Configs /\ run \in Run /\ in \in Input
  BY Constants DEF TypeOK
<1>2. \A s \in SkipReason : {[type |-> "Skipped", skip |-> s]} \in SUBSET Event
  BY <1>1, EventTypes, Constants DEF Run
<1>3. {} \in SUBSET Event /\ {} \in SUBSET (0 .. NDevices) /\ None \in Slots \cup {None}
  OBVIOUS
<1>4. CASE Skip(in)
  <2>1. SkipOf(in) \in SkipReason
    BY <1>4 DEF Skip, SkipOf, SkipReason
  <2>2. QED BY <1>1, <1>2, <1>3, <1>4, <2>1, PutsType DEF Skip
<1>5. CASE StayIdle(in)
  <2>1. (IF WindowMissed(in) THEN {[type |-> "Skipped", skip |-> "Missed"]} ELSE {}) \in SUBSET Event
    BY <1>2 DEF SkipReason
  <2>2. QED BY <1>1, <1>3, <1>5, <2>1, PutsType DEF StayIdle
<1>6. CASE StartRun(in)
  <2> DEFINE counts == in.local # None /\ ~in.runNow
             r == [run EXCEPT !.manual = in.runNow, !.aborted = FALSE]
  <2>1. r \in Run /\ [r EXCEPT !.phase = "Deficit", !.age = 0] \in Run
    <3>1. in.runNow \in BOOLEAN /\ 0 \in Age /\ "Deficit" \in Phase
      BY <1>1, Constants DEF Input, Age, Phase
    <3>2. r \in Run
      BY <1>1, <3>1 DEF Run
    <3> HIDE DEF r
    <3>3. QED BY <3>1, <3>2 DEF Run
  <2>2. NextTested(0) \in 0 .. NDevices
    BY <1>1, NextTestedType
  <2>3. BeginDevice(r, NextTested(0), in, TRUE) \in Run
    BY <1>1, <2>1, <2>2, BeginDeviceType
  <2>4. /\ ForgetEvents \in SUBSET Event
        /\ BeginEvents(NextTested(0), TRUE) \in SUBSET Event
    BY <2>1, <2>2, EventTypes
  <2>5. config.deficitDevice \in Slots
    BY <1>1, DeficitDeviceType
  <2>6. out' \in Output
    BY <1>6, <2>2, <2>4, <2>5 DEF StartRun, Output
  <2>7. run' \in Run
    BY <1>6, <2>1, <2>3 DEF StartRun
  <2>8. p' \in Persistent
    <3>1. ForgetChecks \in Persistent
      BY ForgetChecksType
    <3>2. counts => in.local.day \in OptionalDay
      BY <1>1 DEF Input, OptionalDay
    <3>3. QED BY <1>6, <3>1, <3>2 DEF StartRun, Persistent
  <2>9. QED BY <2>6, <2>7, <2>8
<1>7. QED BY <1>4, <1>5, <1>6 DEF Idle

LEMMA ClocksKeepType ==
  ASSUME TypeOK, NEW in \in Input, Sample(in)
  PROVE  lastRun' \in OptionalAge /\ attemptedDay' \in OptionalDay
<1>1. Aged(lastRun, in.elapsed) \in OptionalAge /\ 0 \in OptionalAge
  BY AgedType, Constants DEF TypeOK, OptionalAge, Age
<1>2. in.local # None => in.local.day \in OptionalDay
  BY Constants DEF Input, OptionalDay
<1>3. attemptedDay \in OptionalDay
  BY DEF TypeOK
<1>4. lastRun' \in {0, Aged(lastRun, in.elapsed)}
  BY DEF Sample, Idle, Advance, Skip, StartRun, StayIdle
<1>5. /\ attemptedDay' \in {attemptedDay, in.local.day}
      /\ attemptedDay' # attemptedDay => in.local # None
  BY DEF Sample, Idle, Advance, Skip, StartRun, StayIdle, WindowMissed, DayIsOpen
<1>6. QED BY <1>1, <1>2, <1>3, <1>4, <1>5

LEMMA SampleKeepsType ==
  ASSUME TypeOK, NEW in \in Input, Sample(in)
  PROVE  TypeOK'
<1>1. run' \in Run /\ p' \in Persistent /\ out' \in Output
  BY AdvanceKeepsType, IdleKeepsType DEF Sample
<1>2. QED BY <1>1, ClocksKeepType DEF Sample, TypeOK

LEMMA NextKeepsType ==
  ASSUME TypeOK, [Next]_vars
  PROVE  TypeOK'
<1>1. CASE \E in \in Inputs : Sample(in)
  BY <1>1, SampleKeepsType, Constants
<1>2. CASE SetConfig
  BY <1>2 DEF SetConfig, TypeOK
<1>3. CASE \E d \in Slots : ClearFailure(d)
  <2>1. PICK d \in Slots : ClearFailure(d)
    BY <1>3
  <2>2. p' \in Persistent
    BY <2>1 DEF ClearFailure, TypeOK, Persistent
  <2>3. QED BY <2>1, <2>2 DEF ClearFailure, TypeOK
<1>4. CASE Reboot
  <2>1. Silent \in Output
    BY DEF Silent, Output
  <2>2. QED BY <1>4, <2>1, NoRunType DEF Reboot, TypeOK, OptionalAge, OptionalDay
<1>5. CASE UNCHANGED vars
  BY <1>5 DEF vars, TypeOK
<1>6. QED BY <1>1, <1>2, <1>3, <1>4, <1>5 DEF Next

LEMMA InitHasType == Init => TypeOK
<1>1. Untested \in Persistent
  BY Constants DEF Untested, Persistent, OptionalDay
<1>2. Silent \in Output
  BY DEF Silent, Output
<1>3. QED BY <1>1, <1>2, NoRunType DEF Init, TypeOK, OptionalAge, OptionalDay

\* The state of selftest.hpp keeps its ranges.
THEOREM SelfTestTypeCorrect == Spec => []TypeOK
<1>1. TypeOK /\ [Next]_vars => TypeOK'
  BY NextKeepsType
<1>2. QED BY InitHasType, <1>1, PTL DEF Spec

-----------------------------------------------------------------------------
(* What a sample does to the run and puts out.                               *)

LEMMA DisturbedParts ==
  ASSUME NEW in, ~Disturbed(in)
  PROVE  ~in.fault /\ ~in.alert /\ ~TestedOut(in)
BY DEF Disturbed

LEMMA StartIsUndisturbed ==
  ASSUME NEW in, StartRun(in)
  PROVE  Tested # {} /\ ~in.fault /\ ~in.alert /\ ~in.maintenance /\ ~TestedOut(in)
<1>1. SkipOf(in) \notin SkipReason
  BY Constants DEF StartRun
<1>2. QED BY <1>1 DEF SkipOf, SkipReason

LEMMA PutsParts ==
  ASSUME NEW r, NEW on, NEW cut, NEW events, Puts(r, on, cut, events)
  PROVE  /\ run' = r /\ p' = ForgetChecks
         /\ out'.on = on /\ out'.cut = cut /\ out'.events = events \cup ForgetEvents
BY DEF Puts

LEMMA MeasureParts ==
  ASSUME NEW r \in Run, NEW in
  PROVE  LET measured == Measure(r, in)
         IN /\ measured.peak = IF in.reading = None \/ in.reading.rise <= r.peak THEN r.peak
                               ELSE in.reading.rise
            /\ \A field \in {"phase", "device", "age", "judged", "deviceJudged", "manual",
                             "aborted", "startMgl"} : measured[field] = r[field]
BY DEF Measure, Run

\* Only an undisturbed run goes on; the device on is the one that runs, and a device is
\* held off in the deficit.
LEMMA SampleMoves ==
  ASSUME TypeOK, NEW in \in Input, Sample(in)
  PROVE  /\ run'.phase # "Idle" => ~Disturbed(in)
         /\ RunBegins => Tested # {} /\ ~in.maintenance
         /\ out'.on = IF run'.phase = "Running" THEN {run'.device} ELSE {}
         /\ out'.cut = IF run'.phase = "Deficit" THEN config.deficitDevice ELSE None
         /\ run'.phase = "Deficit" =>
              \/ /\ run.phase = "Deficit"
                 /\ PhaseAge(in) < config.deficit /\ run'.age = PhaseAge(in)
              \/ run.phase = "Idle" /\ DeficitConfigured /\ run'.age = 0
<1>1. run \in Run /\ Measure(run, in) \in Run /\ run.age \in Age /\ config \in Config
  BY MeasureType, Constants DEF TypeOK, Run
<1>2. PhaseAge(in) \in Nat /\ config.deficit \in Nat
  BY <1>1, AgedType, Constants DEF PhaseAge, OptionalAge, Age, Config
<1>3. NoRun.phase = "Idle" /\ Silent.on = {} /\ Silent.cut = None
  BY DEF NoRun, Silent
<1>4. CASE Idle(in) /\ (Skip(in) \/ StayIdle(in))
  BY <1>4 DEF Idle, Skip, StayIdle, Puts, RunBegins
<1>5. CASE Idle(in) /\ StartRun(in)
  <2> DEFINE r == [run EXCEPT !.manual = in.runNow, !.aborted = FALSE]
             deficit == [r EXCEPT !.phase = "Deficit", !.age = 0]
  <2>1. r \in Run /\ deficit.phase = "Deficit" /\ deficit.age = 0
    BY <1>1, Constants DEF Run, Input
  <2>2. Tested # {} /\ ~in.maintenance /\ ~Disturbed(in) /\ run.phase = "Idle"
    BY <1>5, StartIsUndisturbed DEF Disturbed, Idle
  <2>3. CASE DeficitConfigured
    <3>1. run' = deficit /\ out'.on = {} /\ out'.cut = config.deficitDevice
      BY <1>5, <2>3 DEF StartRun
    <3>2. QED BY <2>1, <2>2, <2>3, <3>1
  <2>4. CASE ~DeficitConfigured
    <3>1. /\ run' = BeginDevice(r, NextTested(0), in, TRUE)
          /\ out'.on = {NextTested(0)} /\ out'.cut = None
      BY <1>5, <2>4 DEF StartRun
    <3>2. run'.phase = "Running" /\ run'.device = NextTested(0)
      <4> HIDE DEF r
      <4>1. QED BY <2>1, <3>1 DEF BeginDevice, Run
    <3>3. QED BY <2>2, <3>1, <3>2
  <2>5. QED BY <2>3, <2>4
<1>6. CASE run.phase # "Idle" /\ Abort(in)
  BY <1>3, <1>6 DEF Abort, RunBegins, Silent
<1>7. CASE run.phase # "Idle" /\ Deficit(in)
  <2>1. CASE PhaseAge(in) >= config.deficit
    <3>1. /\ run' = BeginDevice(run, NextTested(0), in, TRUE)
          /\ out'.on = {NextTested(0)} /\ out'.cut = None
      BY <1>7, <2>1, PutsParts DEF Deficit
    <3>2. run'.phase = "Running" /\ run'.device = NextTested(0)
      BY <1>1, <3>1 DEF BeginDevice, Run
    <3>3. QED BY <1>7, <3>1, <3>2 DEF Deficit, RunBegins
  <2>2. CASE ~(PhaseAge(in) >= config.deficit)
    <3>1. /\ run' = [run EXCEPT !.age = PhaseAge(in)]
          /\ out'.on = {} /\ out'.cut = config.deficitDevice
      BY <1>7, <2>2, PutsParts DEF Deficit
    <3>2. run'.phase = "Deficit" /\ run'.age = PhaseAge(in)
      BY <1>1, <1>7, <3>1 DEF Run, Deficit
    <3>3. QED BY <1>2, <1>7, <2>2, <3>1, <3>2 DEF Deficit, RunBegins
  <2>3. QED BY <2>1, <2>2
<1>8. CASE run.phase # "Idle" /\ Running(in)
  <2>1. Measure(run, in).device = run.device /\ Measure(run, in).phase = run.phase
    BY <1>1, MeasureParts
  <2>2. CASE PhaseAge(in) >= TestOf(run.device, in)
    <3>1. /\ run' = [Measure(run, in) EXCEPT !.phase = "Tail", !.age = 0]
          /\ out'.on = {} /\ out'.cut = None
      BY <1>8, <2>2, PutsParts DEF Running
    <3>2. run'.phase = "Tail"
      BY <1>1, <3>1 DEF Run
    <3>3. QED BY <1>8, <3>1, <3>2 DEF Running, RunBegins
  <2>3. CASE ~(PhaseAge(in) >= TestOf(run.device, in))
    <3>1. /\ run' = [Measure(run, in) EXCEPT !.age = PhaseAge(in)]
          /\ out'.on = {run.device} /\ out'.cut = None
      BY <1>8, <2>3, PutsParts DEF Running
    <3>2. run'.phase = "Running" /\ run'.device = run.device
      BY <1>1, <1>8, <2>1, <3>1 DEF Run, Running
    <3>3. QED BY <1>8, <3>1, <3>2 DEF Running, RunBegins
  <2>4. QED BY <2>2, <2>3
<1>9. CASE run.phase # "Idle" /\ TailRunsOn(in)
  <2>1. Measure(run, in).phase = run.phase
    BY <1>1 DEF Measure, Run
  <2>2. QED BY <1>1, <1>9, <2>1 DEF TailRunsOn, Puts, RunBegins, Run
<1>10. CASE run.phase # "Idle" /\ TailEnds(in)
  <2> DEFINE r == Measure(run, in)
             next == NextTested(run.device + 1)
  <2>1. [r EXCEPT !.phase = "Settle", !.device = next, !.age = 0].phase = "Settle"
    BY <1>1 DEF Run
  <2>2. run'.phase \in {"Idle", "Settle"} /\ out'.on = {} /\ out'.cut = None
    BY <1>3, <1>10, <2>1 DEF TailEnds, Silent
  <2>3. QED BY <1>10, <2>2 DEF TailEnds, RunBegins
<1>11. CASE run.phase # "Idle" /\ Settle(in)
  <2>1. CASE PhaseAge(in) >= config.settle
    <3>1. /\ run' = BeginDevice(run, run.device, in, FALSE)
          /\ out'.on = {run.device} /\ out'.cut = None
      BY <1>11, <2>1, PutsParts DEF Settle
    <3>2. run'.phase = "Running" /\ run'.device = run.device
      BY <1>1, <3>1 DEF BeginDevice, Run
    <3>3. QED BY <1>11, <3>1, <3>2 DEF Settle, RunBegins
  <2>2. CASE ~(PhaseAge(in) >= config.settle)
    <3>1. run' = [run EXCEPT !.age = PhaseAge(in)] /\ out'.on = {} /\ out'.cut = None
      BY <1>11, <2>2, PutsParts DEF Settle
    <3>2. run'.phase = "Settle"
      BY <1>1, <1>11, <3>1 DEF Run, Settle
    <3>3. QED BY <1>11, <3>1, <3>2 DEF Settle, RunBegins
  <2>3. QED BY <2>1, <2>2
<1>12. QED
  BY <1>4, <1>5, <1>6, <1>7, <1>8, <1>9, <1>10, <1>11 DEF Sample, Idle, Advance

-----------------------------------------------------------------------------
(* The contract with the App, and the induced deficit.                       *)

\* While a device is held off, the run is in its deficit and undisturbed.
CutInv ==
  /\ run.phase = "Deficit" <=> out.cut # None
  /\ cutFor = IF run.phase = "Deficit" THEN run.age ELSE None
  /\ run.phase # "Idle" => calm

LEMMA CutInvStep ==
  ASSUME TypeOK, CutInv, [VerdictNext]_vvars
  PROVE  CutInv'
<1>1. ASSUME NEW in \in Input, Sample(in), RecordRun(in)
      PROVE  CutInv'
  <2>1. config.deficitDevice # None /\ run.age \in Age /\ None \notin Age
    BY DeficitDeviceType, Constants DEF TypeOK, Run, Slots, Age
  <2>2. run'.phase = "Deficit" <=> out'.cut # None
    BY <1>1, <2>1, SampleMoves
  <2>3. cutFor' = IF run'.phase = "Deficit" THEN run'.age ELSE None
    BY <1>1, <2>1, <2>2, SampleMoves DEF CutInv, RecordRun, PhaseAge
  <2>4. run'.phase # "Idle" => calm'
    BY <1>1, SampleMoves DEF CutInv, RecordRun, RunBegins
  <2>5. QED BY <2>2, <2>3, <2>4 DEF CutInv
<1>2. CASE Reboot /\ cutFor' = None
  BY <1>2 DEF CutInv, Reboot, NoRun, Silent
<1>3. CASE (SetConfig \/ \E d \in Slots : ClearFailure(d)) /\ UNCHANGED verdictHistory
  BY <1>3 DEF CutInv, SetConfig, ClearFailure, verdictHistory
<1>4. CASE UNCHANGED vvars
  BY <1>4 DEF CutInv, vvars, vars, verdictHistory
<1>5. QED BY <1>1, <1>2, <1>3, <1>4, Constants DEF VerdictNext, VerdictSample

LEMMA VerdictNextKeepsType ==
  ASSUME TypeOK, [VerdictNext]_vvars
  PROVE  TypeOK'
<1>1. [Next]_vars
  BY DEF VerdictNext, VerdictSample, Next, vvars
<1>2. QED BY <1>1, NextKeepsType

\* A step of the test is a step of the contract the App is built on.
LEMMA ContractStep ==
  ASSUME TypeOK, CutInv, NEW in \in Input, Sample(in)
  PROVE  Contract!Step(in.alert, in.fault, in.maintenance, in.out)
<1>1. Contract!Tested = Tested /\ Contract!TestedOut(in.out) = TestedOut(in)
  BY DEF Contract!Tested, Tested, Contract!Slots, Slots, Contract!TestedOut, TestedOut
<1>2. run' \in Run /\ config \in Configs
  BY SampleKeepsType DEF TypeOK
<1>3. Contract!RunMoves(in.alert, in.fault, in.maintenance, in.out)
  BY <1>1, SampleMoves, DisturbedParts DEF Contract!RunMoves, RunBegins
<1>4. Contract!DevicesMove
  BY <1>2, SampleMoves DEF Contract!DevicesMove, Run
<1>5. Contract!CutMoves
  BY SampleMoves DEF Contract!CutMoves, CutInv, DeficitConfigured
<1>6. QED BY <1>3, <1>4, <1>5 DEF Contract!Step

\* The test keeps the contract App::Tick is built on.
THEOREM ContractIsKept == VerdictSpec => KeepsContract
<1>1. VerdictInit => TypeOK /\ CutInv /\ Contract!Init
  BY InitHasType DEF VerdictInit, Init, CutInv, NoRun, Silent, Contract!Init
<1>2. TypeOK /\ CutInv /\ [VerdictNext]_vvars => TypeOK' /\ CutInv'
  BY VerdictNextKeepsType, CutInvStep
<1>3. TypeOK /\ CutInv =>
        \A in \in Inputs : Sample(in) =>
          Contract!Step(in.alert, in.fault, in.maintenance, in.out)
  BY ContractStep, Constants
<1>4. QED BY <1>1, <1>2, <1>3, PTL DEF VerdictSpec, KeepsContract

\* The induced deficit is shorter than induce_deficit_s and never outlasts a calm.
THEOREM DeficitIsBrief == VerdictSpec => CutIsBrief
<1>1. VerdictInit => TypeOK /\ CutInv
  BY InitHasType DEF VerdictInit, Init, CutInv, NoRun, Silent
<1>2. TypeOK /\ CutInv /\ [VerdictNext]_vvars => TypeOK' /\ CutInv'
  BY VerdictNextKeepsType, CutInvStep
<1>3. ASSUME TypeOK, CutInv, [VerdictNext]_vvars, VerdictSample, out'.cut # None
      PROVE  cutFor' < config.deficit /\ calm'
  <2>1. PICK in \in Input : Sample(in)
    BY <1>3, Constants DEF VerdictSample
  <2>2. CutInv'
    BY <1>2, <1>3
  <2>3. cutFor' = run'.age /\ calm' /\ run'.phase = "Deficit"
    BY <1>3, <2>2 DEF CutInv
  <2>4. DeficitConfigured => 0 < config.deficit
    BY <1>3, Constants DEF DeficitConfigured, TypeOK, Config
  <2>5. QED BY <1>3, <2>1, <2>3, <2>4, SampleMoves
<1>4. QED BY <1>1, <1>2, <1>3, PTL DEF VerdictSpec, CutIsBrief

-----------------------------------------------------------------------------
(* How a run moves, and the events that tell of it.                          *)

\* A device begins: nothing of the one before it is left but whether the run is judged.
Begun(in) ==
  /\ run'.age = 0 /\ run'.peak = 0
  /\ run'.judged <=> IF run.phase = "Settle" THEN run.judged ELSE config.exclusive /\ HasHeadroom(in)
  /\ run'.deviceJudged <=> run'.judged /\ TrendReady(in)
  /\ run'.startMgl = IF in.reading = None THEN 0 ELSE in.reading.mgl

\* A device runs or is watched: only its peak may grow.
Watched(in) ==
  /\ run'.device = run.device /\ run'.startMgl = run.startMgl
  /\ run'.judged = run.judged /\ run'.deviceJudged = run.deviceJudged
  /\ run'.peak = Measure(run, in).peak

LEMMA RunMoves ==
  ASSUME TypeOK, NEW in \in Input, Sample(in)
  PROVE  /\ run'.phase = "Running" =>
              \/ run.phase \in {"Idle", "Deficit", "Settle"} /\ Begun(in)
              \/ run.phase = "Running" /\ Watched(in) /\ run'.age = PhaseAge(in)
         /\ run'.phase = "Tail" =>
              /\ Watched(in)
              /\ \/ /\ run.phase = "Running" /\ run'.age = 0
                    /\ PhaseAge(in) >= TestOf(run.device, in)
                 \/ run.phase = "Tail" /\ run'.age = PhaseAge(in)
         /\ run'.phase = "Settle" => run.phase \in {"Tail", "Settle"} /\ run'.judged = run.judged
<1>1. run \in Run /\ Measure(run, in) \in Run
  BY MeasureType DEF TypeOK
<1>2. /\ Measure(run, in).device = run.device /\ Measure(run, in).startMgl = run.startMgl
      /\ Measure(run, in).judged = run.judged /\ Measure(run, in).deviceJudged = run.deviceJudged
      /\ Measure(run, in).phase = run.phase
  BY <1>1, MeasureParts
<1>3. CASE Idle(in) /\ (Skip(in) \/ StayIdle(in))
  BY <1>3 DEF Idle, Skip, StayIdle, Puts
<1>4. CASE Idle(in) /\ StartRun(in)
  <2> DEFINE r == [run EXCEPT !.manual = in.runNow, !.aborted = FALSE]
  <2>1. r \in Run
    BY <1>1, Constants DEF Run, Input
  <2>2. CASE DeficitConfigured
    <3>1. run' = [r EXCEPT !.phase = "Deficit", !.age = 0]
      BY <1>4, <2>2 DEF StartRun
    <3>2. run'.phase = "Deficit"
      BY <2>1, <3>1 DEF Run
    <3>3. QED BY <3>2
  <2>3. CASE ~DeficitConfigured
    <3>1. run' = BeginDevice(r, NextTested(0), in, TRUE) /\ run.phase = "Idle"
      BY <1>4, <2>3 DEF StartRun, Idle
    <3> HIDE DEF r
    <3>2. run'.phase = "Running" /\ Begun(in)
      BY <2>1, <3>1 DEF BeginDevice, Run, Begun
    <3>3. QED BY <3>1, <3>2
  <2>4. QED BY <2>2, <2>3
<1>5. CASE run.phase # "Idle" /\ Abort(in)
  BY <1>5 DEF Abort, NoRun
<1>6. CASE run.phase # "Idle" /\ Deficit(in)
  <2>1. CASE PhaseAge(in) >= config.deficit
    <3>1. run' = BeginDevice(run, NextTested(0), in, TRUE) /\ run.phase = "Deficit"
      BY <1>6, <2>1, PutsParts DEF Deficit
    <3>2. run'.phase = "Running" /\ Begun(in)
      BY <1>1, <3>1 DEF BeginDevice, Run, Begun
    <3>3. QED BY <3>1, <3>2
  <2>2. CASE ~(PhaseAge(in) >= config.deficit)
    <3>1. run' = [run EXCEPT !.age = PhaseAge(in)] /\ run.phase = "Deficit"
      BY <1>6, <2>2, PutsParts DEF Deficit
    <3>2. run'.phase = "Deficit"
      BY <1>1, <3>1 DEF Run
    <3>3. QED BY <3>2
  <2>3. QED BY <2>1, <2>2
<1>7. CASE run.phase # "Idle" /\ Running(in)
  <2>1. CASE PhaseAge(in) >= TestOf(run.device, in)
    <3>1. run' = [Measure(run, in) EXCEPT !.phase = "Tail", !.age = 0] /\ run.phase = "Running"
      BY <1>7, <2>1, PutsParts DEF Running
    <3>2. run'.phase = "Tail" /\ run'.age = 0 /\ Watched(in)
      BY <1>1, <1>2, <3>1 DEF Run, Watched
    <3>3. QED BY <2>1, <3>1, <3>2
  <2>2. CASE ~(PhaseAge(in) >= TestOf(run.device, in))
    <3>1. run' = [Measure(run, in) EXCEPT !.age = PhaseAge(in)] /\ run.phase = "Running"
      BY <1>7, <2>2, PutsParts DEF Running
    <3>2. run'.phase = "Running" /\ run'.age = PhaseAge(in) /\ Watched(in)
      BY <1>1, <1>2, <3>1 DEF Run, Watched
    <3>3. QED BY <3>1, <3>2
  <2>3. QED BY <2>1, <2>2
<1>8. CASE run.phase # "Idle" /\ TailRunsOn(in)
  <2>1. run' = [Measure(run, in) EXCEPT !.age = PhaseAge(in)] /\ run.phase = "Tail"
    BY <1>8, PutsParts DEF TailRunsOn
  <2>2. run'.phase = "Tail" /\ run'.age = PhaseAge(in) /\ Watched(in)
    BY <1>1, <1>2, <2>1 DEF Run, Watched
  <2>3. QED BY <2>1, <2>2
<1>9. CASE run.phase # "Idle" /\ TailEnds(in)
  <2> DEFINE next == NextTested(run.device + 1)
  <2>1. run' \in {NoRun, [Measure(run, in) EXCEPT !.phase = "Settle", !.device = next, !.age = 0]}
        /\ run.phase = "Tail"
    BY <1>9 DEF TailEnds
  <2>2. CASE run' = NoRun
    BY <2>2 DEF NoRun
  <2>3. CASE run' = [Measure(run, in) EXCEPT !.phase = "Settle", !.device = next, !.age = 0]
    <3>1. run'.phase = "Settle" /\ run'.judged = run.judged
      BY <1>1, <1>2, <2>3 DEF Run
    <3>2. QED BY <2>1, <3>1
  <2>4. QED BY <2>1, <2>2, <2>3
<1>10. CASE run.phase # "Idle" /\ Settle(in)
  <2>1. CASE PhaseAge(in) >= config.settle
    <3>1. run' = BeginDevice(run, run.device, in, FALSE) /\ run.phase = "Settle"
      BY <1>10, <2>1, PutsParts DEF Settle
    <3>2. run'.phase = "Running" /\ Begun(in)
      BY <1>1, <3>1 DEF BeginDevice, Run, Begun
    <3>3. QED BY <3>1, <3>2
  <2>2. CASE ~(PhaseAge(in) >= config.settle)
    <3>1. run' = [run EXCEPT !.age = PhaseAge(in)] /\ run.phase = "Settle"
      BY <1>10, <2>2, PutsParts DEF Settle
    <3>2. run'.phase = "Settle" /\ run'.judged = run.judged
      BY <1>1, <3>1 DEF Run
    <3>3. QED BY <3>1, <3>2
  <2>3. QED BY <2>1, <2>2
<1>11. QED
  BY <1>3, <1>4, <1>5, <1>6, <1>7, <1>8, <1>9, <1>10 DEF Sample, Idle, Advance

\* The events of a step, by what they tell of.
LEMMA ForgetKinds == \A e \in ForgetEvents : e.type = "FailCleared" /\ ~config.exclusive
BY DEF ForgetEvents

LEMMA EventKinds ==
  ASSUME NEW q, NEW r, NEW in, NEW d
  PROVE  /\ \A e \in EndDeviceEvents(q, r, in) : e.type \in {"DeviceEnd", "FailAlert", "FailCleared"}
         /\ \A e \in EndRunEvents(q, r) : e.type \in {"RunEnd", "InconclusiveAlert"}
         /\ \E e \in EndRunEvents(q, r) : e.type = "RunEnd"
         /\ \A e \in BeginEvents(d, TRUE) : e.type \in {"DeviceStart", "RunStart"}
         /\ \E e \in BeginEvents(d, TRUE) : e.type = "RunStart"
         /\ \E e \in BeginEvents(d, TRUE) : e.type = "DeviceStart"
         /\ \A e \in BeginEvents(d, FALSE) : e.type = "DeviceStart"
         /\ \E e \in BeginEvents(d, FALSE) : e.type = "DeviceStart"
<1>1. \A e \in EndDeviceEvents(q, r, in) : e.type \in {"DeviceEnd", "FailAlert", "FailCleared"}
  BY DEF EndDeviceEvents
<1>2. /\ \A e \in EndRunEvents(q, r) : e.type \in {"RunEnd", "InconclusiveAlert"}
      /\ [type |-> "RunEnd"] \in EndRunEvents(q, r)
  BY DEF EndRunEvents
<1>3. /\ \A e \in BeginEvents(d, TRUE) : e.type \in {"DeviceStart", "RunStart"}
      /\ [type |-> "RunStart"] \in BeginEvents(d, TRUE)
      /\ [type |-> "DeviceStart", device |-> d] \in BeginEvents(d, TRUE)
  BY DEF BeginEvents
<1>4. /\ \A e \in BeginEvents(d, FALSE) : e.type = "DeviceStart"
      /\ [type |-> "DeviceStart", device |-> d] \in BeginEvents(d, FALSE)
  BY DEF BeginEvents
<1>5. QED BY <1>1, <1>2, <1>3, <1>4

\* The log of events tells the run's beginning, its devices' and its end.
LEMMA SampleEvents ==
  ASSUME TypeOK, NEW in \in Input, Sample(in)
  PROVE  /\ Has("RunStart") <=> run.phase \in {"Idle", "Deficit"} /\ run'.phase = "Running"
         /\ Has("DeviceStart") <=> run.phase \in {"Idle", "Deficit", "Settle"} /\ run'.phase = "Running"
         /\ Has("RunEnd") <=> run.phase # "Idle" /\ run'.phase = "Idle"
<1>1. /\ run \in Run /\ Measure(run, in) \in Run
      /\ Measure(run, in).phase = run.phase
  BY MeasureType, MeasureParts DEF TypeOK
<1>2. CASE Idle(in) /\ (Skip(in) \/ StayIdle(in))
  <2>1. /\ run' = run /\ run.phase = "Idle"
        /\ \E skips \in {{}, {[type |-> "Skipped", skip |-> SkipOf(in)]},
                         {[type |-> "Skipped", skip |-> "Missed"]}} :
             out'.events = skips \cup ForgetEvents
    BY <1>2, PutsParts DEF Idle, Skip, StayIdle
  <2>2. \A e \in out'.events : e.type \in {"Skipped", "FailCleared"}
    BY <2>1, ForgetKinds
  <2>3. QED BY <2>1, <2>2 DEF Has
<1>3. CASE Idle(in) /\ StartRun(in)
  <2> DEFINE r == [run EXCEPT !.manual = in.runNow, !.aborted = FALSE]
  <2>1. r \in Run /\ run.phase = "Idle"
    BY <1>1, <1>3, Constants DEF Run, Input, Idle
  <2>2. CASE DeficitConfigured
    <3>1. run' = [r EXCEPT !.phase = "Deficit", !.age = 0] /\ out'.events = ForgetEvents
      BY <1>3, <2>2 DEF StartRun
    <3>2. run'.phase = "Deficit"
      BY <2>1, <3>1 DEF Run
    <3>3. QED BY <2>1, <3>1, <3>2, ForgetKinds, EventKinds DEF Has
  <2>3. CASE ~DeficitConfigured
    <3>1. /\ run' = BeginDevice(r, NextTested(0), in, TRUE)
          /\ out'.events = ForgetEvents \cup BeginEvents(NextTested(0), TRUE)
      BY <1>3, <2>3 DEF StartRun
    <3> HIDE DEF r
    <3>2. run'.phase = "Running"
      BY <2>1, <3>1 DEF BeginDevice, Run
    <3>3. QED BY <2>1, <3>1, <3>2, ForgetKinds, EventKinds DEF Has
  <2>4. QED BY <2>2, <2>3
<1>4. CASE run.phase # "Idle" /\ Abort(in)
  <2> DEFINE r == [run EXCEPT !.aborted = TRUE]
             inDevice == run.phase \in {"Running", "Tail"}
             q == IF inDevice THEN EndDevice(ForgetChecks, r, in) ELSE ForgetChecks
  <2>1. /\ run' = NoRun
        /\ out'.events = ForgetEvents \cup EndRunEvents(q, r)
             \cup (IF inDevice THEN EndDeviceEvents(ForgetChecks, r, in) ELSE {})
    BY <1>4 DEF Abort, Silent
  <2>2. run'.phase = "Idle"
    BY <2>1 DEF NoRun
  <2> HIDE DEF r, q
  <2>3. /\ \A e \in out'.events : e.type \notin {"RunStart", "DeviceStart"}
        /\ \E e \in out'.events : e.type = "RunEnd"
    <3>1. /\ \A e \in EndRunEvents(q, r) : e.type \in {"RunEnd", "InconclusiveAlert"}
          /\ \E e \in EndRunEvents(q, r) : e.type = "RunEnd"
          /\ \A e \in EndDeviceEvents(ForgetChecks, r, in) :
               e.type \in {"DeviceEnd", "FailAlert", "FailCleared"}
      BY EventKinds
    <3>2. QED BY <2>1, <3>1, ForgetKinds
  <2>4. QED BY <1>4, <2>2, <2>3 DEF Has
<1>5. CASE run.phase # "Idle" /\ Deficit(in)
  <2>1. CASE PhaseAge(in) >= config.deficit
    <3>1. /\ run' = BeginDevice(run, NextTested(0), in, TRUE) /\ run.phase = "Deficit"
          /\ out'.events = BeginEvents(NextTested(0), TRUE) \cup ForgetEvents
      BY <1>5, <2>1, PutsParts DEF Deficit
    <3>2. run'.phase = "Running"
      BY <1>1, <3>1 DEF BeginDevice, Run
    <3>3. QED BY <3>1, <3>2, ForgetKinds, EventKinds DEF Has
  <2>2. CASE ~(PhaseAge(in) >= config.deficit)
    <3>1. /\ run' = [run EXCEPT !.age = PhaseAge(in)] /\ run.phase = "Deficit"
          /\ out'.events = {} \cup ForgetEvents
      BY <1>5, <2>2, PutsParts DEF Deficit
    <3>2. run'.phase = "Deficit"
      BY <1>1, <3>1 DEF Run
    <3>3. QED BY <3>1, <3>2, ForgetKinds, EventKinds DEF Has
  <2>3. QED BY <2>1, <2>2
<1>6. CASE run.phase # "Idle" /\ Running(in)
  <2>1. /\ run' \in {[Measure(run, in) EXCEPT !.phase = "Tail", !.age = 0],
                    [Measure(run, in) EXCEPT !.age = PhaseAge(in)]}
        /\ run.phase = "Running" /\ out'.events = {} \cup ForgetEvents
    BY <1>6, PutsParts DEF Running
  <2>2. run'.phase \in {"Running", "Tail"}
    BY <1>1, <2>1 DEF Run
  <2>3. QED BY <2>1, <2>2, ForgetKinds, EventKinds DEF Has
<1>7. CASE run.phase # "Idle" /\ TailRunsOn(in)
  <2>1. /\ run' = [Measure(run, in) EXCEPT !.age = PhaseAge(in)]
        /\ run.phase = "Tail" /\ out'.events = {} \cup ForgetEvents
    BY <1>7, PutsParts DEF TailRunsOn
  <2>2. run'.phase = "Tail"
    BY <1>1, <2>1 DEF Run
  <2>3. QED BY <2>1, <2>2, ForgetKinds, EventKinds DEF Has
<1>8. CASE run.phase # "Idle" /\ TailEnds(in)
  <2> DEFINE r == Measure(run, in)
             q == EndDevice(ForgetChecks, r, in)
             next == NextTested(run.device + 1)
  <2>1. run.phase = "Tail"
    BY <1>8 DEF TailEnds
  <2>2. CASE next = NDevices
    <3>1. /\ run' = NoRun
          /\ out'.events = ForgetEvents \cup EndDeviceEvents(ForgetChecks, r, in) \cup EndRunEvents(q, r)
      BY <1>8, <2>2 DEF TailEnds, Silent
    <3>2. run'.phase = "Idle"
      BY <3>1 DEF NoRun
    <3> HIDE DEF r, q
    <3>3. /\ \A e \in out'.events : e.type \notin {"RunStart", "DeviceStart"}
          /\ \E e \in out'.events : e.type = "RunEnd"
      <4>1. /\ \A e \in EndRunEvents(q, r) : e.type \in {"RunEnd", "InconclusiveAlert"}
            /\ \E e \in EndRunEvents(q, r) : e.type = "RunEnd"
            /\ \A e \in EndDeviceEvents(ForgetChecks, r, in) :
                 e.type \in {"DeviceEnd", "FailAlert", "FailCleared"}
        BY EventKinds
      <4>2. QED BY <3>1, <4>1, ForgetKinds
    <3>4. QED BY <2>1, <3>2, <3>3 DEF Has
  <2>3. CASE next # NDevices
    <3>1. /\ run' = [r EXCEPT !.phase = "Settle", !.device = next, !.age = 0]
          /\ out'.events = ForgetEvents \cup EndDeviceEvents(ForgetChecks, r, in)
      BY <1>8, <2>3 DEF TailEnds, Silent
    <3>2. run'.phase = "Settle"
      BY <1>1, <3>1 DEF Run
    <3> HIDE DEF r, q
    <3>3. QED BY <2>1, <3>1, <3>2, ForgetKinds, EventKinds DEF Has
  <2>4. QED BY <2>2, <2>3
<1>9. CASE run.phase # "Idle" /\ Settle(in)
  <2>1. CASE PhaseAge(in) >= config.settle
    <3>1. /\ run' = BeginDevice(run, run.device, in, FALSE) /\ run.phase = "Settle"
          /\ out'.events = BeginEvents(run.device, FALSE) \cup ForgetEvents
      BY <1>9, <2>1, PutsParts DEF Settle
    <3>2. run'.phase = "Running"
      BY <1>1, <3>1 DEF BeginDevice, Run
    <3>3. QED BY <3>1, <3>2, ForgetKinds, EventKinds DEF Has
  <2>2. CASE ~(PhaseAge(in) >= config.settle)
    <3>1. /\ run' = [run EXCEPT !.age = PhaseAge(in)] /\ run.phase = "Settle"
          /\ out'.events = {} \cup ForgetEvents
      BY <1>9, <2>2, PutsParts DEF Settle
    <3>2. run'.phase = "Settle"
      BY <1>1, <3>1 DEF Run
    <3>3. QED BY <3>1, <3>2, ForgetKinds, EventKinds DEF Has
  <2>3. QED BY <2>1, <2>2
<1>10. QED
  BY <1>2, <1>3, <1>4, <1>5, <1>6, <1>7, <1>8, <1>9 DEF Sample, Idle, Advance

\* A verdict's event.
IsVerdict(e) == e.type \in {"FailAlert", "FailCleared"}

\* A verdict is put out where a tail ends, or all are forgotten with the checks.
LEMMA VerdictEvents ==
  ASSUME TypeOK, NEW in \in Input, Sample(in), NEW e \in out'.events, IsVerdict(e)
  PROVE  \/ e \in ForgetEvents
         \/ run.phase = "Tail" /\ TailEnds(in) /\ e \in EndDeviceEvents(ForgetChecks, Measure(run, in), in)
<1>1. ASSUME NEW events, \A f \in events : ~IsVerdict(f), out'.events = events \cup ForgetEvents
      PROVE  e \in ForgetEvents
  BY <1>1
<1>2. \A d, first : \A f \in BeginEvents(d, first) : ~IsVerdict(f)
  BY DEF BeginEvents, IsVerdict
<1>3. \A q, r : \A f \in EndRunEvents(q, r) : ~IsVerdict(f)
  BY DEF EndRunEvents, IsVerdict
<1>4. \A s : ~IsVerdict([type |-> "Skipped", skip |-> s])
  BY DEF IsVerdict
<1>5. CASE Idle(in) /\ Skip(in)
  <2>1. out'.events = {[type |-> "Skipped", skip |-> SkipOf(in)]} \cup ForgetEvents
    BY <1>5, PutsParts DEF Skip
  <2>2. QED BY <1>1, <1>4, <2>1
<1>6. CASE Idle(in) /\ StayIdle(in)
  <2>1. out'.events = (IF WindowMissed(in) THEN {[type |-> "Skipped", skip |-> "Missed"]} ELSE {})
                        \cup ForgetEvents
    BY <1>6, PutsParts DEF StayIdle
  <2>2. QED BY <1>1, <1>4, <2>1
<1>7. CASE Idle(in) /\ StartRun(in)
  <2>1. \/ out'.events = ForgetEvents
        \/ out'.events = ForgetEvents \cup BeginEvents(NextTested(0), TRUE)
    BY <1>7 DEF StartRun
  <2>2. QED BY <1>2, <2>1
<1>8. CASE Abort(in)
  <2> DEFINE r == [run EXCEPT !.aborted = TRUE]
             inDevice == run.phase \in {"Running", "Tail"}
             q == IF inDevice THEN EndDevice(ForgetChecks, r, in) ELSE ForgetChecks
  <2>1. out'.events = ForgetEvents \cup EndRunEvents(q, r)
             \cup (IF inDevice THEN EndDeviceEvents(ForgetChecks, r, in) ELSE {})
    BY <1>8 DEF Abort, Silent
  <2>2. r.aborted
    BY DEF TypeOK, Run
  <2> HIDE DEF r, q
  <2>3. Verdict(r, in) = "Inconclusive"
    BY <2>2 DEF Verdict
  <2>4. \A f \in EndDeviceEvents(ForgetChecks, r, in) : ~IsVerdict(f)
    BY <2>3 DEF EndDeviceEvents, IsVerdict
  <2>5. QED BY <1>3, <2>1, <2>4
<1>9. CASE Deficit(in)
  <2>1. out'.events = BeginEvents(NextTested(0), TRUE) \cup ForgetEvents
        \/ out'.events = {} \cup ForgetEvents
    BY <1>9, PutsParts DEF Deficit
  <2>2. QED BY <1>2, <2>1
<1>10. CASE Running(in) \/ TailRunsOn(in)
  <2>1. out'.events = {} \cup ForgetEvents
    BY <1>10, PutsParts DEF Running, TailRunsOn
  <2>2. QED BY <2>1
<1>11. CASE TailEnds(in)
  <2> DEFINE r == Measure(run, in)
             q == EndDevice(ForgetChecks, r, in)
  <2>1. out'.events \subseteq
          ForgetEvents \cup EndDeviceEvents(ForgetChecks, r, in) \cup EndRunEvents(q, r)
    BY <1>11 DEF TailEnds, Silent
  <2> HIDE DEF q
  <2>2. QED BY <1>3, <1>11, <2>1 DEF TailEnds
<1>12. CASE Settle(in)
  <2>1. out'.events = BeginEvents(run.device, FALSE) \cup ForgetEvents
        \/ out'.events = {} \cup ForgetEvents
    BY <1>12, PutsParts DEF Settle
  <2>2. QED BY <1>2, <2>1
<1>13. QED
  BY <1>5, <1>6, <1>7, <1>8, <1>9, <1>10, <1>11, <1>12 DEF Sample, Idle, Advance

-----------------------------------------------------------------------------
(* A verdict is earned.  The invariant ties what the run remembers of its    *)
(* device to the histories, which are told from inputs and outputs.          *)

\* What is known of the device from its start to its verdict.
DeviceInv ==
  run.phase \in {"Running", "Tail"} =>
    /\ started.device = run.device /\ started.mgl = run.startMgl
    /\ run.deviceJudged => run.judged /\ started.trend
    /\ run.peak = IF best = None THEN 0 ELSE best

\* How long the device has been on, and how long off.
OnOffInv ==
  /\ out.on = IF run.phase = "Running" THEN {run.device} ELSE {}
  /\ run.phase = "Running" => onFor = run.age
  /\ run.phase = "Tail" => full /\ offFor = run.age

VerdictInv ==
  /\ best \in Nat \cup {None}
  /\ DeviceInv
  /\ run.phase \in {"Running", "Tail", "Settle"} => (run.judged <=> headroom)
  /\ OnOffInv

LEMMA BestType ==
  ASSUME TypeOK, VerdictInv, NEW in \in Input, RecordDevice(in)
  PROVE  best' \in Nat \cup {None} /\ Best(in) \in Nat \cup {None}
<1>1. in.reading # None => in.reading.rise \in Nat
  BY Constants DEF Input, Reading
<1>2. Best(in) \in Nat \cup {None}
  BY <1>1 DEF Best, VerdictInv
<1>3. QED BY <1>2 DEF RecordDevice

\* The peak of the run is the best of the readings.
LEMMA PeakIsBest ==
  ASSUME TypeOK, VerdictInv, NEW in \in Input, run.phase \in {"Running", "Tail"}
  PROVE  Measure(run, in).peak = IF Best(in) = None THEN 0 ELSE Best(in)
<1>1. in.reading # None => in.reading.rise \in Nat
  BY Constants DEF Input, Reading
<1>2. run.peak = (IF best = None THEN 0 ELSE best) /\ best \in Nat \cup {None} /\ None \notin Int
  BY Constants DEF VerdictInv, DeviceInv
<1>3. Measure(run, in).peak = IF in.reading = None \/ in.reading.rise <= run.peak THEN run.peak
                              ELSE in.reading.rise
  BY MeasureParts DEF TypeOK
<1>4. QED BY <1>1, <1>2, <1>3 DEF Best

LEMMA DeviceInvStep ==
  ASSUME TypeOK, VerdictInv, NEW in \in Input, Sample(in), RecordDevice(in)
  PROVE  DeviceInv'
<1>1. SUFFICES ASSUME run'.phase \in {"Running", "Tail"}
      PROVE  DeviceInv'
  BY DEF DeviceInv
<1>2. CASE run'.phase = "Running" /\ run.phase \in {"Idle", "Deficit", "Settle"} /\ Begun(in)
  <2>1. DeviceBegins /\ ~Has("RunEnd") /\ out'.on = {run'.device}
    BY <1>2, SampleEvents, SampleMoves DEF DeviceBegins
  <2>2. /\ started' = [device |-> CHOOSE d \in out'.on : TRUE, trend |-> TrendReady(in),
                      mgl |-> IF in.reading = None THEN 0 ELSE in.reading.mgl]
        /\ best' = None
    BY <2>1 DEF RecordDevice
  <2>3. started'.device = run'.device
    BY <2>1, <2>2
  <2>4. /\ started'.mgl = run'.startMgl /\ run'.peak = 0
        /\ run'.deviceJudged => run'.judged /\ started'.trend
    BY <1>2, <2>2 DEF Begun
  <2>5. QED BY <2>2, <2>3, <2>4 DEF DeviceInv
<1>3. CASE run.phase \in {"Running", "Tail"} /\ Watched(in)
  <2>1. ~DeviceBegins /\ ~Has("RunEnd")
    BY <1>1, <1>3, SampleEvents DEF DeviceBegins
  <2>2. started' = started /\ best' = Best(in)
    BY <1>3, <2>1 DEF RecordDevice
  <2>3. run'.peak = IF best' = None THEN 0 ELSE best'
    BY <1>3, <2>2, PeakIsBest DEF Watched
  <2>4. QED BY <1>3, <2>2, <2>3 DEF DeviceInv, VerdictInv, Watched
<1>4. QED BY <1>1, <1>2, <1>3, RunMoves

LEMMA OnOffInvStep ==
  ASSUME TypeOK, VerdictInv, NEW in \in Input, Sample(in), RecordDevice(in)
  PROVE  OnOffInv'
<1>1. out'.on = IF run'.phase = "Running" THEN {run'.device} ELSE {}
  BY SampleMoves
<1>2. CASE run'.phase = "Running" /\ run.phase \in {"Idle", "Deficit", "Settle"} /\ Begun(in)
  <2>1. DeviceBegins
    BY <1>2, SampleEvents DEF DeviceBegins
  <2>2. onFor' = 0 /\ run'.age = 0
    BY <1>2, <2>1 DEF RecordDevice, Begun
  <2>3. QED BY <1>1, <1>2, <2>2 DEF OnOffInv
<1>3. CASE run.phase \in {"Running", "Tail"} /\ run'.phase \in {"Running", "Tail"} /\ Watched(in)
           /\ ~(run.phase = "Tail" /\ run'.phase = "Running")
  <2>1. ~DeviceBegins /\ ~Has("RunEnd") /\ run.phase # "Idle"
    BY <1>3, SampleEvents DEF DeviceBegins
  <2>2. started.device = run.device /\ run'.device = run.device
        /\ out.on = IF run.phase = "Running" THEN {run.device} ELSE {}
    BY <1>3 DEF VerdictInv, DeviceInv, OnOffInv, Watched
  <2>3. started.device \in out.on <=> run.phase = "Running"
    BY <2>2
  <2>4. WentOff <=> run.phase = "Running" /\ run'.phase = "Tail"
    BY <1>1, <1>3, <2>2, <2>3 DEF WentOff
  <2>5. run.phase = "Running" => onFor' = PhaseAge(in)
    BY <2>1, <2>3 DEF RecordDevice, VerdictInv, OnOffInv, PhaseAge
  <2>6. CASE run'.phase = "Running"
    <3>1. run.phase = "Running" /\ run'.age = PhaseAge(in)
      BY <1>3, <2>6, RunMoves
    <3>2. QED BY <1>1, <2>5, <2>6, <3>1 DEF OnOffInv
  <2>7. CASE run.phase = "Running" /\ run'.phase = "Tail"
    <3>1. run'.age = 0 /\ PhaseAge(in) >= TestOf(run.device, in)
      BY <2>7, RunMoves
    <3>2. full' /\ offFor' = 0
      BY <2>1, <2>2, <2>4, <2>5, <2>7, <3>1 DEF RecordDevice
    <3>3. QED BY <1>1, <2>7, <3>1, <3>2 DEF OnOffInv
  <2>8. CASE run.phase = "Tail" /\ run'.phase = "Tail"
    <3>1. run'.age = PhaseAge(in)
      BY <2>8, RunMoves
    <3>2. full' = full /\ offFor' = PhaseAge(in)
      BY <2>1, <2>4, <2>8 DEF RecordDevice, VerdictInv, OnOffInv, PhaseAge
    <3>3. full
      BY <2>8 DEF VerdictInv, OnOffInv
    <3>4. QED BY <1>1, <2>8, <3>1, <3>2, <3>3 DEF OnOffInv
  <2>9. QED BY <1>3, <2>6, <2>7, <2>8
<1>4. CASE run'.phase \notin {"Running", "Tail"}
  BY <1>1, <1>4 DEF OnOffInv
<1>5. QED BY <1>2, <1>3, <1>4, RunMoves

LEMMA VerdictInvStep ==
  ASSUME TypeOK, VerdictInv, [VerdictNext]_vvars
  PROVE  VerdictInv'
<1>1. ASSUME NEW in \in Input, Sample(in), RecordDevice(in), RecordRun(in)
      PROVE  VerdictInv'
  <2>1. run'.phase \in {"Running", "Tail", "Settle"} => (run'.judged <=> headroom')
    <3>1. CASE run'.phase = "Running" /\ run.phase \in {"Idle", "Deficit", "Settle"} /\ Begun(in)
      <4>1. ~Has("RunEnd") /\ (Has("RunStart") <=> run.phase \in {"Idle", "Deficit"})
        BY <1>1, <3>1, SampleEvents
      <4>2. QED BY <1>1, <3>1, <4>1 DEF RecordRun, VerdictInv, Begun
    <3>2. CASE /\ run'.phase \in {"Running", "Tail", "Settle"}
               /\ run.phase \in {"Running", "Tail", "Settle"} /\ run'.judged = run.judged
               /\ ~(run.phase = "Settle" /\ run'.phase = "Running")
      <4>1. ~Has("RunEnd") /\ ~Has("RunStart")
        BY <1>1, <3>2, SampleEvents
      <4>2. QED BY <1>1, <3>2, <4>1 DEF RecordRun, VerdictInv
    <3>3. QED BY <1>1, <3>1, <3>2, RunMoves DEF Watched
  <2>2. QED BY <1>1, <2>1, BestType, DeviceInvStep, OnOffInvStep DEF VerdictInv
<1>2. CASE Reboot /\ best' = None
  BY <1>2 DEF VerdictInv, DeviceInv, OnOffInv, Reboot, NoRun, Silent
<1>3. CASE (SetConfig \/ \E d \in Slots : ClearFailure(d)) /\ UNCHANGED verdictHistory
  BY <1>3 DEF VerdictInv, DeviceInv, OnOffInv, SetConfig, ClearFailure, verdictHistory
<1>4. CASE UNCHANGED vvars
  BY <1>4 DEF VerdictInv, DeviceInv, OnOffInv, vvars, vars, verdictHistory
<1>5. QED BY <1>1, <1>2, <1>3, <1>4, Constants DEF VerdictNext, VerdictSample

LEMMA VerdictIsJudged ==
  ASSUME TypeOK, CutInv, VerdictInv, NEW in \in Input, NEW d \in Slots,
         Sample(in), RecordDevice(in), RecordRun(in), run.phase = "Tail", TailEnds(in),
         run.device = d, Verdict(Measure(run, in), in) \in {"Pass", "Fail"}
  PROVE  /\ Judged(d)
         /\ Showed(d) <=> Verdict(Measure(run, in), in) = "Pass"
         /\ Verdict(Measure(run, in), in) = "Fail" =>
              config.noFailAbove = 0 \/ started.mgl < config.noFailAbove
<1> DEFINE r == Measure(run, in)
<1>1. /\ r.device = d /\ r.startMgl = run.startMgl /\ r.deviceJudged = run.deviceJudged
      /\ config \in Config
  BY MeasureParts, Constants DEF TypeOK
<1>2. /\ config.minResponse[d] \in Nat /\ config.noFailAbove \in Nat /\ run.startMgl \in Nat
      /\ MinResponseOf(d, in) = config.minResponse[d]
  BY <1>1 DEF Config, MinResponseOf, TypeOK, Run
<1>3. run'.phase \in {"Idle", "Settle"}
  <2>1. run' \in {NoRun, [r EXCEPT !.phase = "Settle", !.device = NextTested(run.device + 1), !.age = 0]}
    BY DEF TailEnds
  <2>2. [r EXCEPT !.phase = "Settle", !.device = NextTested(run.device + 1), !.age = 0].phase = "Settle"
    BY MeasureType DEF TypeOK, Run
  <2>3. NoRun.phase = "Idle"
    BY DEF NoRun
  <2>4. QED BY <2>1, <2>2, <2>3
<1>4. ~DeviceBegins /\ ~WentOff
  BY <1>3, SampleEvents DEF DeviceBegins, WentOff, VerdictInv, OnOffInv
<1>5. calm'
  BY DEF RecordRun, CutInv, TailEnds
<1>6. offFor' = PhaseAge(in) /\ PhaseAge(in) >= config.tail /\ full
  BY <1>4 DEF RecordDevice, VerdictInv, OnOffInv, PhaseAge, TailEnds
<1>7. best' = Best(in) /\ best' \in Nat \cup {None}
  BY <1>4, BestType DEF RecordDevice
<1>8. r.peak = IF best' = None THEN 0 ELSE best'
  BY <1>7, PeakIsBest
<1> HIDE DEF r
<1>9. /\ run.deviceJudged /\ config.minResponse[d] # 0
      /\ Verdict(r, in) = "Pass" <=> r.peak >= config.minResponse[d]
      /\ Verdict(r, in) = "Fail" => ~(config.noFailAbove > 0 /\ run.startMgl >= config.noFailAbove)
  BY <1>1, <1>2 DEF Verdict, r
<1>10. Judged(d)
  BY <1>5, <1>6, <1>9 DEF Judged, VerdictInv, DeviceInv
<1>11. Showed(d) <=> Verdict(r, in) = "Pass"
  BY <1>2, <1>7, <1>8, <1>9, Constants DEF Showed
<1>12. started.mgl = run.startMgl
  BY DEF VerdictInv, DeviceInv
<1>13. QED BY <1>2, <1>9, <1>10, <1>11, <1>12 DEF r

\* A FAIL, or the clearing of one, is about this device, this time.
THEOREM VerdictsAreEarned == VerdictSpec => VerdictIsEarned
<1> DEFINE Inv == TypeOK /\ CutInv /\ VerdictInv
           Earned(d) ==
             /\ Raised("FailAlert", d) =>
                  /\ Judged(d) /\ ~Showed(d)
                  /\ config.noFailAbove = 0 \/ started.mgl < config.noFailAbove
             /\ Raised("FailCleared", d) => ~config.exclusive \/ (Judged(d) /\ Showed(d))
<1>1. VerdictInit => Inv
  BY InitHasType DEF VerdictInit, Init, CutInv, VerdictInv, DeviceInv, OnOffInv, NoRun, Silent
<1>2. Inv /\ [VerdictNext]_vvars => Inv'
  BY VerdictNextKeepsType, CutInvStep, VerdictInvStep
<1>3. ASSUME Inv, VerdictSample, NEW d \in Slots
      PROVE  Earned(d)
  <2>1. PICK in \in Input : Sample(in) /\ RecordDevice(in) /\ RecordRun(in)
    BY <1>3, Constants DEF VerdictSample
  <2> DEFINE r == Measure(run, in)
             TailEvents == EndDeviceEvents(ForgetChecks, r, in)
  <2>2. r.device = run.device
    BY <1>3, MeasureParts DEF TypeOK
  <2>3. ASSUME Raised("FailAlert", d)
        PROVE  /\ Judged(d) /\ ~Showed(d)
               /\ config.noFailAbove = 0 \/ started.mgl < config.noFailAbove
    <3> DEFINE e == [type |-> "FailAlert", device |-> d]
    <3>1. e \in out'.events /\ IsVerdict(e) /\ e \notin ForgetEvents
      BY <2>3, ForgetKinds DEF Raised, IsVerdict
    <3>2. run.phase = "Tail" /\ TailEnds(in) /\ e \in TailEvents
      BY <1>3, <2>1, <3>1, VerdictEvents
    <3>3. Verdict(r, in) = "Fail" /\ run.device = d
      BY <2>2, <3>2 DEF EndDeviceEvents
    <3>4. QED BY <1>3, <2>1, <3>2, <3>3, VerdictIsJudged
  <2>4. ASSUME Raised("FailCleared", d), config.exclusive
        PROVE  Judged(d) /\ Showed(d)
    <3> DEFINE e == [type |-> "FailCleared", device |-> d]
    <3>1. e \in out'.events /\ IsVerdict(e) /\ e \notin ForgetEvents
      BY <2>4, ForgetKinds DEF Raised, IsVerdict
    <3>2. run.phase = "Tail" /\ TailEnds(in) /\ e \in TailEvents
      BY <1>3, <2>1, <3>1, VerdictEvents
    <3>3. Verdict(r, in) = "Pass" /\ run.device = d
      BY <2>2, <3>2 DEF EndDeviceEvents
    <3>4. QED BY <1>3, <2>1, <3>2, <3>3, VerdictIsJudged
  <2>5. QED BY <2>3, <2>4
<1>4. Inv => (VerdictSample => \A d \in Slots : Earned(d))
  BY <1>3
<1>5. QED BY <1>1, <1>2, <1>4, PTL DEF VerdictSpec, VerdictIsEarned

-----------------------------------------------------------------------------
(* Days are counted.  A sample of the schedule knows the time of its clock,  *)
(* whatever the time of the input it is told from.                           *)

LEMMA RunStarts ==
  ASSUME TypeOK, NEW in \in Input, Sample(in)
  PROVE  /\ RunBegins <=> run.phase = "Idle" /\ StartRun(in)
         /\ RunBegins => (run'.manual <=> in.runNow) /\ ~run'.aborted
         /\ run.phase # "Idle" /\ run'.phase # "Idle" =>
              run'.manual = run.manual /\ run'.aborted = run.aborted
         /\ run.phase # "Idle" /\ run'.phase = "Idle" => Abort(in) \/ (TailEnds(in) /\ run' = NoRun)
<1>1. run \in Run /\ Measure(run, in) \in Run
  BY MeasureType DEF TypeOK
<1>2. Measure(run, in).manual = run.manual /\ Measure(run, in).aborted = run.aborted
      /\ Measure(run, in).phase = run.phase
  BY <1>1, MeasureParts
<1>3. CASE Idle(in) /\ (Skip(in) \/ StayIdle(in))
  <2>1. run' = run /\ run.phase = "Idle"
    BY <1>3, PutsParts DEF Idle, Skip, StayIdle
  <2>2. StartRun(in) => FALSE
    BY <1>3 DEF StartRun, Skip, StayIdle
  <2>3. QED BY <2>1, <2>2 DEF RunBegins
<1>4. CASE Idle(in) /\ StartRun(in)
  <2> DEFINE r == [run EXCEPT !.manual = in.runNow, !.aborted = FALSE]
  <2>1. r \in Run /\ (r.manual <=> in.runNow) /\ ~r.aborted /\ run.phase = "Idle"
    BY <1>1, <1>4, Constants DEF Run, Input, Idle
  <2>2. run' = IF DeficitConfigured THEN [r EXCEPT !.phase = "Deficit", !.age = 0]
               ELSE BeginDevice(r, NextTested(0), in, TRUE)
    BY <1>4 DEF StartRun
  <2> HIDE DEF r
  <2>3. run'.phase # "Idle" /\ run'.manual = r.manual /\ run'.aborted = r.aborted
    BY <2>1, <2>2 DEF BeginDevice, Run
  <2>4. QED BY <1>4, <2>1, <2>3 DEF RunBegins
<1>5. CASE run.phase # "Idle" /\ (Abort(in) \/ (TailEnds(in) /\ run' = NoRun))
  <2>1. run' = NoRun /\ NoRun.phase = "Idle"
    BY <1>5 DEF Abort, NoRun
  <2>2. QED BY <1>5, <2>1 DEF RunBegins
<1>6. CASE run.phase # "Idle" /\ Deficit(in)
  <2>1. \/ run' = BeginDevice(run, NextTested(0), in, TRUE)
        \/ run' = [run EXCEPT !.age = PhaseAge(in)]
    BY <1>6, PutsParts DEF Deficit
  <2>2. /\ run'.manual = run.manual /\ run'.aborted = run.aborted
        /\ run'.phase \in {"Running", run.phase}
    BY <1>1, <2>1 DEF BeginDevice, Run
  <2>3. QED BY <1>6, <2>2 DEF RunBegins
<1>7. CASE run.phase # "Idle" /\ (Running(in) \/ TailRunsOn(in) \/ (TailEnds(in) /\ run' # NoRun))
  <2>1. \/ run' = [Measure(run, in) EXCEPT !.phase = "Tail", !.age = 0]
        \/ run' = [Measure(run, in) EXCEPT !.age = PhaseAge(in)]
        \/ run' = [Measure(run, in) EXCEPT !.phase = "Settle",
                                            !.device = NextTested(run.device + 1), !.age = 0]
    BY <1>1, <1>7, PutsParts DEF Running, TailRunsOn, TailEnds
  <2>2. /\ run'.manual = run.manual /\ run'.aborted = run.aborted
        /\ run'.phase \in {"Tail", "Settle", run.phase}
    BY <1>1, <1>2, <2>1 DEF Run
  <2>3. QED BY <1>7, <2>2 DEF RunBegins
<1>8. CASE run.phase # "Idle" /\ Settle(in)
  <2>1. \/ run' = BeginDevice(run, run.device, in, FALSE)
        \/ run' = [run EXCEPT !.age = PhaseAge(in)]
    BY <1>8, PutsParts DEF Settle
  <2>2. /\ run'.manual = run.manual /\ run'.aborted = run.aborted
        /\ run'.phase \in {"Running", run.phase}
    BY <1>1, <2>1 DEF BeginDevice, Run
  <2>3. QED BY <1>8, <2>2 DEF RunBegins
<1>9. QED BY <1>3, <1>4, <1>5, <1>6, <1>7, <1>8 DEF Sample, Idle, Advance

\* The end of a device leaves what is counted alone, unless its index is past the last device.
LEMMA DeviceEndParts ==
  ASSUME NEW q \in Persistent, NEW r, NEW in
  PROVE  /\ EndDevice(q, r, in).lastRunDay = q.lastRunDay
         /\ EndDevice(q, r, in).alert = q.alert
         /\ r.device \in Slots => EndDevice(q, r, in).streak = q.streak
<1>1. CASE r.device \in Slots
  BY <1>1 DEF EndDevice, Persistent
<1>2. CASE r.device \notin Slots
  BY <1>2 DEF EndDevice, Persistent
<1>3. QED BY <1>1, <1>2

LEMMA RunEndParts ==
  ASSUME NEW q \in Persistent, NEW r
  PROVE  /\ EndRun(q, r).lastRunDay = q.lastRunDay
         /\ r.manual \/ r.aborted \/ ~config.exclusive => EndRun(q, r) = q
         /\ ~(r.manual \/ r.aborted \/ ~config.exclusive) =>
              IF r.judged THEN EndRun(q, r).streak = 0 /\ ~EndRun(q, r).alert
              ELSE /\ EndRun(q, r).streak = IF q.streak < StreakCap THEN q.streak + 1 ELSE StreakCap
                   /\ EndRun(q, r).alert <=> q.alert \/ EndRun(q, r).streak >= config.inconclusiveDays
<1>1. CASE r.manual \/ r.aborted \/ ~config.exclusive
  BY <1>1 DEF EndRun
<1>2. CASE ~(r.manual \/ r.aborted \/ ~config.exclusive) /\ r.judged
  BY <1>2 DEF EndRun, Persistent
<1>3. CASE ~(r.manual \/ r.aborted \/ ~config.exclusive) /\ ~r.judged
  <2> DEFINE streak == IF q.streak < StreakCap THEN q.streak + 1 ELSE StreakCap
             alert == q.alert \/ streak >= config.inconclusiveDays
  <2>1. EndRun(q, r) = [q EXCEPT !.streak = streak, !.alert = alert]
    BY <1>3 DEF EndRun
  <2> HIDE DEF streak, alert
  <2>2. /\ EndRun(q, r).streak = streak /\ EndRun(q, r).alert = alert
        /\ EndRun(q, r).lastRunDay = q.lastRunDay
    BY <2>1 DEF Persistent
  <2>3. QED BY <1>3, <2>2 DEF streak, alert
<1>4. QED BY <1>1, <1>2, <1>3

LEMMA ForgetParts ==
  ASSUME TypeOK
  PROVE  /\ ForgetChecks \in Persistent /\ ForgetChecks.lastRunDay = p.lastRunDay
         /\ config.exclusive => ForgetChecks = p
         /\ ~config.exclusive => ForgetChecks.streak = 0 /\ ~ForgetChecks.alert
<1>1. CASE config.exclusive
  BY <1>1 DEF ForgetChecks, TypeOK
<1>2. CASE ~config.exclusive
  BY <1>2, ForgetChecksType DEF ForgetChecks, TypeOK, Persistent
<1>3. QED BY <1>1, <1>2

\* The persistent state after a sample, by what became of the run.
LEMMA PersistentMoves ==
  ASSUME TypeOK, NEW in \in Input, Sample(in)
  PROVE  LET ends == run.phase # "Idle" /\ run'.phase = "Idle"
         IN /\ ends /\ Disturbed(in) =>
                 \E q \in {ForgetChecks, EndDevice(ForgetChecks, [run EXCEPT !.aborted = TRUE], in)} :
                   /\ p' = EndRun(q, [run EXCEPT !.aborted = TRUE])
                   /\ q = ForgetChecks \/ run.phase \in {"Running", "Tail"}
            /\ ends /\ ~Disturbed(in) =>
                 /\ run.phase = "Tail"
                 /\ p' = EndRun(EndDevice(ForgetChecks, Measure(run, in), in), Measure(run, in))
            /\ RunBegins =>
                 p' = IF in.local # None /\ ~in.runNow THEN [ForgetChecks EXCEPT !.lastRunDay = in.local.day]
                      ELSE ForgetChecks
            /\ ~ends /\ ~RunBegins =>
                 \/ p' = ForgetChecks
                 \/ run.phase = "Tail" /\ p' = EndDevice(ForgetChecks, Measure(run, in), in)
<1> DEFINE ends == run.phase # "Idle" /\ run'.phase = "Idle"
<1>1. CASE Idle(in) /\ (Skip(in) \/ StayIdle(in))
  <2>1. p' = ForgetChecks /\ run' = run
    BY <1>1, PutsParts DEF Skip, StayIdle
  <2>2. QED BY <2>1 DEF RunBegins
<1>2. CASE Idle(in) /\ StartRun(in)
  <2>1. RunBegins
    BY <1>2, RunStarts DEF Idle
  <2>2. p' = IF in.local # None /\ ~in.runNow THEN [ForgetChecks EXCEPT !.lastRunDay = in.local.day]
             ELSE ForgetChecks
    BY <1>2 DEF StartRun
  <2>3. QED BY <2>1, <2>2 DEF RunBegins
<1>3. CASE run.phase # "Idle" /\ Abort(in)
  <2> DEFINE r == [run EXCEPT !.aborted = TRUE]
             inDevice == run.phase \in {"Running", "Tail"}
             q == IF inDevice THEN EndDevice(ForgetChecks, r, in) ELSE ForgetChecks
  <2>1. p' = EndRun(q, r) /\ run' = NoRun /\ Disturbed(in)
    BY <1>3 DEF Abort
  <2>2. ends /\ ~RunBegins
    BY <1>3, <2>1 DEF NoRun, RunBegins
  <2>3. q \in {ForgetChecks, EndDevice(ForgetChecks, r, in)} /\ (q = ForgetChecks \/ inDevice)
    OBVIOUS
  <2> HIDE DEF r, q
  <2>4. QED BY <2>1, <2>2, <2>3 DEF r
<1>4. CASE run.phase # "Idle" /\ (Deficit(in) \/ Running(in) \/ TailRunsOn(in) \/ Settle(in))
  <2>1. p' = ForgetChecks
    BY <1>4, PutsParts DEF Deficit, Running, TailRunsOn, Settle
  <2>2. ~Abort(in) /\ ~TailEnds(in)
    <3>1. ~Disturbed(in)
      BY <1>4 DEF Deficit, Running, TailRunsOn, Settle
    <3>2. run.age \in OptionalAge /\ run.age \in Age
      BY DEF TypeOK, Run, OptionalAge
    <3>3. PhaseAge(in) \in Nat /\ config.tail \in Nat
      BY <3>2, AgedType, Constants DEF PhaseAge, Age, TypeOK, Config
    <3>4. run.phase = "Tail" => TailRunsOn(in)
      BY <1>4 DEF Deficit, Running, Settle
    <3>5. QED BY <3>1, <3>3, <3>4 DEF Abort, TailRunsOn, TailEnds
  <2>3. ~ends /\ ~RunBegins
    BY <1>4, <2>2, RunStarts DEF RunBegins
  <2>4. QED BY <2>1, <2>3
<1>5. CASE run.phase # "Idle" /\ TailEnds(in)
  <2> DEFINE r == Measure(run, in)
             q == EndDevice(ForgetChecks, r, in)
             next == NextTested(run.device + 1)
  <2>1. run.phase = "Tail" /\ ~Disturbed(in) /\ ~RunBegins
    BY <1>5 DEF TailEnds, RunBegins
  <2>2. CASE next = NDevices
    <3>1. run' = NoRun /\ p' = EndRun(q, r)
      BY <1>5, <2>2 DEF TailEnds
    <3>2. ends
      BY <1>5, <3>1 DEF NoRun
    <3>3. QED BY <2>1, <3>1, <3>2
  <2>3. CASE next # NDevices
    <3>1. run' = [r EXCEPT !.phase = "Settle", !.device = next, !.age = 0] /\ p' = q
      BY <1>5, <2>3 DEF TailEnds
    <3>2. run'.phase = "Settle"
      BY <3>1, MeasureType DEF TypeOK, Run
    <3>3. QED BY <2>1, <3>1, <3>2
  <2>4. QED BY <2>2, <2>3
<1>6. QED BY <1>1, <1>2, <1>3, <1>4, <1>5 DEF Sample, Idle, Advance

ScheduleTypeOK ==
  /\ TypeOK
  /\ clock \in [day: Days, minute: Nat]
  /\ sinceRun \in OptionalAge

\* What survives a reboot knows the last run's day, and what does not errs to the late side.
OnceADayInv ==
  /\ p.lastRunDay = dayRun /\ stored.lastRunDay = dayRun
  /\ lastRun # None => sinceRun # None /\ lastRun <= sinceRun
  /\ NoRunTwiceADay

LEMMA TicksTypes ==
  ASSUME ScheduleTypeOK, NEW i \in Inputs, Ticks(i)
  PROVE  /\ clock' \in [day: Days, minute: Nat]
         /\ \E in \in Input : Sample(in) /\ RecordSchedule(in)
<1>1. DayMinutes \in Nat \ {0} /\ Days = 0 .. 2
  BY ClockConstants
<1>2. clock.day \in 0 .. 2 /\ clock.minute \in Nat
  BY <1>1 DEF ScheduleTypeOK
<1>3. clock' = NextMinute
  BY DEF Ticks
<1>4. (clock.day + 1) % 3 \in 0 .. 2
  BY <1>2
<1>5. clock' \in [day: Days, minute: Nat]
  <2>1. CASE clock.minute + 1 < DayMinutes
    <3>1. clock' = [clock EXCEPT !.minute = @ + 1]
      BY <1>3, <2>1 DEF NextMinute
    <3>2. QED BY <1>2, <3>1 DEF ScheduleTypeOK
  <2>2. CASE ~(clock.minute + 1 < DayMinutes)
    <3>1. clock' = [day |-> (clock.day + 1) % 3, minute |-> 0]
      BY <1>3, <2>2 DEF NextMinute
    <3>2. QED BY <1>1, <1>4, <3>1
  <2>3. QED BY <2>1, <2>2
<1>6. Timed(i) \in Input
  BY <1>5, Constants DEF Timed, Input
<1>7. QED BY <1>5, <1>6 DEF Ticks

LEMMA ScheduleNextKeepsType ==
  ASSUME ScheduleTypeOK, [ScheduleNext]_svars
  PROVE  ScheduleTypeOK'
<1>1. ASSUME NEW i \in Inputs, Ticks(i)
      PROVE  ScheduleTypeOK'
  <2>1. PICK in \in Input : Sample(in) /\ RecordSchedule(in)
    BY <1>1, TicksTypes
  <2>2. TypeOK'
    BY <2>1, SampleKeepsType DEF ScheduleTypeOK
  <2>3. sinceRun' \in OptionalAge
    BY <2>1, AgedType, Constants DEF RecordSchedule, ScheduleTypeOK, OptionalAge, Age
  <2>4. QED BY <1>1, <2>2, <2>3, TicksTypes DEF ScheduleTypeOK
<1>2. CASE SetClock
  <2>1. clock' \in [day: Days, minute: Nat]
    BY <1>2, ClockConstants DEF SetClock
  <2>2. QED BY <1>2, <2>1, NextKeepsType DEF SetClock, ScheduleTypeOK, scheduleHistory
<1>3. CASE (SetConfig \/ Reboot \/ \E d \in Slots : ClearFailure(d))
             /\ UNCHANGED <<scheduleHistory, clock, tick>>
  <2>1. TypeOK'
    BY <1>3, NextKeepsType DEF Next, ScheduleTypeOK
  <2>2. QED BY <1>3, <2>1 DEF ScheduleTypeOK, scheduleHistory
<1>4. CASE UNCHANGED svars
  BY <1>4, NextKeepsType DEF ScheduleTypeOK, svars, scheduleHistory
<1>5. QED BY <1>1, <1>2, <1>3, <1>4 DEF ScheduleNext, ScheduleSample

LEMMA ScheduleInitHasType == ScheduleInit => ScheduleTypeOK
<1>1. ScheduleInit => clock \in [day: Days, minute: Nat]
  BY ClockConstants DEF ScheduleInit
<1>2. QED BY <1>1, InitHasType DEF ScheduleInit, ScheduleTypeOK, OptionalAge

\* Ageing keeps the order of two ages.
LEMMA AgesKeepOrder ==
  ASSUME NEW a \in Age, NEW b \in Age, a <= b, NEW in \in Input
  PROVE  Aged(a, in.elapsed) <= Aged(b, in.elapsed)
<1>1. in.elapsed \in Nat /\ AgeCap \in Nat /\ None \notin Int
  BY Constants DEF Input
<1>2. QED BY <1>1 DEF Aged, Age

\* A run that is due has no run of its day behind it.
LEMMA DueIsNew ==
  ASSUME ScheduleTypeOK, OnceADayInv, NEW in \in Input, Sample(in), RecordSchedule(in)
  PROVE  NoRunTwiceADay'
<1>1. SUFFICES ASSUME Scheduled
      PROVE  IF in.local # None THEN in.local.day # dayRun
             ELSE sinceRun = None \/ ~(Aged(sinceRun, in.elapsed) < DayLength)
  BY DEF RecordSchedule, NoRunTwiceADay
<1>2. StartRun(in) /\ ~in.runNow
  BY <1>1, RunStarts DEF Scheduled, ScheduleTypeOK
<1>3. DueUnknownTime(in) \/ DueInWindow(in)
  BY <1>2 DEF StartRun, Due
<1>4. CASE DueInWindow(in)
  BY <1>4 DEF DueInWindow, DayIsOpen, OnceADayInv
<1>5. CASE DueUnknownTime(in)
  <2>1. in.local = None /\ lastRun # None /\ Aged(lastRun, in.elapsed) >= DayLength
    BY <1>5 DEF DueUnknownTime
  <2>2. lastRun \in Age /\ sinceRun \in Age /\ lastRun <= sinceRun
    BY <2>1 DEF OnceADayInv, ScheduleTypeOK, TypeOK, OptionalAge
  <2>3. Aged(lastRun, in.elapsed) <= Aged(sinceRun, in.elapsed)
    BY <2>2, AgesKeepOrder
  <2>4. {Aged(lastRun, in.elapsed), Aged(sinceRun, in.elapsed), DayLength} \subseteq Int
    BY <2>2, AgedType, Constants, CapsExceedDurations DEF OptionalAge, Age
  <2>5. QED BY <2>1, <2>3, <2>4
<1>6. QED BY <1>3, <1>4, <1>5

LEMMA LastRunDayStep ==
  ASSUME TypeOK, p.lastRunDay = dayRun, NEW in \in Input, Sample(in), RecordSchedule(in)
  PROVE  p'.lastRunDay = dayRun'
<1>1. ForgetChecks \in Persistent /\ ForgetChecks.lastRunDay = p.lastRunDay
  BY ForgetParts
<1>2. \A r : /\ EndDevice(ForgetChecks, r, in).lastRunDay = p.lastRunDay
             /\ r \in Run => EndDevice(ForgetChecks, r, in) \in Persistent
  BY <1>1, DeviceEndParts, PersistentTypes
<1>3. [run EXCEPT !.aborted = TRUE] \in Run /\ Measure(run, in) \in Run
  BY MeasureType DEF TypeOK, Run
<1>4. CASE RunBegins
  <2>1. p' = IF in.local # None /\ ~in.runNow THEN [ForgetChecks EXCEPT !.lastRunDay = in.local.day]
             ELSE ForgetChecks
    BY <1>4, PersistentMoves
  <2>2. run'.manual <=> in.runNow
    BY <1>4, RunStarts
  <2>3. dayRun' = IF in.local # None /\ ~in.runNow THEN in.local.day ELSE dayRun
    BY <1>4, <2>2 DEF RecordSchedule, Scheduled
  <2>4. QED BY <1>1, <2>1, <2>3 DEF Persistent
<1>5. CASE ~RunBegins
  <2>1. dayRun' = dayRun
    BY <1>5 DEF RecordSchedule, Scheduled
  <2>2. \E q, r : /\ q \in Persistent /\ q.lastRunDay = p.lastRunDay
                  /\ p' = q \/ p' = EndRun(q, r)
    BY <1>1, <1>2, <1>3, <1>5, PersistentMoves
  <2>3. QED BY <2>1, <2>2, RunEndParts
<1>6. QED BY <1>4, <1>5

LEMMA OnceADayInvStep ==
  ASSUME ScheduleTypeOK, OnceADayInv, [ScheduleNext]_svars
  PROVE  OnceADayInv'
<1>1. ASSUME NEW i \in Inputs, Ticks(i)
      PROVE  OnceADayInv'
  <2>1. PICK in \in Input : Sample(in) /\ RecordSchedule(in)
    BY <1>1, TicksTypes
  <2>2. p'.lastRunDay = dayRun' /\ stored' = p'
    BY <2>1, LastRunDayStep DEF OnceADayInv, ScheduleTypeOK, Sample
  <2>3. lastRun' # None => sinceRun' # None /\ lastRun' <= sinceRun'
    <3>1. lastRun \in OptionalAge /\ sinceRun \in OptionalAge
      BY DEF ScheduleTypeOK, TypeOK
    <3>2. CASE RunBegins
      <4>1. lastRun' = 0 /\ sinceRun' = 0
        BY <2>1, <3>2, RunStarts DEF StartRun, RecordSchedule, ScheduleTypeOK
      <4>2. QED BY <4>1, Constants
    <3>3. CASE ~RunBegins /\ lastRun # None
      <4>1. lastRun' \in {0, Aged(lastRun, in.elapsed)} /\ sinceRun' = Aged(sinceRun, in.elapsed)
        BY <2>1, <3>3
        DEF Sample, Idle, Advance, Skip, StartRun, StayIdle, RecordSchedule
      <4>2. lastRun \in Age /\ sinceRun \in Age /\ lastRun <= sinceRun
        BY <3>1, <3>3 DEF OnceADayInv, OptionalAge
      <4>3. Aged(lastRun, in.elapsed) <= Aged(sinceRun, in.elapsed)
        BY <4>2, AgesKeepOrder
      <4>4. Aged(sinceRun, in.elapsed) \in Age /\ None \notin Age
        BY <3>1, <4>2, AgedType, Constants DEF Age
      <4>5. QED BY <4>1, <4>3, <4>4 DEF Age
    <3>4. CASE ~RunBegins /\ lastRun = None
      <4>1. ~DueUnknownTime(in) /\ ~(run.phase = "Idle" /\ StartRun(in))
        BY <2>1, <3>4, RunStarts DEF DueUnknownTime, ScheduleTypeOK
      <4>2. lastRun' = Aged(lastRun, in.elapsed)
        BY <2>1, <4>1 DEF Sample, Idle, Advance, Skip, StayIdle
      <4>3. QED BY <3>4, <4>2 DEF Aged
    <3>5. QED BY <3>2, <3>3, <3>4
  <2>4. NoRunTwiceADay'
    BY <2>1, DueIsNew
  <2>5. QED BY <2>2, <2>3, <2>4 DEF OnceADayInv
<1>2. CASE SetClock
  BY <1>2 DEF SetClock, OnceADayInv, NoRunTwiceADay, vars, scheduleHistory
<1>3. CASE SetConfig /\ UNCHANGED <<scheduleHistory, clock, tick>>
  BY <1>3 DEF SetConfig, OnceADayInv, NoRunTwiceADay, scheduleHistory
<1>4. CASE Reboot /\ UNCHANGED <<scheduleHistory, clock, tick>>
  BY <1>4 DEF Reboot, OnceADayInv, NoRunTwiceADay, scheduleHistory
<1>5. CASE (\E d \in Slots : ClearFailure(d)) /\ UNCHANGED <<scheduleHistory, clock, tick>>
  <2>1. PICK d \in Slots : ClearFailure(d)
    BY <1>5
  <2>2. p'.lastRunDay = p.lastRunDay
    BY <2>1 DEF ClearFailure, ScheduleTypeOK, TypeOK, Persistent
  <2>3. QED BY <1>5, <2>1, <2>2 DEF ClearFailure, OnceADayInv, NoRunTwiceADay, scheduleHistory
<1>6. CASE UNCHANGED svars
  BY <1>6 DEF svars, vars, scheduleHistory, OnceADayInv, NoRunTwiceADay
<1>7. QED BY <1>1, <1>2, <1>3, <1>4, <1>5, <1>6 DEF ScheduleNext, ScheduleSample

\* Whatever is configured meanwhile, no day is tested twice.
THEOREM NoDayIsTestedTwice == ScheduleSpec => []NoRunTwiceADay
<1>1. ScheduleInit => ScheduleTypeOK /\ OnceADayInv
  BY ScheduleInitHasType DEF ScheduleInit, Init, Untested, OnceADayInv, NoRunTwiceADay
<1>2. ScheduleTypeOK /\ OnceADayInv /\ [ScheduleNext]_svars => ScheduleTypeOK' /\ OnceADayInv'
  BY ScheduleNextKeepsType, OnceADayInvStep
<1>3. OnceADayInv => NoRunTwiceADay
  BY DEF OnceADayInv
<1>4. QED BY <1>1, <1>2, <1>3, PTL DEF ScheduleSpec

\* A run whose configurations all test a device exercises devices only.
LEMMA DeviceMoves ==
  ASSUME TypeOK, NEW in \in Input, Sample(in), Tested # {},
         run.phase \in {"Running", "Tail", "Settle"} => run.device \in Slots,
         run'.phase \in {"Running", "Tail", "Settle"}
  PROVE  run'.device \in Slots
<1>1. run \in Run /\ Measure(run, in) \in Run /\ Measure(run, in).device = run.device
  BY MeasureType, MeasureParts DEF TypeOK
<1>2. NextTested(0) \in Slots
  BY NextTestedType DEF TypeOK
<1>3. CASE Idle(in) /\ (Skip(in) \/ StayIdle(in))
  BY <1>3, PutsParts DEF Idle, Skip, StayIdle
<1>4. CASE Idle(in) /\ StartRun(in)
  <2> DEFINE r == [run EXCEPT !.manual = in.runNow, !.aborted = FALSE]
  <2>1. r \in Run
    BY <1>1, Constants DEF Run, Input
  <2>2. run' = IF DeficitConfigured THEN [r EXCEPT !.phase = "Deficit", !.age = 0]
               ELSE BeginDevice(r, NextTested(0), in, TRUE)
    BY <1>4 DEF StartRun
  <2> HIDE DEF r
  <2>3. run'.phase = "Deficit" \/ run'.device = NextTested(0)
    BY <2>1, <2>2 DEF BeginDevice, Run
  <2>4. QED BY <1>2, <2>3
<1>5. CASE Abort(in)
  BY <1>5 DEF Abort, NoRun
<1>6. CASE Deficit(in)
  <2>1. \/ run' = BeginDevice(run, NextTested(0), in, TRUE)
        \/ run' = [run EXCEPT !.age = PhaseAge(in)]
    BY <1>6, PutsParts DEF Deficit
  <2>2. run'.device = NextTested(0) \/ run'.phase = "Deficit"
    BY <1>1, <1>6, <2>1 DEF BeginDevice, Run, Deficit
  <2>3. QED BY <1>2, <2>2
<1>7. CASE Running(in) \/ TailRunsOn(in)
  <2>1. \/ run' = [Measure(run, in) EXCEPT !.phase = "Tail", !.age = 0]
        \/ run' = [Measure(run, in) EXCEPT !.age = PhaseAge(in)]
    BY <1>7, PutsParts DEF Running, TailRunsOn
  <2>2. run'.device = run.device
    BY <1>1, <2>1 DEF Run
  <2>3. QED BY <1>7, <2>2 DEF Running, TailRunsOn
<1>8. CASE TailEnds(in)
  <2> DEFINE next == NextTested(run.device + 1)
  <2>1. CASE next = NDevices
    BY <1>8, <2>1 DEF TailEnds, NoRun
  <2>2. CASE next # NDevices
    <3>1. run'.device = next
      BY <1>1, <1>8, <2>2 DEF TailEnds, Run
    <3>2. next \in 0 .. NDevices
      BY <1>1, NextTestedType DEF TypeOK, Run
    <3>3. QED BY <2>2, <3>1, <3>2, Constants DEF Slots
  <2>3. QED BY <2>1, <2>2
<1>9. CASE Settle(in)
  <2>1. \/ run' = BeginDevice(run, run.device, in, FALSE)
        \/ run' = [run EXCEPT !.age = PhaseAge(in)]
    BY <1>9, PutsParts DEF Settle
  <2>2. run'.device = run.device
    BY <1>1, <2>1 DEF BeginDevice, Run
  <2>3. QED BY <1>9, <2>2 DEF Settle
<1>10. QED BY <1>3, <1>4, <1>5, <1>6, <1>7, <1>8, <1>9 DEF Sample, Idle, Advance

\* How a sample counts: with the checks off nothing does, an end that counts is a day with or
\* without headroom, and nothing else moves the streak or the alert.
LEMMA StreakMoves ==
  ASSUME TypeOK, NEW in \in Input, Sample(in), ~run.aborted,
         run.phase \in {"Running", "Tail"} => run.device \in Slots
  PROVE  /\ ~config.exclusive => p'.streak = 0 /\ ~p'.alert
         /\ Counts(in) =>
              IF run.judged THEN p'.streak = 0 /\ ~p'.alert
              ELSE /\ p'.streak = IF p.streak < StreakCap THEN p.streak + 1 ELSE StreakCap
                   /\ p'.alert => p.alert \/ p'.streak >= config.inconclusiveDays
         /\ config.exclusive /\ ~Counts(in) => p'.streak = p.streak /\ p'.alert = p.alert
<1> DEFINE ends == run.phase # "Idle" /\ run'.phase = "Idle"
           aborted == [run EXCEPT !.aborted = TRUE]
           measured == Measure(run, in)
<1>1. /\ ForgetChecks \in Persistent
      /\ config.exclusive => ForgetChecks = p
      /\ ~config.exclusive => ForgetChecks.streak = 0 /\ ~ForgetChecks.alert
  BY ForgetParts
<1>2. /\ aborted \in Run /\ aborted.aborted /\ aborted.device = run.device
      /\ measured \in Run /\ measured.device = run.device /\ measured.manual = run.manual
      /\ measured.aborted = run.aborted /\ measured.judged = run.judged
  BY MeasureType, MeasureParts DEF TypeOK, Run
<1> HIDE DEF aborted, measured
<1>3. ASSUME NEW r \in {aborted, measured}, run.phase \in {"Running", "Tail"}
      PROVE  /\ EndDevice(ForgetChecks, r, in) \in Persistent
             /\ EndDevice(ForgetChecks, r, in).streak = ForgetChecks.streak
             /\ EndDevice(ForgetChecks, r, in).alert = ForgetChecks.alert
  BY <1>1, <1>2, <1>3, PersistentTypes, DeviceEndParts
<1>4. Counts(in) <=> ends /\ ~run.manual /\ ~Disturbed(in) /\ config.exclusive
  BY SampleEvents DEF Counts
<1>5. CASE ends /\ Disturbed(in)
  <2>1. PICK q \in {ForgetChecks, EndDevice(ForgetChecks, aborted, in)} :
          p' = EndRun(q, aborted) /\ (q = ForgetChecks \/ run.phase \in {"Running", "Tail"})
    BY <1>5, PersistentMoves DEF aborted
  <2>2. p'.streak = ForgetChecks.streak /\ p'.alert = ForgetChecks.alert
    BY <1>2, <1>3, <2>1 DEF EndRun
  <2>3. QED BY <1>1, <1>4, <1>5, <2>2
<1>6. CASE ends /\ ~Disturbed(in)
  <2> DEFINE q == EndDevice(ForgetChecks, measured, in)
  <2>1. run.phase = "Tail" /\ p' = EndRun(q, measured)
    BY <1>6, PersistentMoves DEF measured
  <2>2. q \in Persistent /\ q.streak = ForgetChecks.streak /\ q.alert = ForgetChecks.alert
    BY <1>3, <2>1
  <2> HIDE DEF q
  <2>3. CASE run.manual \/ ~config.exclusive
    <3>1. p' = q
      BY <1>2, <2>1, <2>3 DEF EndRun
    <3>2. QED BY <1>1, <1>4, <2>2, <2>3, <3>1
  <2>4. CASE ~run.manual /\ config.exclusive
    <3>1. IF run.judged THEN p'.streak = 0 /\ ~p'.alert
          ELSE /\ p'.streak = IF q.streak < StreakCap THEN q.streak + 1 ELSE StreakCap
               /\ p'.alert <=> q.alert \/ p'.streak >= config.inconclusiveDays
      BY <1>2, <2>1, <2>2, <2>4, RunEndParts
    <3>2. QED BY <1>1, <1>4, <1>6, <2>2, <2>4, <3>1
  <2>5. QED BY <2>3, <2>4
<1>7. CASE ~ends
  <2>1. p'.streak = ForgetChecks.streak /\ p'.alert = ForgetChecks.alert
    <3>1. CASE RunBegins
      BY <1>1, <3>1, PersistentMoves DEF Persistent
    <3>2. CASE ~RunBegins
      BY <1>3, <1>7, <3>2, PersistentMoves DEF measured
    <3>3. QED BY <3>1, <3>2
  <2>2. QED BY <1>1, <1>4, <1>7, <2>1
<1>8. QED BY <1>5, <1>6, <1>7

\* The streak is the history's count, on flash as in memory, and the alert rests on it.
CountInv ==
  /\ p.streak = unjudged /\ stored.streak = unjudged
  /\ stored.alert = p.alert
  /\ p.alert => unjudged >= config.inconclusiveDays
  /\ ~run.aborted
  /\ run.phase \in {"Running", "Tail", "Settle"} =>
       run.device \in Slots /\ (run.judged <=> hadHeadroom)

LEMMA CountInvStep ==
  ASSUME \A c, e \in Configs : c.inconclusiveDays = e.inconclusiveDays,
         \A c \in Configs : \E d \in Slots : c.test[d] > 0,
         ScheduleTypeOK, CountInv, [ScheduleNext]_svars
  PROVE  CountInv'
<1>1. config \in Configs /\ config' \in Configs
  BY ScheduleNextKeepsType DEF ScheduleTypeOK, TypeOK
<1>2. config'.inconclusiveDays = config.inconclusiveDays
  BY <1>1
<1>3. ASSUME NEW i \in Inputs, Ticks(i)
      PROVE  CountInv'
  <2>1. PICK in \in Input : Sample(in) /\ RecordSchedule(in)
    BY <1>3, TicksTypes
  <2>2. Tested # {}
    BY <1>1 DEF Tested
  <2>3. p'.streak = unjudged' /\ (p'.alert => unjudged' >= config.inconclusiveDays)
    <3>1. /\ p.streak \in 0 .. StreakCap /\ StreakCap \in Nat
          /\ config.inconclusiveDays \in Nat /\ config.inconclusiveDays <= StreakCap
      BY <1>1, Constants DEF ScheduleTypeOK, TypeOK, Persistent, Config
    <3>2. Counts(in) => (run.judged <=> hadHeadroom)
      <4>1. Counts(in) => run.phase = "Tail"
        BY <2>1, SampleEvents, PersistentMoves DEF Counts, ScheduleTypeOK
      <4>2. QED BY <4>1 DEF CountInv
    <3>3. unjudged' = IF ~config.exclusive \/ (Counts(in) /\ hadHeadroom) THEN 0
                      ELSE IF Counts(in) /\ unjudged < StreakCap THEN unjudged + 1
                      ELSE unjudged
      BY <2>1 DEF RecordSchedule
    <3>4. /\ ~config.exclusive => p'.streak = 0 /\ ~p'.alert
          /\ Counts(in) =>
               IF run.judged THEN p'.streak = 0 /\ ~p'.alert
               ELSE /\ p'.streak = IF p.streak < StreakCap THEN p.streak + 1 ELSE StreakCap
                    /\ p'.alert => p.alert \/ p'.streak >= config.inconclusiveDays
          /\ config.exclusive /\ ~Counts(in) => p'.streak = p.streak /\ p'.alert = p.alert
      BY <2>1, StreakMoves DEF CountInv, ScheduleTypeOK
    <3>5. p.streak = unjudged /\ (p.alert => unjudged >= config.inconclusiveDays)
      BY DEF CountInv
    <3>6. CASE ~config.exclusive
      BY <3>1, <3>3, <3>4, <3>6
    <3>7. CASE config.exclusive /\ Counts(in)
      BY <3>1, <3>2, <3>3, <3>4, <3>5, <3>7
    <3>8. CASE config.exclusive /\ ~Counts(in)
      BY <3>3, <3>4, <3>5, <3>8
    <3>9. QED BY <3>6, <3>7, <3>8
  <2>4. ~run'.aborted
    <3>1. run.phase = "Idle" /\ run'.phase = "Idle" => run' = run
      BY <2>1, RunStarts, PutsParts DEF Sample, Idle, Advance, Skip, StayIdle, RunBegins, ScheduleTypeOK
    <3>2. run.phase # "Idle" /\ run'.phase = "Idle" => run' = NoRun
      BY <2>1, RunStarts DEF ScheduleTypeOK, Abort
    <3>3. QED BY <2>1, <3>1, <3>2, RunStarts DEF ScheduleTypeOK, CountInv, RunBegins, NoRun
  <2>5. run'.phase \in {"Running", "Tail", "Settle"} =>
          run'.device \in Slots /\ (run'.judged <=> hadHeadroom')
    <3>1. run'.phase \in {"Running", "Tail", "Settle"} => run'.device \in Slots
      BY <2>1, <2>2, DeviceMoves DEF CountInv, ScheduleTypeOK
    <3>2. CASE run'.phase = "Running" /\ run.phase \in {"Idle", "Deficit", "Settle"} /\ Begun(in)
      <4>1. ~Has("RunEnd") /\ (Has("RunStart") <=> run.phase \in {"Idle", "Deficit"})
        BY <2>1, <3>2, SampleEvents DEF ScheduleTypeOK
      <4>2. QED BY <2>1, <3>1, <3>2, <4>1 DEF RecordSchedule, CountInv, Begun
    <3>3. CASE /\ run'.phase \in {"Running", "Tail", "Settle"}
               /\ run.phase \in {"Running", "Tail", "Settle"} /\ run'.judged = run.judged
               /\ ~(run.phase = "Settle" /\ run'.phase = "Running")
      <4>1. ~Has("RunEnd") /\ ~Has("RunStart")
        BY <2>1, <3>3, SampleEvents DEF ScheduleTypeOK
      <4>2. QED BY <2>1, <3>1, <3>3, <4>1 DEF RecordSchedule, CountInv
    <3>4. QED BY <2>1, <3>2, <3>3, RunMoves DEF Watched, ScheduleTypeOK
  <2>6. stored' = p'
    BY <2>1 DEF Sample
  <2>7. QED BY <1>2, <2>3, <2>4, <2>5, <2>6 DEF CountInv
<1>4. CASE SetClock
  BY <1>4 DEF SetClock, CountInv, vars, scheduleHistory
<1>5. CASE SetConfig /\ UNCHANGED <<scheduleHistory, clock, tick>>
  BY <1>2, <1>5 DEF SetConfig, CountInv, scheduleHistory
<1>6. CASE Reboot /\ UNCHANGED <<scheduleHistory, clock, tick>>
  BY <1>2, <1>6 DEF Reboot, CountInv, scheduleHistory, NoRun
<1>7. CASE (\E d \in Slots : ClearFailure(d)) /\ UNCHANGED <<scheduleHistory, clock, tick>>
  <2>1. PICK d \in Slots : ClearFailure(d)
    BY <1>7
  <2>2. p'.streak = p.streak /\ p'.alert = p.alert
    BY <2>1 DEF ClearFailure, ScheduleTypeOK, TypeOK, Persistent
  <2>3. QED BY <1>7, <2>1, <2>2 DEF ClearFailure, CountInv, scheduleHistory
<1>8. CASE UNCHANGED svars
  BY <1>8 DEF svars, vars, scheduleHistory, CountInv
<1>9. QED BY <1>3, <1>4, <1>5, <1>6, <1>7, <1>8 DEF ScheduleNext, ScheduleSample

\* As long as inconclusive_days stays what it is and some device is tested, the alert stands
\* for the last days, and no day counts twice.
THEOREM DaysCount ==
  ASSUME \A c, e \in Configs : c.inconclusiveDays = e.inconclusiveDays,
         \A c \in Configs : \E d \in Slots : c.test[d] > 0
  PROVE  ScheduleSpec => []DaysAreCounted
<1>1. ScheduleInit => ScheduleTypeOK /\ OnceADayInv /\ CountInv
  BY ScheduleInitHasType
  DEF ScheduleInit, Init, Untested, NoRun, OnceADayInv, NoRunTwiceADay, CountInv
<1>2. ScheduleTypeOK /\ OnceADayInv /\ CountInv /\ [ScheduleNext]_svars
        => ScheduleTypeOK' /\ OnceADayInv' /\ CountInv'
  BY ScheduleNextKeepsType, OnceADayInvStep, CountInvStep
<1>3. OnceADayInv /\ CountInv => DaysAreCounted
  BY DEF OnceADayInv, CountInv, DaysAreCounted, AlertIsCounted
<1>4. QED BY <1>1, <1>2, <1>3, PTL DEF ScheduleSpec
=============================================================================
