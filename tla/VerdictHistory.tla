--------------------------- MODULE VerdictHistory ---------------------------
(***************************************************************************)
(* The self test with history variables about the device it exercises, told *)
(* from what it is given and what it puts out, not from its own bookkeeping. *)
(***************************************************************************)
EXTENDS SelfTest

VARIABLES
  started,   \* the device started last, and the reading it started with
  headroom,  \* there was headroom to measure when the run's first device started
  calm,      \* no FAULT, level or device out of order disturbed the run so far
  best,      \* the highest rise read since the device started; None: nothing was read
  onFor,     \* for how long the device was on
  full,      \* ... which was its test_s when it went off
  offFor,    \* for how long it has been off since
  cutFor     \* for how long the deficit's device has been held off; None: it is not

verdictHistory == <<started, headroom, calm, best, onFor, full, offFor, cutFor>>
vvars == <<vars, verdictHistory>>

NoDevice == [device |-> None, trend |-> FALSE, mgl |-> 0]

VerdictInit ==
  /\ Init
  /\ started = NoDevice
  /\ headroom = FALSE /\ calm = FALSE /\ full = FALSE
  /\ best = None /\ onFor = 0 /\ offFor = 0
  /\ cutFor = None

Raised(type, d) == [type |-> type, device |-> d] \in out'.events

DeviceBegins == Has("DeviceStart")

Best(in) ==
  IF in.reading = None THEN best
  ELSE IF best = None \/ in.reading.rise > best THEN in.reading.rise ELSE best

WentOff == started.device \in out.on /\ started.device \notin out'.on

RecordDevice(in) ==
  /\ started' = IF Has("RunEnd") THEN NoDevice
                ELSE IF ~DeviceBegins THEN started
                ELSE [device |-> CHOOSE d \in out'.on : TRUE, trend |-> TrendReady(in),
                      mgl |-> IF in.reading = None THEN 0 ELSE in.reading.mgl]
  /\ best' = IF DeviceBegins \/ run.phase = "Idle" THEN None ELSE Best(in)
  /\ onFor' = IF DeviceBegins \/ Has("RunEnd") THEN 0
              ELSE IF started.device \in out.on THEN Aged(onFor, in.elapsed) ELSE onFor
  /\ full' = IF DeviceBegins \/ Has("RunEnd") THEN FALSE
             ELSE IF WentOff THEN onFor' >= TestOf(started.device, in) ELSE full
  /\ offFor' = IF DeviceBegins \/ WentOff \/ run.phase = "Idle" THEN 0 ELSE Aged(offFor, in.elapsed)

RecordRun(in) ==
  /\ headroom' = IF Has("RunStart") THEN config.exclusive /\ HasHeadroom(in)
                 ELSE headroom /\ ~Has("RunEnd")
  /\ calm' = (~Disturbed(in) /\ (RunBegins \/ (calm /\ run.phase # "Idle")))
  /\ cutFor' = IF out'.cut = None THEN None ELSE IF cutFor = None THEN 0 ELSE Aged(cutFor, in.elapsed)

VerdictSample == \E in \in Inputs : Sample(in) /\ RecordDevice(in) /\ RecordRun(in)

VerdictNext ==
  \/ VerdictSample
  \/ SetConfig /\ UNCHANGED verdictHistory
  \/ (\E d \in Slots : ClearFailure(d)) /\ UNCHANGED verdictHistory
  \/ /\ Reboot
     /\ started' = NoDevice
     /\ headroom' = FALSE /\ calm' = FALSE /\ full' = FALSE
     /\ best' = None /\ onFor' = 0 /\ offFor' = 0
     /\ cutFor' = None

VerdictSpec == VerdictInit /\ [][VerdictNext]_vvars

-----------------------------------------------------------------------------
(* A verdict is about the device it names, this time: the run had headroom,  *)
(* the device started on a known trend, ran for its test_s and was watched   *)
(* for tail_s with nothing disturbing the run, and did (or did not) show the *)
(* rise its configuration demands.  A FAIL is none near saturation.          *)
Judged(d) ==
  started.device = d /\ headroom /\ started.trend /\ calm' /\ full /\ offFor' >= config.tail

Showed(d) == best' # None /\ best' >= config.minResponse[d]

VerdictIsEarned ==
  [][VerdictSample =>
       \A d \in Slots :
         /\ Raised("FailAlert", d) =>
              /\ Judged(d) /\ ~Showed(d)
              /\ config.noFailAbove = 0 \/ started.mgl < config.noFailAbove
         /\ Raised("FailCleared", d) => ~config.exclusive \/ (Judged(d) /\ Showed(d))]_vvars

(* The induced deficit holds its device off for less than induce_deficit_s   *)
(* and only while nothing disturbs the run: an alert never waits for it.     *)
CutIsBrief ==
  [][VerdictSample /\ out'.cut # None => cutFor' < config.deficit /\ calm']_vvars

(* The test keeps the contract App::Tick is built on: no run in an alert, a  *)
(* FAULT or with a tested device out of order, one device at a time, and a   *)
(* device held off only by the beginning of a run.                           *)
Contract == INSTANCE TestContract WITH
  running <- run.phase # "Idle",
  on      <- out.on,
  cut     <- out.cut

KeepsContract ==
  /\ Contract!Init
  /\ [][\A in \in Inputs : Sample(in) =>
          Contract!Step(in.alert, in.fault, in.maintenance, in.out)]_vvars

-----------------------------------------------------------------------------
(* "index being exercised" (core/include/reefdo/selftest.hpp:138): a run's   *)
(* device is one of the devices.                                            *)
DeviceExists == run.phase # "Idle" => run.device \in Slots
=============================================================================
