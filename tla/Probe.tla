------------------------------- MODULE Probe --------------------------------
(***************************************************************************)
(* The probe's driver (core/src/probe.cpp over core/src/modbus.cpp) and what the *)
(* App makes of its results (core/src/app.cpp): a Modbus transaction a sample,   *)
(* on a line on which an answer may come late, be garbled or be missing, a probe *)
(* that may freeze, and configurations that change while it is frozen.            *)
(***************************************************************************)
EXTENDS Naturals, Sequences

CONSTANTS
  Bits,       \* bit patterns of DO and temperature
  Periods,      \* sample periods (s)
  STUCK,        \* stuck_minutes (s)
  FAULT_AFTER   \* ladder.faultConsecutiveFailures

VARIABLES
  measured,      \* what the probe measures (external)
  late,          \* the answer that was too late for its request, or NoFrame
  last,          \* mLastDoBits, mLastTempBits, or Nothing (~mHaveLast)
  identical,     \* mIdentical (saturating)
  period,        \* sample_period_s
  result,        \* PollResult
  failures,      \* consecutiveFailures (saturating)
  calibrated     \* the last AirCalibrate: None, Ok, Failed

probeVars == <<measured, late, last, identical, period, result, failures, calibrated>>

Nothing == "Nothing"
\* ProbeConfig: so many samples are STUCK seconds.
stuckSamples == STUCK \div period
MaxIdentical == CHOOSE n \in {STUCK \div p : p \in Periods} : \A p \in Periods : STUCK \div p <= n \* bound

ASSUME ProbeAssumption ==
  /\ MaxIdentical \in Nat /\ \A p \in Periods : STUCK \div p \in 0 .. MaxIdentical
  /\ Bits \cap {Nothing, "Implausible"} = {}

\* Frames on the line.  Garbage: a CRC, an address, a length that is not right.
ReadAnswer(v) == [fn |-> "Read", value |-> v]
Implausible == [fn |-> "Read", value |-> "Implausible"]
WriteEcho == [fn |-> "Write", value |-> Nothing]
Exception == [fn |-> "Exception", value |-> Nothing]
Garbage == [fn |-> "Garbage", value |-> Nothing]
NoFrame == [fn |-> "None", value |-> Nothing]
Frames == {ReadAnswer(v) : v \in Bits} \cup {Implausible, WriteEcho, Exception, Garbage}
Results == {"Ok", "Stuck", "Timeout", "FrameError", "ModbusException", "Implausible"}

ProbeTypeOK ==
  /\ measured \in Bits
  /\ late \in {NoFrame} \cup Frames
  /\ last \in {Nothing} \cup Bits
  /\ identical \in 0 .. MaxIdentical /\ period \in Periods
  /\ result \in [status : Results, reading : {Nothing} \cup Bits]
  /\ failures \in 0 .. FAULT_AFTER
  /\ calibrated \in {"None", "Ok", "Failed"}

ProbeInit ==
  /\ measured \in Bits /\ late = NoFrame
  /\ last = Nothing /\ identical = 0 /\ period \in Periods
  /\ result = [status |-> "Timeout", reading |-> Nothing]
  /\ failures = 0 /\ calibrated = "None"

-----------------------------------------------------------------------------
(* The line: DiscardInput empties the buffer before a request; what was late     *)
(* may still arrive after that, before the answer.                             *)

\* The frames of a transaction: nothing or the late one, then nothing or the answer, good or bad.
Heard(answer) ==
  {<<>>, <<answer>>, <<Garbage>>, <<Exception>>}
    \cup IF late = NoFrame THEN {} ELSE {<<late>>, <<late, answer>>}

\* An answer that was not heard in time may be under way still.
Later(frames, answer) == IF answer \in {frames[i] : i \in DOMAIN frames} THEN {NoFrame} ELSE {NoFrame, answer}

\* ParseReadResponse on what fits the buffer: a read's answer fills it, a shorter frame with more behind it is garbage.
ParseRead(frames) ==
  IF frames = <<>> THEN "Timeout"
  ELSE CASE frames[1].fn = "Read" -> IF frames[1].value \in Bits THEN "Ok" ELSE "Implausible"
         [] frames[1].fn = "Exception" /\ Len(frames) = 1 -> "ModbusException"
         [] OTHER -> "FrameError"

\* ParseWriteResponse: the echo fills the buffer.
ParseWrite(frames) == IF frames # <<>> /\ frames[1].fn = "Write" THEN "Ok" ELSE "Failed"

-----------------------------------------------------------------------------
(* Poll and what Tick counts.                                                *)

\* Mutated: a missed poll starts the count over.
CountFresh(v) ==
  identical' = IF v = last /\ result.reading # Nothing
               THEN IF identical < MaxIdentical THEN identical + 1 ELSE identical ELSE 0

\* Identical readings in a row, over missed polls.
Count(v) ==
  identical' = IF v = last THEN IF identical < MaxIdentical THEN identical + 1 ELSE identical ELSE 0

\* App::Tick: a frozen reading is a failure too.
Tick ==
  failures' = IF result'.status = "Ok" THEN 0
              ELSE IF failures < FAULT_AFTER THEN failures + 1 ELSE failures

Poll(frames) ==
  /\ IF ParseRead(frames) = "Ok"
     THEN LET v == frames[1].value IN
          /\ Count(v)
          /\ last' = v
          /\ result' = [status |-> IF identical' >= stuckSamples THEN "Stuck" ELSE "Ok", reading |-> v]
     ELSE /\ result' = [status |-> ParseRead(frames), reading |-> Nothing]
          /\ UNCHANGED <<last, identical>>
  /\ Tick

Sample ==
  \E answer \in {ReadAnswer(measured), Implausible} :
    \E frames \in Heard(answer) :
      /\ Poll(frames)
      /\ late' \in Later(frames, answer)
      /\ UNCHANGED <<measured, period, calibrated>>

\* WriteOne(REG_AIR_CAL), in maintenance: the probe measures something else afterwards, or the same.
AirCalibrate ==
  \E frames \in Heard(WriteEcho) :
    /\ calibrated' = ParseWrite(frames)
    /\ late' \in Later(frames, WriteEcho)
    /\ measured' \in Bits
    /\ UNCHANGED <<last, identical, period, result, failures>>

\* A configuration: the count carries on (probe.hpp:92).
SetConfig ==
  /\ period' \in Periods
  /\ UNCHANGED <<measured, late, last, identical, result, failures, calibrated>>

\* The water changes; a frozen probe is one for which it does not any more.
Water ==
  /\ measured' \in Bits
  /\ UNCHANGED <<late, last, identical, period, result, failures, calibrated>>

ProbeNext == Sample \/ AirCalibrate \/ SetConfig \/ Water

ProbeSpec == ProbeInit /\ [][ProbeNext]_probeVars

=============================================================================
