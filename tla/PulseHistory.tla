---------------------------- MODULE PulseHistory ----------------------------
(***************************************************************************)
(* The ladder with history variables about its pulse devices, told from     *)
(* what is put out and not from the code's pulse state, and what it must    *)
(* eventually do.  A device is powered before the first sample: pulse_off   *)
(* needs an NC relay.  tick tells two samples that leave the ladder         *)
(* unchanged from no sample at all: without it fairness would force the     *)
(* tank to change whenever the ladder has come to rest.                     *)
(***************************************************************************)
EXTENDS Ladder

VARIABLES
  offFor,    \* per device: for how long it has been off; None: it is powered
  sinceCut,  \* per device: since it last went off
  rested,    \* per device: its level was inactive at a sample since then
  tick

pulseHistory == <<offFor, sinceCut, rested>>
pvars == <<vars, pulseHistory, tick>>

PulseDevice(d) == config.devices[d].mode = "PulseOff"

PulseHistoryTypeOK ==
  /\ offFor \in [Devices -> OptionalAge]
  /\ sinceCut \in [Devices -> OptionalAge]
  /\ rested \in [Devices -> BOOLEAN]
  /\ tick \in BOOLEAN

PulseInit ==
  /\ Init
  /\ offFor = [d \in Devices |-> None]
  /\ sinceCut = [d \in Devices |-> None]
  /\ rested = [d \in Devices |-> TRUE]
  /\ tick = FALSE

IsCut(d) == PulseDevice(d) /\ offFor[d] = None /\ ~out'.on[d]

RecordPulse(in) ==
  /\ offFor' = [d \in Devices |->
       IF PulseDevice(d) /\ ~out'.on[d] THEN Running(offFor[d], in.elapsed) ELSE None]
  /\ sinceCut' = [d \in Devices |-> IF IsCut(d) THEN 0 ELSE Aged(sinceCut[d], in.elapsed)]
  /\ rested' = [d \in Devices |-> ~IsCut(d) /\ (rested[d] \/ ~Active(d))]

Ticks(in) == Sample(in) /\ RecordPulse(in) /\ tick' = ~tick

PulseSample == \E in \in Inputs : Ticks(in)

PulseNext ==
  \/ PulseSample
  \/ SetConfig /\ UNCHANGED <<pulseHistory, tick>>

\* The sampling task never stops calling Step: the task watchdog guards its loop.
PulseSpec == PulseInit /\ [][PulseNext]_pvars /\ WF_pvars(PulseSample)

-----------------------------------------------------------------------------
IsBrief(d) == offFor[d] # None => offFor[d] < config.pulse

IsRare(d, in) ==
  IsCut(d) =>
    /\ rested[d]
    /\ sinceCut[d] = None \/ Aged(sinceCut[d], in.elapsed) >= config.pulseMinInterval
    /\ ~fault' /\ ~in.maintenance

(* A pulse device is off for less than pulse.s, whatever levels, FAULTs,     *)
(* acks, suspends and maintenance come and go meanwhile, and it is cut once  *)
(* per activation of its level: between two cuts the level was inactive at   *)
(* some sample and pulse.min_interval_s has passed, and the probe and the    *)
(* controller are not being worked on.  Said of each Step, which is where    *)
(* the code looks at the configuration stored last.                         *)
PumpIsSpared ==
  [][\A in \in Inputs : Sample(in) => \A d \in Devices : IsBrief(d)' /\ IsRare(d, in)]_pvars

(* The level follows the tank in the end.  Readings that stay above every    *)
(* threshold by day bring the ladder back to Normal for good: no timer,      *)
(* FAULT, night lock or suspicion keeps it up.  Readings that stay below     *)
(* Red's entry threshold bring it to Red, even if each of them looks like a  *)
(* sudden drop and reads fail in between.                                    *)
CalmDay(in) ==
  /\ in.reading # None
  /\ ~IsNight(in.minute)
  /\ \A l \in AlertLevel : /\ ~EntryCondition(l, in)
                           /\ in.reading > config.mgl[l] + config.hysteresis[l]

Suffocating(in) == in.reading = None \/ EntryCondition(Red, in)

CalmEndsTheAlert ==
  <>[][\E in \in Inputs : CalmDay(in) /\ Ticks(in)]_pvars => <>[](level = Normal /\ ~fault)

SuffocationReachesRed ==
  /\ <>[][\E in \in Inputs : Suffocating(in) /\ Ticks(in)]_pvars
  /\ []<>(consecutiveFailures = 0)
  => <>[](level = Red)

LevelFollowsTheTank == CalmEndsTheAlert /\ SuffocationReachesRed

(* An alarm that nobody acknowledges, suspends or mutes any more is heard    *)
(* again and again while it stands: every silence runs out, and an automatic *)
(* one is followed by the next announcement.                                 *)
LeftAlone(in) == ~in.ack /\ in.suspend = None /\ ~in.maintenance

StandingAlarmIsHeard ==
  /\ <>[][\E in \in Inputs : LeftAlone(in) /\ Ticks(in)]_pvars
  /\ <>[](level # Normal \/ fault)
  => []<>out.sound
=============================================================================
