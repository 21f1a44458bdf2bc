--------------------------- MODULE LadderContract ---------------------------
(***************************************************************************)
(* What the ladder promises to those that build on it: all that App::Tick    *)
(* and the daily test need to know of ladder::Step, and nothing of how it   *)
(* decides.  The readings are reduced to whether there was one, the timers  *)
(* are gone.  Ladder keeps it (KeepsContract); App is built on it.           *)
(***************************************************************************)
EXTENDS Integers

CONSTANT Devices

Normal == 0
Yellow == 2
Red == 3
Level == Normal .. Red
SuspendRequest == {"Nothing", "Resume", "Suspend"}

VARIABLES
  config,     \* of the ladder; read here: faultLevel, dayAlarm and devices
  level,
  fault,
  silenced,   \* acknowledged, by hand or automatically
  autoAcked,  \* ... and if so, automatically
  suspended,  \* an alert suspend is in effect
  on          \* the devices the ladder wants on

Init ==
  /\ level = Normal
  /\ fault = FALSE
  /\ silenced = FALSE
  /\ autoAcked = FALSE
  /\ suspended = FALSE
  /\ on = {}

\* A missed read leaves the level as it is, and only missed reads make a FAULT; recovery goes
\* one level at a time.
LevelMoves(missed) ==
  \/ missed /\ level' = level /\ fault' \in BOOLEAN
  \/ ~missed /\ level' \in {l \in Level : l >= level - 1} /\ fault' = FALSE

\* The alarm is a new one.
Rearmed == level' > level \/ (fault' /\ ~fault)

\* A silence given by hand was given just now or is the old one, and covers no new alarm.
\* An automatic one is taken by the alarm that stands, if the configuration wants it; it is
\* not promised to cover no new alarm.
SilenceMoves(ack) ==
  /\ silenced' \in BOOLEAN
  /\ autoAcked' \in BOOLEAN
  /\ autoAcked' => silenced'
  /\ autoAcked' /\ ~autoAcked => config.dayAlarm = "AutoAck" /\ (level' # Normal \/ fault')
  /\ silenced' /\ ~autoAcked' => ~Rearmed /\ (ack \/ (silenced /\ ~autoAcked))

\* A suspend is given for the alert that stands, and covers no deeper one and no FAULT.
SuspendMoves(request) ==
  /\ suspended' \in BOOLEAN
  /\ suspended' =>
       /\ ~fault' /\ level' # Normal /\ level' <= level
       /\ request = "Suspend" \/ (suspended /\ request = "Nothing")

Deeper(l, m) == IF l > m THEN l ELSE m

DevicesLevel ==
  IF suspended' THEN Normal
  ELSE IF fault' THEN Deeper(level', Deeper(config.faultLevel, Yellow))
  ELSE level'

Active(d) == config.devices[d].trigger # Normal /\ config.devices[d].trigger <= DevicesLevel

\* A pulse device is off when it is being cut, at whatever level; a siren may be silent.
DevicesMove ==
  /\ on' \in SUBSET Devices
  /\ \A d \in Devices : config.devices[d].mode = "On" =>
       /\ d \in on' => Active(d)
       /\ Active(d) /\ ~config.devices[d].ackSilences => d \in on'

Step(missed, ack, request) ==
  /\ LevelMoves(missed)
  /\ SilenceMoves(ack)
  /\ SuspendMoves(request)
  /\ DevicesMove
=============================================================================
