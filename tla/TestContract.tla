---------------------------- MODULE TestContract ----------------------------
(***************************************************************************)
(* What the daily test promises to App::Tick: selftest::Step with its       *)
(* phases, verdicts and schedule taken away.  SelfTest keeps it              *)
(* (VerdictHistory); App is built on it.                                    *)
(***************************************************************************)
EXTENDS Naturals

CONSTANTS
  NDevices,
  None

Slots == 0 .. NDevices - 1

VARIABLES
  config,   \* of the test; read here: what is tested, and the deficit
  running,  \* a run is in progress
  on,       \* the device it runs ...
  cut       \* ... and the one it holds off, for an induced deficit

Init == running = FALSE /\ on = {} /\ cut = None

Tested == {d \in Slots : config.test[d] > 0}
TestedOut(deviceOut) == Tested \cap deviceOut # {}

\* Nothing runs in an alert, in a FAULT or with a tested device out of order, and nothing is
\* begun in maintenance or without a device to test.
RunMoves(alert, fault, maintenance, deviceOut) ==
  /\ running' \in BOOLEAN
  /\ running' => ~alert /\ ~fault /\ ~TestedOut(deviceOut)
  /\ running' /\ ~running => ~maintenance /\ Tested # {}

\* A run exercises one device at a time.  Its number is not promised to be a device's: a
\* configuration stored in mid-run may leave none.
DevicesMove ==
  /\ on' \in {{}} \cup {{d} : d \in 0 .. NDevices}
  /\ ~running' => on' = {}

\* Only the beginning of a run holds a device off.
CutMoves ==
  /\ cut' \in {None, config.deficitDevice}
  /\ cut' # None =>
       /\ running' /\ on' = {}
       /\ cut # None \/ (~running /\ config.exclusive /\ config.deficit > 0)

Step(alert, fault, maintenance, deviceOut) ==
  /\ RunMoves(alert, fault, maintenance, deviceOut)
  /\ DevicesMove
  /\ CutMoves
=============================================================================
