------------------------------- MODULE Boost --------------------------------
(***************************************************************************)
(* The boost of core/src/boost.cpp: inside a daily window its devices run    *)
(* until DO has held the target, once per local day.  Step is one call of   *)
(* boost::Step; time passes between the calls (Later).                      *)
(***************************************************************************)
EXTENDS Integers

CONSTANTS
  Slots,   \* the device slots
  Days,    \* local day indexes
  None,    \* an empty std::optional
  AgeCap   \* the hold's age saturates here

Config ==
  [enabled: BOOLEAN, start: Nat, end: Nat, target: Nat, hold: 0 .. AgeCap, devices: SUBSET Slots]

State ==
  [running: BOOLEAN, atTarget: 0 .. AgeCap \cup {None}, doneDay: Days \cup {None}]

VARIABLES
  config,  \* App::mCfg.boost
  state    \* App::mBoost; atTarget: for how long the target has been held

Idle == [running |-> FALSE, atTarget |-> None, doneDay |-> None]

TypeOK == state \in State

\* The devices the boost wants on.
On == IF state.running THEN config.devices ELSE {}

-----------------------------------------------------------------------------
Open(local) ==
  /\ config.enabled /\ config.devices # {}
  /\ local # None /\ config.start <= local.minute /\ local.minute < config.end

Stops(doneDay) == state' = [running |-> FALSE, atTarget |-> None, doneDay |-> doneDay]

\* The window closed, or the clock went away: without it no day is known to be done.
EndsWithWindow(in) ==
  /\ ~Open(in.local)
  /\ Stops(IF in.local = None THEN state.doneDay ELSE in.local.day)

Pauses(in) ==
  /\ Open(in.local)
  /\ in.testRunning \/ in.maintenance
  /\ Stops(state.doneDay)

\* Mutated: a dip below the target does not start the hold over.
HeldOverDips(in) ==
  IF in.mgl = None \/ in.mgl < config.target THEN state.atTarget
  ELSE IF state.atTarget = None THEN 0 ELSE state.atTarget

\* For how long the target is held with this reading.  A missed one says nothing about the
\* tank: the hold waits for the next.
Held(in) ==
  IF in.mgl = None THEN state.atTarget
  ELSE IF in.mgl < config.target THEN None
  ELSE IF state.atTarget = None THEN 0 ELSE state.atTarget

Undisturbed(in) == Open(in.local) /\ ~in.testRunning /\ ~in.maintenance

Reaches(in) == Undisturbed(in) /\ in.mgl # None /\ Held(in) # None /\ Held(in) >= config.hold

RunsOn(in) ==
  /\ Undisturbed(in) /\ ~Reaches(in)
  /\ state' = [state EXCEPT !.atTarget = Held(in)]

Starts(in) ==
  /\ Undisturbed(in)
  /\ in.mgl # None /\ in.mgl < config.target
  /\ state.doneDay # in.local.day

Step(in) ==
  \/ /\ state.running
     /\ \/ EndsWithWindow(in)
        \/ Pauses(in)
        \/ Reaches(in) /\ Stops(in.local.day)
        \/ RunsOn(in)
  \/ ~state.running /\ Starts(in) /\ state' = [state EXCEPT !.running = TRUE]
  \/ ~state.running /\ ~Starts(in) /\ UNCHANGED state

\* A unit of time passes.
Later ==
  state' = [state EXCEPT !.atTarget = IF @ = None \/ @ = AgeCap THEN @ ELSE @ + 1]
=============================================================================
