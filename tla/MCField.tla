------------------------------ MODULE MCField -------------------------------
(* What the board talks to, checked in one run: the probe's driver and what     *)
(* becomes of its readings (ReadingHistory), one transaction with a plug         *)
(* (TuyaSession) and the plug task (TuyaLink).  They share no        *)
(* modelled state; a behaviour is one of one of them, chosen at the start, with   *)
(* the others standing still.                                                *)
EXTENDS ReadingHistory, TuyaSession

CONSTANTS Relay, p1, v1

VARIABLES
  part, \* the module whose behaviour this is
  slot, want, link, plugFails, lanPlug, there, track, taken, tested, left, call, test, pending, done, testResult, waiting, told

ThePlugs == INSTANCE TuyaLink WITH
  Devices <- {1}, Plugs <- {p1}, Asked <- {[plug |-> p1, on |-> TRUE]}, LOST_AFTER <- 3, REFRESH <- 2,
  fails <- plugFails, plug <- lanPlug, result <- testResult

plugVars == <<slot, want, link, plugFails, lanPlug, there, track, taken, tested, left, call, test, pending, done,
              testResult, waiting, told>>
allVars == <<part, readingVars, sessionVars, plugVars, trendVars>>

-----------------------------------------------------------------------------

\* The state in which the parts that do not move stand still.
Still ==
  /\ part # "Probe" => measured = v1 /\ period = 1
  /\ part # "TuyaSession" => version = "V33" /\ ~on /\ key = "Right" /\ plug.v = "V33" /\ ~plug.on
  /\ part # "TuyaLink" => slot[1] = Relay /\ ~there[p1]

FInit ==
  /\ part \in {"Probe", "Trend", "TuyaSession", "TuyaLink"}
  /\ TrendInit /\ ReadingsInit /\ SessionInit /\ ThePlugs!Init
  /\ Still

\* A transaction that is over.
Over == part = "TuyaSession" /\ pc = "Done" /\ UNCHANGED allVars

FNext ==
  \/ part = "Probe" /\ ReadingsNext /\ UNCHANGED <<part, sessionVars, plugVars, trendVars>>
  \/ part = "Trend" /\ TrendNext /\ UNCHANGED <<part, readingVars, sessionVars, plugVars>>
  \/ part = "TuyaSession" /\ SessionNext /\ UNCHANGED <<part, readingVars, plugVars, trendVars>>
  \/ part = "TuyaLink" /\ ThePlugs!Next /\ UNCHANGED <<part, readingVars, sessionVars, trendVars>>
  \/ Over

\* The fairness of TuyaLink, for the part that moves.
InPlugs(A) == part = "TuyaLink" /\ A

FSpec ==
  /\ FInit /\ [][FNext]_allVars
  /\ WF_plugVars(InPlugs(ThePlugs!Task)) /\ WF_plugVars(InPlugs(ThePlugs!Ticks))
  /\ SF_plugVars(InPlugs(call.device = 1 /\ ThePlugs!Transact(TRUE)))

-----------------------------------------------------------------------------
(* TuyaLink's: a plug that answers takes the state the App wants (README.md:375). *)
PlugFollows == ThePlugs!PlugFollows
=============================================================================
