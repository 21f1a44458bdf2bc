------------------------------ MODULE MCLinks -------------------------------
(* The board's three links, checked in one run: its Wi-Fi (Network), the      *)
(* linking to an account (CloudLink), and what goes over the link              *)
(* (CloudAgent).  They share no modelled state; a behaviour is one of one of   *)
(* them, chosen at the start, with the others standing still.                 *)
EXTENDS CloudLink

CONSTANTS n1, n2 \* two networks, one of which may be the app's

VARIABLES
  part, \* the module whose behaviour this is
  stored, config, configured, wifi, lost, connected, paused, linkWindow, onAir, apStarted, age, watch, request,
  level, fault, silenced, autoAcked, suspended, on, pending, online, wasOnline, sentLevel, sentSuspend,
  updates, writes, phone, owed

Net == INSTANCE Network WITH Networks <- {n1, n2}, ApAfter <- 1, link <- wifi, window <- linkWindow

\* A board with two levels of alert, of which the deeper is pushed.
Agent == INSTANCE CloudAgent WITH
  Deepest <- 2, DayAlarm <- "On", WantedLevels <- {2}, WantFault <- FALSE,
  QueueMax <- 1, WritesMax <- 1, Troubles <- {}

netVars == <<stored, config, configured, wifi, lost, connected, paused, linkWindow, onAir, apStarted, age, watch, request>>
agentVars == <<level, fault, silenced, autoAcked, suspended, on, pending, online, wasOnline, sentLevel, sentSuspend,
               updates, writes, phone, owed>>
allVars == <<part, vars, netVars, agentVars>>

LInit ==
  /\ part \in {"Network", "CloudLink", "CloudAgent"}
  /\ Init /\ (part # "CloudLink" => ~certified)
  /\ Net!Init
  /\ Agent!Init

LNext ==
  \/ part = "Network" /\ Net!Next /\ UNCHANGED <<part, vars, agentVars>>
  \/ part = "CloudLink" /\ Next /\ UNCHANGED <<part, netVars, agentVars>>
  \/ part = "CloudAgent" /\ Agent!Next /\ UNCHANGED <<part, vars, netVars>>

\* The fairness of Network and of CloudAgent, for the part that moves.
InNetwork(A) == part = "Network" /\ A
InAgent(A) == part = "CloudAgent" /\ A

LSpec ==
  /\ LInit /\ [][LNext]_allVars
  /\ WF_netVars(InNetwork(Net!OnWifi))
  /\ WF_netVars(InNetwork(Net!Decide)) /\ WF_netVars(InNetwork(Net!Act))
  /\ WF_netVars(InNetwork(Net!Pass))
  /\ WF_netVars(InNetwork(Net!UseCredentials)) /\ WF_netVars(InNetwork(Net!ResumeStation))
  /\ SF_netVars(InNetwork(Net!OnIp))
  /\ WF_agentVars(InAgent(Agent!Samples))
  /\ WF_agentVars(InAgent(Agent!ReceiveUpdate)) /\ WF_agentVars(InAgent(Agent!Write))

-----------------------------------------------------------------------------
(* Network's safety net: a board without a connection for AP_AFTER_MS is      *)
(* reachable again (net.cpp:251-266).                                        *)
BoardIsReachable == Net!BoardIsReachable

(* CloudAgent's: the phone comes to show the board's level (README.md:313).   *)
PhoneShowsTheLevel == Agent!PhoneShowsTheLevel

(* CloudAgent's: an alarm the phone is to be woken for wakes it               *)
(* (README.md:320).                                                         *)
AlarmWakesThePhone == Agent!AlarmWakesThePhone
=============================================================================
