----------------------------- MODULE CloudLink ------------------------------
(***************************************************************************)
(* Linking the board to a phone app account (firmware/main/cloud_link.cpp)   *)
(* and what may restart the board meanwhile (firmware/main/sampler.cpp).     *)
(*                                                                         *)
(* The cloud task starts the agent, or, without a device certificate, waits  *)
(* for a request and opens the Bluetooth link window for it.  Requests come  *)
(* from the web page, under the App's lock, and from the console, without it; *)
(* both race the task's plain stores of the phase.  A one-time code is a     *)
(* member of Codes.  What the window does to the station is in Network.      *)
(***************************************************************************)
EXTENDS Naturals, TLAPS

CONSTANTS
  None,
  Askers, \* who may ask for a link window
  Web,    \* the asker that holds the App's lock
  Codes   \* one-time codes

ASSUME LinkAssumption ==
  /\ Web \in Askers
  /\ None \notin Codes

VARIABLES
  phase,      \* sPhase
  task,       \* where the cloud task stands
  notified,   \* the task notification that StartLink gives
  certified,  \* the device certificate is in fctry
  agent,      \* the SDK's agent runs
  mqtt,       \* the agent is connected to its cloud
  reachable,  \* the station is connected (Network's connected)
  pop,        \* sPop (and sService), the code of the link window
  window,     \* the code of the open Bluetooth window; None: closed
  asker,      \* per asker: the step of its StartLink
  answer,     \* per asker: the code it was last shown, None after a refusal
  restart     \* the sampling task is restarting the board for the day

link == <<phase, pop, asker, answer>>
vars == <<phase, task, notified, certified, agent, mqtt, reachable, pop, window, asker, answer, restart>>

Phase == {"Off", "NotLinked", "Linking", "Offline", "Online"}
Task == {"Waiting", "Starting", "Agent", "Unlinked", "Idle", "Opening", "Window", "Closing", "Backoff", "Serving"}

TypeOK ==
  /\ phase \in Phase
  /\ task \in Task
  /\ notified \in BOOLEAN
  /\ certified \in BOOLEAN
  /\ agent \in BOOLEAN
  /\ mqtt \in BOOLEAN
  /\ reachable \in BOOLEAN
  /\ pop \in Codes \cup {None}
  /\ window \in Codes \cup {None}
  /\ asker \in [Askers -> {"Idle", "Swap", "Publish"}]
  /\ answer \in [Askers -> Codes \cup {None}]
  /\ restart \in BOOLEAN

Init ==
  /\ phase = "Off"
  /\ task = "Waiting"
  /\ notified = FALSE
  /\ certified \in BOOLEAN
  /\ agent = FALSE /\ mqtt = FALSE
  /\ reachable = FALSE
  /\ pop = None /\ window = None
  /\ asker = [a \in Askers |-> "Idle"]
  /\ answer = [a \in Askers |-> None]
  /\ restart = FALSE

Linked == phase \in {"Online", "Offline"}

-----------------------------------------------------------------------------
(* The cloud task.                                                          *)

WaitForNetwork ==
  /\ task = "Waiting" /\ reachable
  /\ task' = "Starting"
  /\ UNCHANGED <<link, notified, certified, agent, mqtt, reachable, window, restart>>

\* Mutated: the phase is set when the agent has started.
AgentStartedOffline ==
  /\ task = "Agent" /\ agent
  /\ task' = "Serving" /\ phase' = "Offline"
  /\ UNCHANGED <<notified, certified, agent, mqtt, reachable, pop, window, asker, answer, restart>>

\* TryStart: without a certificate there is no node; with one the phase is set before the start.
TryStart ==
  /\ task = "Starting"
  /\ IF certified THEN phase' = "Offline" /\ task' = "Agent"
                  ELSE UNCHANGED phase /\ task' = "Unlinked"
  /\ UNCHANGED <<notified, certified, agent, mqtt, reachable, pop, window, asker, answer, restart>>

\* esp_rmaker_start: from here on its events come, or it has failed.
StartAgent ==
  /\ task = "Agent" /\ ~agent
  /\ \/ agent' = TRUE /\ UNCHANGED task
     \/ agent' = FALSE /\ task' = "Backoff"
  /\ UNCHANGED <<link, notified, certified, mqtt, reachable, window, restart>>

AgentStarted ==
  /\ task = "Agent" /\ agent
  /\ task' = "Serving"
  /\ UNCHANGED <<link, notified, certified, agent, mqtt, reachable, window, restart>>

Retry ==
  /\ task = "Backoff"
  /\ task' = "Starting"
  /\ UNCHANGED <<link, notified, certified, agent, mqtt, reachable, window, restart>>

NotLinked ==
  /\ task = "Unlinked"
  /\ phase' = "NotLinked"
  /\ task' = "Idle"
  /\ UNCHANGED <<notified, certified, agent, mqtt, reachable, pop, window, asker, answer, restart>>

TakeRequest ==
  /\ task = "Idle" /\ notified
  /\ notified' = FALSE
  /\ task' = "Opening"
  /\ UNCHANGED <<link, certified, agent, mqtt, reachable, window, restart>>

\* RunLink: the window opens with the code that stands, or the provisioning does not start.
RunLink ==
  /\ task = "Opening"
  /\ \/ window' = pop /\ task' = "Window"
     \/ UNCHANGED window /\ task' = "Closing"
  /\ UNCHANGED <<link, notified, certified, agent, mqtt, reachable, restart>>

\* The app has claimed the board, or has not, when the window ends (by the app or by its timeout).
EndWindow ==
  /\ task = "Window"
  /\ window' = None
  /\ certified' \in {certified, TRUE}
  /\ task' = "Closing"
  /\ UNCHANGED <<link, notified, agent, mqtt, reachable, restart>>

CloseWindow ==
  /\ task = "Closing"
  /\ phase' = "NotLinked"
  /\ task' = "Waiting"
  /\ answer' = [a \in Askers |-> None] \* the codes shown so far are void
  /\ UNCHANGED <<notified, certified, agent, mqtt, reachable, pop, window, asker, restart>>

CloudTask ==
  \/ WaitForNetwork \/ TryStart \/ StartAgent \/ AgentStarted \/ Retry \/ NotLinked
  \/ TakeRequest \/ RunLink \/ EndWindow \/ CloseWindow

-----------------------------------------------------------------------------
(* The SDK's events once its agent runs.                                     *)

OnEvent ==
  /\ agent
  /\ mqtt' = ~mqtt
  /\ phase' = IF mqtt' THEN "Online" ELSE IF phase = "Online" THEN "Offline" ELSE phase
  /\ UNCHANGED <<task, notified, certified, agent, reachable, pop, window, asker, answer, restart>>

Station ==
  /\ window = None
  /\ reachable' = ~reachable
  /\ UNCHANGED <<link, task, notified, certified, agent, mqtt, window, restart>>

-----------------------------------------------------------------------------
(* StartLink: the phase is loaded and answered, or a code made up, the phase  *)
(* exchanged, the code published and the task notified.                      *)

Locked(a) == a = Web => ~restart

Refused(a) == answer' = [answer EXCEPT ![a] = None] /\ asker' = [asker EXCEPT ![a] = "Idle"]

StartLink(a) ==
  /\ asker[a] = "Idle" /\ Locked(a)
  /\ \/ Linked /\ Refused(a)
     \/ phase = "Linking" /\ answer' = [answer EXCEPT ![a] = pop] /\ UNCHANGED asker
     \/ phase \in {"Off", "NotLinked"} /\ asker' = [asker EXCEPT ![a] = "Swap"] /\ UNCHANGED answer
  /\ UNCHANGED <<phase, task, notified, certified, agent, mqtt, reachable, pop, window, restart>>

Swap(a) ==
  /\ asker[a] = "Swap"
  /\ IF phase = "NotLinked"
       THEN phase' = "Linking" /\ asker' = [asker EXCEPT ![a] = "Publish"] /\ UNCHANGED answer
       ELSE Refused(a) /\ UNCHANGED phase
  /\ UNCHANGED <<task, notified, certified, agent, mqtt, reachable, pop, window, restart>>

Publish(a) ==
  /\ asker[a] = "Publish"
  /\ \E c \in Codes \ {pop} : pop' = c /\ answer' = [answer EXCEPT ![a] = c]
  /\ notified' = TRUE
  /\ asker' = [asker EXCEPT ![a] = "Idle"]
  /\ UNCHANGED <<phase, task, certified, agent, mqtt, reachable, window, restart>>

Ask(a) == StartLink(a) \/ Swap(a) \/ Publish(a)

-----------------------------------------------------------------------------
(* Restarts: the sampling task's, for the day, unless a window is open; and   *)
(* cloud forget, which erases the certificate first.                         *)

RestartDue ==
  /\ ~restart
  /\ phase # "Linking"
  /\ asker[Web] = "Idle"
  /\ restart' = TRUE
  /\ UNCHANGED <<link, task, notified, certified, agent, mqtt, reachable, window>>

Booted ==
  /\ phase' = "Off" /\ task' = "Waiting"
  /\ notified' = FALSE /\ agent' = FALSE /\ mqtt' = FALSE /\ reachable' = FALSE
  /\ pop' = None /\ window' = None
  /\ asker' = [a \in Askers |-> "Idle"]
  /\ answer' = [a \in Askers |-> None]
  /\ restart' = FALSE

Restart == restart /\ Booted /\ UNCHANGED certified
Forget == Booted /\ certified' = FALSE

Next == CloudTask \/ OnEvent \/ Station \/ RestartDue \/ Restart \/ Forget \/ \E a \in Askers : Ask(a)

\* Tasks run on, a window has its timeout, and the station is connected again and again.
Spec ==
  /\ Init /\ [][Next]_vars
  /\ WF_vars(Retry \/ TryStart \/ StartAgent \/ AgentStarted \/ NotLinked) /\ WF_vars(TakeRequest) /\ WF_vars(RunLink)
  /\ WF_vars(EndWindow) /\ WF_vars(CloseWindow)
  /\ SF_vars(WaitForNetwork) /\ WF_vars(Station /\ ~reachable)
  /\ \A a \in Askers : WF_vars(Swap(a) \/ Publish(a))
  /\ WF_vars(Restart)

-----------------------------------------------------------------------------
(* A board that is linked never opens another window: "linked already: a new *)
(* link would waste one of the account's node IDs" (cloud_link.cpp:321).      *)
NoSecondLink == window # None => ~certified

(* What the board shows, and what it makes of the phone's last picture, is   *)
(* the state of the connection: an event that comes while the agent is still *)
(* starting is not overwritten (cloud_link.cpp:183).                        *)
PhaseFollowsCloud == agent => (phase = "Online" <=> mqtt)

-----------------------------------------------------------------------------
(* Proofs, for every set of askers and of one-time codes.                   *)

(* Every reachable state of the link is well typed.                          *)
THEOREM TypeCorrect == Spec => []TypeOK
<1>1. Init => TypeOK
  BY DEF Init, TypeOK, Phase, Task
<1>2. ASSUME TypeOK, [Next]_vars
      PROVE  TypeOK'
  <2>1. CASE CloudTask
    <3>1. CASE WaitForNetwork \/ StartAgent \/ AgentStarted \/ Retry \/ TakeRequest
      BY <1>2, <3>1 DEF WaitForNetwork, StartAgent, AgentStarted, Retry, TakeRequest, TypeOK, Task, link
    <3>2. CASE TryStart \/ NotLinked
      BY <1>2, <3>2 DEF TryStart, NotLinked, TypeOK, Phase, Task
    <3>3. CASE RunLink \/ EndWindow
      BY <1>2, <3>3 DEF RunLink, EndWindow, TypeOK, Task, link
    <3>4. CASE CloseWindow
      BY <1>2, <3>4 DEF CloseWindow, TypeOK, Phase, Task
    <3>5. QED BY <2>1, <3>1, <3>2, <3>3, <3>4 DEF CloudTask
  <2>2. CASE OnEvent
    BY <1>2, <2>2 DEF OnEvent, TypeOK, Phase
  <2>3. CASE Station \/ RestartDue
    BY <1>2, <2>3 DEF Station, RestartDue, TypeOK, link
  <2>4. CASE Restart \/ Forget
    BY <1>2, <2>4 DEF Restart, Forget, Booted, TypeOK, Phase, Task
  <2>5. ASSUME NEW a \in Askers, Ask(a)
        PROVE  TypeOK'
    BY <1>2, <2>5 DEF Ask, StartLink, Swap, Publish, Refused, Linked, TypeOK, Phase
  <2>6. CASE UNCHANGED vars
    BY <1>2, <2>6 DEF vars, TypeOK
  <2>7. QED BY <1>2, <2>1, <2>2, <2>3, <2>4, <2>5, <2>6 DEF Next
<1>3. QED BY <1>1, <1>2, PTL DEF Spec

-----------------------------------------------------------------------------
(* The agent only runs once the task has made up its mind that the board is  *)
(* linked; until its events come, nobody has called it online.               *)
PhaseInv ==
  /\ agent => task \in {"Agent", "Serving"}
  /\ mqtt => agent
  /\ phase = "Online" <=> mqtt

(* What the page and the agent take for the state of the connection is the   *)
(* state of the connection, whenever an event comes and whoever asks for a   *)
(* link window meanwhile: every plain store of the phase is made while no    *)
(* agent runs, and the one exchange only turns NotLinked into Linking.       *)
THEOREM PhaseFollows == Spec => []PhaseFollowsCloud
<1>1. Init => PhaseInv
  BY DEF Init, PhaseInv
<1>2. ASSUME TypeOK, PhaseInv, [Next]_vars
      PROVE  PhaseInv'
  <2>1. CASE CloudTask
    <3>1. CASE TryStart \/ NotLinked \/ CloseWindow
      <4>1. ~agent /\ ~mqtt
        BY <1>2, <3>1 DEF PhaseInv, TryStart, NotLinked, CloseWindow
      <4>2. agent' = agent /\ mqtt' = mqtt
        BY <3>1 DEF TryStart, NotLinked, CloseWindow
      <4>3. phase' # "Online"
        BY <1>2, <3>1, <4>1 DEF PhaseInv, TryStart, NotLinked, CloseWindow
      <4>4. QED BY <4>1, <4>2, <4>3 DEF PhaseInv
    <3>2. CASE StartAgent \/ AgentStarted
      BY <1>2, <3>2 DEF PhaseInv, TypeOK, StartAgent, AgentStarted, link
    <3>3. CASE WaitForNetwork \/ Retry \/ TakeRequest \/ RunLink \/ EndWindow
      <4>1. ~agent
        BY <1>2, <3>3 DEF PhaseInv, WaitForNetwork, Retry, TakeRequest, RunLink, EndWindow
      <4>2. UNCHANGED <<agent, mqtt, phase>>
        BY <3>3 DEF WaitForNetwork, Retry, TakeRequest, RunLink, EndWindow, link
      <4>3. QED BY <1>2, <4>1, <4>2 DEF PhaseInv
    <3>4. QED BY <2>1, <3>1, <3>2, <3>3 DEF CloudTask
  <2>2. CASE OnEvent
    BY <1>2, <2>2 DEF PhaseInv, TypeOK, OnEvent
  <2>3. CASE Station \/ RestartDue
    BY <1>2, <2>3 DEF PhaseInv, Station, RestartDue, link
  <2>4. CASE Restart \/ Forget
    BY <2>4 DEF PhaseInv, Restart, Forget, Booted
  <2>5. ASSUME NEW a \in Askers, Ask(a)
        PROVE  PhaseInv'
    <3>1. UNCHANGED <<agent, mqtt, task>>
      BY <2>5 DEF Ask, StartLink, Swap, Publish
    <3>2. phase' = phase \/ (phase = "NotLinked" /\ phase' = "Linking")
      <4>1. CASE StartLink(a) \/ Publish(a)
        BY <4>1 DEF StartLink, Publish
      <4>2. CASE Swap(a)
        BY <4>2 DEF Swap
      <4>3. QED BY <2>5, <4>1, <4>2 DEF Ask
    <3>3. QED BY <1>2, <3>1, <3>2 DEF PhaseInv
  <2>6. CASE UNCHANGED vars
    BY <1>2, <2>6 DEF vars, PhaseInv
  <2>7. QED BY <1>2, <2>1, <2>2, <2>3, <2>4, <2>5, <2>6 DEF Next
<1>3. PhaseInv => PhaseFollowsCloud
  BY DEF PhaseInv, PhaseFollowsCloud
<1>4. QED BY <1>1, <1>2, <1>3, TypeCorrect, PTL DEF Spec

-----------------------------------------------------------------------------
(* From the moment the task finds no certificate to the end of the window    *)
(* nobody but the window's own app can provide one.                          *)
UnlinkedInv ==
  /\ window # None => task = "Window"
  /\ task \in {"Unlinked", "Idle", "Opening", "Window"} => ~certified

(* A board that is linked never opens another link window, whatever requests *)
(* were still under way when it was linked.                                  *)
THEOREM LinkedOnce == Spec => []NoSecondLink
<1>1. Init => UnlinkedInv
  BY DEF Init, UnlinkedInv
<1>2. ASSUME UnlinkedInv, [Next]_vars
      PROVE  UnlinkedInv'
  <2>1. CASE CloudTask
    <3>1. CASE TryStart
      BY <1>2, <3>1 DEF UnlinkedInv, TryStart
    <3>2. CASE RunLink
      BY <1>2, <3>2 DEF UnlinkedInv, RunLink
    <3>3. CASE EndWindow \/ CloseWindow
      BY <1>2, <3>3 DEF UnlinkedInv, EndWindow, CloseWindow
    <3>4. CASE WaitForNetwork \/ StartAgent \/ AgentStarted \/ Retry \/ NotLinked \/ TakeRequest
      BY <1>2, <3>4 DEF UnlinkedInv, WaitForNetwork, StartAgent, AgentStarted, Retry, NotLinked, TakeRequest
    <3>5. QED BY <2>1, <3>1, <3>2, <3>3, <3>4 DEF CloudTask
  <2>2. CASE OnEvent \/ Station \/ RestartDue
    BY <1>2, <2>2 DEF UnlinkedInv, OnEvent, Station, RestartDue
  <2>3. CASE Restart \/ Forget
    BY <2>3 DEF UnlinkedInv, Restart, Forget, Booted
  <2>4. ASSUME NEW a \in Askers, Ask(a)
        PROVE  UnlinkedInv'
    BY <1>2, <2>4 DEF UnlinkedInv, Ask, StartLink, Swap, Publish
  <2>5. CASE UNCHANGED vars
    BY <1>2, <2>5 DEF vars, UnlinkedInv
  <2>6. QED BY <1>2, <2>1, <2>2, <2>3, <2>4, <2>5 DEF Next
<1>3. UnlinkedInv => NoSecondLink
  BY DEF UnlinkedInv, NoSecondLink
<1>4. QED BY <1>1, <1>2, <1>3, PTL DEF Spec
=============================================================================
