------------------------------ MODULE Restarts ------------------------------
(***************************************************************************)
(* Who restarts the board, and when: the watch task that asks the board's     *)
(* own web server (firmware/main/net.cpp), the daily restart of the sampling   *)
(* task, the console, and the power.  Before a restart is carried out it is    *)
(* logged; what other tasks have to log they queue for the sampling task       *)
(* (firmware/main/sampler.cpp).  Time is minutes of uptime.                    *)
(***************************************************************************)
EXTENDS Naturals

CONSTANTS
  DEAD_AFTER,       \* WEB_DEAD_AFTER, at least 1
  MIN_UPTIME,       \* WEB_RESTART_MIN_UPTIME_S
  DAILY_UPTIME,     \* RESTART_MIN_UPTIME_S
  DAILY_WINDOW,     \* RESTART_WINDOW_MIN, from 1 to DAILY_UPTIME
  QUEUE             \* sHost.reports' room, at least 1

ASSUME RestartsAssumption ==
  /\ DEAD_AFTER \in Nat \ {0} /\ QUEUE \in Nat \ {0}
  /\ MIN_UPTIME \in Nat /\ DAILY_UPTIME \in Nat /\ DAILY_WINDOW \in 1 .. DAILY_UPTIME

VARIABLES
  busy, alive,  \* the web server: sBusy, and whether it answers anybody ever again
  watch,        \* the watch task: Sleep, Asking, Missed (the check), Due, Allowed, Going (the restart)
  fails,        \* sWebFails (saturating at DEAD_AFTER)
  quiet,        \* RestartAllowed()
  up, left,     \* minutes since the boot (saturating), minutes left of the restart hour
  restartDay,   \* mRestartDay is today
  sampler,      \* the sampling task: Free, Due, Going (it keeps the App's lock through a restart)
  console,      \* the console's restart: None, Going
  reports,      \* misses in sHost.reports
  logged        \* what this boot has put on flash: how many misses, and which restarts

server == <<busy, alive>>
clock == <<up, left, restartDay>>
tasks == <<watch, sampler, console>>
restartVars == <<server, watch, fails, quiet, clock, sampler, console, reports, logged>>

MaxUp == IF MIN_UPTIME > DAILY_UPTIME THEN MIN_UPTIME ELSE DAILY_UPTIME
MaxMisses == DEAD_AFTER + 1 \* bound: misses counted apart
Why == {"WebDead", "Daily", "Command"}
NothingLogged == [misses |-> 0, restarts |-> {}]

\* Mutated: the sampling task gives the lock back before it restarts.
UnlockedSoon == sampler # "Due"

\* A task gets the App's lock.
Unlocked == sampler = "Free"

RestartsTypeOK ==
  /\ busy \in BOOLEAN /\ alive \in BOOLEAN /\ quiet \in BOOLEAN
  /\ watch \in {"Sleep", "Asking", "Missed", "Due", "Allowed", "Going"} /\ fails \in 0 .. DEAD_AFTER
  /\ up \in 0 .. MaxUp /\ left \in 0 .. DAILY_WINDOW /\ restartDay \in BOOLEAN
  /\ sampler \in {"Free", "Due", "Going"} /\ console \in {"None", "Going"}
  /\ reports \in 0 .. QUEUE
  /\ logged \in [misses : 0 .. MaxMisses, restarts : SUBSET Why]

RestartsInit ==
  /\ busy = FALSE /\ alive = TRUE
  /\ watch = "Sleep" /\ fails = 0
  /\ quiet \in BOOLEAN
  /\ up = 0 /\ left \in 0 .. DAILY_WINDOW /\ restartDay = FALSE
  /\ sampler = "Free" /\ console = "None"
  /\ reports = 0 /\ logged = NothingLogged

Reboot ==
  /\ busy' = FALSE /\ alive' = TRUE
  /\ watch' = "Sleep" /\ fails' = 0
  /\ quiet' \in BOOLEAN
  /\ up' = 0 /\ left' = left /\ restartDay' = FALSE
  /\ sampler' = "Free" /\ console' = "None"
  /\ reports' = 0 /\ logged' = NothingLogged

-----------------------------------------------------------------------------
(* The web server: one thread that serves one request after the other.        *)

BusyScope ==
  /\ alive
  /\ busy' = ~busy
  /\ UNCHANGED <<alive, tasks, fails, quiet, clock, reports, logged>>

\* It stops between two requests; one that never ends would look busy for ever.
Dies ==
  /\ alive /\ ~busy
  /\ alive' = FALSE
  /\ UNCHANGED <<busy, tasks, fails, quiet, clock, reports, logged>>

-----------------------------------------------------------------------------
(* Restart: the record, a second for the answer on the wire, the reboot.       *)

\* LogSystem, under the lock.
LogRestart(why) == logged' = [logged EXCEPT !.restarts = @ \cup {why}] /\ UNCHANGED reports

-----------------------------------------------------------------------------
(* The watch task.                                                          *)

Ask ==
  /\ watch = "Sleep"
  /\ watch' = "Asking"
  /\ UNCHANGED <<server, fails, quiet, clock, sampler, console, reports, logged>>

\* WebAnswers: true.
Answered ==
  /\ watch = "Asking" /\ alive /\ ~busy
  /\ watch' = "Sleep"
  /\ fails' = 0
  /\ UNCHANGED <<server, quiet, clock, sampler, console, reports, logged>>

\* WebAnswers: the time is over.
TimedOut ==
  /\ watch = "Asking" /\ (busy \/ ~alive)
  /\ watch' = "Missed"
  /\ UNCHANGED <<server, fails, quiet, clock, sampler, console, reports, logged>>

\* Mutated: the App is only asked at the miss that makes the server dead.
CheckWebOnce ==
  /\ watch = "Missed"
  /\ IF busy THEN watch' = "Sleep" /\ UNCHANGED <<fails, reports>>
     ELSE /\ fails' = IF fails < DEAD_AFTER THEN fails + 1 ELSE fails
          /\ reports' = IF reports < QUEUE THEN reports + 1 ELSE reports
          /\ watch' = IF fails' = fails \/ fails' < DEAD_AFTER \/ up < MIN_UPTIME THEN "Sleep" ELSE "Due"
  /\ UNCHANGED <<server, quiet, clock, sampler, console, logged>>

\* CheckWeb: a busy server is not dead; a miss is counted, and reported if the queue has room.
CheckWeb ==
  /\ watch = "Missed"
  /\ IF busy THEN watch' = "Sleep" /\ UNCHANGED <<fails, reports>>
     ELSE /\ fails' = IF fails < DEAD_AFTER THEN fails + 1 ELSE fails
          /\ reports' = IF reports < QUEUE THEN reports + 1 ELSE reports
          /\ watch' = IF fails' < DEAD_AFTER \/ up < MIN_UPTIME THEN "Sleep" ELSE "Due"
  /\ UNCHANGED <<server, quiet, clock, sampler, console, logged>>

AskApp ==
  /\ watch = "Due" /\ Unlocked
  /\ watch' = IF quiet THEN "Allowed" ELSE "Sleep"
  /\ UNCHANGED <<server, fails, quiet, clock, sampler, console, reports, logged>>

RestartWebDead ==
  /\ watch = "Allowed" /\ Unlocked
  /\ LogRestart("WebDead")
  /\ watch' = "Going"
  /\ UNCHANGED <<server, fails, quiet, clock, sampler, console>>

Abort == watch = "Going" /\ Reboot

Watch == Ask \/ Answered \/ TimedOut \/ CheckWeb \/ AskApp \/ RestartWebDead

-----------------------------------------------------------------------------
(* The sampling task: a sample, what was reported since the last, the daily    *)
(* restart.                                                                 *)

Daily == left > 0 /\ ~restartDay /\ up >= DAILY_UPTIME /\ quiet'

Tick ==
  /\ Unlocked
  /\ quiet' \in BOOLEAN
  /\ logged' = [logged EXCEPT !.misses = IF @ + reports < MaxMisses THEN @ + reports ELSE MaxMisses]
  /\ reports' = 0
  /\ restartDay' = (restartDay \/ Daily)
  /\ sampler' = IF Daily THEN "Due" ELSE "Free"
  /\ UNCHANGED <<server, watch, fails, up, left, console>>

RestartDaily ==
  /\ sampler = "Due"
  /\ LogRestart("Daily")
  /\ sampler' = "Going"
  /\ UNCHANGED <<server, watch, fails, quiet, clock, console>>

RebootDaily == sampler = "Going" /\ Reboot

\* Pages, app and button, under the lock: maintenance, manual control, a device out of order.
Command ==
  /\ Unlocked
  /\ quiet' \in BOOLEAN
  /\ UNCHANGED <<server, tasks, fails, clock, reports, logged>>

RestartCommand ==
  /\ console = "None" /\ Unlocked
  /\ LogRestart("Command")
  /\ console' = "Going"
  /\ UNCHANGED <<server, watch, fails, quiet, clock, sampler>>

RebootCommand == console = "Going" /\ Reboot

-----------------------------------------------------------------------------

Minute ==
  /\ up' = IF up < MaxUp THEN up + 1 ELSE up
  /\ left' = IF left > 0 THEN left - 1 ELSE left
  /\ UNCHANGED <<server, tasks, fails, quiet, restartDay, reports, logged>>

\* The restart hour of another day.
HourBegins ==
  /\ left = 0
  /\ left' = DAILY_WINDOW /\ restartDay' = FALSE
  /\ UNCHANGED <<server, tasks, fails, quiet, up, reports, logged>>

Restart == Abort \/ RebootDaily \/ RebootCommand

RestartsNext ==
  \/ BusyScope \/ Dies
  \/ Watch \/ Restart
  \/ Tick \/ RestartDaily \/ Command \/ RestartCommand
  \/ Minute \/ HourBegins
  \/ Reboot \* a power loss, or the watchdog's panic

\* Tasks go on and time passes; requests end.
RestartsSpec ==
  /\ RestartsInit /\ [][RestartsNext]_restartVars
  /\ WF_restartVars(Watch) /\ WF_restartVars(Restart) /\ WF_restartVars(RestartDaily) /\ WF_restartVars(Minute)
  /\ WF_restartVars(BusyScope /\ busy)

-----------------------------------------------------------------------------
(* A dead web server does not stay dead on a board that is left alone: "nothing *)
(* but a restart revives it" (net.cpp:194).                                   *)
DeadServerIsCured == <>[]quiet => []<>alive

(* The daily restart interrupts nothing: no alert, test, boost or maintenance   *)
(* began between the sample that allowed it and the reboot.                    *)
DailyInterruptsNothing == sampler = "Going" => quiet
=============================================================================
