---------------------------- MODULE PushHistory -----------------------------
(***************************************************************************)
(* The App with history variables about what was pushed to the phones and   *)
(* what a person was shown when they silenced it.                           *)
(***************************************************************************)
EXTENDS App

VARIABLES
  unheard,   \* for how long the alarm has stood unheard since it was last pushed; None: it does not
  late,      \* a repeated push was due and did not come
  ackedFor,  \* level and FAULT when Ack was last accepted
  seenLevel  \* the level shown to the person whose suspend was accepted last

pushHistory == <<unheard, late, ackedFor, seenLevel>>
pvars == <<vars, pushHistory>>

PushInit ==
  /\ Init
  /\ unheard = None /\ late = FALSE
  /\ ackedFor = [level |-> Normal, fault |-> FALSE]
  /\ seenLevel = Normal

PushTick ==
  \E reading \in Readings, local \in Clocks :
    /\ Tick(reading, local)
    /\ unheard' = IF ~Unheard THEN None
                  ELSE IF AlertPushed \/ AlertRepeats \/ unheard = None THEN 0 ELSE unheard
    /\ late' = (/\ unheard' # None
                /\ unheard' >= IF fault' \/ level' = Red THEN RedRepeat ELSE YellowRepeat)
    /\ UNCHANGED <<ackedFor, seenLevel>>

PushPass ==
  /\ Pass
  /\ unheard' = IF unheard = None THEN None ELSE More(unheard, YellowRepeat)
  /\ UNCHANGED <<late, ackedFor, seenLevel>>

PushAck ==
  /\ Ack
  /\ ackedFor' = [level |-> level, fault |-> fault]
  /\ UNCHANGED <<unheard, late, seenLevel>>

PushSuspendAlerts ==
  /\ \E seen \in Level \cup {None} :
       SuspendAlerts(seen) /\ seenLevel' = IF seen = None THEN level ELSE seen
  /\ UNCHANGED <<unheard, late, ackedFor>>

PushReboot ==
  /\ Reboot
  /\ unheard' = None /\ late' = FALSE
  /\ UNCHANGED <<ackedFor, seenLevel>>

PushNext ==
  \/ PushTick
  \/ PushPass
  \/ PushAck
  \/ PushSuspendAlerts
  \/ PushReboot
  \/ /\ SetMaintenance \/ ResumeAlerts \/ SetConfig \/ \E d \in Slots : SuspendDevice(d) \/ SetManual(d)
     /\ UNCHANGED pushHistory

PushSpec == PushInit /\ [][PushNext]_pvars

-----------------------------------------------------------------------------
(* An alarm that no person has acknowledged, suspended or put into           *)
(* maintenance goes to the phones again in every YELLOW_REPEAT_MS (Red and   *)
(* FAULT: RED_REPEAT_MS), whatever levels, FAULTs and automatic acks do in   *)
(* between.                                                                 *)
AlarmIsRepeated == ~late

(* What a person silences is what they were shown: an ack accepted at one    *)
(* level, or a suspend asked for on a phone that shows an older one, is      *)
(* never in effect at a deeper level, nor (an ack of a level) in a FAULT.    *)
SilencesAreForWhatWasShown ==
  /\ silenced /\ ~autoAcked => level <= ackedFor.level /\ (fault => ackedFor.fault)
  /\ alertsSuspended => level <= seenLevel /\ ~fault
=============================================================================
