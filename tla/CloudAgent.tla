----------------------------- MODULE CloudAgent -----------------------------
(***************************************************************************)
(* What the phone app shows of the board, and what it may ask of it          *)
(* (gateway/src/cloud.cpp with the queues of firmware/main/cloud_link.cpp).  *)
(*                                                                         *)
(* The sampling task makes a picture of what has changed and queues it; the   *)
(* cloud task sends the pictures and answers the app's writes.  The board is  *)
(* any ladder that keeps its contract.  A picture is reduced to the level,    *)
(* whether alerts are suspended, and whether it pushes; the readings and the  *)
(* wording of the status are left out.                                       *)
(***************************************************************************)
EXTENDS Integers, Sequences

CONSTANTS
  None,        \* nothing to show
  Deepest,     \* the deepest level of this board
  DayAlarm,    \* signals.dayAlarm
  WantedLevels,\* phone.alerts: the levels pushed ...
  WantFault,   \* ... and whether a FAULT is
  QueueMax,    \* length of sUpdates
  WritesMax,   \* length of sWrites
  Troubles     \* what may happen: "Overrun" of the queues, "Flap" of the link between two samples

VARIABLES
  level, fault, silenced, autoAcked, suspended, on, \* the ladder's, see LadderContract
  pending,     \* the ack and the suspend the next sample takes
  online,      \* sPhase is Online
  wasOnline,   \* mWasOnline
  sentLevel,   \* mLevel: the text last queued for the phone
  sentSuspend, \* mSuspendMin, as whether it is 0; None for -1
  updates,     \* sUpdates
  writes,      \* sWrites
  phone,       \* what the phone shows
  owed         \* an alarm the phone is woken for began, stands, and no push has reached the phone since

board == <<level, fault, silenced, autoAcked, suspended, on, pending>>
agent == <<wasOnline, sentLevel, sentSuspend>>
vars == <<board, online, agent, updates, writes, phone, owed>>

LadderConfig == [faultLevel |-> 2, dayAlarm |-> DayAlarm, devices |-> <<>>]
TheLadder == INSTANCE LadderContract WITH Devices <- {}, config <- LadderConfig

Level == 0..Deepest
Fault == 4 \* the text FAULT in the place of a level
Text == Level \cup {Fault}
Picture == [level : Text \cup {None}, suspended : BOOLEAN \cup {None}, push : BOOLEAN]
Nothing == [level |-> None, suspended |-> None, push |-> FALSE]
NoRequest == [ack |-> FALSE, suspend |-> "Nothing"]

TypeOK ==
  /\ level \in Level
  /\ fault \in BOOLEAN /\ silenced \in BOOLEAN /\ autoAcked \in BOOLEAN /\ suspended \in BOOLEAN
  /\ on = {}
  /\ pending \in [ack : BOOLEAN, suspend : {"Nothing", "Resume", "Suspend"}]
  /\ online \in BOOLEAN /\ wasOnline \in BOOLEAN
  /\ sentLevel \in Text \cup {None}
  /\ sentSuspend \in BOOLEAN \cup {None}
  /\ updates \in Seq(Picture) /\ Len(updates) <= QueueMax
  /\ writes \in Seq({"Ack", "Suspend", "Resume"}) /\ Len(writes) <= WritesMax
  /\ phone \in [level : Text \cup {None}, suspended : BOOLEAN]
  /\ owed \in BOOLEAN

Init ==
  /\ TheLadder!Init
  /\ pending = NoRequest
  /\ online = FALSE /\ wasOnline = FALSE
  /\ sentLevel = None /\ sentSuspend = None
  /\ updates = <<>> /\ writes = <<>>
  /\ phone = [level |-> None, suspended |-> FALSE]
  /\ owed = FALSE

-----------------------------------------------------------------------------
(* One sample: the ladder's, then Agent::Step and the queue.                 *)

TextOf(l, f) == IF f THEN Fault ELSE l
Back == online /\ ~wasOnline

Wanted(l, f) == IF f THEN WantFault ELSE l \in WantedLevels
Heard(s, a) == s /\ ~a

\* Back online in an alarm nobody has answered.
Alarm(l, f, s, a, susp) == Wanted(l, f) /\ ~Heard(s, a) /\ ~susp
AlarmNext == Alarm(level', fault', silenced', autoAcked', suspended')

\* The notifications of the sample the phone is woken for: a level going deeper, a FAULT, others as they come.
Notified == \/ level' > level /\ level' \in WantedLevels
            \/ fault' /\ ~fault /\ WantFault

\* Mutated: coming back online is no reason to push.
PushesUnlessBack(other) == Notified \/ other

Pushes(other) == Notified \/ other \/ (Back /\ AlarmNext)

\* Mutated: coming back online sends what has changed.
StepOnChange(other) ==
  [level     |-> IF TextOf(level', fault') # sentLevel THEN TextOf(level', fault') ELSE None,
   suspended |-> IF Back \/ suspended' # sentSuspend THEN suspended' ELSE None,
   push      |-> Pushes(other)]

Step(other) ==
  [level     |-> IF Back \/ TextOf(level', fault') # sentLevel THEN TextOf(level', fault') ELSE None,
   suspended |-> IF Back \/ suspended' # sentSuspend THEN suspended' ELSE None,
   push      |-> Pushes(other)]

Full == Len(updates) = QueueMax

\* The oldest picture goes, not this one.
Queued(p) ==
  IF p = Nothing THEN updates ELSE Append(IF Full THEN Tail(updates) ELSE updates, p)

Sample(missed, other) ==
  /\ "Overrun" \in Troubles \/ ~Full
  /\ TheLadder!Step(missed, pending.ack, pending.suspend)
  /\ level' <= Deepest
  /\ pending' = NoRequest
  /\ wasOnline' = online
  /\ IF online
       THEN /\ updates' = Queued(Step(other))
            /\ sentLevel' = TextOf(level', fault')
            /\ sentSuspend' = suspended'
       ELSE UNCHANGED <<updates, sentLevel, sentSuspend>>
  /\ owed' = ((owed \/ Notified) /\ AlarmNext)
  /\ UNCHANGED <<online, writes, phone>>

-----------------------------------------------------------------------------
(* The cloud task. What is sent while the link is down may be lost.          *)

Delivered == IF online THEN {TRUE} ELSE BOOLEAN

Shown(p) == [level     |-> IF p.level = None THEN phone.level ELSE p.level,
             suspended |-> IF p.suspended = None THEN phone.suspended ELSE p.suspended]

Apply(p, arrives) ==
  IF arrives THEN phone' = Shown(p) /\ owed' = (owed /\ ~p.push)
             ELSE UNCHANGED <<phone, owed>>

ReceiveUpdate ==
  /\ updates # <<>>
  /\ \E arrives \in Delivered : Apply(Head(updates), arrives)
  /\ updates' = Tail(updates)
  /\ UNCHANGED <<board, online, agent, writes>>

\* What the level suspended by the app is compared with: what it shows, as far as the board knows.
LevelShown == IF sentLevel \in 0..Deepest THEN sentLevel ELSE Deepest

Accepted(what) ==
  CASE what = "Ack"     -> level # 0 \/ fault
    [] what = "Suspend" -> level # 0 /\ ~fault /\ level <= LevelShown
    [] what = "Resume"  -> suspended

Request(what) ==
  IF ~Accepted(what) THEN pending
  ELSE IF what = "Ack" THEN [pending EXCEPT !.ack = TRUE]
  ELSE [pending EXCEPT !.suspend = what]

\* Accepted: what was asked, for it applies at the next sample. Refused: what holds now.
Report(what) ==
  IF what = "Ack" THEN Nothing
  ELSE [Nothing EXCEPT !.suspended = IF Accepted(what) THEN what = "Suspend" ELSE suspended]

Write ==
  /\ writes # <<>>
  /\ LET what == Head(writes) IN
       /\ pending' = Request(what)
       /\ \E arrives \in Delivered : Apply(Report(what), arrives)
       /\ sentSuspend' = IF what = "Ack" THEN sentSuspend ELSE None
  /\ writes' = Tail(writes)
  /\ UNCHANGED <<level, fault, silenced, autoAcked, suspended, on, online, wasOnline, sentLevel, updates>>

-----------------------------------------------------------------------------
(* The person at the phone, and the link.                                    *)

OnWrite(what) ==
  /\ online
  /\ "Overrun" \in Troubles \/ Len(writes) < WritesMax
  /\ writes' = IF Len(writes) < WritesMax THEN Append(writes, what) ELSE writes
  /\ phone' = IF what = "Ack" THEN phone ELSE [phone EXCEPT !.suspended = (what = "Suspend")]
  /\ UNCHANGED <<board, online, agent, updates, owed>>

LinkChanges ==
  /\ "Flap" \in Troubles \/ online = wasOnline
  /\ online' = ~online
  /\ UNCHANGED <<board, agent, updates, writes, phone, owed>>

Samples == \E missed, other \in BOOLEAN : Sample(missed, other)
Task == ReceiveUpdate \/ Write
Presses == \E what \in {"Ack", "Suspend", "Resume"} : OnWrite(what)

Next == Samples \/ Task \/ Presses \/ LinkChanges

\* The sampling task samples, the cloud task sends what is queued and answers what was written.
Spec == Init /\ [][Next]_vars /\ WF_vars(Samples) /\ WF_vars(ReceiveUpdate) /\ WF_vars(Write)

-----------------------------------------------------------------------------
(* "Level, Status: at once on every change" (README.md:313): the phone comes  *)
(* to show the board's level, whatever was lost with the link before.        *)
PhoneShowsTheLevel ==
  \A t \in Text : <>[](online /\ TextOf(level, fault) = t) => <>[](phone.level = t)

(* An alarm the phone is to be woken for wakes it, also if it began, or was   *)
(* pushed, while the link was down: "the board pushes once more when it gets  *)
(* its connection back" (README.md:320).                                    *)
AlarmWakesThePhone == owed ~> ~owed \/ ~online
=============================================================================
