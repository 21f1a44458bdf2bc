------------------------------ MODULE TuyaLink ------------------------------
(***************************************************************************)
(* The plug task (firmware/main/tuya_link.cpp) between the App's wish and the  *)
(* plugs on the LAN, and what the App makes of its reports (App::ReportTuya,   *)
(* App::ResetLinks in core/src/app.cpp).                                     *)
(*                                                                         *)
(* The task copies slots and states under the App's lock, then works through   *)
(* the devices without it, a transaction at a time; the App goes on meanwhile.  *)
(* A transaction is TuyaSession's: here it switches the plug and says so, or   *)
(* fails.  Ages are in ticks of the retry time.  A plug is a member of Plugs.   *)
(***************************************************************************)
EXTENDS Integers

CONSTANTS
  None,
  Devices, Plugs, Relay, \* device numbers; what a slot may hold
  Asked,                 \* the console's bench tests: a plug, and on or off
  LOST_AFTER, REFRESH    \* TUYA_LOST_AFTER; REFRESH_MS in ticks of RETRY_MS

VARIABLES
  slot, want,        \* the App's configuration and deviceOn
  link, fails,       \* Status::tuyaLink, mTuyaFails
  plug, there,       \* the plugs' states (None: never switched), and whether they answer
  track,             \* Task's Track per device
  taken,             \* Task's copy of slot and want
  tested,            \* this round has looked for a bench test
  left,              \* devices this round has still to look at
  call,              \* the transaction under way: its device (None: a bench test), plug and state
  test, pending, done, \* sTest's settings, the two semaphores
  result,            \* sTest.result: whom it is about
  waiting, told      \* the console: the test it waits for, and what it was told last

app == <<slot, want, link, fails>>
task == <<track, taken, tested, left, call>>
bench == <<test, pending, done, result, waiting, told>>
vars == <<app, plug, there, task, bench>>

Idle == [device |-> None, plug |-> None, on |-> FALSE]
NewTrack(s) == [slot |-> s, lastWant |-> None, lastOk |-> FALSE, age |-> 0]
Calls == [device : Devices \cup {None}, plug : Plugs, on : BOOLEAN] \cup {Idle}

TypeOK ==
  /\ slot \in [Devices -> Plugs \cup {Relay}] /\ want \in [Devices -> BOOLEAN]
  /\ link \in [Devices -> {"None", "Pending", "Ok", "Lost"}] /\ fails \in [Devices -> 0 .. LOST_AFTER]
  /\ plug \in [Plugs -> BOOLEAN \cup {None}] /\ there \in [Plugs -> BOOLEAN]
  /\ track \in [Devices -> [slot : Plugs \cup {None}, lastWant : BOOLEAN \cup {None}, lastOk : BOOLEAN, age : 0 .. REFRESH]]
  /\ taken \in [slot : [Devices -> Plugs \cup {Relay}], want : [Devices -> BOOLEAN]]
  /\ tested \in BOOLEAN /\ left \subseteq Devices /\ call \in Calls
  /\ test \in Asked /\ pending \in BOOLEAN /\ done \in BOOLEAN
  /\ result \in Asked \cup {None} /\ waiting \in Asked \cup {None} /\ told \in Asked \cup {None}

Init ==
  /\ slot \in {s \in [Devices -> Plugs \cup {Relay}] : \A i, j \in Devices : i # j => s[i] # s[j] \/ s[i] = Relay}
  /\ want = [i \in Devices |-> FALSE]
  /\ link = [i \in Devices |-> IF slot[i] = Relay THEN "None" ELSE "Pending"]
  /\ fails = [i \in Devices |-> 0]
  /\ plug = [p \in Plugs |-> None] /\ there \in [Plugs -> BOOLEAN]
  /\ track = [i \in Devices |-> NewTrack(None)]
  /\ taken = [slot |-> slot, want |-> want]
  /\ tested = FALSE /\ left = {} /\ call = Idle
  /\ test \in Asked /\ pending = FALSE /\ done = FALSE
  /\ result = None /\ waiting = None /\ told = None

-----------------------------------------------------------------------------
(* The App, under its lock.                                                  *)

\* SetConfig's ResetLinks: a slot that changed has not been reached yet.
SetSlot(i, s) ==
  /\ s # slot[i] /\ (s # Relay => \A j \in Devices : slot[j] # s)
  /\ slot' = [slot EXCEPT ![i] = s]
  /\ link' = [link EXCEPT ![i] = IF s = Relay THEN "None" ELSE "Pending"]
  /\ fails' = [fails EXCEPT ![i] = 0]
  /\ UNCHANGED <<want, plug, there, task, bench>>

Wants(i) ==
  /\ want' = [want EXCEPT ![i] = ~@]
  /\ UNCHANGED <<slot, link, fails, plug, there, task, bench>>

\* ReportTuya (the count beyond LOST_AFTER is of no matter).
ReportTuya(i, ok) ==
  IF slot[i] = Relay THEN UNCHANGED <<link, fails>>
  ELSE IF ok THEN link' = [link EXCEPT ![i] = "Ok"] /\ fails' = [fails EXCEPT ![i] = 0]
  ELSE /\ fails' = [fails EXCEPT ![i] = IF @ < LOST_AFTER THEN @ + 1 ELSE @]
       /\ link' = [link EXCEPT ![i] = IF fails'[i] = LOST_AFTER THEN "Lost" ELSE @]

-----------------------------------------------------------------------------
(* The plug task.                                                           *)

\* A round begins with the bench test, if one is pending.
TakeTest ==
  /\ left = {} /\ call = Idle /\ ~tested /\ pending
  /\ tested' = TRUE
  /\ pending' = FALSE
  /\ call' = [device |-> None, plug |-> test.plug, on |-> test.on]
  /\ UNCHANGED <<app, plug, there, track, taken, left, test, done, result, waiting, told>>

Snapshot ==
  /\ left = {} /\ call = Idle /\ (tested \/ ~pending)
  /\ tested' = FALSE
  /\ taken' = [slot |-> slot, want |-> want]
  /\ left' = Devices
  /\ UNCHANGED <<app, plug, there, track, call, bench>>

\* Mutated: a plug that has taken its state is not told again.
DueOnChange(t, w) == t.lastWant # w \/ (~t.lastOk /\ t.age >= 1)

\* Another wish than the last one tried, or the refresh or retry time is over.
Due(t, w) == t.lastWant # w \/ t.age >= (IF t.lastOk THEN REFRESH ELSE 1)

\* The next device of the round, in order: no plug or nothing due, or its transaction begins.
Look ==
  /\ call = Idle /\ left # {}
  /\ LET i == CHOOSE d \in left : \A e \in left : d <= e
         s == taken.slot[i]
         t == IF track[i].slot = s THEN track[i] ELSE NewTrack(s)
     IN /\ left' = left \ {i}
        /\ IF s = Relay THEN UNCHANGED <<track, call>>
           ELSE /\ track' = [track EXCEPT ![i] = t]
                /\ call' = IF Due(t, taken.want[i]) THEN [device |-> i, plug |-> s, on |-> taken.want[i]] ELSE Idle
  /\ UNCHANGED <<app, plug, there, taken, tested, bench>>

\* The transaction ends: the plug is switched, and its answer may be lost; the App is told of its devices'.
Transact(ok) ==
  /\ call # Idle
  /\ ok => there[call.plug]
  /\ plug' \in {p \in {plug, [plug EXCEPT ![call.plug] = call.on]} : ok => p[call.plug] = call.on}
  /\ ~there[call.plug] => plug' = plug
  /\ call' = Idle
  /\ IF call.device = None
       THEN /\ done' = TRUE /\ result' = [plug |-> call.plug, on |-> call.on]
            /\ UNCHANGED <<link, fails, track>>
       ELSE /\ track' = [track EXCEPT ![call.device] = [@ EXCEPT !.lastWant = call.on, !.lastOk = ok, !.age = 0]]
            /\ ReportTuya(call.device, ok)
            /\ UNCHANGED <<done, result>>
  /\ UNCHANGED <<slot, want, there, taken, tested, left, test, pending, waiting, told>>

Task == TakeTest \/ Snapshot \/ Look \/ \E ok \in BOOLEAN : Transact(ok)

-----------------------------------------------------------------------------
(* The console's bench test.                                                 *)

Test(q) ==
  /\ waiting = None
  /\ done' = FALSE \* a stale answer is drained
  /\ test' = q /\ pending' = TRUE
  /\ waiting' = q /\ told' = None
  /\ UNCHANGED <<app, plug, there, task, result>>

TestAnswered ==
  /\ waiting # None /\ done
  /\ done' = FALSE /\ told' = result /\ waiting' = None
  /\ UNCHANGED <<app, plug, there, task, test, pending, result>>

TestTimedOut ==
  /\ waiting # None
  /\ waiting' = None
  /\ UNCHANGED <<app, plug, there, task, test, pending, done, result, told>>

-----------------------------------------------------------------------------
(* The LAN, and the people who switch a plug in its own app.                  *)

Comes(p) == there' = [there EXCEPT ![p] = ~@] /\ UNCHANGED <<app, plug, task, bench>>
Hand(p) == plug' = [plug EXCEPT ![p] = ~(@ = TRUE)] /\ UNCHANGED <<app, there, task, bench>>

Ticks ==
  /\ track' = [i \in Devices |-> [track[i] EXCEPT !.age = IF @ < REFRESH THEN @ + 1 ELSE @]]
  /\ UNCHANGED <<app, plug, there, taken, tested, left, call, bench>>

Changes == \E i \in Devices : Wants(i) \/ \E s \in Plugs \cup {Relay} : SetSlot(i, s)
Console == (\E q \in Asked : Test(q)) \/ TestAnswered \/ TestTimedOut

Next == Task \/ Changes \/ Console \/ Ticks \/ \E p \in Plugs : Comes(p) \/ Hand(p)

\* The task goes on, time passes, and a plug that is there answers again and again.
Spec ==
  /\ Init /\ [][Next]_vars
  /\ WF_vars(Task) /\ WF_vars(Ticks)
  /\ \A i \in Devices : SF_vars(call.device = i /\ Transact(TRUE))

-----------------------------------------------------------------------------
(* "A plug switched in the app, or restarted, is put right" (README.md:375):   *)
(* a plug that stays in its slot and answers takes the state the App wants,    *)
(* whoever switches it in between and whatever bench tests are asked for.       *)
PlugFollows ==
  \A i \in Devices, p \in Plugs :
    <>[](slot[i] = p /\ there[p]) => []<>(plug[p] = want[i])
=============================================================================
