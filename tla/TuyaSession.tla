---------------------------- MODULE TuyaSession -----------------------------
(***************************************************************************)
(* One switch transaction with a Tuya plug over its local protocol           *)
(* (core/src/tuya.cpp): the session handshake of 3.4 and 3.5, the command and  *)
(* its acknowledgement, between status updates the plug pushes as it likes.    *)
(*                                                                         *)
(* The stream is a FIFO each way.  A frame is what the codec makes of it:     *)
(* the protocol it was built for, its command, the key it was built with, the  *)
(* return code and the switch state its payload shows.  A session key is fresh  *)
(* for each handshake, and known to both ends.  The plug is external: it       *)
(* ignores what it cannot read and pushes its state when it likes.           *)
(***************************************************************************)
EXTENDS Integers, Sequences, TLAPS

CONSTANTS
  None,       \* no switch state
  MaxQueue,   \* frames under way to the board (bound)
  AwaitMax    \* frames read for one answer

Version == {"V33", "V34", "V35"}
Key == {"Right", "Wrong", "Session"} \* the plug's local key, another one, the session's
Error == {"None", "Send", "Timeout", "Frame", "Auth", "Refused"}

VARIABLES
  version, on,     \* Settings.version, the state to switch to
  key,             \* Codec.key
  pc,              \* what Switch does next, or waits for: Resp, Ack, Status
  seen,            \* frames read by this Await
  error, state,    \* Result
  toPlug, toBoard, \* the stream
  plug             \* the plug: its protocol, key, switch state, and what it made of the command

sessionVars == <<version, on, key, pc, seen, error, state, toPlug, toBoard, plug>>

Frame == [v : Version \cup {"Other"}, cmd : {"Start", "Resp", "Finish", "Control", "Status"},
          key : Key, ret : {0, 1}, dp : BOOLEAN \cup {None}]

PlugState == [v : Version \cup {"Other"}, key : Key, on : BOOLEAN, said : {"Nothing", "Taken", "Refused"}]

SessionTypeOK ==
  /\ version \in Version /\ on \in BOOLEAN /\ key \in Key
  /\ pc \in {"Begin", "Resp", "Command", "Ack", "Status", "Done"} /\ seen \in 0 .. AwaitMax - 1
  /\ error \in Error /\ state \in BOOLEAN \cup {None}
  /\ \A f \in {toPlug[i] : i \in DOMAIN toPlug} \cup {toBoard[i] : i \in DOMAIN toBoard} : f \in Frame
  /\ plug \in PlugState

SessionInit ==
  /\ version \in Version /\ on \in BOOLEAN
  /\ key \in {"Right", "Wrong"}
  /\ pc = "Begin" /\ seen = 0 /\ error = "None" /\ state = None
  /\ toPlug = <<>> /\ toBoard = <<>>
  /\ plug \in [v : Version \cup {"Other"}, key : {"Right"}, on : BOOLEAN, said : {"Nothing"}]

-----------------------------------------------------------------------------
(* The codec.                                                               *)

Encode(cmd) == [v |-> version, cmd |-> cmd, key |-> key, ret |-> 0, dp |-> None]

\* Decode's error: the two framings differ, 3.4 and 3.5 authenticate, 3.3 has a checksum and padding.
DecodeError(f) ==
  IF (f.v = "V35") # (version = "V35") \/ f.v = "Other" THEN "Frame"
  ELSE IF version = "V33" THEN (IF f.v # "V33" THEN "Frame" ELSE IF f.key # key /\ f.dp # None THEN "Auth" ELSE "None")
  ELSE IF f.v # version \/ f.key # key THEN "Auth"
  ELSE "None"

-----------------------------------------------------------------------------
(* The board: Switch, with Negotiate for 3.4 and 3.5.                         *)

Ends(e) == pc' = "Done" /\ error' = e /\ seen' = 0

\* The stream takes the frame, or refuses it and the transaction is over.
Send(cmd, next) ==
  \/ toPlug' = Append(toPlug, Encode(cmd)) /\ pc' = next /\ UNCHANGED error /\ seen' = 0
  \/ Ends("Send") /\ UNCHANGED toPlug

Begin ==
  /\ \/ pc = "Begin" /\ version # "V33" /\ Send("Start", "Resp")
     \/ pc = (IF version = "V33" THEN "Begin" ELSE "Command") /\ Send("Control", "Ack")
  /\ UNCHANGED <<version, on, key, state, toBoard, plug>>

\* The wait for an answer is over without one; for the status after the ack that is no error.
Failed(e) == Ends(IF pc = "Status" THEN "None" ELSE e)

\* Next: nothing (more) comes within the timeout, or the plug has closed the connection.
Silence ==
  /\ pc \in {"Resp", "Ack", "Status"}
  /\ Failed("Timeout")
  /\ UNCHANGED <<version, on, key, state, toPlug, toBoard, plug>>

Shown(f) == IF f.dp = None THEN state ELSE f.dp

\* Negotiate, once the plug's part has come: finish, and go on with the session key.
Answered ==
  /\ Send("Finish", "Command")
  /\ key' = IF pc' = "Command" THEN "Session" ELSE key

\* Mutated: an ack is an ack, whatever it says.
AckedAnyway(f) ==
  /\ IF state' = None THEN pc' = "Status" /\ seen' = 0 /\ UNCHANGED error
     ELSE Ends("None")
  /\ UNCHANGED <<key, toPlug>>

\* Switch, once the ack has come: a return code refuses; without a state so far the status is waited for.
Acked(f) ==
  /\ IF f.ret # 0 THEN Ends("Refused")
     ELSE IF state' = None THEN pc' = "Status" /\ seen' = 0 /\ UNCHANGED error
     ELSE Ends("None")
  /\ UNCHANGED <<key, toPlug>>

Skim ==
  /\ IF seen + 1 < AwaitMax THEN seen' = seen + 1 /\ UNCHANGED <<pc, error>>
                            ELSE Failed("Timeout")
  /\ UNCHANGED <<key, toPlug>>

\* Await: a frame that cannot be read ends it, one with another command is skimmed for the state.
Await ==
  /\ pc \in {"Resp", "Ack", "Status"} /\ toBoard # <<>>
  /\ toBoard' = Tail(toBoard)
  /\ LET f == Head(toBoard) IN
       IF DecodeError(f) # "None" THEN Failed(DecodeError(f)) /\ UNCHANGED <<state, key, toPlug>>
       ELSE /\ state' = Shown(f)
            /\ CASE pc = "Resp" /\ f.cmd = "Resp" -> Answered
                 [] pc = "Ack" /\ f.cmd = "Control" -> Acked(f)
                 [] pc = "Status" /\ f.cmd = "Status" -> Ends("None") /\ UNCHANGED <<key, toPlug>>
                 [] OTHER -> Skim
  /\ UNCHANGED <<version, on, plug>>

Board == Begin \/ Silence \/ Await

-----------------------------------------------------------------------------
(* The plug (external).                                                     *)

Says(cmd, ret, dp) == Append(toBoard, [v |-> plug.v, cmd |-> cmd, key |-> plug.key, ret |-> ret, dp |-> dp])

Takes ==
  /\ plug' = [plug EXCEPT !.on = on, !.said = "Taken"]
  /\ \E dp \in {on, None} : toBoard' = Says("Control", 0, dp)

Refuses ==
  /\ plug' = [plug EXCEPT !.said = "Refused"]
  /\ toBoard' = Says("Control", 1, None)

PlugReads ==
  /\ toPlug # <<>> /\ Len(toBoard) <= MaxQueue
  /\ toPlug' = Tail(toPlug)
  /\ LET f == Head(toPlug) IN
       IF f.v # plug.v \/ f.key # plug.key THEN UNCHANGED <<plug, toBoard>>
       ELSE CASE f.cmd = "Start" -> toBoard' = Says("Resp", 0, None) /\ UNCHANGED plug
              [] f.cmd = "Finish" -> plug' = [plug EXCEPT !.key = "Session"] /\ UNCHANGED toBoard
              [] f.cmd = "Control" -> Takes \/ Refuses
  /\ UNCHANGED <<version, on, key, pc, seen, error, state>>

\* A status update; with 3.4 and 3.5 only a session gets them.
PlugPushes ==
  /\ plug.v \in {"V33", "Other"} \/ plug.key = "Session"
  /\ Len(toBoard) < MaxQueue
  /\ toBoard' = Says("Status", 0, plug.on)
  /\ UNCHANGED <<version, on, key, pc, seen, error, state, toPlug, plug>>

SessionNext == Board \/ PlugReads \/ PlugPushes

SessionSpec == SessionInit /\ [][SessionNext]_sessionVars

-----------------------------------------------------------------------------
(* The transaction's result is about this command: one that succeeded has     *)
(* been taken by the plug, one that was refused has not (tuya.hpp, Error).      *)
ResultIsTrue ==
  pc = "Done" => /\ error = "None" => plug.said = "Taken"
                 /\ error = "Refused" => plug.said = "Refused"

-----------------------------------------------------------------------------
(* Why: the command is the last that goes to the plug, and goes once; until the  *)
(* plug has it nobody speaks of it, and afterwards every ack that is under way    *)
(* says what became of it.                                                   *)

Request == {f \in Frame : f.cmd \in {"Start", "Finish", "Control"}}

Sent == pc \notin {"Begin", "Resp", "Command"}

QueuesHold ==
  /\ toPlug \in Seq(Request) /\ toBoard \in Seq(Frame)
  /\ plug \in PlugState
  /\ version \in Version /\ key \in Key /\ on \in BOOLEAN

CommandIsLast ==
  \A i \in 1 .. Len(toPlug) : toPlug[i].cmd = "Control" =>
    Sent /\ i = Len(toPlug) /\ plug.said = "Nothing"

AcksAreTrue ==
  \A i \in 1 .. Len(toBoard) : toBoard[i].cmd = "Control" =>
    plug.said = IF toBoard[i].ret = 0 THEN "Taken" ELSE "Refused"

SaidAfterSent == plug.said # "Nothing" => Sent

KnownByNow ==
  /\ pc = "Status" => plug.said = "Taken"
  /\ ResultIsTrue

SessionInv == QueuesHold /\ CommandIsLast /\ AcksAreTrue /\ SaidAfterSent /\ KnownByNow

LEMMA BeginStep ==
  ASSUME SessionInv, Begin
  PROVE  SessionInv'
<1>1. /\ UNCHANGED <<version, on, key, state, toBoard, plug>>
      /\ pc \in {"Begin", "Command"} /\ ~Sent
  BY DEF Begin, Sent
<1>2. CASE \E e \in {"Send"} : Ends(e) /\ UNCHANGED toPlug
  BY <1>1, <1>2 DEF Ends, SessionInv, QueuesHold, CommandIsLast, AcksAreTrue, SaidAfterSent, KnownByNow, ResultIsTrue, Sent
<1>3. ASSUME NEW cmd \in {"Start", "Control"}, toPlug' = Append(toPlug, Encode(cmd)),
             pc' = IF cmd = "Start" THEN "Resp" ELSE "Ack"
      PROVE  SessionInv'
  <2>1. Encode(cmd) \in Request /\ Encode(cmd).cmd = cmd
    BY <1>3 DEF Encode, Frame, Request, SessionInv, QueuesHold
  <2>2. /\ toPlug' \in Seq(Request) /\ Len(toPlug') = Len(toPlug) + 1
        /\ \A i \in 1 .. Len(toPlug) : toPlug'[i] = toPlug[i]
        /\ toPlug'[Len(toPlug) + 1] = Encode(cmd)
    BY <1>3, <2>1 DEF SessionInv, QueuesHold
  <2>3. \A i \in 1 .. Len(toPlug) : toPlug[i].cmd # "Control"
    BY <1>1 DEF SessionInv, CommandIsLast
  <2>4. plug.said = "Nothing"
    BY <1>1 DEF SessionInv, QueuesHold, SaidAfterSent
  <2>5. CommandIsLast'
    <3>1. SUFFICES ASSUME NEW i \in 1 .. Len(toPlug'), toPlug'[i].cmd = "Control"
                   PROVE  Sent' /\ i = Len(toPlug') /\ plug'.said = "Nothing"
      BY DEF CommandIsLast
    <3>2. i = Len(toPlug') /\ cmd = "Control"
      <4>1. Len(toPlug) \in Nat
        BY DEF SessionInv, QueuesHold
      <4>2. QED BY <2>1, <2>2, <2>3, <3>1, <4>1
    <3>3. QED BY <1>1, <1>3, <2>4, <3>2 DEF Sent
  <2>6. QED BY <1>1, <1>3, <2>2, <2>4, <2>5 DEF SessionInv, QueuesHold, AcksAreTrue, SaidAfterSent, KnownByNow, ResultIsTrue
<1>4. QED BY <1>2, <1>3 DEF Begin, Send

\* What ends the wait for an answer.
LEMMA FailedTells ==
  ASSUME SessionInv, pc \in {"Resp", "Ack", "Status"}, NEW e \in Error \ {"None", "Refused"}, Failed(e),
         plug' = plug
  PROVE  SaidAfterSent' /\ KnownByNow'
BY DEF SessionInv, Failed, Ends, Error, SaidAfterSent, KnownByNow, ResultIsTrue, Sent

\* A step after which less is under way, and the command is as it was.
LEMMA LessUnderWay ==
  ASSUME SessionInv, Sent => Sent', UNCHANGED <<version, on, plug, toPlug>>, key' \in Key,
         toBoard' = toBoard \/ (toBoard # <<>> /\ toBoard' = Tail(toBoard))
  PROVE  QueuesHold' /\ CommandIsLast' /\ AcksAreTrue'
<1>1. toBoard' \in Seq(Frame) /\ Len(toBoard') \in Nat
  BY DEF SessionInv, QueuesHold
<1>2. \A i \in 1 .. Len(toBoard') : \E j \in 1 .. Len(toBoard) : toBoard'[i] = toBoard[j]
  <2>1. CASE toBoard' = toBoard
    BY <2>1
  <2>2. CASE toBoard # <<>> /\ toBoard' = Tail(toBoard)
    <3>1. Len(toBoard') = Len(toBoard) - 1 /\ \A i \in 1 .. Len(toBoard') : toBoard'[i] = toBoard[i + 1]
      BY <2>2 DEF SessionInv, QueuesHold
    <3>2. Len(toBoard) \in Nat
      BY DEF SessionInv, QueuesHold
    <3>3. \A i \in 1 .. Len(toBoard') : i + 1 \in 1 .. Len(toBoard)
      BY <3>1, <3>2
    <3>4. QED BY <3>1, <3>3
  <2>3. QED BY <2>1, <2>2
<1>3. AcksAreTrue'
  BY <1>2 DEF SessionInv, AcksAreTrue
<1>4. QED BY <1>1, <1>3 DEF SessionInv, QueuesHold, CommandIsLast

LEMMA SilenceStep ==
  ASSUME SessionInv, Silence
  PROVE  SessionInv'
<1>1. Failed("Timeout") /\ pc \in {"Resp", "Ack", "Status"} /\ UNCHANGED <<version, on, key, toPlug, toBoard, plug>>
  BY DEF Silence
<1>2. SaidAfterSent' /\ KnownByNow'
  BY <1>1, FailedTells DEF Error
<1>3. (Sent => Sent') /\ key' \in Key
  BY <1>1 DEF Failed, Ends, Sent, SessionInv, QueuesHold
<1>4. QED BY <1>1, <1>2, <1>3, LessUnderWay DEF SessionInv

LEMMA AwaitStep ==
  ASSUME SessionInv, Await
  PROVE  SessionInv'
<1> DEFINE f == Head(toBoard)
<1>1. /\ pc \in {"Resp", "Ack", "Status"} /\ toBoard # <<>> /\ toBoard' = Tail(toBoard)
      /\ UNCHANGED <<version, on, plug>>
  BY DEF Await
<1>2. toBoard \in Seq(Frame) /\ f = toBoard[1] /\ 1 \in 1 .. Len(toBoard) /\ f \in Frame
  BY <1>1 DEF SessionInv, QueuesHold
<1>3. CASE DecodeError(f) # "None"
  <2>1. Failed(DecodeError(f)) /\ UNCHANGED <<state, key, toPlug>>
    BY <1>3 DEF Await
  <2>2. DecodeError(f) \in Error \ {"None", "Refused"}
    BY <1>3 DEF DecodeError, Error
  <2>3. SaidAfterSent' /\ KnownByNow'
    BY <1>1, <2>1, <2>2, FailedTells
  <2>4. (Sent => Sent') /\ key' \in Key
    BY <2>1 DEF Failed, Ends, Sent, SessionInv, QueuesHold
  <2>5. QueuesHold' /\ CommandIsLast' /\ AcksAreTrue'
    BY <1>1, <2>1, <2>4, LessUnderWay
  <2>6. QED BY <2>3, <2>5 DEF SessionInv
<1>4. CASE DecodeError(f) = "None" /\ pc = "Resp" /\ f.cmd = "Resp"
  <2>1. Answered
    BY <1>4 DEF Await
  <2>2. plug.said = "Nothing" /\ ~Sent
    BY <1>4 DEF SessionInv, QueuesHold, SaidAfterSent, Sent
  <2>3. CASE Ends("Send") /\ UNCHANGED toPlug
    <3>1. key' = key /\ pc' = "Done" /\ error' = "Send"
      BY <2>1, <2>3 DEF Answered, Ends
    <3>2. QueuesHold' /\ CommandIsLast' /\ AcksAreTrue'
      BY <1>1, <2>2, <2>3, <3>1, LessUnderWay DEF SessionInv, QueuesHold
    <3>3. QED BY <1>1, <2>2, <3>1, <3>2 DEF SessionInv, SaidAfterSent, KnownByNow, ResultIsTrue
  <2>4. CASE toPlug' = Append(toPlug, Encode("Finish")) /\ pc' = "Command"
    <3>1. key' \in Key /\ Encode("Finish") \in Request /\ Encode("Finish").cmd = "Finish"
      BY <2>1, <2>4 DEF Answered, Encode, Key, Frame, Request, SessionInv, QueuesHold
    <3>2. /\ toPlug' \in Seq(Request) /\ Len(toPlug') = Len(toPlug) + 1 /\ Len(toPlug) \in Nat
          /\ \A i \in 1 .. Len(toPlug) : toPlug'[i] = toPlug[i]
          /\ toPlug'[Len(toPlug) + 1] = Encode("Finish")
      BY <2>4, <3>1 DEF SessionInv, QueuesHold
    <3>3. \A i \in 1 .. Len(toPlug) : toPlug[i].cmd # "Control"
      BY <2>2 DEF SessionInv, CommandIsLast
    <3>4. \A i \in 1 .. Len(toPlug') : toPlug'[i].cmd # "Control"
      BY <3>1, <3>2, <3>3
    <3>5. CommandIsLast'
      BY <3>4 DEF CommandIsLast
    <3>6. toBoard' \in Seq(Frame) /\ Len(toBoard') = Len(toBoard) - 1
          /\ \A i \in 1 .. Len(toBoard') : toBoard'[i] = toBoard[i + 1]
      BY <1>1, <1>2
    <3>7. \A i \in 1 .. Len(toBoard') : i + 1 \in 1 .. Len(toBoard)
      BY <1>2, <3>6
    <3>8. AcksAreTrue'
      BY <1>1, <3>6, <3>7 DEF SessionInv, AcksAreTrue
    <3>9. QueuesHold'
      BY <1>1, <3>1, <3>2, <3>6 DEF SessionInv, QueuesHold
    <3>10. QED BY <1>1, <2>2, <2>4, <3>5, <3>8, <3>9 DEF SessionInv, SaidAfterSent, KnownByNow, ResultIsTrue
  <2>5. QED BY <2>1, <2>3, <2>4 DEF Answered, Send
<1>5. CASE DecodeError(f) = "None" /\ ~(pc = "Resp" /\ f.cmd = "Resp")
  <2>1. UNCHANGED <<key, toPlug>>
    BY <1>1, <1>5 DEF Await, Acked, Skim
  <2>2. (Sent => Sent') /\ SaidAfterSent' /\ KnownByNow'
    <3>1. CASE pc = "Ack" /\ f.cmd = "Control"
      <4>1. Acked(f)
        BY <1>5, <3>1 DEF Await
      <4>2. plug.said = IF f.ret = 0 THEN "Taken" ELSE "Refused"
        BY <1>2, <3>1 DEF SessionInv, AcksAreTrue
      <4>3. QED BY <1>1, <4>1, <4>2 DEF Acked, Ends, Sent, SaidAfterSent, KnownByNow, ResultIsTrue
    <3>2. CASE pc = "Status" /\ f.cmd = "Status"
      <4>1. Ends("None")
        BY <1>5, <3>2 DEF Await
      <4>2. QED BY <1>1, <3>2, <4>1 DEF Ends, Sent, SessionInv, SaidAfterSent, KnownByNow, ResultIsTrue
    <3>3. CASE Skim
      <4>1. CASE UNCHANGED <<pc, error>>
        BY <1>1, <4>1 DEF SessionInv, Sent, SaidAfterSent, KnownByNow, ResultIsTrue
      <4>2. CASE Failed("Timeout")
        <5>1. SaidAfterSent' /\ KnownByNow'
          BY <1>1, <4>2, FailedTells DEF Error
        <5>2. QED BY <4>2, <5>1 DEF Failed, Ends, Sent
      <4>3. QED BY <3>3, <4>1, <4>2 DEF Skim
    <3>4. QED BY <1>1, <1>5, <3>1, <3>2, <3>3 DEF Await
  <2>3. QueuesHold' /\ CommandIsLast' /\ AcksAreTrue'
    BY <1>1, <2>1, <2>2, LessUnderWay DEF SessionInv, QueuesHold
  <2>4. QED BY <2>2, <2>3 DEF SessionInv
<1>6. QED BY <1>3, <1>4, <1>5

\* The plug says one thing more: an ack of what it has just been told, or nothing about the command.
LEMMA SaidMore ==
  ASSUME SessionInv, NEW cmd \in {"Resp", "Control", "Status"}, NEW ret \in {0, 1}, NEW dp \in BOOLEAN \cup {None},
         toBoard' = Says(cmd, ret, dp), plug' \in PlugState,
         cmd = "Control" => plug.said = "Nothing" /\ plug'.said = IF ret = 0 THEN "Taken" ELSE "Refused",
         cmd # "Control" => plug'.said = plug.said
  PROVE  toBoard' \in Seq(Frame) /\ AcksAreTrue'
<1> DEFINE f == [v |-> plug.v, cmd |-> cmd, key |-> plug.key, ret |-> ret, dp |-> dp]
<1>1. f \in Frame /\ f.cmd = cmd /\ f.ret = ret
  BY DEF SessionInv, QueuesHold, Frame, PlugState
<1> HIDE DEF f
<1>2. toBoard' = Append(toBoard, f)
  BY DEF Says, f
<1>3. /\ toBoard' \in Seq(Frame) /\ Len(toBoard') = Len(toBoard) + 1 /\ Len(toBoard) \in Nat
      /\ \A i \in 1 .. Len(toBoard) : toBoard'[i] = toBoard[i]
      /\ toBoard'[Len(toBoard) + 1] = f
  BY <1>1, <1>2 DEF SessionInv, QueuesHold
<1>4. ASSUME NEW i \in 1 .. Len(toBoard'), toBoard'[i].cmd = "Control"
      PROVE  plug'.said = IF toBoard'[i].ret = 0 THEN "Taken" ELSE "Refused"
  <2>1. CASE i = Len(toBoard) + 1
    BY <1>1, <1>3, <1>4, <2>1
  <2>2. CASE i # Len(toBoard) + 1
    <3>1. i \in 1 .. Len(toBoard)
      BY <1>3, <1>4, <2>2
    <3>2. toBoard[i].cmd = "Control" /\ plug.said = IF toBoard[i].ret = 0 THEN "Taken" ELSE "Refused"
      BY <1>3, <1>4, <3>1 DEF SessionInv, AcksAreTrue
    <3>3. plug.said # "Nothing"
      BY <3>2
    <3>4. QED BY <1>3, <3>1, <3>2, <3>3
  <2>3. QED BY <2>1, <2>2
<1>5. QED BY <1>3, <1>4 DEF AcksAreTrue

LEMMA PlugReadsStep ==
  ASSUME SessionInv, PlugReads
  PROVE  SessionInv'
<1> DEFINE f == Head(toPlug)
<1>1. /\ toPlug # <<>> /\ toPlug' = Tail(toPlug)
      /\ UNCHANGED <<version, on, key, pc, seen, error, state>>
  BY DEF PlugReads
<1>2. /\ toPlug \in Seq(Request) /\ f = toPlug[1] /\ 1 \in 1 .. Len(toPlug)
      /\ toPlug' \in Seq(Request) /\ Len(toPlug') = Len(toPlug) - 1 /\ Len(toPlug) \in Nat
      /\ \A i \in 1 .. Len(toPlug') : toPlug'[i] = toPlug[i + 1] /\ i + 1 \in 1 .. Len(toPlug)
  BY <1>1 DEF SessionInv, QueuesHold
<1>3. CASE plug'.said = plug.said /\ plug' \in PlugState
             /\ toBoard' \in Seq(Frame) /\ AcksAreTrue'
  <2>1. CommandIsLast'
    <3>1. SUFFICES ASSUME NEW i \in 1 .. Len(toPlug'), toPlug'[i].cmd = "Control"
                   PROVE  Sent' /\ i = Len(toPlug') /\ plug'.said = "Nothing"
      BY DEF CommandIsLast
    <3>2. Sent /\ i + 1 = Len(toPlug) /\ plug.said = "Nothing"
      BY <1>2, <3>1 DEF SessionInv, CommandIsLast
    <3>3. i = Len(toPlug')
      BY <1>2, <3>1, <3>2
    <3>4. QED BY <1>1, <1>3, <3>2, <3>3 DEF Sent
  <2>2. QED BY <1>1, <1>2, <1>3, <2>1 DEF SessionInv, QueuesHold, SaidAfterSent, KnownByNow, ResultIsTrue, Sent
<1>4. CASE f.v # plug.v \/ f.key # plug.key
  <2>1. UNCHANGED <<plug, toBoard>>
    BY <1>4 DEF PlugReads
  <2>2. QED BY <1>3, <2>1 DEF SessionInv, QueuesHold, AcksAreTrue
<1>5. CASE ~(f.v # plug.v \/ f.key # plug.key) /\ f.cmd = "Start"
  <2>1. toBoard' = Says("Resp", 0, None) /\ plug' = plug
    BY <1>5 DEF PlugReads
  <2>2. toBoard' \in Seq(Frame) /\ AcksAreTrue'
    BY <2>1, SaidMore DEF SessionInv, QueuesHold
  <2>3. QED BY <1>3, <2>1, <2>2 DEF SessionInv, QueuesHold
<1>6. CASE ~(f.v # plug.v \/ f.key # plug.key) /\ f.cmd = "Finish"
  <2>1. plug' = [plug EXCEPT !.key = "Session"] /\ toBoard' = toBoard
    BY <1>6 DEF PlugReads
  <2>2. plug' \in PlugState /\ plug'.said = plug.said
    BY <2>1 DEF SessionInv, QueuesHold, Key, PlugState
  <2>3. QED BY <1>3, <2>1, <2>2 DEF SessionInv, QueuesHold, AcksAreTrue
<1>7. CASE ~(f.v # plug.v \/ f.key # plug.key) /\ f.cmd = "Control"
  <2>1. Sent /\ plug.said = "Nothing" /\ Len(toPlug) = 1
    BY <1>2, <1>7 DEF SessionInv, CommandIsLast
  <2>2. CommandIsLast'
    BY <1>2, <2>1 DEF CommandIsLast
  <2>3. ~(pc = "Status") /\ (pc = "Done" => error \notin {"None", "Refused"})
    BY <2>1 DEF SessionInv, KnownByNow, ResultIsTrue
  <2>4. CASE Takes
    <3>1. plug' = [plug EXCEPT !.on = on, !.said = "Taken"]
      BY <2>4 DEF Takes
    <3>2. plug' \in PlugState /\ plug'.said = "Taken"
      BY <3>1 DEF SessionInv, QueuesHold, PlugState
    <3>3. PICK dp \in {on, None} : toBoard' = Says("Control", 0, dp)
      BY <2>4 DEF Takes
    <3>4. toBoard' \in Seq(Frame) /\ AcksAreTrue'
      BY <2>1, <3>2, <3>3, SaidMore DEF SessionInv, QueuesHold
    <3>5. QED BY <1>1, <1>2, <2>1, <2>2, <2>3, <3>2, <3>4 DEF SessionInv, QueuesHold, SaidAfterSent, KnownByNow, ResultIsTrue, Sent
  <2>5. CASE Refuses
    <3>1. plug' = [plug EXCEPT !.said = "Refused"] /\ toBoard' = Says("Control", 1, None)
      BY <2>5 DEF Refuses
    <3>2. plug' \in PlugState /\ plug'.said = "Refused"
      BY <3>1 DEF SessionInv, QueuesHold, PlugState
    <3>3. toBoard' \in Seq(Frame) /\ AcksAreTrue'
      BY <2>1, <3>1, <3>2, SaidMore
    <3>4. QED BY <1>1, <1>2, <2>1, <2>2, <2>3, <3>2, <3>3 DEF SessionInv, QueuesHold, SaidAfterSent, KnownByNow, ResultIsTrue, Sent
  <2>6. QED BY <1>7, <2>4, <2>5 DEF PlugReads
<1>8. f.cmd \in {"Start", "Finish", "Control"}
  BY <1>2 DEF Request
<1>9. QED BY <1>4, <1>5, <1>6, <1>7, <1>8

LEMMA PlugPushesStep ==
  ASSUME SessionInv, PlugPushes
  PROVE  SessionInv'
<1>1. toBoard' = Says("Status", 0, plug.on) /\ UNCHANGED <<version, on, key, pc, seen, error, state, toPlug, plug>>
  BY DEF PlugPushes
<1>2. plug' \in PlugState /\ plug.on \in BOOLEAN
  BY <1>1 DEF SessionInv, QueuesHold, PlugState
<1>3. toBoard' \in Seq(Frame) /\ AcksAreTrue'
  BY <1>1, <1>2, SaidMore
<1>4. QED BY <1>1, <1>2, <1>3
      DEF SessionInv, QueuesHold, CommandIsLast, SaidAfterSent, KnownByNow, ResultIsTrue, Sent

(* The result of a transaction is about its command, whatever a plug of another    *)
(* protocol or another key answers and pushes, in however long queues and however  *)
(* many frames are read for one answer (tuya.cpp:156-171, :457-485).              *)
THEOREM ResultStaysTrue == SessionSpec => []ResultIsTrue
<1>1. SessionInit => SessionInv
  BY DEF SessionInit, SessionInv, QueuesHold, CommandIsLast, AcksAreTrue, SaidAfterSent, KnownByNow,
         ResultIsTrue, PlugState, Key, Version
<1>2. ASSUME SessionInv, [SessionNext]_sessionVars
      PROVE  SessionInv'
  <2>1. CASE Begin
    BY <1>2, <2>1, BeginStep
  <2>2. CASE Silence
    BY <1>2, <2>2, SilenceStep
  <2>3. CASE Await
    BY <1>2, <2>3, AwaitStep
  <2>4. CASE PlugReads
    BY <1>2, <2>4, PlugReadsStep
  <2>5. CASE PlugPushes
    BY <1>2, <2>5, PlugPushesStep
  <2>6. CASE UNCHANGED sessionVars
    BY <1>2, <2>6 DEF sessionVars, SessionInv, QueuesHold, CommandIsLast, AcksAreTrue, SaidAfterSent,
                      KnownByNow, ResultIsTrue, Sent
  <2>7. QED BY <1>2, <2>1, <2>2, <2>3, <2>4, <2>5, <2>6 DEF SessionNext, Board
<1>3. SessionInv => ResultIsTrue
  BY DEF SessionInv, KnownByNow
<1>4. QED BY <1>1, <1>2, <1>3, PTL DEF SessionSpec
=============================================================================
