----------------------------- MODULE CsvStream ------------------------------
(***************************************************************************)
(* RecordsCsv of gateway/src/views.cpp: a client reads the record log while  *)
(* the sampler goes on writing it.  A row is sent with the App unlocked      *)
(* (sampler::Guard::Unlock in the sinks of web.cpp and console_cmds.cpp), so  *)
(* that the ring may take records, and drop its oldest segment, while a row  *)
(* is on its way; otherwise the stream and the ring exclude each other.      *)
(***************************************************************************)
EXTENDS RingHistory

CONSTANT AppendsPerRow   \* bounds the records appended while one row is sent

ASSUME StreamConstants == AppendsPerRow \in Nat

VARIABLE stream   \* the locals of RecordsCsv, and the records appended while a row is on its way

svars == <<hvars, stream>>

NoRow == [phase |-> "waiting", i |-> 0, seq |-> 0, before |-> 0, given |-> 0]
Over == [NoRow EXCEPT !.phase = "over"]

Stream ==
  [phase: {"waiting", "sending", "over"}, i: 0 .. NSegments * PerSegment, seq: {0} \cup Records,
   before: 0 .. NSegments * PerSegment, given: 0 .. AppendsPerRow]

STypeOK == TypeOK /\ stream \in Stream

SInit == HInit /\ stream = NoRow

\* The loop from index i to the next row it emits; unreadable entries are passed over.
EmitFrom(i) ==
  LET readable == {j \in DOMAIN Reported : j > i /\ Valid(Reported[j])}
  IN IF readable = {} THEN Over
     ELSE LET row == Min(readable)
          IN [phase |-> "sending", i |-> row - 1, seq |-> Reported[row],
              before |-> Len(Reported), given |-> 0]

\* The stream holds the lock: no Append is under way.
Locked == pc = "Idle" /\ UNCHANGED hvars

Start ==
  /\ Locked /\ stream.phase = "waiting"
  /\ \E since \in Records : stream' = EmitFrom(LowerBound(Reported, since))

\* Mutated: the stream never looks whether the ring has moved.
NextIndexUnanchored == stream.i + 1

\* A ring that has shrunk has dropped a segment: the stream looks for its place.
NextIndex ==
  IF Len(Reported) < stream.before THEN LowerBound(Reported, stream.seq + 1) ELSE stream.i + 1

Sent == Locked /\ stream.phase = "sending" /\ stream' = EmitFrom(NextIndex)

\* The client went away.
Broken == Locked /\ stream.phase = "sending" /\ stream' = Over

\* The ring moves while no stream holds the lock: before, after, and within the sending of a row.
RingStep ==
  /\ HNext
  /\ \/ stream.phase # "sending" /\ UNCHANGED stream
     \/ stream.phase = "sending" /\ pc' = "Off" /\ stream' = Over
     \/ /\ stream.phase = "sending" /\ pc' # "Off" /\ record' # record
        /\ stream.given < AppendsPerRow
        /\ stream' = [stream EXCEPT !.given = @ + 1]
     \/ stream.phase = "sending" /\ pc' # "Off" /\ record' = record /\ UNCHANGED stream

SNext == Start \/ Sent \/ Broken \/ RingStep

SSpec == SInit /\ [][SNext]_svars

-----------------------------------------------------------------------------
\* What is on flash behind the row just sent and comes neither next nor after that.
Skipped ==
  {r \in Range(Reported) : Valid(r) /\ r > stream.seq /\ (stream'.phase = "sending" => r < stream'.seq)}

\* The next row is a newer record.
Forward == stream'.phase = "sending" => stream.seq < stream'.seq

(* However the ring moves under the stream, also when a drop that failed      *)
(* leaves unreadable entries, no row is sent twice and none comes before an  *)
(* older one.                                                               *)
ExportInOrder == [][Sent => Forward]_svars

(* A ring none of whose operations failed moves by whole, full segments: the  *)
(* stream sees that it did, and the next row is the next record on flash.    *)
ExportSkipsNothing == [][Sent /\ calm => Forward /\ Skipped = {}]_svars

\* What the export promises of the rows it sends (views.cpp:135).
ExportKeepsItsPlace == ExportInOrder /\ ExportSkipsNothing
=============================================================================
