---------------------------- MODULE RingHistory -----------------------------
(***************************************************************************)
(* The flash ring, what of it would survive a power loss now, and whether    *)
(* anything has gone wrong so far.                                          *)
(***************************************************************************)
EXTENDS FlashRing

VARIABLES
  calm,    \* no operation failed or was cut, no power loss within an Append
  durable  \* the records readable after a power loss now, oldest first

history == <<calm, durable>>
hvars == <<vars, history>>

\* What Open finds and keeps.
Surviving(f) ==
  LET kept(r) == IF NeedsRepair(r) THEN [r EXCEPT !.tail = After(r.tail), !.used = @ - 1] ELSE r
  IN Slotted(f, kept(Found(f)))

HInit == Init /\ calm = TRUE /\ durable = <<>>

\* A step of the ring, and what it does to the history.
HNext ==
  /\ Next
  /\ calm' = (calm /\ ~Disturbed)
  /\ durable' = Surviving(flash')

HSpec == HInit /\ [][HNext]_hvars

-----------------------------------------------------------------------------
(* The ring implements the log of AppendLog: whatever is cut or fails, what  *)
(* is readable afterwards is an end of what was written, in its order, and   *)
(* less than two segments are lost at once (a segment dropped to make room,  *)
(* and a sealed one that becomes the oldest by it); and a record whose       *)
(* Append returned true is in the log: a power loss right after finds it.    *)
Log == INSTANCE AppendLog WITH log <- durable, Loss <- 2 * PerSegment - 1

AckedIsDurable == [][Acknowledged => record \in Range(durable')]_hvars

ImplementsLog == Log!Spec /\ AckedIsDurable

(* What the ring reports while the power is on is in order, and a power loss  *)
(* would take only a beginning of it.                                       *)
ReportedSurvives ==
  pc = "Idle" =>
    LET log == Reported
        readable == {i \in DOMAIN log : Valid(log[i])}
    IN /\ \A i, j \in readable : i < j => log[i] < log[j]
       /\ \A i \in readable : log[i] \in Range(durable) \/ (\A r \in Range(durable) : log[i] < r)

(* Reboots between two Appends lose nothing: as long as no operation is cut  *)
(* or fails, the log holds the last records, and never less than all but one *)
(* segment of them.                                                         *)
CalmKeepsAll ==
  calm /\ pc = "Idle" =>
    LET n == Len(durable)
    IN /\ Reported = durable
       /\ durable = [i \in 1 .. n |-> record - n + i]
       /\ n = record \/ n > (NSegments - 1) * PerSegment

(* The lookup by sequence number misses no record from that number on, also   *)
(* when a drop that failed left a hole at the beginning of the log.          *)
LookupMissesNone ==
  pc = "Idle" =>
    LET log == Reported
    IN \A seq \in Records :
         LET found == LowerBound(log, seq)
         IN \A i \in DOMAIN log : Valid(log[i]) /\ log[i] >= seq => i > found
=============================================================================
