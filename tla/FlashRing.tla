----------------------------- MODULE FlashRing ------------------------------
(***************************************************************************)
(* The record log of core/src/log.cpp: Ring, a ring of flash segments with   *)
(* an epoch header and fixed-size records, under power losses at any moment  *)
(* and flash operations that fail.  One action is one flash operation of     *)
(* Open or Append: between two of them the power may go, and an operation    *)
(* that the power loss cuts, or that fails, leaves a part of its work.       *)
(*                                                                         *)
(* Records are numbered in the order in which Append is given them, so that  *)
(* a number stands for the record and for its age.  Reads do not fail.       *)
(***************************************************************************)
EXTENDS Integers, SequencesExt

CONSTANTS
  NSegments,    \* mStore.Segments()
  PerSegment,   \* mPerSegment
  MaxRecords    \* bounds the records given to Append

\* The smallest of the four partitions has 16 segments (sampler.cpp:488-492, partitions.csv).
ASSUME RingConstants == NSegments \in Nat \ {0, 1} /\ {PerSegment, MaxRecords} \subseteq Nat \ {0}

Segments == 0 .. NSegments - 1
Slots == 1 .. PerSegment
Records == 1 .. MaxRecords
Epochs == 1 .. MaxRecords

\* What a slot or a header may hold besides a record or an epoch.  A header torn while epoch e
\* was written is -e: a second write of the same bits completes it.
Erased == 0
Torn == -1

Segment == [header: -MaxRecords .. MaxRecords, slots: [Slots -> Records \cup {Erased, Torn}]]
Blank == [header |-> Erased, slots |-> [i \in Slots |-> Erased]]

VARIABLES
  flash,   \* the store
  ring,    \* the members of Ring
  pc,      \* the flash operation that comes next; Idle: none, Off: no power
  record   \* the last record given to Append

vars == <<flash, ring, pc, record>>

Ring ==
  [tail: Segments, used: 0 .. NSegments, epoch: {0} \cup Epochs, sealed: BOOLEAN,
   lens: [Segments -> 0 .. PerSegment], clean: [Segments -> BOOLEAN]]

TypeOK ==
  /\ flash \in [Segments -> Segment]
  /\ ring \in Ring
  /\ pc \in {"Off", "Idle", "Repair", "Drop", "Erase", "Header", "Record"}
  /\ record \in {0} \cup Records

NoRing ==
  [tail |-> 0, used |-> 0, epoch |-> 0, sealed |-> FALSE,
   lens |-> [s \in Segments |-> 0], clean |-> [s \in Segments |-> FALSE]]

Init ==
  /\ flash = [s \in Segments |-> Blank]
  /\ ring = NoRing
  /\ pc = "Off"
  /\ record = 0

-----------------------------------------------------------------------------
(* The flash.  A write only clears bits, an erase goes through its segment   *)
(* from one of its ends.                                                    *)

SlotLandings(old, r) == IF old = Erased THEN {Erased, Torn, r} ELSE {Torn}

HeaderLandings(old, e) == IF old \in {Erased, -e} THEN {old, -e, e} ELSE IF old = e THEN {e} ELSE {-MaxRecords}

EraseLandings(seg) ==
  {[seg EXCEPT !.slots = [i \in Slots |-> IF i > k THEN Erased ELSE IF i = k /\ cut THEN Torn ELSE @[i]]] :
     k \in {0} \cup Slots, cut \in BOOLEAN}
  \cup {[header |-> Erased, slots |-> [i \in Slots |-> IF i <= k THEN Erased ELSE seg.slots[i]]] :
     k \in {0} \cup Slots}

WriteSlot(s, i, landed) == flash' = [flash EXCEPT ![s].slots[i] = landed]
WriteHeader(s, landed) == flash' = [flash EXCEPT ![s].header = landed]

\* What the validator tells of a record.
Valid(slot) == slot \in Records

-----------------------------------------------------------------------------
(* What the ring reads off the flash.                                       *)

Live(f, s) == f[s].header \in Epochs
Newest(f) ==
  CHOOSE s \in Segments :
    Live(f, s) /\ \A t \in Segments : Live(f, t) => f[t].header <= f[s].header
Before(s, n) == (s + NSegments - n) % NSegments

\* The live run: consecutive epochs back from the newest segment.
RunLength(f, newest) ==
  Max({u \in 1 .. NSegments : \A n \in 1 .. u - 1 :
         Live(f, Before(newest, n)) /\ f[Before(newest, n)].header + n = f[newest].header})

\* The binary search both lookups are: the end of those that hold, if they come first.
Boundary(holds) ==
  LET search[w \in (0 .. Len(holds)) \X (0 .. Len(holds))] ==
        LET lo == w[1]  hi == w[2]  mid == lo + (hi - lo) \div 2
        IN IF lo >= hi THEN lo
           ELSE search[IF holds[mid + 1] THEN <<mid + 1, hi>> ELSE <<lo, mid>>]
  IN search[<<0, Len(holds)>>]

\* The end of a segment's valid records.
ValidLength(slots) == Boundary([i \in Slots |-> Valid(slots[i])])

SlotErased(f, s, i) == f[s].slots[i] = Erased

HeadOf(r) == (r.tail + r.used + NSegments - 1) % NSegments
After(s) == (s + 1) % NSegments

\* The ring that Open finds on a flash, before it repairs the tail.
Found(f) ==
  IF \A s \in Segments : ~Live(f, s) THEN NoRing
  ELSE LET newest == Newest(f)
           used == RunLength(f, newest)
           run == {Before(newest, n) : n \in 0 .. used - 1}
           lens == [s \in Segments |-> IF s \in run THEN ValidLength(f[s].slots) ELSE 0]
       IN [tail |-> Before(newest, used - 1), used |-> used, epoch |-> f[newest].header,
           sealed |-> /\ lens[newest] < PerSegment
                      /\ ~SlotErased(f, newest, lens[newest] + 1),
           lens |-> lens,
           clean |-> [s \in Segments |-> Live(f, s) /\ s \notin run]]

\* Mutated: a partial segment that is the only one is dropped as well.
NeedsRepairAlone(r) == r.used > 0 /\ r.lens[r.tail] < PerSegment

NeedsRepair(r) == r.used > 1 /\ r.lens[r.tail] < PerSegment

\* The slots a ring takes for its records, oldest first.
Slotted(f, r) ==
  LET seg(n) == (r.tail + n - 1) % NSegments
  IN FlattenSeq([n \in 1 .. r.used |-> SubSeq(f[seg(n)].slots, 1, r.lens[seg(n)])])

\* Mutated: the record itself is passed over.
LowerBoundPastEqual(log, seq) == Boundary([i \in DOMAIN log |-> Valid(log[i]) /\ log[i] <= seq])

\* RecordLog's lookup; an unreadable record counts as not before the number.
LowerBound(log, seq) == Boundary([i \in DOMAIN log |-> Valid(log[i]) /\ log[i] < seq])

-----------------------------------------------------------------------------
(* The steps of Open and Append.  Each flash operation is done, or reports an *)
(* error, or is cut by a power loss.                                        *)

LosePower == ring' = NoRing /\ pc' = "Off"

\* Segments with a header outside the run are erased.
Open ==
  /\ pc = "Off"
  /\ ring' = Found(flash)
  /\ flash' = [s \in Segments |-> IF ring'.clean[s] THEN Blank ELSE flash[s]]
  /\ pc' = IF NeedsRepair(ring') THEN "Repair" ELSE "Idle"
  /\ UNCHANGED record

TailDropped ==
  [ring EXCEPT !.lens[ring.tail] = 0, !.clean[ring.tail] = TRUE,
               !.tail = After(ring.tail), !.used = @ - 1]

\* DropTail, and what follows it when it is done and when it fails.
DropTail(done, failed) ==
  \/ /\ flash' = [flash EXCEPT ![ring.tail] = Blank]
     /\ ring' = TailDropped
     /\ pc' = done
  \/ /\ \E landed \in EraseLandings(flash[ring.tail]) : flash' = [flash EXCEPT ![ring.tail] = landed]
     /\ (UNCHANGED ring /\ pc' = failed) \/ LosePower

\* A partial tail is an interrupted drop, or sealed: Open drops it, if it can.
Repair == pc = "Repair" /\ DropTail("Idle", "Idle") /\ UNCHANGED record

NextSegment == IF ring.used = 0 THEN 0 ELSE After(HeadOf(ring))

\* Mutated: a segment is never erased before it is used.
StartOfUnerased(r) == "Header"

\* The first flash operation of a segment that is to become the head.
StartOf(r) == IF r.clean[IF r.used = 0 THEN 0 ELSE After(HeadOf(r))] THEN "Header" ELSE "Erase"

Give ==
  /\ pc = "Idle" /\ record < MaxRecords
  /\ record' = record + 1
  /\ pc' = IF ring.used = 0 THEN StartOf(ring)
           ELSE IF ring.lens[HeadOf(ring)] < PerSegment /\ ~ring.sealed THEN "Record"
           ELSE IF ring.used = NSegments THEN "Drop" ELSE StartOf(ring)
  /\ UNCHANGED <<flash, ring>>

Drop == pc = "Drop" /\ DropTail(StartOf(TailDropped), "Idle") /\ UNCHANGED record

EraseSegment ==
  /\ pc = "Erase"
  /\ \/ /\ flash' = [flash EXCEPT ![NextSegment] = Blank]
        /\ ring' = [ring EXCEPT !.clean[NextSegment] = TRUE]
        /\ pc' = "Header"
     \/ /\ \E landed \in EraseLandings(flash[NextSegment]) : flash' = [flash EXCEPT ![NextSegment] = landed]
        /\ (UNCHANGED ring /\ pc' = "Idle") \/ LosePower
  /\ UNCHANGED record

StartSegment ==
  LET s == NextSegment
      epoch == ring.epoch + 1
      landings == HeaderLandings(flash[s].header, epoch)
  IN /\ pc = "Header"
     /\ \/ /\ epoch \in landings /\ WriteHeader(s, epoch)
           /\ ring' = [ring EXCEPT !.epoch = epoch, !.used = @ + 1, !.lens[s] = 0,
                                   !.clean[s] = FALSE, !.sealed = FALSE]
           /\ pc' = "Record"
        \/ /\ \E landed \in landings : WriteHeader(s, landed)
           /\ (UNCHANGED ring /\ pc' = "Idle") \/ LosePower
     /\ UNCHANGED record

\* Mutated: a failed write does not seal the segment.
WriteRecordUnsealed ==
  LET h == HeadOf(ring)
      i == ring.lens[h] + 1
      landings == SlotLandings(flash[h].slots[i], record)
  IN /\ pc = "Record"
     /\ \/ /\ WriteSlot(h, i, IF record \in landings THEN record ELSE Torn)
           /\ ring' = [ring EXCEPT !.lens[h] = @ + 1]
           /\ pc' = "Idle"
        \/ /\ \E landed \in landings : WriteSlot(h, i, landed)
           /\ (UNCHANGED ring /\ pc' = "Idle") \/ LosePower
     /\ UNCHANGED record

WriteRecord ==
  LET h == HeadOf(ring)
      i == ring.lens[h] + 1
      landings == SlotLandings(flash[h].slots[i], record)
  IN /\ pc = "Record"
     /\ \/ /\ WriteSlot(h, i, IF record \in landings THEN record ELSE Torn)
           /\ ring' = [ring EXCEPT !.lens[h] = @ + 1]
           /\ pc' = "Idle"
        \/ /\ \E landed \in landings : WriteSlot(h, i, landed)
           /\ (ring' = [ring EXCEPT !.sealed = TRUE] /\ pc' = "Idle") \/ LosePower
     /\ UNCHANGED record

PowerLoss == pc # "Off" /\ LosePower /\ UNCHANGED <<flash, record>>

-----------------------------------------------------------------------------
(* What has become of an Append, for histories.                             *)

Acknowledged == pc = "Record" /\ pc' = "Idle" /\ ring'.lens # ring.lens

\* An operation failed or was cut, or the power went within an Append.
Disturbed == pc \notin {"Off", "Idle"} /\ (pc' = "Off" \/ (pc' = "Idle" /\ pc # "Repair" /\ ~Acknowledged))

\* What ReadAt returns: an entry may be unreadable after a drop that failed.
Reported == Slotted(flash, ring)

-----------------------------------------------------------------------------
Next ==
  \/ Open \/ Repair \/ Give \/ Drop \/ EraseSegment \/ StartSegment \/ WriteRecord \/ PowerLoss

Spec == Init /\ [][Next]_vars
=============================================================================
