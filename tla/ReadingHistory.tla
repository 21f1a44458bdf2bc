---------------------------- MODULE ReadingHistory ----------------------------
(* What a frozen probe is, told from the readings it has given: the driver      *)
(* itself keeps the last one and a count (Probe).  And what the trend is, told   *)
(* from the readings and their ages: the App keeps two rings (Trend).          *)
EXTENDS Probe, Trend, SequenceTheorems, FiniteSetTheorems, WellFoundedInduction, TLAPS

VARIABLE readings \* history: the readings given, newest first

readingVars == <<probeVars, readings>>

Recalled == MaxIdentical + 1 \* bound: readings remembered

\* A reading joins the others in front.
Put(v, s) == SubSeq(<<v>> \o s, 1, IF Len(s) < Recalled THEN Len(s) + 1 ELSE Recalled)

Remember ==
  readings' = IF result'.reading = Nothing THEN readings ELSE Put(result'.reading, readings)

ReadingsInit == ProbeInit /\ readings = <<>>

ReadingsSample == Sample /\ Remember

ReadingsNext ==
  \/ ReadingsSample
  \/ (AirCalibrate \/ SetConfig \/ Water) /\ UNCHANGED readings

ReadingsSpec == ReadingsInit /\ [][ReadingsNext]_readingVars

Frozen == Len(readings') > stuckSamples /\ \A i \in 1 .. stuckSamples : readings'[i + 1] = readings'[1]

(* A reading is called frozen exactly when the stuck_samples before it were the *)
(* same (probe.cpp:87-100): what was lost in between does not count as a change, *)
(* and what changed once counts as alive.                                     *)
StuckMeansFrozen ==
  [][ReadingsSample /\ result'.reading # Nothing => (result'.status = "Stuck" <=> Frozen)]_readingVars

-----------------------------------------------------------------------------
VARIABLES
  raw,      \* history: the last SIZE readings since the last outage
  past      \* history: the medians of the last CAPACITY readings, with their ages

trendVars == <<vars, raw, past>>

LastOf(s, k) == IF Len(s) > k THEN SubSeq(s, Len(s) - k + 1, Len(s)) ELSE s

Aged(p, d) == [i \in DOMAIN p |-> AgedBy(p[i], d)]

\* The lower of the middle ones.
MedianOf(s) ==
  CHOOSE v \in {s[i] : i \in DOMAIN s} :
    /\ 2 * Cardinality({i \in DOMAIN s : s[i] < v}) < Len(s)
    /\ 2 * Cardinality({i \in DOMAIN s : s[i] > v}) <= Len(s)

TrendInit == Init /\ raw = <<>> /\ past = <<>>

TrendMissed(d) ==
  /\ Missed(d)
  /\ raw' = IF fails' = FAULT THEN <<>> ELSE raw
  /\ past' = Aged(past, d)

TrendReading(d, v, stuck) ==
  /\ Reading(d, v, stuck)
  /\ LET all == LastOf(Append(raw, v), SIZE) IN
       /\ raw' = IF fails' = FAULT THEN <<>> ELSE all
       /\ past' = LastOf(Append(Aged(past, d), [age |-> 0, v |-> MedianOf(all)]), CAPACITY)

TrendNext == \E d \in Gaps : TrendMissed(d) \/ \E v \in Values, stuck \in BOOLEAN : TrendReading(d, v, stuck)

TrendSpec == TrendInit /\ [][TrendNext]_trendVars

(* The trend is about the readings that came, whatever gaps, frozen readings and *)
(* outages were between them: its samples are the medians of the readings since   *)
(* the last outage ("the first readings after it must not be outvoted by the ones *)
(* before it", app.cpp:345), as many as are within the window and have room, and  *)
(* its slope, if they are on a line, is the line's (filter.cpp:66-89).           *)
TrendIsOfTheLast ==
  med # -1 =>
    /\ LET gone == Len(past) - slope.n IN
         /\ gone >= 0 /\ \A i \in DOMAIN past : past[i].age > WINDOW <=> i <= gone
         /\ \A i \in Held : At(slope, i) = past[gone + i + 1]
    /\ Span >= MIN_SPAN =>
         /\ Run > 0
         /\ \A k \in -2 .. 2 : (\A i \in Held : Y[i] = Y[0] + k * X[i]) => Rise = k * Run

-----------------------------------------------------------------------------
(* Why: the count is the length of the run of equal readings in front, as far as *)
(* it is remembered.                                                         *)

RunInFront(s, n) ==
  /\ n < Len(s) /\ \A i \in 1 .. n : s[i + 1] = s[1]
  /\ n < MaxIdentical /\ n + 1 < Len(s) => s[n + 2] # s[1]

CountInv ==
  /\ period \in Periods /\ identical \in 0 .. MaxIdentical
  /\ readings \in Seq(Bits) /\ Len(readings) <= Recalled
  /\ IF readings = <<>> THEN last = Nothing /\ identical = 0
                        ELSE last = readings[1] /\ RunInFront(readings, identical)

LEMMA Constants == MaxIdentical \in Nat /\ Recalled \in Nat /\ Recalled >= 1 /\ Nothing \notin Bits
BY ProbeAssumption DEF Recalled

\* The readings after one more.
LEMMA PutInFront ==
  ASSUME NEW v \in Bits, NEW s \in Seq(Bits), Len(s) <= Recalled
  PROVE  /\ Put(v, s) \in Seq(Bits) /\ Put(v, s) # <<>> /\ Put(v, s)[1] = v
         /\ Len(Put(v, s)) = IF Len(s) < Recalled THEN Len(s) + 1 ELSE Recalled
         /\ \A i \in 2 .. Len(Put(v, s)) : i - 1 \in 1 .. Len(s) /\ Put(v, s)[i] = s[i - 1]
<1> DEFINE n == IF Len(s) < Recalled THEN Len(s) + 1 ELSE Recalled
           all == <<v>> \o s
           t == SubSeq(all, 1, n)
<1>1. n \in Nat /\ n >= 1 /\ n <= Len(s) + 1 /\ Len(s) \in Nat
  BY Constants
<1>2. /\ all \in Seq(Bits) /\ Len(all) = Len(s) + 1 /\ all[1] = v
      /\ \A i \in 2 .. Len(s) + 1 : all[i] = s[i - 1]
  BY <1>1
<1>3. Put(v, s) = t /\ n = IF Len(s) < Recalled THEN Len(s) + 1 ELSE Recalled
  BY DEF Put
<1> HIDE DEF n, all
<1>4. Len(t) = n /\ t \in Seq(Bits) /\ \A i \in 1 .. n : t[i] = all[i]
  BY <1>1, <1>2
<1> HIDE DEF t
<1>5. t # <<>> /\ t[1] = v
  BY <1>1, <1>2, <1>4
<1>6. ASSUME NEW i \in 2 .. n
      PROVE  i - 1 \in 1 .. Len(s) /\ t[i] = s[i - 1]
  <2>1. i \in 1 .. n /\ i \in 2 .. Len(s) + 1 /\ i - 1 \in 1 .. Len(s)
    BY <1>1
  <2>2. t[i] = all[i] /\ all[i] = s[i - 1]
    BY <1>2, <1>4, <2>1
  <2>3. QED BY <2>1, <2>2
<1>7. QED BY <1>3, <1>4, <1>5, <1>6

\* What a poll that was understood makes of the count.
LEMMA CountStep ==
  ASSUME CountInv, NEW v \in Bits, Count(v),
         readings' = Put(v, readings)
  PROVE  /\ identical' \in 0 .. MaxIdentical
         /\ readings' \in Seq(Bits) /\ readings' # <<>> /\ Len(readings') <= Recalled
         /\ readings'[1] = v /\ RunInFront(readings', identical')
<1>1. readings \in Seq(Bits) /\ Len(readings) \in Nat /\ Len(readings) <= Recalled /\ identical \in 0 .. MaxIdentical
  BY DEF CountInv
<1>2. /\ readings' \in Seq(Bits) /\ readings' # <<>> /\ readings'[1] = v
      /\ Len(readings') = IF Len(readings) < Recalled THEN Len(readings) + 1 ELSE Recalled
      /\ \A i \in 2 .. Len(readings') : i - 1 \in 1 .. Len(readings) /\ readings'[i] = readings[i - 1]
  <2>1. readings' = Put(v, readings)
    OBVIOUS
  <2>2. /\ Put(v, readings) \in Seq(Bits) /\ Put(v, readings) # <<>> /\ Put(v, readings)[1] = v
        /\ Len(Put(v, readings)) = IF Len(readings) < Recalled THEN Len(readings) + 1 ELSE Recalled
        /\ \A i \in 2 .. Len(Put(v, readings)) :
             i - 1 \in 1 .. Len(readings) /\ Put(v, readings)[i] = readings[i - 1]
    BY <1>1, PutInFront
  <2>3. QED BY <2>1, <2>2
<1>3. Len(readings') \in Nat /\ Len(readings') <= Recalled /\ Len(readings') >= 1
  BY <1>1, <1>2, Constants
<1>4. CASE v # last
  <2>1. identical' = 0
    BY <1>4 DEF Count
  <2>2. ASSUME 1 < Len(readings')
        PROVE  readings'[2] # v
    <3>1. readings'[2] = readings[1] /\ 1 \in 1 .. Len(readings)
      BY <1>2, <1>3, <2>2
    <3>2. last = readings[1]
      BY <3>1 DEF CountInv
    <3>3. QED BY <1>4, <3>1, <3>2
  <2>3. RunInFront(readings', 0)
    BY <1>2, <1>3, <2>2 DEF RunInFront
  <2>4. QED BY <1>2, <1>3, <2>1, <2>3, Constants
<1>5. CASE v = last
  <2>1. readings # <<>> /\ v = readings[1] /\ RunInFront(readings, identical)
    BY <1>5, Constants DEF CountInv
  <2>2. identical < Len(readings) /\ \A i \in 1 .. identical : readings[i + 1] = v
    BY <2>1 DEF RunInFront
  <2>3. identical' = IF identical < MaxIdentical THEN identical + 1 ELSE identical
    BY <1>5 DEF Count
  <2>4. identical' \in 0 .. MaxIdentical /\ identical' < Len(readings')
    BY <1>1, <1>2, <2>2, <2>3, Constants DEF Recalled
  <2>5. ASSUME NEW i \in 1 .. identical'
        PROVE  readings'[i + 1] = readings'[1]
    <3>1. i + 1 \in 2 .. Len(readings') /\ i \in Nat /\ i >= 1
      <4> DEFINE m == identical'
                 l == Len(readings')
      <4>1. m \in Nat /\ l \in Nat /\ m < l /\ i \in 1 .. m
        BY <1>3, <2>4, <2>5, Constants
      <4> HIDE DEF m, l
      <4>2. i + 1 \in 2 .. l /\ i \in Nat /\ i >= 1
        BY <4>1
      <4>3. QED BY <4>2 DEF l
    <3>2. readings'[i + 1] = readings[i]
      BY <1>2, <3>1
    <3>3. CASE i = 1
      BY <1>2, <2>1, <3>2, <3>3
    <3>4. CASE i # 1
      <4>1. i - 1 \in 1 .. identical
        BY <1>1, <2>3, <2>5, <3>4
      <4>2. readings[(i - 1) + 1] = v
        BY <2>2, <4>1
      <4>3. QED BY <1>2, <3>1, <3>2, <4>2
    <3>5. QED BY <3>3, <3>4
  <2>6. ASSUME identical' < MaxIdentical, identical' + 1 < Len(readings')
        PROVE  readings'[identical' + 2] # readings'[1]
    <3>1. identical < MaxIdentical /\ identical' = identical + 1
      BY <1>1, <2>3, <2>6, Constants
    <3>2. identical' + 2 \in 2 .. Len(readings') /\ identical + 1 < Len(readings)
      BY <1>1, <1>2, <1>3, <2>6, <3>1
    <3>3. readings'[identical' + 2] = readings[identical + 2]
      BY <1>1, <1>2, <3>1, <3>2
    <3>4. readings[identical + 2] # readings[1]
      BY <2>1, <3>1, <3>2 DEF RunInFront
    <3>5. QED BY <1>2, <2>1, <3>3, <3>4
  <2>7. RunInFront(readings', identical')
    BY <2>4, <2>5, <2>6 DEF RunInFront
  <2>8. QED BY <1>2, <1>3, <2>4, <2>7
<1>6. QED BY <1>4, <1>5

\* A sample reads, and counts, or does neither.
LEMMA SampleReads ==
  ASSUME ReadingsSample
  PROVE  /\ UNCHANGED period
         /\ \/ result'.reading = Nothing /\ UNCHANGED <<last, identical, readings>>
            \/ \E v \in Bits :
                 /\ Count(v) /\ last' = v /\ result'.reading = v
                 /\ result'.status = (IF identical' >= stuckSamples THEN "Stuck" ELSE "Ok")
                 /\ readings' = Put(v, readings)
<1>1. PICK frames : Poll(frames) /\ UNCHANGED period
  BY DEF ReadingsSample, Sample
<1>2. CASE ParseRead(frames) = "Ok"
  <2> DEFINE v == frames[1].value
  <2>1. v \in Bits
    BY <1>2 DEF ParseRead
  <2>2. /\ Count(v) /\ last' = v
        /\ result' = [status |-> IF identical' >= stuckSamples THEN "Stuck" ELSE "Ok", reading |-> v]
    BY <1>1, <1>2 DEF Poll
  <2>3. result'.reading = v /\ v # Nothing
    BY <2>1, <2>2, Constants
  <2>4. QED BY <1>1, <2>1, <2>2, <2>3 DEF ReadingsSample, Remember
<1>3. CASE ParseRead(frames) # "Ok"
  <2>1. result'.reading = Nothing /\ UNCHANGED <<last, identical>>
    BY <1>1, <1>3 DEF Poll
  <2>2. QED BY <1>1, <2>1 DEF ReadingsSample, Remember
<1>4. QED BY <1>2, <1>3

LEMMA CountInvStep ==
  ASSUME CountInv, [ReadingsNext]_readingVars
  PROVE  CountInv'
<1>1. CASE ReadingsSample
  <2>1. CASE result'.reading = Nothing /\ UNCHANGED <<last, identical, readings>>
    BY <1>1, <2>1, SampleReads DEF CountInv, RunInFront
  <2>2. ASSUME NEW v \in Bits, Count(v), last' = v,
               readings' = Put(v, readings)
        PROVE  CountInv'
    <3>1. /\ identical' \in 0 .. MaxIdentical
          /\ readings' \in Seq(Bits) /\ readings' # <<>> /\ Len(readings') <= Recalled
          /\ readings'[1] = v /\ RunInFront(readings', identical')
      BY <2>2, CountStep
    <3>2. period' \in Periods
      BY <1>1, SampleReads DEF CountInv
    <3>3. QED BY <2>2, <3>1, <3>2 DEF CountInv, RunInFront
  <2>3. QED BY <1>1, <2>1, <2>2, SampleReads
<1>2. CASE (AirCalibrate \/ SetConfig \/ Water) /\ UNCHANGED readings
  BY <1>2 DEF AirCalibrate, SetConfig, Water, CountInv, RunInFront
<1>3. CASE UNCHANGED readingVars
  BY <1>3 DEF readingVars, probeVars, CountInv, RunInFront
<1>4. QED BY <1>1, <1>2, <1>3 DEF ReadingsNext

(* A frozen probe, and only that, is called stuck, over lost, late and garbled      *)
(* answers, and every stuck_samples that a configuration makes of stuck_minutes    *)
(* (probe.cpp:87-100, sampler.cpp:180-186).                                    *)
THEOREM StuckIsFrozen == ReadingsSpec => StuckMeansFrozen
<1>1. ReadingsInit => CountInv
  BY Constants DEF ReadingsInit, ProbeInit, CountInv
<1>2. CountInv /\ [ReadingsNext]_readingVars => CountInv'
  BY CountInvStep
<1>3. ASSUME CountInv, ReadingsSample, result'.reading # Nothing
      PROVE  result'.status = "Stuck" <=> Frozen
  <2>1. PICK v \in Bits :
          /\ Count(v)
          /\ result'.status = (IF identical' >= stuckSamples THEN "Stuck" ELSE "Ok")
          /\ readings' = Put(v, readings)
    BY <1>3, SampleReads
  <2>2. /\ identical' \in 0 .. MaxIdentical /\ Len(readings') <= Recalled /\ readings' \in Seq(Bits)
        /\ RunInFront(readings', identical')
    BY <1>3, <2>1, CountStep
  <2>3. stuckSamples \in 0 .. MaxIdentical /\ MaxIdentical \in Nat /\ Len(readings') \in Nat
    BY <1>3, <2>2, ProbeAssumption DEF CountInv, stuckSamples
  <2>4. CASE identical' >= stuckSamples
    BY <2>1, <2>2, <2>3, <2>4 DEF Frozen, RunInFront
  <2>5. CASE identical' < stuckSamples
    <3>1. result'.status # "Stuck"
      BY <2>1, <2>2, <2>3, <2>5
    <3>2. ASSUME Frozen
          PROVE  FALSE
      <4>1. identical' < MaxIdentical /\ identical' + 1 < Len(readings') /\ identical' + 1 \in 1 .. stuckSamples
        <5> DEFINE m == identical'
                   l == Len(readings')
                   k == stuckSamples
        <5>1. m \in Nat /\ l \in Nat /\ k \in Nat /\ MaxIdentical \in Nat /\ k <= MaxIdentical /\ m < k /\ k < l
          BY <2>2, <2>3, <2>5, <3>2 DEF Frozen
        <5> HIDE DEF m, l, k
        <5>2. m < MaxIdentical /\ m + 1 < l /\ m + 1 \in 1 .. k
          BY <5>1
        <5>3. QED BY <5>2 DEF m, l, k
      <4>2. readings'[identical' + 2] # readings'[1]
        BY <2>2, <4>1 DEF RunInFront
      <4>3. readings'[(identical' + 1) + 1] = readings'[1]
        BY <3>2, <4>1 DEF Frozen
      <4>4. (identical' + 1) + 1 = identical' + 2
        BY <2>2
      <4>5. QED BY <4>2, <4>3, <4>4
    <3>3. QED BY <3>1, <3>2
  <2>6. QED BY <2>2, <2>3, <2>4, <2>5
<1>4. QED BY <1>1, <1>2, <1>3, PTL DEF ReadingsSpec, StuckMeansFrozen

-----------------------------------------------------------------------------
(* Why: the two rings hold, from their heads on, the ends of the histories, and   *)
(* what the slope's ring has given up is out of the window.                     *)

MedianType == [buf : [0 .. SIZE - 1 -> Values], n : 0 .. SIZE, head : 0 .. SIZE - 1]
SlopeType == [ring : [0 .. CAPACITY - 1 -> Timed], n : 0 .. CAPACITY, head : 0 .. CAPACITY - 1]

Wrap(a, n) == IF a < n THEN a ELSE a - n

\* The last readings, the oldest of them where the next one will be when the ring is full.
MedianHolds(q, s) ==
  /\ q \in MedianType /\ s \in Seq(Values) /\ Len(s) = q.n /\ (q.n < SIZE => q.head = q.n)
  /\ \A i \in 1 .. q.n : s[i] = q.buf[Wrap(q.head + SIZE - q.n + i - 1, SIZE)]

\* As long as they count, later samples are younger.
InOrder(p) == \A i, j \in DOMAIN p : i < j => p[i].age > WINDOW \/ p[i].age > p[j].age

SlopeHolds(s, p) ==
  /\ s \in SlopeType /\ p \in Seq(Timed) /\ InOrder(p) /\ s.n <= Len(p)
  /\ \A i \in 0 .. s.n - 1 : At(s, i) = p[Len(p) - s.n + i + 1]

Outside(s, p) == \A i \in 1 .. Len(p) - s.n : p[i].age > WINDOW
Inside(s, p) == \A i \in Len(p) - s.n + 1 .. Len(p) : p[i].age <= WINDOW

TrendInv ==
  /\ fails \in 0 .. FAULT /\ med \in Values \cup {-1}
  /\ MedianHolds(median, raw)
  /\ SlopeHolds(slope, past) /\ Len(past) <= CAPACITY /\ Outside(slope, past)
  /\ med # -1 => Inside(slope, past)

-----------------------------------------------------------------------------
(* Induction, by the least member of a set. *)

\* Induction over the naturals, for a set.
LEMMA Induct ==
  ASSUME NEW T \in SUBSET Nat, 0 \in T, \A n \in T : n + 1 \in T
  PROVE  T = Nat
<1> DEFINE less == OpToRel(<, Nat)
           rest == Nat \ T
<1>1. IsWellFoundedOn(less, Nat)
  BY NatLessThanWellFounded
<1>2. \A n, m \in Nat : n < m => <<n, m>> \in less
  BY DEF OpToRel
<1> HIDE DEF less
<1>3. SUFFICES ASSUME rest # {} PROVE FALSE
  OBVIOUS
<1>4. PICK m \in rest : \A n \in rest : <<n, m>> \notin less
  <2>1. rest \subseteq Nat
    OBVIOUS
  <2> HIDE DEF rest
  <2>2. QED BY <1>1, <1>3, <2>1, WFMin
<1>5. m \in Nat /\ m # 0
  OBVIOUS
<1>6. m - 1 \in Nat /\ m - 1 < m /\ m - 1 + 1 = m
  BY <1>5
<1>7. m - 1 \in T
  BY <1>2, <1>4, <1>5, <1>6
<1>8. QED BY <1>4, <1>6, <1>7

\* A set of naturals has a least member.
LEMMA Least ==
  ASSUME NEW T \in SUBSET Nat, T # {}
  PROVE  \E m \in T : \A n \in T : m <= n
<1> DEFINE R == {d \in Nat : (\E n \in T : n <= d) => \E m \in T : \A n \in T : m <= n}
<1>1. 0 \in R
  OBVIOUS
<1>2. \A d \in R : d + 1 \in R
  <2> TAKE d \in R
  <2>1. ASSUME NEW l \in T, l <= d + 1
        PROVE  \E m \in T : \A n \in T : m <= n
    <3>1. CASE \E n \in T : n <= d
      BY <3>1
    <3>2. CASE \A n \in T : ~(n <= d)
      <4>1. \A n \in T : l <= n
        BY <2>1, <3>2
      <4>2. QED BY <4>1
    <3>3. QED BY <3>1, <3>2
  <2>2. QED BY <2>1
<1>3. R = Nat
  <2>1. R \in SUBSET Nat
    OBVIOUS
  <2> HIDE DEF R
  <2>2. QED BY <1>1, <1>2, <2>1, Induct
<1>4. PICK l \in T : TRUE
  OBVIOUS
<1>5. l \in R /\ l <= l
  BY <1>3
<1>6. QED BY <1>4, <1>5

\* Once around a ring, at most.
LEMMA WrapIs ==
  ASSUME NEW n \in Nat \ {0}, NEW a \in 0 .. 2 * n - 1
  PROVE  a % n = Wrap(a, n)
<1>1. CASE a < n
  BY <1>1 DEF Wrap
<1>2. CASE a >= n
  <2>1. a % n = a - n
    BY <1>2
  <2>2. QED BY <1>2, <2>1 DEF Wrap
<1>3. QED BY <1>1, <1>2

-----------------------------------------------------------------------------
(* Sums. *)

\* The sums of the first numbers of f, for every count of them.
Sums(f, n, s) == s \in [0 .. n -> Int] /\ s[0] = 0 /\ \A i \in 0 .. n - 1 : s[i + 1] = s[i] + f[i]

\* The loop computes them.
LEMMA TotalIs ==
  ASSUME slope.n \in Nat, NEW f \in [Held -> Int]
  PROVE  \E s : Sums(f, slope.n, s) /\ Total(f) = s[slope.n]
<1> DEFINE n == slope.n  D == 0 .. n
           Next1(s, i) == IF i = 0 THEN 0 ELSE s[i - 1] + f[i - 1]
           Upto(s, d) == s \in [D -> Int] /\ \A i \in D : i <= d => s[i] = Next1(s, i)
           T == {d \in Nat : \E s : Upto(s, d)}
<1>1. 0 \in T
  <2>1. Upto([i \in D |-> 0], 0)
    OBVIOUS
  <2>2. QED BY <2>1
<1>2. \A d \in T : d + 1 \in T
  <2> TAKE d \in T
  <2>1. PICK s : Upto(s, d)
    OBVIOUS
  <2>2. CASE d + 1 \notin D
    <3>1. \A i \in D : i <= d + 1 => i <= d
      BY <2>2
    <3>2. Upto(s, d + 1)
      BY <2>1, <3>1
    <3>3. QED BY <3>2
  <2>3. CASE d + 1 \in D
    <3> DEFINE t == [i \in D |-> IF i = d + 1 THEN s[d] + f[d] ELSE s[i]]
    <3>1. d \in D /\ d \in Held /\ s[d] \in Int /\ f[d] \in Int
      BY <2>1, <2>3 DEF Held
    <3>2. t \in [D -> Int]
      BY <2>1, <3>1
    <3>3. ASSUME NEW i \in D, i <= d + 1
          PROVE  t[i] = Next1(t, i)
      <4>1. CASE i = d + 1
        BY <3>1, <4>1
      <4>2. CASE i # d + 1
        BY <2>1, <3>1, <3>3, <4>2
      <4>3. QED BY <4>1, <4>2
    <3>4. Upto(t, d + 1)
      BY <3>2, <3>3
    <3> HIDE DEF t, Upto
    <3>5. QED BY <3>4
  <2>4. QED BY <2>2, <2>3
<1>3. T = Nat
  <2>1. T \in SUBSET Nat
    OBVIOUS
  <2> HIDE DEF T
  <2>2. QED BY <1>1, <1>2, <2>1, Induct
<1>4. PICK s : s \in [D -> Int] /\ \A i \in D : s[i] = Next1(s, i)
  BY <1>3
<1>5. s = [i \in D |-> IF i = 0 THEN 0 ELSE s[i - 1] + f[i - 1]]
  BY <1>4
<1> DEFINE c == CHOOSE g : g = [i \in D |-> IF i = 0 THEN 0 ELSE g[i - 1] + f[i - 1]]
<1>6. c = [i \in D |-> IF i = 0 THEN 0 ELSE c[i - 1] + f[i - 1]]
  BY <1>5, Zenon
<1>7. Total(f) = c[n]
  BY DEF Total
<1> HIDE DEF c
<1> DEFINE U == {d \in Nat : d \in D => c[d] \in Int}
<1>8. 0 \in U
  BY <1>6
<1>9. \A d \in U : d + 1 \in U
  <2> TAKE d \in U
  <2>1. ASSUME d + 1 \in D
        PROVE  c[d + 1] \in Int
    <3>1. d \in D /\ d \in Held /\ c[d] \in Int /\ f[d] \in Int
      BY <2>1 DEF Held
    <3>2. c[d + 1] = c[d + 1 - 1] + f[d + 1 - 1]
      BY <1>6, <2>1
    <3>3. QED BY <3>1, <3>2
  <2>2. QED BY <2>1
<1>10. U = Nat
  <2>1. U \in SUBSET Nat
    OBVIOUS
  <2> HIDE DEF U
  <2>2. QED BY <1>8, <1>9, <2>1, Induct
<1>11. c \in [D -> Int]
  <2>1. \A i \in D : c[i] \in Int
    BY <1>10
  <2>2. QED BY <1>6, <2>1
<1>12. c[0] = 0 /\ \A i \in 0 .. n - 1 : c[i + 1] = c[i] + f[i]
  <2>1. \A i \in D : c[i] = IF i = 0 THEN 0 ELSE c[i - 1] + f[i - 1]
    BY <1>6
  <2>2. 0 \in D
    OBVIOUS
  <2>3. ASSUME NEW i \in 0 .. n - 1
        PROVE  c[i + 1] = c[i] + f[i]
    <3>1. i + 1 \in D /\ i + 1 # 0 /\ i + 1 - 1 = i
      OBVIOUS
    <3>2. QED BY <2>1, <3>1
  <2>4. QED BY <2>1, <2>2, <2>3
<1>13. QED BY <1>7, <1>11, <1>12 DEF Sums

-----------------------------------------------------------------------------
(* The fit: what least squares give for samples on a line. *)

\* One more number: the sum of squares about z, and the spread, grow by squares.
LEMMA SquaresGrow ==
  ASSUME NEW m \in Int, NEW z \in Int, NEW v \in Int, NEW a \in Int, NEW b \in Int
  PROVE  /\ (m + 1) * (z * z) - 2 * (z * (a + v)) + (b + v * v) = (m * (z * z) - 2 * (z * a) + b) + (z - v) * (z - v)
         /\ (m + 1) * (b + v * v) - (a + v) * (a + v) = (m * b - a * a) + (m * (v * v) - 2 * (v * a) + b)
OBVIOUS

\* One more point of a line: its sums, and the slope of them.
LEMMA LineGrows ==
  ASSUME NEW m \in Int, NEW k \in Int, NEW o \in Int, NEW v \in Int, NEW p \in Int, NEW q \in Int
  PROVE  /\ (m * o + k * p) + (o + k * v) = (m + 1) * o + k * (p + v)
         /\ (o * p + k * q) + v * (o + k * v) = o * (p + v) + k * (q + v * v)
         /\ m * (o * p + k * q) - p * (m * o + k * p) = k * (m * q - p * p)
OBVIOUS

\* Named, to keep the provers from multiplying it out.
Square(v) == v * v

\* A square is never negative.
LEMMA SquareIs ==
  ASSUME NEW v \in Int
  PROVE  Square(v) \in Int /\ Square(v) >= 0 /\ (v > 0 => Square(v) > 0)
BY DEF Square

\* Numbers from 0 to more than 0 have a spread: n times the sum of squares is more than the square of the sum.
LEMMA SpreadIsPositive ==
  ASSUME NEW n \in Nat, n >= 2, NEW x \in [0 .. n - 1 -> Int], NEW xx \in [0 .. n - 1 -> Int],
         \A i \in 0 .. n - 1 : xx[i] = x[i] * x[i],
         NEW a, Sums(x, n, a), NEW b, Sums(xx, n, b),
         x[0] = 0, x[n - 1] > 0
  PROVE  n * b[n] - a[n] * a[n] > 0
<1> DEFINE About(m, z) == m * (z * z) - 2 * (z * a[m]) + b[m]
           Spread(m) == m * b[m] - a[m] * a[m]
<1>1. \A m \in 0 .. n : a[m] \in Int /\ b[m] \in Int
  BY DEF Sums
<1>2. a[0] = 0 /\ b[0] = 0 /\ a[1] = 0 /\ b[1] = 0
  <2>1. 0 \in 0 .. n - 1 /\ 0 + 1 = 1
    OBVIOUS
  <2>2. a[0 + 1] = a[0] + x[0] /\ b[0 + 1] = b[0] + xx[0] /\ xx[0] = 0
    BY <2>1 DEF Sums
  <2>3. QED BY <2>1, <2>2 DEF Sums
<1>3. ASSUME NEW m \in 1 .. n - 1
      PROVE  /\ \A z \in Int : About(m + 1, z) = About(m, z) + Square(z - x[m])
             /\ Spread(m + 1) = Spread(m) + About(m, x[m])
             /\ x[m] \in Int
  <2>1. m \in 0 .. n - 1 /\ m \in 0 .. n /\ m \in Int
    OBVIOUS
  <2>2. PICK v \in Int : v = x[m]
    BY <2>1
  <2>3. a[m + 1] = a[m] + v /\ b[m + 1] = b[m] + v * v
    BY <2>1, <2>2 DEF Sums
  <2>4. PICK c \in Int, d \in Int : c = a[m] /\ d = b[m]
    BY <1>1, <2>1
  <2>5. ASSUME NEW z \in Int
        PROVE  About(m + 1, z) = About(m, z) + Square(z - v)
    <3>1. (m + 1) * (z * z) - 2 * (z * (c + v)) + (d + v * v) = (m * (z * z) - 2 * (z * c) + d) + (z - v) * (z - v)
      BY <2>1, SquaresGrow
    <3>2. QED BY <2>3, <2>4, <3>1, Zenon DEF Square
  <2>6. Spread(m + 1) = Spread(m) + About(m, v)
    <3>1. (m + 1) * (d + v * v) - (c + v) * (c + v) = (m * d - c * c) + (m * (v * v) - 2 * (v * c) + d)
      BY <2>1, SquaresGrow
    <3>2. QED BY <2>3, <2>4, <3>1, Zenon
  <2> HIDE DEF About, Spread
  <2>7. QED BY <2>2, <2>5, <2>6
<1>4. \A z \in Int : About(1, z) = Square(z)
  <2> TAKE z \in Int
  <2>1. 1 * (z * z) - 2 * (z * 0) + 0 = z * z
    OBVIOUS
  <2>2. QED BY <1>2, <2>1, Zenon DEF Square
<1>5. Spread(1) = 0
  BY <1>2
<1>6. \A m \in 1 .. n : \A z \in Int : About(m, z) \in Int /\ Spread(m) \in Int
  <2> TAKE m \in 1 .. n
  <2> TAKE z \in Int
  <2>0. m \in 0 .. n
    OBVIOUS
  <2>1. PICK c \in Int, d \in Int : c = a[m] /\ d = b[m]
    BY <1>1, <2>0
  <2>2. m * (z * z) - 2 * (z * c) + d \in Int /\ m * d - c * c \in Int
    OBVIOUS
  <2>3. QED BY <2>1, <2>2, Zenon
<1> HIDE DEF About, Spread
<1> DEFINE T == {m \in Nat : m + 1 \in 1 .. n => /\ \A z \in Int : About(m + 1, z) >= Square(z)
                                                 /\ Spread(m + 1) >= 0}
<1>7. 0 \in T
  <2>1. \A z \in Int : Square(z) \in Int
    BY SquareIs
  <2>2. \A z \in Int : About(0 + 1, z) >= Square(z)
    BY <1>4, <2>1
  <2>3. Spread(0 + 1) >= 0
    BY <1>5
  <2>4. QED BY <2>2, <2>3
<1>8. \A m \in T : m + 1 \in T
  <2> TAKE m \in T
  <2>1. ASSUME m + 1 + 1 \in 1 .. n
        PROVE  (\A z \in Int : About(m + 1 + 1, z) >= Square(z)) /\ Spread(m + 1 + 1) >= 0
    <3> DEFINE k == m + 1
    <3>1. k \in 1 .. n - 1 /\ k \in 1 .. n
      BY <2>1
    <3>2. (\A z \in Int : About(k, z) >= Square(z)) /\ Spread(k) >= 0
      BY <3>1
    <3>3. /\ \A z \in Int : About(k + 1, z) = About(k, z) + Square(z - x[k])
          /\ Spread(k + 1) = Spread(k) + About(k, x[k])
          /\ x[k] \in Int
      BY <1>3, <3>1
    <3> HIDE DEF k, T
    <3>4. ASSUME NEW z \in Int
          PROVE  About(k + 1, z) >= Square(z)
      <4>1. PICK v \in Int : v = x[k]
        BY <3>3, Zenon
      <4>2. z - v \in Int /\ About(k + 1, z) = About(k, z) + Square(z - v)
        <5>1. About(k + 1, z) = About(k, z) + Square(z - x[k])
          BY <3>3, Zenon
        <5>2. z - v \in Int
          OBVIOUS
        <5>3. QED BY <4>1, <5>1, <5>2, Zenon
      <4>3. PICK s \in Int : s = Square(z - v) /\ s >= 0
        BY <4>2, SquareIs
      <4>4. PICK q \in Int : q = Square(z)
        BY SquareIs
      <4>5. PICK p \in Int : p = About(k, z) /\ p >= q
        BY <1>6, <3>1, <3>2, <4>4
      <4>6. About(k + 1, z) = p + s
        BY <4>2, <4>3, <4>5, Zenon
      <4>7. p + s >= q
        BY <4>3, <4>5
      <4>8. QED BY <4>4, <4>6, <4>7, Zenon
    <3>5. Spread(k + 1) >= 0
      <4>1. PICK q \in Int : q = Square(x[k]) /\ q >= 0
        BY <3>3, SquareIs
      <4>2. About(k, x[k]) >= q /\ About(k, x[k]) \in Int /\ Spread(k) \in Int
        BY <1>6, <3>1, <3>2, <3>3, <4>1
      <4>3. QED BY <3>2, <3>3, <4>1, <4>2
    <3>6. QED BY <3>4, <3>5 DEF k
  <2>2. QED BY <2>1
<1>9. T = Nat
  <2>1. T \in SUBSET Nat
    OBVIOUS
  <2> HIDE DEF T
  <2>2. QED BY <1>7, <1>8, <2>1, Induct
<1>10. PICK k \in 1 .. n - 1 : k + 1 = n
  OBVIOUS
<1>11. (\A z \in Int : About(k, z) >= Square(z)) /\ Spread(k) >= 0
  <2>1. k - 1 \in Nat /\ k - 1 + 1 = k /\ k \in 1 .. n
    OBVIOUS
  <2>2. k - 1 \in T
    <3> HIDE DEF T
    <3>1. QED BY <1>9, <2>1
  <2>3. (\A z \in Int : About(k - 1 + 1, z) >= Square(z)) /\ Spread(k - 1 + 1) >= 0
    BY <2>1, <2>2
  <2>4. QED BY <2>1, <2>3
<1>12. k = n - 1 /\ x[k] \in Int /\ x[k] > 0 /\ Spread(n) = Spread(k) + About(k, x[k])
  <2>1. k = n - 1
    BY <1>10
  <2>2. QED BY <1>3, <1>10, <2>1
<1>13. PICK q \in Int : q = Square(x[k]) /\ q > 0
  BY <1>12, SquareIs
<1>14. About(k, x[k]) >= q /\ About(k, x[k]) \in Int /\ Spread(k) \in Int
  BY <1>6, <1>11, <1>12, <1>13
<1>15. Spread(n) > 0
  BY <1>11, <1>12, <1>13, <1>14
<1>16. QED BY <1>15 DEF Spread

\* Values on a line, and the sums of the fit through them.
OnLine(n, x, xx, y, xy, a, b, c, d, k, y0) ==
  /\ \A i \in 0 .. n - 1 : xx[i] = x[i] * x[i] /\ xy[i] = x[i] * y[i]
  /\ Sums(x, n, a) /\ Sums(xx, n, b) /\ Sums(y, n, c) /\ Sums(xy, n, d)
  /\ \A i \in 0 .. n - 1 : y[i] = y0 + k * x[i]

\* Rise and Run of them.
Fits(n, a, b, c, d, k) == n * d[n] - a[n] * c[n] = k * (n * b[n] - a[n] * a[n])

\* Of values on a line through the first one, the slope is the line's.
LEMMA LineIs ==
  ASSUME NEW n \in Nat, NEW x \in [0 .. n - 1 -> Int], NEW xx \in [0 .. n - 1 -> Int],
         NEW y \in [0 .. n - 1 -> Int], NEW xy \in [0 .. n - 1 -> Int], NEW a, NEW b, NEW c, NEW d,
         NEW k \in Int, NEW y0 \in Int, OnLine(n, x, xx, y, xy, a, b, c, d, k, y0)
  PROVE  Fits(n, a, b, c, d, k)
<1>0. /\ \A i \in 0 .. n - 1 : xx[i] = x[i] * x[i] /\ xy[i] = x[i] * y[i]
      /\ Sums(x, n, a) /\ Sums(xx, n, b) /\ Sums(y, n, c) /\ Sums(xy, n, d)
      /\ \A i \in 0 .. n - 1 : y[i] = y0 + k * x[i]
  BY DEF OnLine
<1>1. \A m \in 0 .. n : a[m] \in Int /\ b[m] \in Int /\ c[m] \in Int /\ d[m] \in Int
  BY <1>0 DEF Sums
<1> DEFINE T == {m \in Nat : m \in 0 .. n => c[m] = m * y0 + k * a[m] /\ d[m] = y0 * a[m] + k * b[m]}
<1>2. 0 \in T
  BY <1>0 DEF Sums
<1>3. \A m \in T : m + 1 \in T
  <2> TAKE m \in T
  <2>1. ASSUME m + 1 \in 0 .. n
        PROVE  c[m + 1] = (m + 1) * y0 + k * a[m + 1] /\ d[m + 1] = y0 * a[m + 1] + k * b[m + 1]
    <3>1. m \in 0 .. n - 1 /\ m \in 0 .. n /\ m \in Int
      BY <2>1
    <3>2. PICK v \in Int : v = x[m] /\ y[m] = y0 + k * v
      BY <1>0, <3>1
    <3>3. a[m] \in Int /\ b[m] \in Int
      BY <1>1, <3>1
    <3>4. PICK p \in Int, q \in Int : p = a[m] /\ q = b[m]
      BY <3>3
    <3>5. c[m] = m * y0 + k * p /\ d[m] = y0 * p + k * q
      BY <3>1, <3>4
    <3> HIDE DEF T
    <3>6. /\ a[m + 1] = p + v /\ b[m + 1] = q + v * v
          /\ c[m + 1] = (m * y0 + k * p) + (y0 + k * v)
          /\ d[m + 1] = (y0 * p + k * q) + v * (y0 + k * v)
      BY <1>0, <3>1, <3>2, <3>4, <3>5, Zenon DEF Sums
    <3>7. /\ (m * y0 + k * p) + (y0 + k * v) = (m + 1) * y0 + k * (p + v)
          /\ (y0 * p + k * q) + v * (y0 + k * v) = y0 * (p + v) + k * (q + v * v)
      BY <3>1, LineGrows
    <3>8. QED BY <3>6, <3>7, Zenon
  <2>2. QED BY <2>1
<1>4. T = Nat
  <2>1. T \in SUBSET Nat
    OBVIOUS
  <2> HIDE DEF T
  <2>2. QED BY <1>2, <1>3, <2>1, Induct
<1>5. a[n] \in Int /\ b[n] \in Int
  BY <1>1
<1>6. PICK p \in Int, q \in Int : p = a[n] /\ q = b[n]
  BY <1>5
<1>7. n \in T /\ n \in 0 .. n
  <2> HIDE DEF T
  <2>1. QED BY <1>4
<1>8. c[n] = n * y0 + k * p /\ d[n] = y0 * p + k * q
  BY <1>6, <1>7
<1> HIDE DEF T
<1>9. n * (y0 * p + k * q) - p * (n * y0 + k * p) = k * (n * q - p * p)
  BY LineGrows
<1>10. QED BY <1>6, <1>8, <1>9, Zenon DEF Fits

\* The fit over samples that span MIN_SPAN, in whatever order they are.
LEMMA FitIs ==
  ASSUME slope.n \in Nat, \A i \in Held : At(slope, i) \in Timed, Span >= MIN_SPAN
  PROVE  Run > 0 /\ \A k \in Int : (\A i \in Held : Y[i] = Y[0] + k * X[i]) => Rise = k * Run
<1> DEFINE n == slope.n
           XX == Products(X, X)
           XY == Products(X, Y)
<1>1. MIN_SPAN \in Nat /\ MIN_SPAN > 0 /\ WINDOW \in Nat /\ Values \subseteq Nat
  BY TrendAssumption
<1>2. n >= 2 /\ At(slope, 0).age - At(slope, n - 1).age > 0 /\ n \in Nat
  <2>1. n >= 2
    BY <1>1 DEF Span
  <2>2. Span = At(slope, 0).age - At(slope, n - 1).age
    BY <2>1 DEF Span
  <2>3. 0 \in Held /\ n - 1 \in Held
    BY <2>1 DEF Held
  <2>4. At(slope, 0).age \in Int /\ At(slope, n - 1).age \in Int
    BY <1>1, <2>3 DEF Timed
  <2>5. QED BY <1>1, <2>1, <2>2, <2>4
<1>3. \A i \in Held : At(slope, i).age \in Int /\ At(slope, i).v \in Int
  <2> TAKE i \in Held
  <2>1. PICK e \in Timed : e = At(slope, i)
    OBVIOUS
  <2>2. e.age \in 0 .. WINDOW + 1 /\ e.v \in Values
    BY DEF Timed
  <2>3. e.age \in Int
    BY <1>1, <2>2
  <2>4. e.v \in Nat
    BY <1>1, <2>2, Zenon
  <2>5. QED BY <2>1, <2>3, <2>4
<1>4. Held = 0 .. n - 1 /\ 0 \in Held /\ n - 1 \in Held
  BY <1>2 DEF Held
<1>5. X \in [Held -> Int] /\ X[0] = 0 /\ X[n - 1] > 0
  <2>1. \A i \in Held : X[i] = At(slope, 0).age - At(slope, i).age /\ X[i] \in Int
    BY <1>3, <1>4 DEF X
  <2>2. X \in [Held -> Int]
    BY <2>1 DEF X
  <2>3. QED BY <1>2, <1>3, <1>4, <2>1, <2>2
<1>6. Y \in [Held -> Int]
  BY <1>3 DEF Y
<1>7. /\ XX \in [Held -> Int] /\ \A i \in Held : XX[i] = X[i] * X[i]
      /\ XY \in [Held -> Int] /\ \A i \in Held : XY[i] = X[i] * Y[i]
  <2>1. \A i \in Held : X[i] * X[i] \in Int /\ X[i] * Y[i] \in Int
    BY <1>5, <1>6
  <2>2. QED BY <2>1 DEF Products
<1>8. Run = n * Total(XX) - Total(X) * Total(X) /\ Rise = n * Total(XY) - Total(X) * Total(Y)
  BY DEF Run, Rise
<1> HIDE DEF XX, XY
<1>9. PICK a : Sums(X, n, a) /\ Total(X) = a[n]
  BY <1>5, TotalIs
<1>10. PICK b : Sums(XX, n, b) /\ Total(XX) = b[n]
  BY <1>7, TotalIs
<1>11. PICK c : Sums(Y, n, c) /\ Total(Y) = c[n]
  BY <1>6, TotalIs
<1>12. PICK d : Sums(XY, n, d) /\ Total(XY) = d[n]
  BY <1>7, TotalIs
<1> HIDE DEF n
<1>13. X \in [0 .. n - 1 -> Int] /\ XX \in [0 .. n - 1 -> Int] /\ Y \in [0 .. n - 1 -> Int] /\ XY \in [0 .. n - 1 -> Int]
  BY <1>4, <1>5, <1>6, <1>7, Zenon
<1>14. Run > 0
  <2>1. n * b[n] - a[n] * a[n] > 0
    <3>1. \A i \in 0 .. n - 1 : XX[i] = X[i] * X[i]
      BY <1>4, <1>7, Zenon
    <3>2. QED BY <1>2, <1>5, <1>9, <1>10, <1>13, <3>1, SpreadIsPositive
  <2>2. QED BY <1>8, <1>9, <1>10, <2>1, Zenon
<1>15. ASSUME NEW k \in Int, \A i \in Held : Y[i] = Y[0] + k * X[i]
       PROVE  Rise = k * Run
  <2>1. n * d[n] - a[n] * c[n] = k * (n * b[n] - a[n] * a[n])
    <3>1. \A i \in 0 .. n - 1 : XX[i] = X[i] * X[i] /\ XY[i] = X[i] * Y[i]
      BY <1>4, <1>7, Zenon
    <3>2. PICK o \in Int : o = Y[0]
      BY <1>4, <1>6
    <3>3. \A i \in 0 .. n - 1 : Y[i] = o + k * X[i]
      BY <1>4, <1>15, <3>2, Zenon
    <3>4. Sums(X, n, a) /\ Sums(XX, n, b) /\ Sums(Y, n, c) /\ Sums(XY, n, d)
      BY <1>9, <1>10, <1>11, <1>12
    <3>5. OnLine(n, X, XX, Y, XY, a, b, c, d, k, o)
      BY <3>1, <3>3, <3>4 DEF OnLine
    <3>6. n \in Nat
      BY <1>2
    <3>7. Fits(n, a, b, c, d, k)
      BY <1>13, <3>5, <3>6, LineIs
    <3>8. QED BY <3>7, Zenon DEF Fits
  <2>2. QED BY <1>8, <1>9, <1>10, <1>11, <1>12, <2>1, Zenon
<1>16. QED BY <1>14, <1>15

-----------------------------------------------------------------------------
(* The median. *)

\* One place for each of n numbers.
Places(n, place) ==
  /\ place \in [1 .. n -> 0 .. n - 1]
  /\ \A i, j \in 1 .. n : place[i] = place[j] => i = j
  /\ \A j \in 0 .. n - 1 : \E i \in 1 .. n : place[i] = j

\* Numbers counted by where they are are as many wherever that is.
LEMMA SameCount ==
  ASSUME NEW n \in Nat, NEW A \in SUBSET (0 .. n - 1), NEW place, Places(n, place)
  PROVE  Cardinality({i \in 1 .. n : place[i] \in A}) = Cardinality(A)
<1> DEFINE B == {i \in 1 .. n : place[i] \in A}
           f == [i \in B |-> place[i]]
<1>1. f \in Bijection(B, A)
  <2>1. f \in [B -> A]
    OBVIOUS
  <2>2. \A i, j \in B : f[i] = f[j] => i = j
    BY DEF Places
  <2>3. \A t \in A : \E i \in B : f[i] = t
    BY DEF Places
  <2> HIDE DEF f, B
  <2>4. f \in Injection(B, A)
    BY <2>1, <2>2, Zenon DEF Injection, IsInjective
  <2>5. f \in Surjection(B, A)
    BY <2>1, <2>3 DEF Surjection
  <2>6. QED BY <2>4, <2>5 DEF Bijection
<1>2. IsFiniteSet(B)
  <2>1. IsFiniteSet(1 .. n) /\ B \in SUBSET (1 .. n)
    BY FS_Interval
  <2> HIDE DEF B
  <2>2. QED BY <2>1, FS_Subset
<1> HIDE DEF f, B
<1>3. ExistsBijection(B, A)
  BY <1>1 DEF ExistsBijection
<1>4. Cardinality(A) = Cardinality(B)
  BY <1>2, <1>3, FS_Bijection
<1>5. QED BY <1>4 DEF B

\* Finitely many naturals have a bound.
LEMMA Bounded ==
  ASSUME NEW n \in Nat, NEW g \in [0 .. n - 1 -> Nat]
  PROVE  \E b \in Nat : \A i \in 0 .. n - 1 : g[i] <= b
<1> DEFINE T == {d \in Nat : \E b \in Nat : \A i \in 0 .. n - 1 : i < d => g[i] <= b}
<1>1. 0 \in T
  OBVIOUS
<1>2. \A d \in T : d + 1 \in T
  <2> TAKE d \in T
  <2>1. PICK b \in Nat : \A i \in 0 .. n - 1 : i < d => g[i] <= b
    OBVIOUS
  <2>2. CASE d \in 0 .. n - 1
    <3>1. PICK c \in Nat : c >= b /\ c >= g[d]
      <4>1. g[d] \in Nat
        BY <2>2
      <4>2. b >= g[d] \/ g[d] >= b
        BY <4>1
      <4>3. QED BY <4>1, <4>2
    <3>2. \A i \in 0 .. n - 1 : i < d + 1 => g[i] <= c
      <4> TAKE i \in 0 .. n - 1
      <4>1. g[i] \in Nat /\ (i < d => g[i] <= b)
        BY <2>1
      <4>2. CASE i = d
        BY <3>1, <4>2
      <4>3. CASE i # d
        <5>1. i < d + 1 => i < d
          BY <4>3
        <5>2. QED BY <3>1, <4>1, <5>1
      <4>4. QED BY <4>2, <4>3
    <3>3. QED BY <3>2
  <2>3. CASE d \notin 0 .. n - 1
    <3>1. \A i \in 0 .. n - 1 : i < d + 1 => i < d
      BY <2>3
    <3>2. \A i \in 0 .. n - 1 : i < d + 1 => g[i] <= b
      BY <2>1, <3>1
    <3>3. QED BY <3>2
  <2>4. QED BY <2>2, <2>3
<1>3. T = Nat
  <2>1. T \in SUBSET Nat
    OBVIOUS
  <2> HIDE DEF T
  <2>2. QED BY <1>1, <1>2, <2>1, Induct
<1>4. n \in T
  <2> HIDE DEF T
  <2>1. QED BY <1>3
<1>5. QED BY <1>4

\* The k-th smallest, from 0: at most k are below it, and more than k up to it.
IsKth(n, g, k, v) ==
  /\ Cardinality({i \in 0 .. n - 1 : g[i] < v}) <= k
  /\ Cardinality({i \in 0 .. n - 1 : g[i] <= v}) > k

\* There is a k-th smallest of n numbers.
LEMMA KthExists ==
  ASSUME NEW n \in Nat, NEW g \in [0 .. n - 1 -> Nat], NEW k \in 0 .. n - 1
  PROVE  \E v \in {g[i] : i \in 0 .. n - 1} : IsKth(n, g, k, v)
<1> DEFINE D == 0 .. n - 1
           Below(v) == {i \in D : g[i] < v}
           Upto(v) == {i \in D : g[i] <= v}
           T == {v \in Nat : Cardinality(Upto(v)) > k}
<1>1. \A v \in Nat : Cardinality(Upto(v)) \in Nat /\ Cardinality(Below(v)) \in Nat
  <2> TAKE v \in Nat
  <2>1. IsFiniteSet(D) /\ Upto(v) \in SUBSET D /\ Below(v) \in SUBSET D
    BY FS_Interval
  <2> HIDE DEF Upto, Below
  <2>2. QED BY <2>1, FS_Subset, FS_CardinalityType
<1>2. T # {}
  <2>1. PICK b \in Nat : \A i \in D : g[i] <= b
    BY Bounded
  <2>2. Upto(b) = D
    BY <2>1
  <2>3. Cardinality(D) = n
    BY FS_Interval
  <2>4. n > k
    OBVIOUS
  <2>5. b \in T
    BY <2>2, <2>3, <2>4
  <2>6. QED BY <2>5
<1>3. PICK m \in T : \A v \in T : m <= v
  <2>1. T \in SUBSET Nat
    OBVIOUS
  <2> HIDE DEF T
  <2>2. QED BY <1>2, <2>1, Least
<1>4. Cardinality(Below(m)) <= k
  <2>1. CASE m = 0
    <3>1. Below(m) = {}
      BY <2>1
    <3>2. Cardinality(Below(m)) = 0
      BY <3>1, FS_EmptySet
    <3>3. QED BY <3>2
  <2>2. CASE m # 0
    <3>1. m - 1 \in Nat /\ m - 1 < m
      BY <2>2
    <3>2. m - 1 \notin T
      <4>1. ASSUME m - 1 \in T PROVE FALSE
        <5>1. m <= m - 1 /\ m \in Nat
          BY <1>3, <4>1
        <5>2. QED BY <5>1
      <4>2. QED BY <4>1
    <3>3. Below(m) = Upto(m - 1)
      BY <3>1
    <3> HIDE DEF Below, Upto
    <3>4. QED BY <1>1, <3>1, <3>2, <3>3
  <2>3. QED BY <2>1, <2>2
<1>5. \E i \in D : g[i] = m
  <2>1. SUFFICES ASSUME \A i \in D : g[i] # m PROVE FALSE
    OBVIOUS
  <2>2. Below(m) = Upto(m)
    BY <2>1
  <2> HIDE DEF Below, Upto
  <2>3. Cardinality(Upto(m)) > k
    OBVIOUS
  <2>4. QED BY <1>1, <1>4, <2>2, <2>3
<1>6. IsKth(n, g, k, m)
  BY <1>4 DEF IsKth
<1>7. QED BY <1>5, <1>6

\* Where the oldest, the next, ... of the median's readings are.
PlacesIn(size, n, h) == [i \in 1 .. n |-> Wrap(h + size - n + i - 1, size)]

\* Where the readings are in the median's ring: all its places, each once.
LEMMA PlacesOfMedian ==
  ASSUME NEW size \in Nat \ {0}, NEW n \in 0 .. size, NEW h \in 0 .. size - 1, n < size => h = n
  PROVE  Places(n, PlacesIn(size, n, h))
<1> DEFINE place == PlacesIn(size, n, h)
<1>0. place = [i \in 1 .. n |-> place[i]] /\ \A i \in 1 .. n : place[i] = Wrap(h + size - n + i - 1, size)
  BY DEF PlacesIn
<1> HIDE DEF place
<1>1. CASE n < size
  <2>1. \A i \in 1 .. n : place[i] = i - 1
    <3> TAKE i \in 1 .. n
    <3>1. h + size - n + i - 1 = size + i - 1 /\ ~(size + i - 1 < size)
      BY <1>1
    <3>2. place[i] = Wrap(size + i - 1, size)
      BY <1>0, <3>1
    <3>3. QED BY <3>1, <3>2 DEF Wrap
  <2>2. \A i \in 1 .. n : i - 1 \in 0 .. n - 1
    OBVIOUS
  <2>3. place \in [1 .. n -> 0 .. n - 1]
    BY <1>0, <2>1, <2>2
  <2>4. \A j \in 0 .. n - 1 : \E i \in 1 .. n : place[i] = j
    <3> TAKE j \in 0 .. n - 1
    <3>1. PICK i \in 1 .. n : i = j + 1
      OBVIOUS
    <3>2. place[i] = i - 1
      BY <2>1
    <3>3. QED BY <3>1, <3>2
  <2>5. \A i, j \in 1 .. n : place[i] = place[j] => i = j
    BY <2>1
  <2>6. QED BY <1>0, <2>3, <2>4, <2>5 DEF Places, place
<1>2. CASE n = size
  <2>1. \A i \in 1 .. n : place[i] = IF h + i - 1 < size THEN h + i - 1 ELSE h + i - 1 - size
    <3> TAKE i \in 1 .. n
    <3>1. h + size - n + i - 1 = h + i - 1
      BY <1>2
    <3>2. place[i] = Wrap(h + i - 1, size)
      BY <1>0, <3>1
    <3>3. QED BY <3>2 DEF Wrap
  <2>2. \A i \in 1 .. n : place[i] \in 0 .. n - 1
    BY <1>2, <2>1
  <2>3. place \in [1 .. n -> 0 .. n - 1]
    BY <1>0, <2>2
  <2>4. \A i, j \in 1 .. n : place[i] = place[j] => i = j
    BY <1>2, <2>1
  <2>5. \A j \in 0 .. n - 1 : \E i \in 1 .. n : place[i] = j
    <3> TAKE j \in 0 .. n - 1
    <3>1. CASE j >= h
      <4>1. PICK i \in 1 .. n : i = j - h + 1
        BY <1>2, <3>1
      <4>2. h + i - 1 = j /\ j < size
        BY <1>2, <4>1
      <4>3. place[i] = j
        BY <2>1, <4>2
      <4>4. QED BY <4>3
    <3>2. CASE j < h
      <4>1. PICK i \in 1 .. n : i = j - h + 1 + size
        BY <1>2, <3>2
      <4>2. h + i - 1 = j + size /\ ~(j + size < size)
        BY <4>1
      <4>3. place[i] = j + size - size
        BY <2>1, <4>2
      <4>4. QED BY <4>3
    <3>3. QED BY <3>1, <3>2
  <2>6. QED BY <1>0, <2>3, <2>4, <2>5 DEF Places, place
<1>3. QED BY <1>1, <1>2

\* Less than k + 1 are below it and more than k up to it: there is one such number at most.
LEMMA KthIsOne ==
  ASSUME NEW n \in Nat, NEW g \in [0 .. n - 1 -> Nat], NEW k \in Int, NEW v \in Nat, NEW w \in Nat,
         IsKth(n, g, k, v), IsKth(n, g, k, w)
  PROVE  w <= v
<1>1. SUFFICES ASSUME v < w PROVE FALSE
  OBVIOUS
<1> DEFINE A == {i \in 0 .. n - 1 : g[i] <= v}
           B == {i \in 0 .. n - 1 : g[i] < w}
<1>2. A \in SUBSET B
  BY <1>1
<1>3. IsFiniteSet(B)
  <2>1. IsFiniteSet(0 .. n - 1) /\ B \in SUBSET (0 .. n - 1)
    BY FS_Interval
  <2> HIDE DEF B
  <2>2. QED BY <2>1, FS_Subset
<1> HIDE DEF A, B
<1>5. Cardinality(A) <= Cardinality(B) /\ IsFiniteSet(A)
  BY <1>2, <1>3, FS_Subset
<1>6. Cardinality(A) \in Nat /\ Cardinality(B) \in Nat
  BY <1>3, <1>5, FS_CardinalityType
<1>7. Cardinality(A) > k /\ Cardinality(B) <= k
  BY DEF A, B, IsKth
<1>8. QED BY <1>5, <1>6, <1>7

\* The median the ring gives is that of the last readings.
LEMMA MiddleIs ==
  ASSUME NEW q, NEW s, MedianHolds(q, s), q.n >= 1
  PROVE  Middle(q) = MedianOf(s) /\ Middle(q) \in Values
<1>1. SIZE \in Nat \ {0} /\ Values \subseteq Nat
  BY TrendAssumption
<1>2. PICK n \in 1 .. SIZE, h \in 0 .. SIZE - 1 : n = q.n /\ h = q.head
  BY <1>1 DEF MedianHolds, MedianType
<1> DEFINE D == 0 .. n - 1
           g == [j \in D |-> q.buf[j]]
           k == (n - 1) \div 2
           place == PlacesIn(SIZE, n, h)
<1>3. g \in [D -> Nat] /\ \A j \in D : g[j] = q.buf[j] /\ g[j] \in Values
  <2>1. \A j \in D : j \in 0 .. SIZE - 1
    BY <1>1
  <2>2. q.buf \in [0 .. SIZE - 1 -> Values]
    BY DEF MedianHolds, MedianType
  <2>3. \A j \in D : q.buf[j] \in Values /\ q.buf[j] \in Nat
    BY <1>1, <2>1, <2>2
  <2>4. QED BY <2>3
<1>4. n \in Nat /\ k \in 0 .. n - 1
  BY <1>1
<1>5. Places(n, place)
  <2>1. n \in 0 .. SIZE /\ (n < SIZE => h = n)
    BY <1>1, <1>2 DEF MedianHolds
  <2>2. QED BY <1>1, <2>1, PlacesOfMedian
<1>6. s \in Seq(Values) /\ DOMAIN s = 1 .. n /\ Len(s) = n /\ \A i \in 1 .. n : s[i] = g[place[i]]
  <2>1. s \in Seq(Values) /\ Len(s) = n /\ \A i \in 1 .. n : s[i] = q.buf[place[i]]
    BY <1>2 DEF MedianHolds, PlacesIn
  <2>2. \A i \in 1 .. n : place[i] \in D
    BY <1>5 DEF Places
  <2> HIDE DEF place
  <2>3. QED BY <1>3, <2>1, <2>2
<1> HIDE DEF place
<1>7. {s[i] : i \in DOMAIN s} = {q.buf[i] : i \in 0 .. q.n - 1} /\ {q.buf[i] : i \in 0 .. q.n - 1} = {g[i] : i \in D}
  <2>1. {s[i] : i \in 1 .. n} = {g[j] : j \in D}
    <3>1. \A i \in 1 .. n : place[i] \in D
      BY <1>5 DEF Places
    <3>2. \A j \in D : \E i \in 1 .. n : place[i] = j
      BY <1>5 DEF Places
    <3> HIDE DEF g, D
    <3>3. QED BY <1>6, <3>1, <3>2
  <2>2. {q.buf[i] : i \in 0 .. q.n - 1} = {g[j] : j \in D}
    BY <1>2, <1>3
  <2>3. QED BY <1>6, <2>1, <2>2
<1> DEFINE V == {g[j] : j \in D}
<1>8. ASSUME NEW v \in V
      PROVE  /\ {i \in DOMAIN s : s[i] < v} = {i \in 1 .. n : place[i] \in {j \in D : g[j] < v}}
             /\ {i \in DOMAIN s : s[i] > v} = {i \in 1 .. n : place[i] \in D \ {j \in D : g[j] <= v}}
             /\ {i \in 0 .. q.n - 1 : q.buf[i] < v} = {j \in D : g[j] < v}
             /\ {i \in 0 .. q.n - 1 : q.buf[i] <= v} = {j \in D : g[j] <= v}
  <2>1. v \in Nat
    BY <1>3
  <2>2. \A i \in 1 .. n : place[i] \in D /\ s[i] = g[place[i]] /\ s[i] \in Nat
    <3>1. \A i \in 1 .. n : place[i] \in D
      BY <1>5 DEF Places
    <3> HIDE DEF g, D
    <3>2. QED BY <1>3, <1>6, <3>1
  <2> HIDE DEF g
  <2>3. \A i \in 1 .. n : s[i] > v <=> ~(g[place[i]] <= v)
    BY <2>1, <2>2
  <2>4. QED BY <1>2, <1>3, <1>6, <2>2, <2>3
<1>9. ASSUME NEW v \in V
      PROVE  /\ Cardinality({i \in DOMAIN s : s[i] < v}) = Cardinality({j \in D : g[j] < v})
             /\ Cardinality({i \in DOMAIN s : s[i] > v}) = n - Cardinality({j \in D : g[j] <= v})
             /\ Cardinality({j \in D : g[j] < v}) \in Nat
             /\ Cardinality({j \in D : g[j] <= v}) \in Nat
  <2> DEFINE B == {j \in D : g[j] < v}
             U == {j \in D : g[j] <= v}
  <2>1. B \in SUBSET D /\ U \in SUBSET D /\ D \ U \in SUBSET D
    OBVIOUS
  <2>2. /\ {i \in DOMAIN s : s[i] < v} = {i \in 1 .. n : place[i] \in B}
        /\ {i \in DOMAIN s : s[i] > v} = {i \in 1 .. n : place[i] \in D \ U}
    BY <1>8
  <2> HIDE DEF B, U
  <2>3. IsFiniteSet(D) /\ Cardinality(D) = n
    <3>1. 0 \in Int /\ n - 1 \in Int /\ (IF 0 > n - 1 THEN 0 ELSE (n - 1) - 0 + 1) = n
      BY <1>4
    <3>2. IsFiniteSet(0 .. n - 1) /\ Cardinality(0 .. n - 1) = IF 0 > n - 1 THEN 0 ELSE (n - 1) - 0 + 1
      BY <3>1, FS_Interval
    <3>3. QED BY <3>1, <3>2
  <2>4. Cardinality({i \in 1 .. n : place[i] \in B}) = Cardinality(B)
    BY <1>4, <1>5, <2>1, SameCount
  <2>5. Cardinality({i \in 1 .. n : place[i] \in D \ U}) = Cardinality(D \ U)
    BY <1>4, <1>5, <2>1, SameCount
  <2>6. Cardinality(D \ U) = n - Cardinality(U)
    <3>1. D \cap U = U
      BY <2>1
    <3>2. Cardinality(D \ U) = Cardinality(D) - Cardinality(D \cap U)
      BY <2>3, FS_Difference
    <3>3. QED BY <2>3, <3>1, <3>2
  <2>7. IsFiniteSet(B) /\ IsFiniteSet(U)
    BY <2>1, <2>3, FS_Subset
  <2>8. Cardinality(B) \in Nat /\ Cardinality(U) \in Nat
    BY <2>7, FS_CardinalityType
  <2>9. QED BY <2>2, <2>4, <2>5, <2>6, <2>8 DEF B, U
<1> DEFINE Kth(v) == IsKth(n, g, k, v)
<1>10. Middle(q) \in V /\ Kth(Middle(q))
  <2>1. \E v \in V : Kth(v)
    <3> HIDE DEF g, k
    <3>1. QED BY <1>3, <1>4, KthExists
  <2>2. \E v \in {q.buf[i] : i \in 0 .. q.n - 1} :
          /\ Cardinality({i \in 0 .. q.n - 1 : q.buf[i] < v}) <= k
          /\ Cardinality({i \in 0 .. q.n - 1 : q.buf[i] <= v}) > k
    BY <1>7, <1>8, <2>1 DEF IsKth
  <2>3. Middle(q) = CHOOSE v \in {q.buf[i] : i \in 0 .. q.n - 1} :
          /\ Cardinality({i \in 0 .. q.n - 1 : q.buf[i] < v}) <= k
          /\ Cardinality({i \in 0 .. q.n - 1 : q.buf[i] <= v}) > k
    BY <1>2 DEF Middle, Smallest
  <2> HIDE DEF k
  <2>4. /\ Middle(q) \in {q.buf[i] : i \in 0 .. q.n - 1}
        /\ Cardinality({i \in 0 .. q.n - 1 : q.buf[i] < Middle(q)}) <= k
        /\ Cardinality({i \in 0 .. q.n - 1 : q.buf[i] <= Middle(q)}) > k
    BY <2>2, <2>3, Zenon
  <2>5. QED BY <1>7, <1>8, <2>4 DEF IsKth
<1>11. ASSUME NEW v \in V
       PROVE  Kth(v) <=> /\ 2 * Cardinality({i \in DOMAIN s : s[i] < v}) < Len(s)
                         /\ 2 * Cardinality({i \in DOMAIN s : s[i] > v}) <= Len(s)
  <2>1. PICK b \in Nat, u \in Nat :
          /\ b = Cardinality({j \in D : g[j] < v}) /\ u = Cardinality({j \in D : g[j] <= v})
          /\ b = Cardinality({i \in DOMAIN s : s[i] < v}) /\ n - u = Cardinality({i \in DOMAIN s : s[i] > v})
    BY <1>9
  <2>2. (b <= k /\ u > k) <=> (2 * b < n /\ 2 * (n - u) <= n)
    BY <1>4
  <2>3. QED BY <1>6, <2>1, <2>2, Zenon DEF IsKth
<1>12. MedianOf(s) \in V /\ Kth(MedianOf(s))
  <2> HIDE DEF Kth
  <2>1. \E v \in {s[i] : i \in DOMAIN s} :
          /\ 2 * Cardinality({i \in DOMAIN s : s[i] < v}) < Len(s)
          /\ 2 * Cardinality({i \in DOMAIN s : s[i] > v}) <= Len(s)
    BY <1>7, <1>10, <1>11
  <2>2. /\ MedianOf(s) \in {s[i] : i \in DOMAIN s}
        /\ 2 * Cardinality({i \in DOMAIN s : s[i] < MedianOf(s)}) < Len(s)
        /\ 2 * Cardinality({i \in DOMAIN s : s[i] > MedianOf(s)}) <= Len(s)
    BY <2>1, Zenon DEF MedianOf
  <2>3. QED BY <1>7, <1>11, <2>2
<1>13. Middle(q) \in Values /\ Middle(q) \in Nat /\ MedianOf(s) \in Nat
  BY <1>1, <1>3, <1>10, <1>12
<1> HIDE DEF g, k
<1>14. Middle(q) <= MedianOf(s) /\ MedianOf(s) <= Middle(q)
  <2>1. k \in Int
    BY <1>4
  <2>2. QED BY <1>3, <1>4, <1>10, <1>12, <1>13, <2>1, KthIsOne
<1>15. QED BY <1>13, <1>14

\* What is left of a sequence when it is cut to its last k entries.
LEMMA LastOfIs ==
  ASSUME NEW S, NEW s \in Seq(S), NEW k \in Nat
  PROVE  LET t == LastOf(s, k)
             m == IF Len(s) > k THEN Len(s) - k ELSE 0
         IN t \in Seq(S) /\ Len(t) = Len(s) - m /\ \A i \in 1 .. Len(t) : t[i] = s[m + i]
<1> DEFINE l == Len(s)  t == LastOf(s, k)
<1>1. l \in Nat /\ \A i \in 1 .. l : s[i] \in S
  OBVIOUS
<1>2. CASE l > k
  <2>1. PICK a \in Int : a = l - k + 1
    <3> HIDE DEF l
    <3>1. l - k + 1 \in Int
      BY <1>1
    <3>2. QED BY <3>1
  <2>2. t = SubSeq(s, a, l)
    BY <1>2, <2>1 DEF LastOf
  <2>3. l \in Int /\ \A i \in a .. l : s[i] \in S
    BY <1>1, <1>2, <2>1
  <2> HIDE DEF l
  <2>4. /\ SubSeq(s, a, l) \in Seq(S)
        /\ Len(SubSeq(s, a, l)) = IF a <= l THEN l - a + 1 ELSE 0
        /\ \A i \in 1 .. l - a + 1 : SubSeq(s, a, l)[i] = s[a + i - 1]
    BY <2>3, SubSeqProperties
  <2> HIDE DEF t
  <2>5. t \in Seq(S) /\ Len(t) = k /\ \A i \in 1 .. k : t[i] = s[l - k + i]
    <3>1. l - a + 1 = k /\ (~(a <= l) => k = 0)
      BY <1>1, <1>2, <2>1
    <3>2. \A i \in 1 .. k : a + i - 1 = l - k + i
      BY <1>1, <2>1
    <3>3. Len(t) = k
      BY <1>1, <2>1, <2>2, <2>4, <3>1
    <3>4. QED BY <2>2, <2>4, <3>1, <3>2, <3>3
  <2>6. l - (l - k) = k
    BY <1>1
  <2>7. QED BY <1>2, <2>5, <2>6 DEF l, t
<1>3. CASE ~(l > k)
  <2>1. t = s
    BY <1>3 DEF LastOf
  <2>2. \A i \in 1 .. l : 0 + i = i
    OBVIOUS
  <2>3. QED BY <1>1, <1>3, <2>1, <2>2
<1>4. QED BY <1>2, <1>3

\* A reading joins the median's ring.
LEMMA MedianPushed ==
  ASSUME NEW q, NEW s, MedianHolds(q, s), NEW v \in Values
  PROVE  MedianHolds(PushMedian(q, v), LastOf(Append(s, v), SIZE)) /\ PushMedian(q, v).n >= 1
<1>1. SIZE \in Nat \ {0}
  BY TrendAssumption
<1>2. PICK n \in 0 .. SIZE, h \in 0 .. SIZE - 1 : n = q.n /\ h = q.head
  BY <1>1 DEF MedianHolds, MedianType
<1>3. /\ q.buf \in [0 .. SIZE - 1 -> Values] /\ s \in Seq(Values) /\ Len(s) = n /\ (n < SIZE => h = n)
      /\ \A i \in 1 .. n : s[i] = q.buf[Wrap(h + SIZE - n + i - 1, SIZE)]
  BY <1>2 DEF MedianHolds, MedianType
<1> DEFINE r == PushMedian(q, v)  b == [q.buf EXCEPT ![h] = v]  w == (h + 1) % SIZE
           m == IF n < SIZE THEN n + 1 ELSE n
           a == Append(s, v)  t == LastOf(a, SIZE)  d == IF n < SIZE THEN 0 ELSE 1
<1>4. r.buf = b /\ r.n = m /\ r.head = w /\ r = [buf |-> b, n |-> m, head |-> w]
  BY <1>2 DEF PushMedian
<1>5. w = Wrap(h + 1, SIZE) /\ w \in 0 .. SIZE - 1 /\ w = IF h + 1 < SIZE THEN h + 1 ELSE 0
  <2>1. h + 1 \in 0 .. 2 * SIZE - 1
    BY <1>1
  <2>2. w = Wrap(h + 1, SIZE)
    BY <1>1, <2>1, WrapIs
  <2>3. QED BY <1>1, <2>2 DEF Wrap
<1>6. b \in [0 .. SIZE - 1 -> Values] /\ b[h] = v /\ \A j \in 0 .. SIZE - 1 : j # h => b[j] = q.buf[j]
  BY <1>3
<1>7. m \in 1 .. SIZE /\ (m < SIZE => w = m)
  BY <1>1, <1>3, <1>5
<1>8. a \in Seq(Values) /\ Len(a) = n + 1 /\ a[n + 1] = v /\ \A i \in 1 .. n : a[i] = s[i]
  BY <1>3
<1> HIDE DEF a, b, w
<1>9. t \in Seq(Values) /\ Len(t) = m /\ \A i \in 1 .. m : t[i] = a[d + i]
  <2>1. /\ t \in Seq(Values) /\ Len(t) = Len(a) - (IF Len(a) > SIZE THEN Len(a) - SIZE ELSE 0)
        /\ \A i \in 1 .. Len(t) : t[i] = a[(IF Len(a) > SIZE THEN Len(a) - SIZE ELSE 0) + i]
    BY <1>1, <1>8, LastOfIs
  <2>2. (IF Len(a) > SIZE THEN Len(a) - SIZE ELSE 0) = d
    BY <1>1, <1>8
  <2>3. \A l : l = n + 1 => l - d = m
    BY <1>1
  <2> HIDE DEF d, m
  <2>4. t \in Seq(Values) /\ Len(t) = Len(a) - d /\ \A i \in 1 .. Len(t) : t[i] = a[d + i]
    BY <2>1, <2>2, Zenon
  <2> HIDE DEF t
  <2>5. Len(t) = m
    <3>1. Len(a) = n + 1 /\ Len(t) = Len(a) - d
      BY <1>8, <2>4
    <3>2. QED BY <2>3, <3>1, Zenon
  <2>6. QED BY <2>4, <2>5, Zenon
<1> HIDE DEF t
<1>10. ASSUME NEW i \in 1 .. m
       PROVE  t[i] = b[Wrap(w + SIZE - m + i - 1, SIZE)]
  <2> DEFINE j == Wrap(w + SIZE - m + i - 1, SIZE)
  <2>1. CASE i = m
    <3>1. w + SIZE - m + i - 1 = w + SIZE - 1 /\ d + i = n + 1
      BY <1>1, <1>5, <2>1
    <3>2. j = h
      BY <1>1, <1>5, <3>1 DEF Wrap
    <3>3. t[i] = a[n + 1]
      BY <1>9, <3>1
    <3>4. QED BY <1>6, <1>8, <3>2, <3>3
  <2>2. CASE i # m
    <3>1. d + i \in 1 .. n
      BY <1>1, <2>2
    <3>2. j = Wrap(h + SIZE - n + (d + i) - 1, SIZE) /\ j \in 0 .. SIZE - 1 /\ j # h
      <4>1. CASE n < SIZE
        <5>1. h = n /\ i \in 1 .. n
          BY <1>1, <1>3, <2>2, <4>1
        <5>2. j = i - 1
          <6>1. CASE h + 1 < SIZE
            <7>1. w + SIZE - m + i - 1 = SIZE + i - 1
              BY <1>1, <1>5, <4>1, <5>1, <6>1
            <7>2. QED BY <1>1, <7>1 DEF Wrap
          <6>2. CASE ~(h + 1 < SIZE)
            <7>1. w + SIZE - m + i - 1 = i - 1
              BY <1>1, <1>5, <4>1, <5>1, <6>2
            <7>2. QED BY <1>1, <4>1, <5>1, <7>1 DEF Wrap
          <6>3. QED BY <6>1, <6>2
        <5>3. Wrap(h + SIZE - n + (d + i) - 1, SIZE) = i - 1
          <6>1. h + SIZE - n + (d + i) - 1 = SIZE + i - 1
            BY <1>1, <4>1, <5>1
          <6>2. QED BY <1>1, <6>1 DEF Wrap
        <5>4. QED BY <1>1, <4>1, <5>1, <5>2, <5>3
      <4>2. CASE n = SIZE
        <5>1. d = 1 /\ m = SIZE /\ i \in 1 .. SIZE - 1
          BY <1>1, <2>2, <4>2
        <5>2. w + SIZE - m + i - 1 = w + i - 1 /\ h + SIZE - n + (d + i) - 1 = h + i
          BY <1>1, <1>5, <4>2, <5>1
        <5>3. j = Wrap(w + i - 1, SIZE) /\ Wrap(h + SIZE - n + (d + i) - 1, SIZE) = Wrap(h + i, SIZE)
          BY <5>2
        <5> HIDE DEF j
        <5>4. QED BY <1>1, <1>5, <5>1, <5>3 DEF Wrap
      <4>3. n < SIZE \/ n = SIZE
        BY <1>1
      <4>4. QED BY <4>1, <4>2, <4>3, Zenon
    <3>3. t[i] = s[d + i]
      BY <1>8, <1>9, <3>1
    <3> HIDE DEF j, d
    <3>4. s[d + i] = q.buf[j]
      BY <1>3, <3>1, <3>2
    <3>5. QED BY <1>6, <3>2, <3>3, <3>4 DEF j
  <2>3. QED BY <2>1, <2>2
<1> HIDE DEF m
<1>11. r \in MedianType
  BY <1>4, <1>5, <1>6, <1>7 DEF MedianType
<1> HIDE DEF r
<1>12. MedianHolds(r, t)
  BY <1>4, <1>7, <1>9, <1>10, <1>11 DEF MedianHolds
<1>13. r.n >= 1
  BY <1>4, <1>7
<1>14. QED BY <1>12, <1>13 DEF r, t, a

\* An outage empties it.
LEMMA MedianReset ==
  ASSUME NEW q, NEW s, MedianHolds(q, s)
  PROVE  MedianHolds(ResetMedian(q), <<>>)
<1>1. SIZE \in Nat \ {0}
  BY TrendAssumption
<1>2. ResetMedian(q) \in MedianType /\ ResetMedian(q).n = 0 /\ ResetMedian(q).head = 0
  <2>1. q \in MedianType
    BY DEF MedianHolds
  <2>2. q = [buf |-> q.buf, n |-> q.n, head |-> q.head] /\ q.buf \in [0 .. SIZE - 1 -> Values]
    BY <2>1 DEF MedianType
  <2>3. ResetMedian(q) = [buf |-> q.buf, n |-> 0, head |-> 0]
    BY DEF ResetMedian
  <2>4. 0 \in 0 .. SIZE /\ 0 \in 0 .. SIZE - 1
    BY <1>1
  <2>5. QED BY <2>2, <2>3, <2>4 DEF MedianType
<1>3. <<>> \in Seq(Values) /\ Len(<<>>) = 0
  OBVIOUS
<1>4. QED BY <1>2, <1>3 DEF MedianHolds

-----------------------------------------------------------------------------
(* The slope's samples. *)

\* Some entries on from the head, and some more.
LEMMA OnFromHead ==
  ASSUME NEW c \in Nat \ {0}, NEW h \in 0 .. c - 1, NEW k \in Nat, NEW i \in Nat, k + i < c
  PROVE  (((h + k) % c) + i) % c = (h + k + i) % c
<1>1. (h + k) % c = Wrap(h + k, c) /\ (h + k + i) % c = Wrap(h + k + i, c)
  <2>1. h + k \in 0 .. 2 * c - 1 /\ h + k + i \in 0 .. 2 * c - 1
    OBVIOUS
  <2>2. QED BY <2>1, WrapIs
<1>2. CASE h + k < c
  <2>1. (h + k) % c = h + k
    BY <1>1, <1>2 DEF Wrap
  <2>2. QED BY <2>1
<1>3. CASE ~(h + k < c)
  <2>1. PICK a \in 0 .. 2 * c - 1 : a = h + k - c + i
    BY <1>3
  <2>2. (h + k) % c = h + k - c
    BY <1>1, <1>3 DEF Wrap
  <2>3. a < c
    BY <1>3, <2>1
  <2>4. a % c = a
    BY <2>3, WrapIs DEF Wrap
  <2>5. (h + k + i) % c = a
    BY <1>1, <1>3, <2>1 DEF Wrap
  <2>6. ((h + k) % c) + i = a
    BY <2>1, <2>2
  <2>7. QED BY <2>4, <2>5, <2>6, Zenon
<1>4. QED BY <1>2, <1>3

\* Different places on from the head.
LEMMA OnFromHeadOnce ==
  ASSUME NEW c \in Nat \ {0}, NEW h \in 0 .. c - 1, NEW i \in 0 .. c - 1, NEW j \in 0 .. c - 1
  PROVE  (h + i) % c \in 0 .. c - 1 /\ ((h + i) % c = (h + j) % c => i = j)
<1>1. (h + i) % c = Wrap(h + i, c) /\ (h + j) % c = Wrap(h + j, c)
  <2>1. h + i \in 0 .. 2 * c - 1 /\ h + j \in 0 .. 2 * c - 1
    OBVIOUS
  <2>2. QED BY <2>1, WrapIs
<1>2. QED BY <1>1 DEF Wrap

\* What is assumed of the slope's constants.
LEMMA SlopeConstants ==
  CAPACITY \in Nat \ {0} /\ WINDOW \in Nat /\ Values \subseteq Nat /\ \A d \in Gaps : d \in Nat /\ d >= 1
BY TrendAssumption

\* A sample ages, up to one more than the window.
LEMMA OneAged ==
  ASSUME NEW e \in Timed, NEW d \in Gaps
  PROVE  /\ AgedBy(e, d) \in Timed /\ AgedBy(e, d).age >= 1
         /\ AgedBy(e, d).age = IF e.age + d > WINDOW THEN WINDOW + 1 ELSE e.age + d
<1>1. d \in Nat /\ d >= 1 /\ WINDOW \in Nat
  BY SlopeConstants
<1>2. e.age \in 0 .. WINDOW + 1 /\ e.v \in Values /\ e = [age |-> e.age, v |-> e.v]
  BY DEF Timed
<1> DEFINE a == IF e.age + d > WINDOW THEN WINDOW + 1 ELSE e.age + d
<1>3. a \in 0 .. WINDOW + 1 /\ a >= 1
  BY <1>1, <1>2
<1>4. AgedBy(e, d) = [age |-> a, v |-> e.v]
  BY <1>2 DEF AgedBy, Timed
<1> HIDE DEF a
<1>5. AgedBy(e, d) \in Timed /\ AgedBy(e, d).age = a
  BY <1>2, <1>3, <1>4 DEF Timed
<1>6. QED BY <1>3, <1>5 DEF a

\* Time passes for the ring and for the history alike.
LEMMA SlopeAged ==
  ASSUME NEW s, NEW p, SlopeHolds(s, p), Outside(s, p), NEW d \in Gaps
  PROVE  /\ SlopeHolds(Older(s, d), Aged(p, d)) /\ Outside(Older(s, d), Aged(p, d))
         /\ Len(Aged(p, d)) = Len(p) /\ \A i \in 1 .. Len(p) : Aged(p, d)[i].age >= 1
<1> DEFINE t == Older(s, d)  q == Aged(p, d)  l == Len(p)  D == 0 .. CAPACITY - 1
<1>1. /\ s \in SlopeType /\ p \in Seq(Timed) /\ InOrder(p) /\ s.n <= l
      /\ \A i \in 0 .. s.n - 1 : At(s, i) = p[l - s.n + i + 1]
  BY DEF SlopeHolds
<1>2. s.ring \in [D -> Timed] /\ s.n \in 0 .. CAPACITY /\ s.head \in D /\ CAPACITY \in Nat \ {0} /\ WINDOW \in Nat /\ d \in Nat
  BY <1>1, SlopeConstants DEF SlopeType
<1>3. /\ l \in Nat /\ DOMAIN p = 1 .. l /\ \A i \in 1 .. l : p[i] \in Timed
  BY <1>1
<1>4. /\ q = [i \in 1 .. l |-> AgedBy(p[i], d)]
      /\ \A i \in 1 .. l : q[i] = AgedBy(p[i], d) /\ q[i] \in Timed
  <2>1. q = [i \in 1 .. l |-> AgedBy(p[i], d)]
    BY <1>3 DEF Aged
  <2>2. \A i \in 1 .. l : AgedBy(p[i], d) \in Timed
    BY <1>3, OneAged
  <2> HIDE DEF q, l
  <2>3. QED BY <2>1, <2>2
<1>5. q \in Seq(Timed) /\ Len(q) = l
  <2> HIDE DEF q, l
  <2>1. q \in [1 .. l -> Timed]
    BY <1>4
  <2>2. QED BY <1>3, <2>1
<1>6. /\ t.n = s.n /\ t.head = s.head /\ t.ring = [i \in D |-> AgedBy(s.ring[i], d)] /\ t \in SlopeType
  <2>1. DOMAIN s.ring = D
    BY <1>2
  <2>2. t.n = s.n /\ t.head = s.head /\ t.ring = [i \in D |-> AgedBy(s.ring[i], d)]
    <3>1. t = [s EXCEPT !.ring = [i \in D |-> AgedBy(s.ring[i], d)]]
      BY <2>1 DEF Older
    <3> HIDE DEF t
    <3>2. QED BY <1>1, <3>1 DEF SlopeType
  <2>3. \A i \in D : AgedBy(s.ring[i], d) \in Timed
    BY <1>2, OneAged
  <2>4. t \in SlopeType
    BY <1>1, <2>1, <2>2, <2>3 DEF Older, SlopeType
  <2>5. QED BY <2>2, <2>4
<1> HIDE DEF t, q
<1>7. \A i \in 0 .. t.n - 1 : At(t, i) = q[l - t.n + i + 1]
  <2> TAKE i \in 0 .. t.n - 1
  <2>1. i \in 0 .. s.n - 1 /\ i \in 0 .. CAPACITY - 1
    BY <1>2, <1>6
  <2>2. (s.head + i) % CAPACITY \in D
    BY <1>2, <2>1, OnFromHeadOnce
  <2>3. At(t, i) = AgedBy(At(s, i), d)
    BY <1>6, <2>2 DEF At
  <2>4. At(s, i) = p[l - s.n + i + 1] /\ l - s.n + i + 1 \in 1 .. l
    <3>1. At(s, i) = p[l - s.n + i + 1]
      BY <1>1, <2>1
    <3> HIDE DEF l
    <3>2. s.n <= l
      BY <1>1 DEF l
    <3>3. l - s.n + i + 1 \in 1 .. l
      BY <1>2, <1>3, <2>1, <3>2
    <3>4. QED BY <3>1, <3>3
  <2> HIDE DEF l
  <2>5. QED BY <1>4, <1>6, <2>3, <2>4
<1>8. InOrder(q)
  <2>1. ASSUME NEW i \in 1 .. l, NEW j \in 1 .. l, i < j
        PROVE  q[i].age > WINDOW \/ q[i].age > q[j].age
    <3>1. p[i].age > WINDOW \/ p[i].age > p[j].age
      BY <1>1, <1>3, <2>1 DEF InOrder
    <3>2. PICK a \in Nat, b \in Nat : a = p[i].age /\ b = p[j].age
      <4>1. p[i].age \in 0 .. WINDOW + 1 /\ p[j].age \in 0 .. WINDOW + 1
        BY <1>3 DEF Timed
      <4>2. p[i].age \in Nat /\ p[j].age \in Nat
        BY <1>2, <4>1
      <4>3. QED BY <4>2
    <3>3. q[i].age = (IF a + d > WINDOW THEN WINDOW + 1 ELSE a + d) /\ q[j].age = (IF b + d > WINDOW THEN WINDOW + 1 ELSE b + d)
      BY <1>3, <1>4, <3>2, OneAged
    <3>4. a > WINDOW \/ a > b
      BY <3>1, <3>2
    <3>5. \A x, y : /\ x = (IF a + d > WINDOW THEN WINDOW + 1 ELSE a + d)
                   /\ y = (IF b + d > WINDOW THEN WINDOW + 1 ELSE b + d)
                   => x > WINDOW \/ x > y
      BY <1>2, <3>4
    <3>6. QED BY <3>3, <3>5, Zenon
  <2>2. DOMAIN q = 1 .. l
    BY <1>4
  <2>3. QED BY <2>1, <2>2 DEF InOrder
<1>9. SlopeHolds(t, q)
  BY <1>1, <1>5, <1>6, <1>7, <1>8 DEF SlopeHolds
<1>10. Outside(t, q)
  <2> SUFFICES ASSUME NEW i \in 1 .. l - s.n
               PROVE  q[i].age > WINDOW
    BY <1>5, <1>6 DEF Outside
  <2>1. i \in 1 .. l
    BY <1>1, <1>2, <1>3
  <2>2. p[i].age > WINDOW
    BY DEF Outside
  <2>3. p[i].age \in Nat
    BY <1>2, <1>3, <2>1 DEF Timed
  <2>4. q[i].age = IF p[i].age + d > WINDOW THEN WINDOW + 1 ELSE p[i].age + d
    BY <1>3, <1>4, <2>1, OneAged
  <2>5. QED BY <1>2, <2>2, <2>3, <2>4
<1>11. \A i \in 1 .. l : q[i].age >= 1
  BY <1>3, <1>4, OneAged
<1>12. QED BY <1>5, <1>9, <1>10, <1>11 DEF t, q

\* The ring gives up its k oldest samples, and the history nothing.
LEMMA GivenUp ==
  ASSUME NEW s, NEW p, SlopeHolds(s, p), NEW k \in 0 .. s.n
  PROVE  /\ SlopeHolds(GiveUp(s, k), p) /\ GiveUp(s, k).n = s.n - k
         /\ \A i \in 0 .. s.n - k - 1 : At(GiveUp(s, k), i) = At(s, k + i)
<1> DEFINE t == GiveUp(s, k)  l == Len(p)  D == 0 .. CAPACITY - 1
<1>1. /\ s \in SlopeType /\ p \in Seq(Timed) /\ InOrder(p) /\ s.n <= l
      /\ \A i \in 0 .. s.n - 1 : At(s, i) = p[l - s.n + i + 1]
  BY DEF SlopeHolds
<1>2. s.ring \in [D -> Timed] /\ s.n \in 0 .. CAPACITY /\ s.head \in D /\ CAPACITY \in Nat \ {0} /\ k \in Nat /\ k <= s.n
  BY <1>1, SlopeConstants DEF SlopeType
<1>3. l \in Nat
  BY <1>1
<1>4. (s.head + k) % CAPACITY \in D
  BY <1>2
<1>5. t = [ring |-> s.ring, n |-> s.n - k, head |-> (s.head + k) % CAPACITY]
  BY DEF GiveUp
<1> HIDE DEF t
<1>6. t.ring = s.ring /\ t.n = s.n - k /\ t.head = (s.head + k) % CAPACITY
  BY <1>5
<1>7. t \in SlopeType
  <2>1. s.n - k \in 0 .. CAPACITY
    BY <1>2
  <2>2. QED BY <1>2, <1>4, <1>5, <2>1 DEF SlopeType
<1>8. \A i \in 0 .. s.n - k - 1 : At(t, i) = At(s, k + i)
  <2> TAKE i \in 0 .. s.n - k - 1
  <2>1. i \in Nat /\ k + i < CAPACITY
    BY <1>2
  <2>2. (((s.head + k) % CAPACITY) + i) % CAPACITY = (s.head + k + i) % CAPACITY
    BY <1>2, <2>1, OnFromHead
  <2>3. s.head + k + i = s.head + (k + i)
    BY <1>2, <2>1
  <2>4. QED BY <1>6, <2>2, <2>3 DEF At
<1>9. \A i \in 0 .. t.n - 1 : At(t, i) = p[l - t.n + i + 1]
  <2> TAKE i \in 0 .. t.n - 1
  <2>1. i \in 0 .. s.n - k - 1 /\ k + i \in 0 .. s.n - 1
    BY <1>2, <1>6
  <2>2. At(t, i) = p[l - s.n + (k + i) + 1]
    BY <1>1, <1>8, <2>1
  <2>3. l - s.n + (k + i) + 1 = l - t.n + i + 1
    BY <1>2, <1>3, <1>6, <2>1
  <2>4. QED BY <2>2, <2>3, Zenon
<1>10. t.n <= l
  BY <1>1, <1>2, <1>3, <1>6
<1>11. QED BY <1>1, <1>6, <1>7, <1>8, <1>9, <1>10 DEF SlopeHolds, t

\* What is in a history of samples.
LEMMA PastIs ==
  ASSUME NEW s, NEW p, SlopeHolds(s, p)
  PROVE  /\ s.n \in Nat /\ s.n <= CAPACITY /\ Len(p) \in Nat /\ s.n <= Len(p) /\ DOMAIN p = 1 .. Len(p)
         /\ \A i \in 1 .. Len(p) : p[i] \in Timed /\ p[i].age \in Nat /\ p[i].age <= WINDOW + 1
<1>1. s \in SlopeType /\ p \in Seq(Timed) /\ s.n <= Len(p) /\ CAPACITY \in Nat /\ WINDOW \in Nat
  BY SlopeConstants DEF SlopeHolds
<1>2. s.n \in 0 .. CAPACITY
  BY <1>1 DEF SlopeType
<1>3. Len(p) \in Nat /\ DOMAIN p = 1 .. Len(p) /\ \A i \in 1 .. Len(p) : p[i] \in Timed
  BY <1>1
<1>4. ASSUME NEW e \in Timed PROVE e.age \in Nat /\ e.age <= WINDOW + 1
  BY <1>1 DEF Timed
<1>5. QED BY <1>1, <1>2, <1>3, <1>4

\* What has left the window goes, and only that.
LEMMA EvictHolds ==
  ASSUME NEW s, NEW p, SlopeHolds(s, p), Outside(s, p)
  PROVE  SlopeHolds(Evict(s), p) /\ Outside(Evict(s), p) /\ Inside(Evict(s), p)
<1> DEFINE Gone(k) == /\ \A i \in 0 .. k - 1 : At(s, i).age > WINDOW
                      /\ k < s.n => At(s, k).age <= WINDOW
           l == Len(p)
<1>1. /\ s.n \in Nat /\ l \in Nat /\ s.n <= l /\ WINDOW \in Nat
      /\ \A i \in 1 .. l : p[i].age \in Nat
  BY PastIs, SlopeConstants
<1>2. \A i \in 0 .. s.n - 1 : At(s, i) = p[l - s.n + i + 1] /\ l - s.n + i + 1 \in 1 .. l
  <2>1. \A i \in 0 .. s.n - 1 : At(s, i) = p[l - s.n + i + 1]
    BY DEF SlopeHolds
  <2> HIDE DEF l
  <2>2. \A i \in 0 .. s.n - 1 : l - s.n + i + 1 \in 1 .. l
    BY <1>1
  <2>3. QED BY <2>1, <2>2, Zenon
<1>3. \E k \in 0 .. s.n : Gone(k)
  <2> DEFINE A == {k \in 0 .. s.n : k = s.n \/ At(s, k).age <= WINDOW}
  <2>1. A \subseteq Nat /\ A # {}
    <3>1. s.n \in A
      BY <1>1
    <3>2. QED BY <1>1, <3>1
  <2>2. PICK k \in A : \A j \in A : k <= j
    <3> HIDE DEF A
    <3>1. QED BY <2>1, Least
  <2>3. ASSUME NEW i \in 0 .. k - 1
        PROVE  At(s, i).age > WINDOW
    <3>1. i \notin A /\ i \in 0 .. s.n - 1
      BY <1>1, <2>2
    <3>2. ~(At(s, i).age <= WINDOW)
      BY <1>1, <3>1
    <3>3. At(s, i).age \in Nat
      BY <1>1, <1>2, <3>1
    <3>4. QED BY <1>1, <3>2, <3>3
  <2>4. k \in 0 .. s.n /\ (k < s.n => At(s, k).age <= WINDOW)
    BY <1>1, <2>2
  <2>5. Gone(k)
    BY <2>3, <2>4
  <2>6. QED BY <2>4, <2>5, Zenon
<1>4. PICK k \in 0 .. s.n : Evict(s) = GiveUp(s, k) /\ Gone(k)
  <2>1. Stale(s) \in 0 .. s.n /\ Gone(Stale(s))
    BY <1>3, Zenon DEF Stale
  <2>2. QED BY <2>1, Zenon DEF Evict
<1>5. Gone(k)
  BY <1>4
<1> DEFINE t == GiveUp(s, k)
<1>6. SlopeHolds(t, p) /\ t.n = s.n - k
  BY GivenUp
<1> HIDE DEF t
<1>7. Outside(t, p)
  <2> SUFFICES ASSUME NEW i \in 1 .. l - t.n
               PROVE  p[i].age > WINDOW
    BY DEF Outside
  <2>1. CASE i \in 1 .. l - s.n
    BY <2>1 DEF Outside
  <2>2. CASE i \notin 1 .. l - s.n
    <3>1. PICK j \in 0 .. k - 1 : l - s.n + j + 1 = i
      <4> HIDE DEF l
      <4>1. i - 1 - (l - s.n) \in 0 .. k - 1 /\ l - s.n + (i - 1 - (l - s.n)) + 1 = i
        BY <1>1, <1>6, <2>2
      <4>2. QED BY <4>1
    <3>2. j \in 0 .. s.n - 1
      BY <1>1
    <3>3. At(s, j) = p[i]
      BY <1>2, <3>1, <3>2, Zenon
    <3>4. At(s, j).age > WINDOW
      BY <1>5, <3>1
    <3>5. QED BY <3>3, <3>4
  <2>3. QED BY <2>1, <2>2
<1>8. Inside(t, p)
  <2> SUFFICES ASSUME NEW i \in l - t.n + 1 .. l
               PROVE  p[i].age <= WINDOW
    BY DEF Inside
  <2> DEFINE f == l - s.n + k + 1
  <2>1. k < s.n /\ k \in 0 .. s.n - 1 /\ f \in 1 .. l /\ i \in 1 .. l /\ f <= i
    <3> HIDE DEF l
    <3>1. QED BY <1>1, <1>6
  <2>2. p[f].age <= WINDOW
    <3>1. At(s, k) = p[f] /\ At(s, k).age <= WINDOW
      BY <1>2, <1>5, <2>1
    <3>2. QED BY <3>1
  <2> HIDE DEF f
  <2>3. CASE f < i
    <3>1. p[f].age > WINDOW \/ p[f].age > p[i].age
      <4>1. InOrder(p) /\ DOMAIN p = 1 .. l
        BY PastIs DEF SlopeHolds
      <4>2. QED BY <2>1, <2>3, <4>1, Zenon DEF InOrder
    <3>2. QED BY <1>1, <2>1, <2>2, <3>1
  <2>4. CASE ~(f < i)
    <3>1. f = i
      <4>1. f \in Nat /\ i \in Nat
        BY <1>1, <2>1
      <4>2. QED BY <2>1, <2>4, <4>1
    <3>2. QED BY <2>2, <3>1
  <2>5. QED BY <2>3, <2>4
<1>9. QED BY <1>4, <1>6, <1>7, <1>8 DEF t

\* When there is no room, the oldest sample goes.
LEMMA DropHolds ==
  ASSUME NEW s, NEW p, SlopeHolds(s, p), Inside(s, p)
  PROVE  LET r == DropOldest(s) IN
         /\ SlopeHolds(r, p) /\ Inside(r, p) /\ r.n < CAPACITY
         /\ (r.n + 1 < CAPACITY => r.n = s.n)
<1> DEFINE r == DropOldest(s)  l == Len(p)
<1>1. s.n \in Nat /\ s.n <= CAPACITY /\ l \in Nat /\ s.n <= l /\ CAPACITY \in Nat /\ CAPACITY >= 1
  BY PastIs, SlopeConstants
<1>2. CASE s.n = CAPACITY
  <2>1. r = GiveUp(s, 1)
    BY <1>2 DEF DropOldest
  <2> HIDE DEF r
  <2>2. 1 \in 0 .. s.n
    BY <1>1, <1>2
  <2>3. SlopeHolds(r, p) /\ r.n = s.n - 1
    BY <2>1, <2>2, GivenUp
  <2>4. Inside(r, p)
    <3> SUFFICES ASSUME NEW i \in l - r.n + 1 .. l
                 PROVE  p[i].age <= WINDOW
      BY DEF Inside
    <3> HIDE DEF l
    <3>1. i \in l - s.n + 1 .. l
      BY <1>1, <2>3
    <3>2. QED BY <3>1 DEF Inside, l
  <2>5. QED BY <1>1, <1>2, <2>3, <2>4 DEF r
<1>3. CASE s.n # CAPACITY
  <2>1. r = s
    BY <1>3 DEF DropOldest
  <2>2. s.n < CAPACITY
    BY <1>1, <1>3
  <2> HIDE DEF r
  <2>3. QED BY <2>1, <2>2 DEF r
<1>4. QED BY <1>2, <1>3

\* The sample that was just taken joins both.
LEMMA JoinHolds ==
  ASSUME NEW s, NEW p, SlopeHolds(s, p), s.n < CAPACITY, \A i \in 1 .. Len(p) : p[i].age >= 1,
         NEW e \in Timed, e.age = 0, NEW r,
         r = [ring |-> [s.ring EXCEPT ![(s.head + s.n) % CAPACITY] = e], n |-> s.n + 1, head |-> s.head]
  PROVE  SlopeHolds(r, Append(p, e)) /\ r.n = s.n + 1
<1> DEFINE q == Append(p, e)  l == Len(p)  D == 0 .. CAPACITY - 1  w == (s.head + s.n) % CAPACITY
<1>1. /\ s \in SlopeType /\ p \in Seq(Timed) /\ InOrder(p) /\ s.n <= l
      /\ \A i \in 0 .. s.n - 1 : At(s, i) = p[l - s.n + i + 1]
  BY DEF SlopeHolds
<1>2. s.ring \in [D -> Timed] /\ s.n \in D /\ s.head \in D /\ CAPACITY \in Nat \ {0} /\ WINDOW \in Nat
  BY <1>1, SlopeConstants DEF SlopeType
<1>3. l \in Nat /\ \A i \in 1 .. l : p[i] \in Timed /\ p[i].age \in Nat
  BY PastIs
<1>4. q \in Seq(Timed) /\ Len(q) = l + 1 /\ q[l + 1] = e /\ DOMAIN q = 1 .. l + 1 /\ \A i \in 1 .. l : q[i] = p[i]
  BY <1>1
<1> HIDE DEF q
<1>5. w \in D
  BY <1>2, OnFromHeadOnce
<1>6. r.n = s.n + 1 /\ r.head = s.head /\ r.ring = [s.ring EXCEPT ![w] = e]
  OBVIOUS
<1>7. r \in SlopeType
  <2>1. [s.ring EXCEPT ![w] = e] \in [D -> Timed]
    BY <1>2, <1>5
  <2>2. s.n + 1 \in 0 .. CAPACITY
    BY <1>2
  <2> HIDE DEF w
  <2>3. r = [ring |-> [s.ring EXCEPT ![w] = e], n |-> s.n + 1, head |-> s.head]
    BY DEF w
  <2>4. QED BY <1>2, <2>1, <2>2, <2>3 DEF SlopeType
<1>8. At(r, s.n) = e
  <2>1. At(r, s.n) = r.ring[w]
    BY <1>6 DEF At
  <2> HIDE DEF w
  <2>2. QED BY <1>2, <1>5, <1>6, <2>1
<1>9. ASSUME NEW i \in 0 .. s.n - 1
      PROVE  At(r, i) = At(s, i)
  <2> DEFINE x == (s.head + i) % CAPACITY
  <2>1. i \in D /\ i # s.n
    BY <1>2
  <2>2. x \in D /\ x # w
    BY <1>2, <2>1, OnFromHeadOnce
  <2>3. At(r, i) = r.ring[x] /\ At(s, i) = s.ring[x]
    BY <1>6 DEF At
  <2> HIDE DEF x, w
  <2>4. QED BY <1>2, <1>5, <1>6, <2>2, <2>3
<1>10. \A i \in 0 .. r.n - 1 : At(r, i) = q[Len(q) - r.n + i + 1]
  <2> TAKE i \in 0 .. r.n - 1
  <2> HIDE DEF l
  <2>1. CASE i = s.n
    <3>1. Len(q) - r.n + i + 1 = l + 1
      BY <1>2, <1>3, <1>4, <1>6, <2>1
    <3>2. QED BY <1>4, <1>8, <2>1, <3>1, Zenon
  <2>2. CASE i # s.n
    <3>1. i \in 0 .. s.n - 1
      BY <1>2, <1>6, <2>2
    <3>2. Len(q) - r.n + i + 1 = l - s.n + i + 1 /\ l - s.n + i + 1 \in 1 .. l
      <4>1. PICK n \in Nat : n = s.n
        BY <1>2
      <4>2. Len(q) = l + 1 /\ r.n = n + 1 /\ n <= l /\ i \in 0 .. n - 1
        BY <1>1, <1>4, <1>6, <3>1, <4>1
      <4>3. \A a, b : a = l + 1 /\ b = n + 1 => a - b + i + 1 = l - n + i + 1
        BY <1>3, <4>2
      <4>4. Len(q) - r.n + i + 1 = l - n + i + 1
        BY <4>2, <4>3
      <4>5. l - n + i + 1 \in 1 .. l
        BY <1>3, <4>2
      <4>6. QED BY <4>1, <4>4, <4>5
    <3>3. At(r, i) = p[l - s.n + i + 1]
      BY <1>1, <1>9, <3>1
    <3>4. q[l - s.n + i + 1] = p[l - s.n + i + 1]
      BY <1>4, <3>2
    <3>5. QED BY <3>2, <3>3, <3>4, Zenon
  <2>3. QED BY <2>1, <2>2
<1>11. InOrder(q)
  <2> SUFFICES ASSUME NEW i \in 1 .. l + 1, NEW j \in 1 .. l + 1, i < j
               PROVE  q[i].age > WINDOW \/ q[i].age > q[j].age
    BY <1>4 DEF InOrder
  <2> HIDE DEF l
  <2>1. i \in 1 .. l /\ q[i] = p[i]
    BY <1>3, <1>4
  <2>2. CASE j = l + 1
    <3>1. p[i].age >= 1
      BY <2>1 DEF l
    <3>2. QED BY <1>3, <1>4, <2>1, <2>2, <3>1
  <2>3. CASE j # l + 1
    <3>1. j \in 1 .. l /\ q[j] = p[j]
      BY <1>3, <1>4, <2>3
    <3>2. p[i].age > WINDOW \/ p[i].age > p[j].age
      <4>1. DOMAIN p = 1 .. l
        BY <1>1 DEF l
      <4>2. QED BY <1>1, <2>1, <3>1, <4>1, Zenon DEF InOrder
    <3>3. QED BY <2>1, <3>1, <3>2
  <2>4. QED BY <2>2, <2>3
<1>12. r.n <= Len(q)
  BY <1>1, <1>2, <1>3, <1>4, <1>6
<1>13. SlopeHolds(r, q)
  BY <1>4, <1>7, <1>10, <1>11, <1>12 DEF SlopeHolds
<1>14. QED BY <1>6, <1>13 DEF q

\* The history keeps no more than the ring has room for.
LEMMA CutHolds ==
  ASSUME NEW s, NEW p, SlopeHolds(s, p), Inside(s, p)
  PROVE  LET q == LastOf(p, CAPACITY) IN
         /\ SlopeHolds(s, q) /\ Inside(s, q) /\ Len(q) <= CAPACITY
         /\ Outside(s, p) => Outside(s, q)
         /\ s.n = CAPACITY => Outside(s, q)
<1> DEFINE q == LastOf(p, CAPACITY)  l == Len(p)  m == IF l > CAPACITY THEN l - CAPACITY ELSE 0
<1>1. /\ s \in SlopeType /\ p \in Seq(Timed) /\ InOrder(p)
      /\ \A i \in 0 .. s.n - 1 : At(s, i) = p[l - s.n + i + 1]
  BY DEF SlopeHolds
<1>2. s.n \in Nat /\ s.n <= CAPACITY /\ l \in Nat /\ s.n <= l /\ DOMAIN p = 1 .. l
  BY PastIs
<1>3. CAPACITY \in Nat
  BY SlopeConstants
<1>4. q \in Seq(Timed) /\ Len(q) = l - m /\ \A i \in 1 .. Len(q) : q[i] = p[m + i]
  BY <1>1, <1>3, LastOfIs
<1> HIDE DEF q, l
<1>5. m \in Nat /\ s.n <= l - m /\ l - m \in Nat /\ l - m <= CAPACITY
  BY <1>2, <1>3
<1> HIDE DEF m
<1>6. DOMAIN q = 1 .. l - m /\ \A i \in 1 .. l - m : q[i] = p[m + i] /\ m + i \in 1 .. l
  <2>1. DOMAIN q = 1 .. Len(q)
    BY <1>4
  <2>2. \A i \in 1 .. l - m : m + i \in 1 .. l
    BY <1>2, <1>5
  <2>3. QED BY <1>4, <2>1, <2>2
<1>7. \A i \in 0 .. s.n - 1 : At(s, i) = q[(l - m) - s.n + i + 1]
  <2> TAKE i \in 0 .. s.n - 1
  <2>1. (l - m) - s.n + i + 1 \in 1 .. l - m /\ m + ((l - m) - s.n + i + 1) = l - s.n + i + 1
    BY <1>2, <1>5
  <2>2. q[(l - m) - s.n + i + 1] = p[l - s.n + i + 1]
    BY <1>6, <2>1
  <2>3. QED BY <1>1, <2>2
<1>8. InOrder(q)
  <2> SUFFICES ASSUME NEW i \in 1 .. l - m, NEW j \in 1 .. l - m, i < j
               PROVE  q[i].age > WINDOW \/ q[i].age > q[j].age
    BY <1>6 DEF InOrder
  <2>1. m + i \in 1 .. l /\ m + j \in 1 .. l /\ m + i < m + j
    BY <1>5, <1>6
  <2>2. p[m + i].age > WINDOW \/ p[m + i].age > p[m + j].age
    BY <1>1, <1>2, <2>1, Zenon DEF InOrder
  <2>3. QED BY <1>6, <2>2
<1>9. SlopeHolds(s, q)
  BY <1>1, <1>4, <1>5, <1>7, <1>8 DEF SlopeHolds
<1>10. Inside(s, q)
  <2> SUFFICES ASSUME NEW i \in l - m - s.n + 1 .. l - m
               PROVE  q[i].age <= WINDOW
    BY <1>4 DEF Inside
  <2>1. i \in 1 .. l - m /\ m + i \in l - s.n + 1 .. l
    BY <1>2, <1>5
  <2>2. p[m + i].age <= WINDOW
    BY <2>1 DEF Inside, l
  <2>3. QED BY <1>6, <2>1, <2>2
<1>11. ASSUME Outside(s, p) PROVE Outside(s, q)
  <2> SUFFICES ASSUME NEW i \in 1 .. l - m - s.n
               PROVE  q[i].age > WINDOW
    BY <1>4 DEF Outside
  <2>1. i \in 1 .. l - m /\ m + i \in 1 .. l - s.n
    BY <1>2, <1>5
  <2>2. p[m + i].age > WINDOW
    BY <1>11, <2>1 DEF Outside, l
  <2>3. QED BY <1>6, <2>1, <2>2
<1>12. ASSUME s.n = CAPACITY PROVE Outside(s, q)
  <2>1. Len(q) - s.n = 0
    BY <1>2, <1>4, <1>5, <1>12
  <2>2. QED BY <2>1 DEF Outside
<1>13. QED BY <1>4, <1>5, <1>9, <1>10, <1>11, <1>12 DEF q

\* A sample is pushed: what is too old goes, then what there is no room for, then the sample comes.
LEMMA SlopePushed ==
  ASSUME NEW s, NEW p, SlopeHolds(s, p), Outside(s, p), \A i \in 1 .. Len(p) : p[i].age >= 1, NEW v \in Values
  PROVE  LET r == PushSlope(s, v)
             q == LastOf(Append(p, [age |-> 0, v |-> v]), CAPACITY)
         IN SlopeHolds(r, q) /\ Inside(r, q) /\ Outside(r, q) /\ Len(q) <= CAPACITY
<1> DEFINE a == Evict(s)  b == DropOldest(a)  e == [age |-> 0, v |-> v]  r == PushSlope(s, v)
           f == Append(p, e)  q == LastOf(f, CAPACITY)  l == Len(p)
<1>1. SlopeHolds(a, p) /\ Outside(a, p) /\ Inside(a, p)
  BY EvictHolds
<1>2. SlopeHolds(b, p) /\ Inside(b, p) /\ b.n < CAPACITY /\ (b.n + 1 < CAPACITY => b.n = a.n)
  <2> HIDE DEF a
  <2>1. QED BY <1>1, DropHolds
<1>3. e \in Timed /\ e.age = 0
  <2>1. 0 \in 0 .. WINDOW + 1
    BY SlopeConstants
  <2>2. QED BY <2>1 DEF Timed
<1>4. r = [ring |-> [b.ring EXCEPT ![(b.head + b.n) % CAPACITY] = e], n |-> b.n + 1, head |-> b.head]
  BY DEF PushSlope
<1> HIDE DEF a, b, e, r
<1>5. SlopeHolds(r, f) /\ r.n = b.n + 1
  BY <1>2, <1>3, <1>4, JoinHolds
<1>6. Len(f) = l + 1 /\ l \in Nat /\ b.n \in Nat /\ b.n <= l /\ f[l + 1] = e /\ \A i \in 1 .. l : f[i] = p[i]
  <2>1. l \in Nat /\ b.n \in Nat /\ b.n <= l
    BY <1>2, PastIs
  <2>2. p \in Seq(Timed)
    BY <1>2 DEF SlopeHolds
  <2>3. QED BY <1>3, <2>1, <2>2
<1> HIDE DEF f, l
<1>7. Inside(r, f)
  <2> SUFFICES ASSUME NEW i \in l + 1 - r.n + 1 .. l + 1
               PROVE  f[i].age <= WINDOW
    BY <1>5, <1>6 DEF Inside
  <2>1. CASE i = l + 1
    <3>1. f[i].age = 0
      BY <1>3, <1>6, <2>1
    <3>2. QED BY <3>1, SlopeConstants
  <2>2. CASE i # l + 1
    <3>1. i \in l - b.n + 1 .. l /\ i \in 1 .. l
      BY <1>5, <1>6, <2>2
    <3>2. p[i].age <= WINDOW
      BY <1>2, <3>1 DEF Inside, l
    <3>3. QED BY <1>6, <3>1, <3>2
  <2>3. QED BY <2>1, <2>2
<1>8. ASSUME b.n = a.n PROVE Outside(r, f)
  <2> SUFFICES ASSUME NEW i \in 1 .. l + 1 - r.n
               PROVE  f[i].age > WINDOW
    BY <1>5, <1>6 DEF Outside
  <2>1. i \in 1 .. l - a.n /\ i \in 1 .. l
    BY <1>5, <1>6, <1>8
  <2>2. p[i].age > WINDOW
    BY <1>1, <2>1 DEF Outside, l
  <2>3. QED BY <1>6, <2>1, <2>2
<1>9. SlopeHolds(r, q) /\ Inside(r, q) /\ Len(q) <= CAPACITY /\ (Outside(r, f) => Outside(r, q)) /\ (r.n = CAPACITY => Outside(r, q))
  BY <1>5, <1>7, CutHolds
<1>10. b.n + 1 < CAPACITY \/ r.n = CAPACITY
  BY <1>2, <1>5, <1>6, SlopeConstants
<1>11. QED BY <1>2, <1>8, <1>9, <1>10 DEF r, q, f, e

-----------------------------------------------------------------------------
(* The invariant.                                                            *)

\* Empty rings and empty histories.
LEMMA TrendStarts == TrendInit => TrendInv
<1> SUFFICES ASSUME TrendInit PROVE TrendInv
  OBVIOUS
<1>1. SIZE \in Nat \ {0} /\ CAPACITY \in Nat \ {0} /\ WINDOW \in Nat /\ FAULT \in Nat \ {0} /\ Zero \in Values
  BY TrendAssumption DEF Zero
<1>2. raw = <<>> /\ past = <<>> /\ Len(<<>>) = 0 /\ <<>> \in Seq(Values) /\ <<>> \in Seq(Timed)
  BY DEF TrendInit
<1>3. fails = 0 /\ med = -1 /\ 0 \in 0 .. FAULT
  BY <1>1 DEF TrendInit, Init
<1>4. MedianHolds(median, raw)
  <2>1. median = [buf |-> [i \in 0 .. SIZE - 1 |-> Zero], n |-> 0, head |-> 0]
    BY DEF TrendInit, Init
  <2>2. 0 \in 0 .. SIZE /\ 0 \in 0 .. SIZE - 1
    BY <1>1
  <2>3. median \in MedianType /\ median.n = 0 /\ median.head = 0
    BY <1>1, <2>1, <2>2 DEF MedianType
  <2>4. QED BY <1>2, <2>3 DEF MedianHolds
<1>5. slope \in SlopeType /\ slope.n = 0
  <2>1. slope = [ring |-> [i \in 0 .. CAPACITY - 1 |-> [age |-> WINDOW + 1, v |-> Zero]], n |-> 0, head |-> 0]
    BY DEF TrendInit, Init
  <2>2. 0 \in 0 .. CAPACITY /\ 0 \in 0 .. CAPACITY - 1 /\ WINDOW + 1 \in 0 .. WINDOW + 1
    BY <1>1
  <2>3. [age |-> WINDOW + 1, v |-> Zero] \in Timed
    BY <1>1, <2>2 DEF Timed
  <2>4. QED BY <2>1, <2>2, <2>3 DEF SlopeType
<1>6. SlopeHolds(slope, past)
  <2>1. InOrder(<<>>)
    BY DEF InOrder
  <2>2. QED BY <1>2, <1>5, <2>1 DEF SlopeHolds
<1>7. Outside(slope, past)
  BY <1>2, <1>5 DEF Outside
<1>8. Len(past) <= CAPACITY
  BY <1>1, <1>2
<1>9. QED BY <1>3, <1>4, <1>6, <1>7, <1>8 DEF TrendInv

\* The failures in a row are counted as far as they matter.
LEMMA FailuresCounted ==
  ASSUME fails \in 0 .. FAULT, NEW failure \in BOOLEAN, CountFailure(failure)
  PROVE  fails' \in 0 .. FAULT
BY TrendAssumption DEF CountFailure

\* No reading: time passes, and a long outage starts the median anew.
LEMMA MissedStep ==
  ASSUME TrendInv, NEW d \in Gaps, TrendMissed(d)
  PROVE  TrendInv'
<1>1. /\ CountFailure(TRUE) /\ med' = -1 /\ slope' = Older(slope, d) /\ past' = Aged(past, d)
      /\ median' = (IF fails' = FAULT THEN ResetMedian(median) ELSE median)
      /\ raw' = (IF fails' = FAULT THEN <<>> ELSE raw)
  BY DEF TrendMissed, Missed
<1>2. fails' \in 0 .. FAULT
  BY <1>1, FailuresCounted DEF TrendInv
<1>3. MedianHolds(median, raw)'
  <2>1. MedianHolds(median, raw)
    BY DEF TrendInv
  <2>2. MedianHolds(ResetMedian(median), <<>>)
    BY <2>1, MedianReset
  <2>3. MedianHolds(median', raw')
    BY <1>1, <2>1, <2>2
  <2>4. QED BY <2>3 DEF MedianHolds
<1>4. SlopeHolds(slope', past') /\ Outside(slope', past') /\ Len(past') <= CAPACITY
  <2>1. SlopeHolds(slope, past) /\ Outside(slope, past) /\ Len(past) <= CAPACITY
    BY DEF TrendInv
  <2>2. SlopeHolds(Older(slope, d), Aged(past, d)) /\ Outside(Older(slope, d), Aged(past, d)) /\ Len(Aged(past, d)) = Len(past)
    BY <2>1, SlopeAged
  <2>3. QED BY <1>1, <2>1, <2>2
<1>5. SlopeHolds(slope, past)' /\ Outside(slope, past)' /\ (Len(past) <= CAPACITY)'
  BY <1>4
<1>6. med' \in Values \cup {-1} /\ ~(med' # -1)
  BY <1>1
<1>7. QED BY <1>2, <1>3, <1>5, <1>6 DEF TrendInv

\* A reading: its median joins the slope's samples, even that of a frozen one.
LEMMA ReadingStep ==
  ASSUME TrendInv, NEW d \in Gaps, NEW v \in Values, NEW stuck \in BOOLEAN, TrendReading(d, v, stuck)
  PROVE  TrendInv'
<1> DEFINE q == PushMedian(median, v)  all == LastOf(Append(raw, v), SIZE)
           s == Older(slope, d)  p == Aged(past, d)  m == Middle(q)
<1>1. /\ CountFailure(stuck) /\ med' = m /\ slope' = PushSlope(s, med')
      /\ median' = (IF fails' = FAULT THEN ResetMedian(q) ELSE q)
  BY Zenon DEF TrendReading, Reading
<1>2. /\ raw' = (IF fails' = FAULT THEN <<>> ELSE all)
      /\ past' = LastOf(Append(p, [age |-> 0, v |-> MedianOf(all)]), CAPACITY)
  BY Zenon DEF TrendReading
<1>3. fails' \in 0 .. FAULT
  BY <1>1, FailuresCounted DEF TrendInv
<1>4. MedianHolds(q, all) /\ q.n >= 1
  <2>1. MedianHolds(median, raw)
    BY DEF TrendInv
  <2>2. QED BY <2>1, MedianPushed
<1>5. SlopeHolds(s, p) /\ Outside(s, p) /\ \A i \in 1 .. Len(p) : p[i].age >= 1
  <2>1. SlopeHolds(slope, past) /\ Outside(slope, past)
    BY DEF TrendInv
  <2>2. /\ SlopeHolds(s, p) /\ Outside(s, p)
        /\ Len(p) = Len(past) /\ \A i \in 1 .. Len(past) : p[i].age >= 1
    BY <2>1, SlopeAged
  <2>3. QED BY <2>2
<1> HIDE DEF q, all, s, p, m
<1>6. m = MedianOf(all) /\ m \in Values
  BY <1>4, MiddleIs DEF m
<1>7. MedianHolds(median', raw')
  <2>1. MedianHolds(ResetMedian(q), <<>>)
    BY <1>4, MedianReset
  <2>2. QED BY <1>1, <1>2, <1>4, <2>1
<1>8. MedianHolds(median, raw)'
  BY <1>7 DEF MedianHolds
<1>9. SlopeHolds(slope', past') /\ Inside(slope', past') /\ Outside(slope', past') /\ Len(past') <= CAPACITY
  <2>1. slope' = PushSlope(s, m) /\ past' = LastOf(Append(p, [age |-> 0, v |-> m]), CAPACITY)
    BY <1>1, <1>2, <1>6
  <2>2. QED BY <1>5, <1>6, <2>1, SlopePushed
<1>10. SlopeHolds(slope, past)' /\ Inside(slope, past)' /\ Outside(slope, past)' /\ (Len(past) <= CAPACITY)'
  BY <1>9
<1>11. med' \in Values \cup {-1}
  BY <1>1, <1>6
<1>12. QED BY <1>3, <1>8, <1>10, <1>11 DEF TrendInv

\* Every step keeps the invariant.
LEMMA TrendStep == TrendInv /\ [TrendNext]_trendVars => TrendInv'
<1> SUFFICES ASSUME TrendInv, [TrendNext]_trendVars PROVE TrendInv'
  OBVIOUS
<1>1. ASSUME NEW d \in Gaps, TrendMissed(d) PROVE TrendInv'
  BY <1>1, MissedStep
<1>2. ASSUME NEW d \in Gaps, NEW v \in Values, NEW stuck \in BOOLEAN, TrendReading(d, v, stuck) PROVE TrendInv'
  BY <1>2, ReadingStep
<1>3. CASE UNCHANGED trendVars
  <2>1. median' = median /\ slope' = slope /\ fails' = fails /\ med' = med /\ raw' = raw /\ past' = past
    BY <1>3 DEF trendVars, vars
  <2>2. MedianHolds(median, raw)' <=> MedianHolds(median, raw)
    BY <2>1
  <2>3. /\ SlopeHolds(slope, past)' <=> SlopeHolds(slope, past)
        /\ Outside(slope, past)' <=> Outside(slope, past)
        /\ Inside(slope, past)' <=> Inside(slope, past)
    BY <2>1
  <2>4. QED BY <2>1, <2>2, <2>3 DEF TrendInv
<1>4. QED BY <1>1, <1>2, <1>3 DEF TrendNext

\* What the samples say, from the rings and the histories.
LEMMA TrendSays == TrendInv => TrendIsOfTheLast
<1> SUFFICES ASSUME TrendInv, med # -1 PROVE TrendIsOfTheLast
  BY DEF TrendIsOfTheLast
<1> DEFINE l == Len(past)  n == slope.n
<1>1. SlopeHolds(slope, past) /\ Outside(slope, past) /\ Inside(slope, past)
  BY DEF TrendInv
<1>2. /\ slope \in SlopeType
      /\ \A i \in 0 .. n - 1 : At(slope, i) = past[l - n + i + 1]
  BY <1>1 DEF SlopeHolds
<1>3. /\ n \in Nat /\ l \in Nat /\ n <= l /\ DOMAIN past = 1 .. l /\ WINDOW \in Nat
      /\ \A i \in 1 .. l : past[i].age \in Nat
  BY <1>1, PastIs, SlopeConstants
<1>4. l - n >= 0 /\ \A i \in DOMAIN past : past[i].age > WINDOW <=> i <= l - n
  <2>1. l - n >= 0
    <3> HIDE DEF l, n
    <3>1. QED BY <1>3
  <2>2. ASSUME NEW i \in DOMAIN past, i <= l - n PROVE past[i].age > WINDOW
    <3>1. i \in 1 .. l - n
      BY <1>3, <2>2
    <3>2. QED BY <1>1, <3>1 DEF Outside
  <2>3. ASSUME NEW i \in DOMAIN past, ~(i <= l - n) PROVE ~(past[i].age > WINDOW)
    <3>1. i \in l - n + 1 .. l /\ i \in 1 .. l
      BY <1>3, <2>3
    <3>2. past[i].age <= WINDOW
      BY <1>1, <3>1 DEF Inside
    <3>3. QED BY <1>3, <3>1, <3>2
  <2>4. QED BY <2>1, <2>2, <2>3
<1>5. \A i \in Held : At(slope, i) = past[(l - n) + i + 1]
  BY <1>2 DEF Held
<1>6. Span >= MIN_SPAN =>
        /\ Run > 0
        /\ \A k \in Int : (\A i \in Held : Y[i] = Y[0] + k * X[i]) => Rise = k * Run
  <2>1. ASSUME NEW i \in Held PROVE At(slope, i) \in Timed
    <3>1. i \in Nat /\ i < n /\ n <= CAPACITY /\ i \in 0 .. n - 1
      BY <1>1, <1>3, PastIs DEF Held
    <3>2. l - n + i + 1 \in 1 .. l
      <4> HIDE DEF l, n
      <4>1. QED BY <1>3, <3>1
    <3>3. past[l - n + i + 1] \in Timed
      BY <1>1, <3>2, PastIs
    <3>4. QED BY <1>2, <3>1, <3>3
  <2>2. QED BY <1>3, <2>1, FitIs
<1>7. -2 .. 2 \subseteq Int
  OBVIOUS
<1>8. QED BY <1>4, <1>5, <1>6, <1>7, Zenon DEF TrendIsOfTheLast

(* Over every sequence of readings, frozen readings, gaps and outages, for rings of *)
(* any size, any window and any shortest span: the samples of the slope are the    *)
(* medians of the readings since the last outage, exactly those within the window,  *)
(* and the slope of samples on a line is the line's (app.cpp:331-358,             *)
(* filter.cpp:7-89).                                                         *)
THEOREM TrendStaysOfTheLast == TrendSpec => []TrendIsOfTheLast
<1>1. TrendSpec => []TrendInv
  BY TrendStarts, TrendStep, PTL DEF TrendSpec
<1>2. QED BY <1>1, TrendSays, PTL
=============================================================================
