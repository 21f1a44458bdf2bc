------------------------------- MODULE Trend --------------------------------
(***************************************************************************)
(* What the App makes of the readings before anything judges them            *)
(* (core/src/filter.cpp, core/src/app.cpp): a median of the last five, and a   *)
(* least-squares slope over a window of time.  Both are rings that outages      *)
(* leave gaps in.  Times are ages, a reading one of Values.                    *)
(***************************************************************************)
EXTENDS Integers, FiniteSets

CONSTANTS
  Values,            \* readings
  Gaps,              \* times from one sample to the next
  SIZE,              \* the median's samples
  CAPACITY, WINDOW,  \* the slope's samples, and how long they count
  MIN_SPAN,          \* MIN_SPAN_MS
  FAULT              \* fault_consecutive_failures

ASSUME TrendAssumption ==
  /\ Values \subseteq Nat /\ Values # {} /\ Gaps \subseteq Nat \ {0}
  /\ SIZE \in Nat \ {0} /\ CAPACITY \in Nat \ {0} /\ WINDOW \in Nat
  /\ MIN_SPAN \in 1 .. WINDOW /\ FAULT \in Nat \ {0}

VARIABLES
  median, \* Median5: mBuf, mN, mHead (the next to write)
  slope,  \* SlopeEstimator: mT and mV, mN, mHead (the oldest)
  fails,  \* consecutiveFailures
  med     \* this sample's median; -1: no reading

vars == <<median, slope, fails, med>>

Timed == [age : 0 .. WINDOW + 1, v : Values]

TypeOK ==
  /\ median \in [buf : [0 .. SIZE - 1 -> Values], n : 0 .. SIZE, head : 0 .. SIZE - 1]
  /\ slope \in [ring : [0 .. CAPACITY - 1 -> Timed], n : 0 .. CAPACITY, head : 0 .. CAPACITY - 1]
  /\ fails \in 0 .. FAULT /\ med \in Values \cup {-1}

Zero == CHOOSE v \in Values : TRUE

Init ==
  /\ median = [buf |-> [i \in 0 .. SIZE - 1 |-> Zero], n |-> 0, head |-> 0]
  /\ slope = [ring |-> [i \in 0 .. CAPACITY - 1 |-> [age |-> WINDOW + 1, v |-> Zero]], n |-> 0, head |-> 0]
  /\ fails = 0 /\ med = -1

-----------------------------------------------------------------------------
(* Median5::Push and Reset.                                                  *)

PushMedian(q, v) ==
  [buf |-> [q.buf EXCEPT ![q.head] = v], n |-> IF q.n < SIZE THEN q.n + 1 ELSE q.n, head |-> (q.head + 1) % SIZE]

\* The k-th smallest, from 0, of the first n entries: what the insertion sort has there.
Smallest(q, k) ==
  CHOOSE v \in {q.buf[i] : i \in 0 .. q.n - 1} :
    /\ Cardinality({i \in 0 .. q.n - 1 : q.buf[i] < v}) <= k
    /\ Cardinality({i \in 0 .. q.n - 1 : q.buf[i] <= v}) > k

\* Of the two middle ones of an even count, the lower one.
Middle(q) == Smallest(q, (q.n - 1) \div 2)

ResetMedian(q) == [buf |-> q.buf, n |-> 0, head |-> 0]

-----------------------------------------------------------------------------
(* SlopeEstimator::Push and SlopePer10min.                                    *)

At(s, i) == s.ring[(s.head + i) % CAPACITY]

AgedBy(e, d) == [e EXCEPT !.age = IF @ + d > WINDOW THEN WINDOW + 1 ELSE @ + d]

Older(s, d) == [s EXCEPT !.ring = [i \in DOMAIN @ |-> AgedBy(@[i], d)]]

\* The k oldest samples go.
GiveUp(s, k) == [ring |-> s.ring, n |-> s.n - k, head |-> (s.head + k) % CAPACITY]

\* Mutated: a push gives up one sample that has left the window, and leaves the others for the next.
EvictOne(s) == GiveUp(s, IF s.n > 0 /\ At(s, 0).age > WINDOW THEN 1 ELSE 0)

\* How many samples, from the oldest on, have left the window.
Stale(s) ==
  CHOOSE k \in 0 .. s.n : (\A i \in 0 .. k - 1 : At(s, i).age > WINDOW) /\ (k < s.n => At(s, k).age <= WINDOW)

Evict(s) == GiveUp(s, Stale(s))

DropOldest(s) == IF s.n = CAPACITY THEN GiveUp(s, 1) ELSE s

PushSlope(s, v) ==
  LET r == DropOldest(Evict(s))
  IN [ring |-> [r.ring EXCEPT ![(r.head + r.n) % CAPACITY] = [age |-> 0, v |-> v]], n |-> r.n + 1, head |-> r.head]

Span == IF slope.n < 2 THEN 0 ELSE At(slope, 0).age - At(slope, slope.n - 1).age

\* Least squares: the slope is Rise / Run, times relative to the oldest sample; it is 0 below MIN_SPAN.
Held == 0 .. slope.n - 1
X == [i \in Held |-> At(slope, 0).age - At(slope, i).age]
Y == [i \in Held |-> At(slope, i).v]
Products(f, g) == [i \in Held |-> f[i] * g[i]]

\* The loop over the samples.
Total(f) ==
  LET sum[n \in 0 .. slope.n] == IF n = 0 THEN 0 ELSE sum[n - 1] + f[n - 1]
  IN sum[slope.n]

Rise == slope.n * Total(Products(X, Y)) - Total(X) * Total(Y)
Run == slope.n * Total(Products(X, X)) - Total(X) * Total(X)

-----------------------------------------------------------------------------
(* App::Tick's first part: a reading, a frozen one (a reading that counts as a  *)
(* failure), or none.                                                       *)

CountFailure(failure) == fails' = IF ~failure THEN 0 ELSE IF fails < FAULT THEN fails + 1 ELSE fails

Missed(d) ==
  /\ CountFailure(TRUE)
  /\ med' = -1
  /\ slope' = Older(slope, d)
  /\ median' = IF fails' = FAULT THEN ResetMedian(median) ELSE median

Reading(d, v, stuck) ==
  LET q == PushMedian(median, v) IN
  /\ CountFailure(stuck)
  /\ med' = Middle(q)
  /\ slope' = PushSlope(Older(slope, d), med')
  /\ median' = IF fails' = FAULT THEN ResetMedian(q) ELSE q

Next == \E d \in Gaps : Missed(d) \/ \E v \in Values, stuck \in BOOLEAN : Reading(d, v, stuck)

Spec == Init /\ [][Next]_vars
=============================================================================
