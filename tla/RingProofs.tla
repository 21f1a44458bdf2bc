----------------------------- MODULE RingProofs -----------------------------
(***************************************************************************)
(* What is proved of the flash ring, for every number of segments from two   *)
(* on, of records in a segment and of records given, and whatever is cut or  *)
(* fails: that it implements the log of AppendLog, that what it reports      *)
(* would survive, that the lookup misses no record, and that without a       *)
(* failure it keeps the last records.                                       *)
(*                                                                         *)
(* The proof goes up from the recursive functions of the model (the binary   *)
(* search, FlattenSeq) over the ring's arithmetic to what Open finds on a    *)
(* flash, and from there to an inductive invariant of the flash and the      *)
(* ring in memory; then one lemma a flash operation.                        *)
(***************************************************************************)
EXTENDS CsvStream, SequenceTheorems, WellFoundedInduction, TLAPS

\* Induction over the naturals, for a set.
LEMMA Induct ==
  ASSUME NEW T \in SUBSET Nat, 0 \in T, \A n \in T : n + 1 \in T
  PROVE  T = Nat
<1> DEFINE less == OpToRel(<, Nat)
           rest == Nat \ T
<1>1. IsWellFoundedOn(less, Nat)
  BY NatLessThanWellFounded
<1>2. \A n, m \in Nat : n < m => <<n, m>> \in less
  BY DEF OpToRel
<1> HIDE DEF less
<1>3. SUFFICES ASSUME rest # {} PROVE FALSE
  OBVIOUS
<1>4. PICK m \in rest : \A n \in rest : <<n, m>> \notin less
  <2>1. rest \subseteq Nat
    OBVIOUS
  <2> HIDE DEF rest
  <2>2. QED BY <1>1, <1>3, <2>1, WFMin
<1>5. m \in Nat /\ m # 0
  OBVIOUS
<1>6. m - 1 \in Nat /\ m - 1 < m /\ m - 1 + 1 = m
  BY <1>5
<1>7. m - 1 \in T
  BY <1>2, <1>4, <1>5, <1>6
<1>8. QED BY <1>4, <1>6, <1>7

-----------------------------------------------------------------------------

-----------------------------------------------------------------------------
(* The binary search. *)

Turn(f, holds, w) ==
  IF w[1] >= w[2] THEN w[1]
  ELSE f[IF holds[w[1] + (w[2] - w[1]) \div 2 + 1] THEN <<w[1] + (w[2] - w[1]) \div 2 + 1, w[2]>>
         ELSE <<w[1], w[1] + (w[2] - w[1]) \div 2>>]

Spans(n) == (0 .. n) \X (0 .. n)

Ends(holds, lo, hi, r) == r \in lo .. hi /\ (r = lo \/ holds[r]) /\ (r = hi \/ ~holds[r + 1])

\* The middle of a span lies in it, and both halves are shorter.
LEMMA Halves ==
  ASSUME NEW lo \in Nat, NEW hi \in Nat, lo < hi
  PROVE  LET mid == lo + (hi - lo) \div 2
         IN mid \in Nat /\ lo <= mid /\ mid < hi /\ hi - (mid + 1) < hi - lo /\ mid - lo < hi - lo
<1> DEFINE h == (hi - lo) \div 2
<1>1. h \in Nat /\ h < hi - lo
  OBVIOUS
<1>2. QED BY <1>1

\* A turn of the search asks about one shorter span.
LEMMA TurnOf ==
  ASSUME NEW holds, NEW n \in Nat, NEW w \in Spans(n), w[1] < w[2]
  PROVE  \E v \in Spans(n) : /\ v[2] - v[1] < w[2] - w[1] 
                             /\ \A f : Turn(f, holds, w) = f[v]
<1> DEFINE lo == w[1]  hi == w[2]  mid == lo + (hi - lo) \div 2
<1>1. lo \in 0 .. n /\ hi \in 0 .. n
  BY DEF Spans
<1>2. mid \in Nat /\ lo <= mid /\ mid < hi /\ hi - (mid + 1) < hi - lo /\ mid - lo < hi - lo
  BY <1>1, Halves
<1> DEFINE v == IF holds[mid + 1] THEN <<mid + 1, hi>> ELSE <<lo, mid>>
<1>3. v \in Spans(n) /\ v[2] - v[1] < w[2] - w[1]
  <2> HIDE DEF mid
  <2>1. CASE holds[mid + 1]
    <3>1. v = <<mid + 1, hi>>
      BY <2>1
    <3>2. QED BY <1>1, <1>2, <3>1 DEF Spans
  <2>2. CASE ~holds[mid + 1]
    <3>1. v = <<lo, mid>>
      BY <2>2
    <3>2. QED BY <1>1, <1>2, <3>1 DEF Spans
  <2>3. QED BY <2>1, <2>2
<1>4. \A f : Turn(f, holds, w) = f[v]
  <2>1. ~(w[1] >= w[2])
    BY <1>1
  <2>2. QED BY <2>1, Zenon DEF Turn
<1>5. QED BY <1>3, <1>4

\* The search is defined: by the lengths of its spans, a solution for all below n + 1.
LEMMA SearchExists ==
  ASSUME NEW holds, NEW n \in Nat
  PROVE  \E f : f = [w \in Spans(n) |-> Turn(f, holds, w)]
<1> DEFINE D == Spans(n)
           Upto(f, d) == \A w \in D : w[2] - w[1] <= d => f[w] = Turn(f, holds, w)
           T == {d \in Nat : \E f : Upto(f, d)}
<1>1. \A w \in D : w[1] \in 0 .. n /\ w[2] \in 0 .. n
  BY DEF Spans
<1>2. 0 \in T
  <2> DEFINE f == [w \in D |-> w[1]]
  <2>1. \A w \in D : w[2] - w[1] <= 0 => f[w] = Turn(f, holds, w)
    BY <1>1 DEF Turn
  <2>2. QED BY <2>1
<1>3. \A d \in T : d + 1 \in T
  <2> TAKE d \in T
  <2>1. PICK f : Upto(f, d)
    OBVIOUS
  <2> DEFINE g == [w \in D |-> Turn(f, holds, w)]
  <2>2. ASSUME NEW w \in D, w[2] - w[1] <= d + 1
        PROVE  g[w] = Turn(g, holds, w)
    <3>1. CASE w[1] >= w[2]
      BY <3>1 DEF Turn
    <3>2. CASE w[1] < w[2]
      <4>1. PICK v \in D : v[2] - v[1] < w[2] - w[1] /\ \A e : Turn(e, holds, w) = e[v]
        BY <3>2, TurnOf
      <4>2. g[w] = f[v] /\ Turn(g, holds, w) = g[v]
        BY <4>1
      <4>3. v[2] - v[1] <= d
        BY <1>1, <2>2, <4>1
      <4>4. f[v] = g[v]
        BY <2>1, <4>3
      <4>5. QED BY <4>2, <4>4
    <3>3. QED BY <1>1, <3>1, <3>2
  <2>3. Upto(g, d + 1)
    BY <2>2
  <2> HIDE DEF g, Upto
  <2>4. d + 1 \in Nat
    OBVIOUS
  <2>5. QED BY <2>3, <2>4
<1>4. n \in T
  <2>1. T \in SUBSET Nat
    OBVIOUS
  <2> HIDE DEF T
  <2>2. QED BY <1>2, <1>3, <2>1, Induct
<1>5. PICK f : Upto(f, n)
  BY <1>4
<1> DEFINE g == [w \in D |-> f[w]]
<1>6. \A w \in D : g[w] = Turn(f, holds, w)
  BY <1>1, <1>5
<1>7. \A w \in D : g[w] = Turn(g, holds, w)
  <2> TAKE w \in D
  <2>1. CASE w[1] >= w[2]
    BY <1>6, <2>1 DEF Turn
  <2>2. CASE w[1] < w[2]
    <3>1. PICK v \in D : \A e : Turn(e, holds, w) = e[v]
      BY <2>2, TurnOf
    <3>2. QED BY <1>6, <3>1
  <2>3. QED BY <1>1, <2>1, <2>2
<1>8. g = [w \in D |-> Turn(g, holds, w)]
  BY <1>7
<1> HIDE DEF g
<1>9. QED BY <1>8

\* What the binary search returns, whatever the sequence: it holds before the end and not after.
LEMMA BoundaryIs ==
  ASSUME NEW holds, Len(holds) \in Nat
  PROVE  Ends(holds, 0, Len(holds), Boundary(holds))
<1> DEFINE n == Len(holds)
<1>1. PICK f : f = [w \in Spans(n) |-> Turn(f, holds, w)] /\ Boundary(holds) = f[<<0, n>>]
  <2>1. \E f : f = [w \in Spans(n) |-> Turn(f, holds, w)]
    BY SearchExists
  <2>2. QED BY <2>1, Zenon DEF Boundary, Turn, Spans
<1> HIDE DEF n
<1>2. n \in Nat
  BY DEF n
<1>3. \A w \in Spans(n) : f[w] = Turn(f, holds, w)
  BY <1>1
<1> DEFINE T == {d \in Nat : \A lo, hi \in 0 .. n :
                   lo <= hi /\ hi - lo <= d => Ends(holds, lo, hi, f[<<lo, hi>>])}
<1>4. ASSUME NEW lo \in 0 .. n
      PROVE  Ends(holds, lo, lo, f[<<lo, lo>>])
  <2>1. <<lo, lo>> \in Spans(n)
    BY DEF Spans
  <2>2. f[<<lo, lo>>] = lo
    <3>1. f[<<lo, lo>>] = Turn(f, holds, <<lo, lo>>)
      BY <1>3, <2>1
    <3>2. lo >= lo
      BY <1>2
    <3>3. Turn(f, holds, <<lo, lo>>) = lo
      BY <3>2 DEF Turn
    <3>4. QED BY <3>1, <3>3
  <2>3. QED BY <1>2, <2>2 DEF Ends
<1>5. 0 \in T
  <2>1. ASSUME NEW lo \in 0 .. n, NEW hi \in 0 .. n, lo <= hi, hi - lo <= 0
        PROVE  Ends(holds, lo, hi, f[<<lo, hi>>])
    <3>1. hi = lo
      BY <1>2, <2>1
    <3>2. QED BY <1>4, <3>1
  <2>2. QED BY <2>1
<1>6. \A d \in T : d + 1 \in T
  <2> TAKE d \in T
  <2>1. ASSUME NEW lo \in 0 .. n, NEW hi \in 0 .. n, lo <= hi, hi - lo <= d + 1
        PROVE  Ends(holds, lo, hi, f[<<lo, hi>>])
    <3>1. CASE lo = hi
      BY <1>4, <3>1
    <3>2. CASE lo < hi
      <4> DEFINE mid == lo + (hi - lo) \div 2
      <4>1. mid \in Nat /\ lo <= mid /\ mid < hi /\ hi - (mid + 1) < hi - lo /\ mid - lo < hi - lo
        BY <1>2, <3>2, Halves
      <4>2. <<lo, hi>> \in Spans(n)
        BY DEF Spans
      <4>3. f[<<lo, hi>>] = IF holds[mid + 1] THEN f[<<mid + 1, hi>>] ELSE f[<<lo, mid>>]
        <5>1. f[<<lo, hi>>] = Turn(f, holds, <<lo, hi>>)
          BY <1>3, <4>2
        <5>2. ~(lo >= hi)
          BY <1>2, <3>2
        <5>3. Turn(f, holds, <<lo, hi>>) = f[IF holds[mid + 1] THEN <<mid + 1, hi>> ELSE <<lo, mid>>]
          BY <5>2 DEF Turn
        <5>4. QED BY <5>1, <5>3, Zenon
      <4> HIDE DEF mid
      <4>4. CASE holds[mid + 1]
        <5>1. f[<<lo, hi>>] = f[<<mid + 1, hi>>]
          BY <4>3, <4>4
        <5>2. mid + 1 \in 0 .. n /\ mid + 1 <= hi /\ hi - (mid + 1) <= d
          BY <1>2, <2>1, <4>1
        <5>3. Ends(holds, mid + 1, hi, f[<<mid + 1, hi>>])
          BY <5>2
        <5>4. QED BY <1>2, <4>1, <4>4, <5>1, <5>3 DEF Ends
      <4>5. CASE ~holds[mid + 1]
        <5>1. f[<<lo, hi>>] = f[<<lo, mid>>]
          BY <4>3, <4>5
        <5>2. mid \in 0 .. n /\ lo <= mid /\ mid - lo <= d
          BY <1>2, <2>1, <4>1
        <5>3. Ends(holds, lo, mid, f[<<lo, mid>>])
          BY <5>2
        <5>4. Ends(holds, lo, mid, f[<<lo, hi>>])
          BY <5>1, <5>3
        <5>5. PICK w : w = f[<<lo, hi>>]
          OBVIOUS
        <5>6. mid \in lo .. hi /\ mid < hi /\ w \in lo .. mid /\ (w = lo \/ holds[w]) /\ (w = mid \/ ~holds[w + 1])
          BY <1>2, <4>1, <5>4, <5>5 DEF Ends
        <5>7. w \in lo .. hi /\ (w = lo \/ holds[w]) /\ (w = hi \/ ~holds[w + 1])
          <6>1. w \in lo .. hi
            BY <1>2, <5>6
          <6>2. w = mid => ~holds[w + 1]
            BY <4>5
          <6>3. QED BY <5>6, <6>1, <6>2
        <5>8. QED BY <5>5, <5>7 DEF Ends
      <4>6. QED BY <4>4, <4>5
    <3>3. QED BY <1>2, <2>1, <3>1, <3>2
  <2>2. d + 1 \in Nat
    OBVIOUS
  <2>3. QED BY <2>1, <2>2
<1>7. n \in T
  <2>1. T \in SUBSET Nat
    OBVIOUS
  <2> HIDE DEF T
  <2>2. QED BY <1>2, <1>5, <1>6, <2>1, Induct
<1>8. Ends(holds, 0, n, f[<<0, n>>])
  BY <1>2, <1>7
<1>9. QED BY <1>1, <1>8 DEF n

\* The constants, one by one.
LEMMA SlotConstants == NSegments \in Nat \ {0} /\ PerSegment \in Nat \ {0} /\ MaxRecords \in Nat \ {0}
BY RingConstants

\* What Open takes for the end of a segment's records.
LEMMA ValidLengthIs ==
  ASSUME NEW slots
  PROVE  LET l == ValidLength(slots)
         IN /\ l \in 0 .. PerSegment
            /\ l # 0 => Valid(slots[l])
            /\ l # PerSegment => ~Valid(slots[l + 1])
<1> DEFINE holds == [i \in Slots |-> Valid(slots[i])]
<1>1. Len(holds) = PerSegment
  BY SlotConstants DEF Slots
<1>2. \A i \in Slots : holds[i] = Valid(slots[i])
  OBVIOUS
<1> HIDE DEF holds
<1>3. Ends(holds, 0, PerSegment, Boundary(holds))
  BY <1>1, BoundaryIs, SlotConstants
<1>4. ValidLength(slots) = Boundary(holds)
  BY DEF ValidLength, holds
<1>5. QED BY <1>2, <1>3, <1>4, SlotConstants DEF Ends, Slots

\* What the lookup by number returns: the record before it is valid and older.
LEMMA LowerBoundIs ==
  ASSUME NEW log \in Seq(Int), NEW seq \in Records
  PROVE  LET r == LowerBound(log, seq)
         IN r \in 0 .. Len(log) /\ (r # 0 => Valid(log[r]) /\ log[r] < seq)
<1> DEFINE holds == [i \in DOMAIN log |-> Valid(log[i]) /\ log[i] < seq]
<1>1. Len(holds) = Len(log) /\ Len(log) \in Nat
  OBVIOUS
<1>2. \A i \in DOMAIN log : holds[i] = (Valid(log[i]) /\ log[i] < seq)
  OBVIOUS
<1> HIDE DEF holds
<1>3. Ends(holds, 0, Len(log), Boundary(holds))
  BY <1>1, BoundaryIs
<1>4. LowerBound(log, seq) = Boundary(holds)
  BY DEF LowerBound, holds
<1> DEFINE r == LowerBound(log, seq)
<1>5. r \in 0 .. Len(log) /\ (r = 0 \/ holds[r])
  BY <1>1, <1>3, <1>4 DEF Ends
<1> HIDE DEF r
<1>6. r # 0 => r \in DOMAIN log
  BY <1>1, <1>5
<1>7. QED BY <1>2, <1>5, <1>6 DEF r

-----------------------------------------------------------------------------
(* FlattenSeq.  Concatenation under a name of its own, for the facts below are *)
(* about what is put together, not about what is in it.                     *)
Cat(s, t) == s \o t
Nil == <<>>

\* Nothing is neutral.
LEMMA CatIs ==
  ASSUME NEW S, NEW s \in Seq(S), NEW t \in Seq(S)
  PROVE  Cat(s, t) \in Seq(S) /\ Cat(Nil, s) = s /\ Cat(s, Nil) = s
BY ConcatProperties, ConcatEmptySeq DEF Cat, Nil

\* Concatenation is associative.
LEMMA CatAssociative ==
  ASSUME NEW S, NEW s \in Seq(S), NEW t \in Seq(S), NEW u \in Seq(S)
  PROVE  Cat(s, Cat(t, u)) = Cat(Cat(s, t), u)
BY ConcatAssociative DEF Cat

\* Nothing is a sequence.
LEMMA NilType ==
  ASSUME NEW S
  PROVE  Nil \in Seq(S)
BY DEF Nil

\* f: what the parts before each one amount to
Sums(f, ps) ==
  /\ f[0] = Nil
  /\ \A i \in 1 .. Len(ps) : f[i] = Cat(f[i - 1], ps[i])

Joined(f, ps) == [i \in 1 .. Len(ps) |-> IF i = 1 THEN ps[i] ELSE Cat(f[i - 1], ps[i])]

\* The concatenations of the first parts exist, one for every number of parts.
LEMMA SumsExist ==
  ASSUME NEW S, NEW ps \in Seq(Seq(S))
  PROVE  \E f \in [0 .. Len(ps) -> Seq(S)] : Sums(f, ps)
<1> DEFINE n == Len(ps)
           Upto(f, d) == f[0] = Nil /\ \A i \in 1 .. n : i <= d => f[i] = Cat(f[i - 1], ps[i])
           T == {d \in Nat : \E f \in [0 .. n -> Seq(S)] : Upto(f, d)}
<1>1. n \in Nat /\ \A i \in 1 .. n : ps[i] \in Seq(S)
  OBVIOUS
<1> HIDE DEF n
<1>2. 0 \in T
  <2> DEFINE f == [i \in 0 .. n |-> Nil]
  <2>1. f \in [0 .. n -> Seq(S)]
    BY NilType
  <2>2. Upto(f, 0)
    BY <1>1
  <2> HIDE DEF f, Upto
  <2>3. QED BY <2>1, <2>2
<1>3. \A d \in T : d + 1 \in T
  <2> TAKE d \in T
  <2>1. PICK f \in [0 .. n -> Seq(S)] : Upto(f, d)
    OBVIOUS
  <2>2. CASE d + 1 \in 1 .. n
    <3> DEFINE g == [i \in 0 .. n |-> IF i = d + 1 THEN Cat(f[d], ps[d + 1]) ELSE f[i]]
    <3>1. f[d] \in Seq(S) /\ ps[d + 1] \in Seq(S)
      BY <1>1, <2>2
    <3>2. Cat(f[d], ps[d + 1]) \in Seq(S)
      BY <3>1, CatIs
    <3>3. g \in [0 .. n -> Seq(S)]
      BY <3>2
    <3>4. \A i \in 1 .. n : i <= d => g[i] = Cat(g[i - 1], ps[i])
      BY <1>1, <2>1
    <3>5. g[d + 1] = Cat(g[d], ps[d + 1]) /\ g[0] = Nil
      BY <1>1, <2>1, <2>2
    <3> HIDE DEF g
    <3>6. \A i \in 1 .. n : i <= d + 1 => i <= d \/ i = d + 1
      BY <1>1
    <3>7. \A i \in 1 .. n : i <= d + 1 => g[i] = Cat(g[i - 1], ps[i])
      <4> TAKE i \in 1 .. n
      <4>1. d + 1 - 1 = d
        OBVIOUS
      <4>2. CASE i = d + 1
        <5>1. g[i - 1] = g[d]
          BY <4>1, <4>2
        <5>2. QED BY <3>5, <4>2, <5>1
      <4>3. QED BY <3>4, <3>6, <4>2
    <3>9. Upto(g, d + 1)
      BY <3>5, <3>7
    <3> HIDE DEF Upto
    <3>8. QED BY <3>3, <3>9
  <2>3. CASE d + 1 \notin 1 .. n
    <3>1. \A i \in 1 .. n : i <= d
      BY <1>1, <2>3
    <3>2. Upto(f, d + 1)
      BY <2>1, <3>1
    <3> HIDE DEF Upto
    <3>3. QED BY <3>2
  <2>4. QED BY <2>2, <2>3
<1>4. n \in T
  <2>1. T \in SUBSET Nat
    OBVIOUS
  <2> HIDE DEF T
  <2>2. QED BY <1>1, <1>2, <1>3, <2>1, Induct
<1>5. PICK f \in [0 .. n -> Seq(S)] : Upto(f, n)
  BY <1>4
<1>6. Sums(f, ps)
  BY <1>1, <1>5 DEF Sums, n
<1>7. QED BY <1>6 DEF n

\* FlattenSeq is the last of them.
LEMMA FlattenIs ==
  ASSUME NEW S, NEW ps \in Seq(Seq(S)), NEW f \in [0 .. Len(ps) -> Seq(S)], Sums(f, ps)
  PROVE  FlattenSeq(ps) = f[Len(ps)]
<1> DEFINE n == Len(ps)
<1>1. n \in Nat /\ \A i \in 1 .. n : ps[i] \in Seq(S)
  OBVIOUS
<1>2. CASE n = 0
  <2>1. ps = Nil
    BY <1>2
  <2>2. FlattenSeq(ps) = ps
    BY <1>2, Zenon DEF FlattenSeq
  <2>3. QED BY <1>2, <2>1, <2>2 DEF Sums
<1>3. CASE n # 0
  <2> DEFINE g == [i \in 1 .. n |-> f[i]]
  <2>1. g = Joined(g, ps)
    <3>1. ASSUME NEW i \in 1 .. n
          PROVE  g[i] = IF i = 1 THEN ps[i] ELSE Cat(g[i - 1], ps[i])
      <4>1. g[i] = Cat(f[i - 1], ps[i])
        BY DEF Sums
      <4>2. CASE i = 1
        <5>1. g[i] = Cat(Nil, ps[i])
          BY <4>1, <4>2 DEF Sums
        <5>2. QED BY <1>1, <4>2, <5>1, CatIs
      <4>3. CASE i # 1
        <5>1. i - 1 \in 1 .. n
          BY <1>1, <4>3
        <5>2. QED BY <4>1, <4>3, <5>1
      <4>4. QED BY <4>2, <4>3
    <3>2. g = [i \in 1 .. n |-> IF i = 1 THEN ps[i] ELSE Cat(g[i - 1], ps[i])]
      BY <3>1
    <3>3. QED BY <3>2 DEF Joined
  <2> HIDE DEF g
  <2>2. PICK u : u = Joined(u, ps) /\ FlattenSeq(ps) = u[n]
    <3>1. \E u : u = Joined(u, ps)
      BY <2>1
    <3>2. QED BY <1>3, <3>1, Zenon DEF FlattenSeq, Joined, Cat
  <2> HIDE DEF n
  <2>3. \A i \in 1 .. n : u[i] = IF i = 1 THEN ps[i] ELSE Cat(u[i - 1], ps[i])
    BY <2>2 DEF Joined, n
  <2> DEFINE T == {d \in Nat : d + 1 \in 1 .. n => u[d + 1] = f[d + 1]}
  <2>4. f[1] = ps[1]
    <3>1. 1 \in 1 .. n
      BY <1>1, <1>3
    <3>2. f[1] = Cat(f[1 - 1], ps[1]) /\ f[0] = Nil
      BY <3>1 DEF Sums, n
    <3>3. f[1] = Cat(Nil, ps[1])
      BY <3>2
    <3>4. QED BY <1>1, <3>1, <3>3, CatIs
  <2>5. 0 \in T
    BY <1>1, <1>3, <2>3, <2>4
  <2>6. \A d \in T : d + 1 \in T
    <3> TAKE d \in T
    <3>1. SUFFICES ASSUME d + 1 + 1 \in 1 .. n
                   PROVE  u[d + 1 + 1] = f[d + 1 + 1]
      OBVIOUS
    <3>2. d + 1 \in 1 .. n /\ d + 1 + 1 # 1 /\ d + 1 + 1 - 1 = d + 1
      BY <1>1, <3>1
    <3>3. u[d + 1] = f[d + 1]
      BY <3>2
    <3>4. u[d + 1 + 1] = Cat(u[d + 1], ps[d + 1 + 1])
      BY <2>3, <3>1, <3>2
    <3>5. f[d + 1 + 1] = Cat(f[d + 1 + 1 - 1], ps[d + 1 + 1])
      BY <3>1 DEF Sums, n
    <3>6. QED BY <3>2, <3>3, <3>4, <3>5
  <2>7. n - 1 \in T
    <3>1. T \in SUBSET Nat
      OBVIOUS
    <3> HIDE DEF T
    <3>2. T = Nat
      BY <2>5, <2>6, <3>1, Induct
    <3>3. QED BY <1>1, <1>3, <3>2
  <2>8. u[n] = f[n]
    <3>1. n - 1 + 1 = n /\ n \in 1 .. n
      BY <1>1, <1>3
    <3>2. QED BY <2>7, <3>1
  <2>9. QED BY <2>2, <2>8 DEF n
<1>4. QED BY <1>2, <1>3

\* The type of what is put together.
LEMMA FlattenType ==
  ASSUME NEW S, NEW ps \in Seq(Seq(S))
  PROVE  FlattenSeq(ps) \in Seq(S)
<1>1. PICK f \in [0 .. Len(ps) -> Seq(S)] : Sums(f, ps)
  BY SumsExist
<1>2. FlattenSeq(ps) = f[Len(ps)]
  BY <1>1, FlattenIs
<1>3. QED BY <1>2

\* One more part at the end.
LEMMA FlattenAppend ==
  ASSUME NEW S, NEW ps \in Seq(Seq(S)), NEW qs \in Seq(Seq(S)), Len(qs) = Len(ps) + 1,
         \A i \in 1 .. Len(ps) : qs[i] = ps[i]
  PROVE  FlattenSeq(qs) = Cat(FlattenSeq(ps), qs[Len(qs)])
<1>1. PICK f \in [0 .. Len(qs) -> Seq(S)] : Sums(f, qs)
  BY SumsExist
<1>2. FlattenSeq(qs) = f[Len(qs)]
  BY <1>1, FlattenIs
<1> DEFINE n == Len(ps)
           g == [i \in 0 .. n |-> f[i]]
<1>3. n \in Nat
  OBVIOUS
<1>4. g \in [0 .. n -> Seq(S)]
  BY <1>3
<1>5. Sums(g, ps)
  <2>1. g[0] = Nil
    BY <1>1, <1>3 DEF Sums
  <2>2. ASSUME NEW i \in 1 .. n
        PROVE  g[i] = Cat(g[i - 1], ps[i])
    <3>1. f[i] = Cat(f[i - 1], qs[i]) /\ qs[i] = ps[i]
      BY <1>1, <1>3 DEF Sums
    <3>2. g[i] = f[i] /\ g[i - 1] = f[i - 1]
      BY <1>3
    <3>3. QED BY <3>1, <3>2
  <2>3. QED BY <2>1, <2>2 DEF Sums
<1>6. g[n] = f[n]
  BY <1>3
<1> HIDE DEF g
<1>7. FlattenSeq(ps) = g[n]
  BY <1>4, <1>5, FlattenIs
<1>8. f[Len(qs)] = Cat(f[Len(qs) - 1], qs[Len(qs)])
  <2>1. Len(qs) \in 1 .. Len(qs)
    BY <1>3
  <2>2. \A i \in 1 .. Len(qs) : f[i] = Cat(f[i - 1], qs[i])
    BY <1>1 DEF Sums
  <2> HIDE DEF n
  <2>3. QED BY <2>1, <2>2
<1>9. Len(qs) - 1 = n
  BY <1>3
<1>10. QED BY <1>2, <1>6, <1>7, <1>8, <1>9

\* One more part in front.
LEMMA FlattenPrepend ==
  ASSUME NEW S, NEW ps \in Seq(Seq(S)), NEW qs \in Seq(Seq(S)), Len(qs) = Len(ps) + 1,
         \A i \in 1 .. Len(ps) : qs[i + 1] = ps[i]
  PROVE  FlattenSeq(qs) = Cat(qs[1], FlattenSeq(ps))
<1> DEFINE n == Len(ps)  x == qs[1]
<1>1. PICK f \in [0 .. n -> Seq(S)] : Sums(f, ps)
  BY SumsExist
<1>2. FlattenSeq(ps) = f[n]
  BY <1>1, FlattenIs
<1> DEFINE g == [i \in 0 .. n + 1 |-> IF i = 0 THEN Nil ELSE Cat(x, f[i - 1])]
<1>3. n \in Nat /\ x \in Seq(S) /\ Len(qs) = n + 1 /\ \A i \in 1 .. n : ps[i] \in Seq(S)
  OBVIOUS
<1>4. g \in [0 .. n + 1 -> Seq(S)]
  <2>1. \A i \in 0 .. n + 1 : i # 0 => f[i - 1] \in Seq(S)
    <3>1. \A i \in 0 .. n + 1 : i # 0 => i - 1 \in 0 .. n
      BY <1>3
    <3>2. QED BY <3>1
  <2>2. \A i \in 0 .. n + 1 : i # 0 => Cat(x, f[i - 1]) \in Seq(S)
    BY <1>3, <2>1, CatIs
  <2>3. QED BY <2>2, NilType
<1>5. Sums(g, qs)
  <2>1. g[0] = Nil
    BY <1>3
  <2>2. ASSUME NEW i \in 1 .. n + 1
        PROVE  g[i] = Cat(g[i - 1], qs[i])
    <3>1. g[i] = Cat(x, f[i - 1])
      BY <1>3
    <3>2. CASE i = 1
      <4>1. g[i] = Cat(x, Nil)
        BY <1>1, <3>1, <3>2 DEF Sums
      <4>2. g[i - 1] = Nil
        BY <2>1, <3>2
      <4>3. Cat(x, Nil) = x /\ Cat(Nil, qs[i]) = qs[i] /\ qs[i] = x
        BY <1>3, <3>2, CatIs
      <4>4. QED BY <4>1, <4>2, <4>3
    <3>3. CASE i # 1
      <4>1. i - 1 \in 1 .. n /\ i - 1 # 0 /\ i - 1 \in 0 .. n + 1 /\ i - 1 - 1 \in 0 .. n /\ i - 1 + 1 = i
        BY <1>3, <3>3
      <4>2. g[i - 1] = Cat(x, f[i - 1 - 1])
        BY <4>1
      <4>3. f[i - 1] = Cat(f[i - 1 - 1], ps[i - 1])
        BY <1>1, <4>1 DEF Sums
      <4>4. qs[i] = ps[i - 1]
        BY <4>1
      <4>5. Cat(x, Cat(f[i - 1 - 1], ps[i - 1])) = Cat(Cat(x, f[i - 1 - 1]), ps[i - 1])
        <5>1. f[i - 1 - 1] \in Seq(S) /\ ps[i - 1] \in Seq(S)
          BY <1>3, <4>1
        <5>2. QED BY <1>3, <5>1, CatAssociative
      <4>6. QED BY <3>1, <4>2, <4>3, <4>4, <4>5
    <3>4. QED BY <3>2, <3>3
  <2>3. QED BY <1>3, <2>1, <2>2 DEF Sums
<1>6. g[n + 1] = Cat(x, f[n])
  BY <1>3
<1> HIDE DEF g
<1>7. FlattenSeq(qs) = g[n + 1]
  BY <1>3, <1>4, <1>5, FlattenIs
<1>8. QED BY <1>2, <1>6, <1>7

\* An entry comes from a part, two entries in their order, and every part is there.
FromParts(s, ps, d) ==
  \A a \in 1 .. Len(s) : \E n \in 1 .. d : \E i \in 1 .. Len(ps[n]) : s[a] = ps[n][i]
InPartsOrder(s, ps, d) ==
  \A a, b \in 1 .. Len(s) : a < b =>
    \E n, m \in 1 .. d : \E i \in 1 .. Len(ps[n]), j \in 1 .. Len(ps[m]) :
      (n < m \/ (n = m /\ i < j)) /\ s[a] = ps[n][i] /\ s[b] = ps[m][j]
AllParts(s, ps, d) ==
  \A n \in 1 .. d : \A i \in 1 .. Len(ps[n]) : \E a \in 1 .. Len(s) : s[a] = ps[n][i]
Places(s, ps, d) == FromParts(s, ps, d) /\ InPartsOrder(s, ps, d) /\ AllParts(s, ps, d)

\* The entries of a concatenation.
LEMMA CatEntries ==
  ASSUME NEW S, NEW s \in Seq(S), NEW t \in Seq(S)
  PROVE  /\ Len(Cat(s, t)) = Len(s) + Len(t) /\ Len(s) \in Nat /\ Len(t) \in Nat
         /\ \A a \in 1 .. Len(s) : Cat(s, t)[a] = s[a]
         /\ \A a \in 1 .. Len(t) : Cat(s, t)[Len(s) + a] = t[a]
<1>1. Len(s) \in Nat /\ Len(t) \in Nat
  OBVIOUS
<1>2. /\ Len(Cat(s, t)) = Len(s) + Len(t)
      /\ \A i \in 1 .. Len(s) + Len(t) : Cat(s, t)[i] = IF i <= Len(s) THEN s[i] ELSE t[i - Len(s)]
  BY ConcatProperties DEF Cat
<1>3. ASSUME NEW a \in 1 .. Len(s)
      PROVE  Cat(s, t)[a] = s[a]
  BY <1>1, <1>2
<1>4. ASSUME NEW a \in 1 .. Len(t)
      PROVE  Cat(s, t)[Len(s) + a] = t[a]
  <2>1. Len(s) + a \in 1 .. Len(s) + Len(t) /\ ~(Len(s) + a <= Len(s)) /\ Len(s) + a - Len(s) = a
    BY <1>1
  <2>2. QED BY <1>2, <2>1
<1>5. QED BY <1>1, <1>2, <1>3, <1>4

\* Every entry of what is put together comes from a part, in their order, and none is lost: one more part.
LEMMA PlacesStep ==
  ASSUME NEW S, NEW ps \in Seq(Seq(S)), NEW d \in Nat, d + 1 \in 1 .. Len(ps),
         NEW s \in Seq(S), Places(s, ps, d)
  PROVE  Places(Cat(s, ps[d + 1]), ps, d + 1)
<1> DEFINE t == ps[d + 1]  u == Cat(s, t)  l == Len(s)
<1>1. t \in Seq(S)
  OBVIOUS
<1>2. /\ Len(u) = l + Len(t) /\ l \in Nat /\ Len(t) \in Nat
      /\ \A a \in 1 .. l : u[a] = s[a]
      /\ \A a \in 1 .. Len(t) : u[l + a] = t[a]
  BY <1>1, CatEntries DEF Cat
<1>3. d + 1 \in 1 .. d + 1 /\ \A n \in 1 .. d : n \in 1 .. d + 1
  OBVIOUS
<1>4. t = ps[d + 1]
  OBVIOUS
<1> HIDE DEF t, u, l
<1>5. ASSUME NEW a \in 1 .. Len(u)
      PROVE  (a \in 1 .. l /\ u[a] = s[a]) \/ (a - l \in 1 .. Len(t) /\ u[a] = t[a - l] /\ a > l)
  <2>1. CASE a <= l
    BY <1>2, <2>1
  <2>2. CASE a > l
    <3>1. a - l \in 1 .. Len(t) /\ l + (a - l) = a
      BY <1>2, <2>2
    <3>2. QED BY <1>2, <2>2, <3>1
  <2>3. QED BY <1>2, <2>1, <2>2
<1>6. FromParts(u, ps, d + 1)
  <2>1. ASSUME NEW a \in 1 .. Len(u)
        PROVE  \E n \in 1 .. d + 1 : \E i \in 1 .. Len(ps[n]) : u[a] = ps[n][i]
    <3>1. CASE a \in 1 .. l /\ u[a] = s[a]
      <4>1. PICK n \in 1 .. d : \E i \in 1 .. Len(ps[n]) : s[a] = ps[n][i]
        BY <3>1 DEF Places, FromParts, l
      <4>2. QED BY <1>3, <3>1, <4>1
    <3>2. CASE a - l \in 1 .. Len(t) /\ u[a] = t[a - l]
      BY <1>3, <1>4, <3>2
    <3>3. QED BY <1>5, <3>1, <3>2
  <2>2. QED BY <2>1 DEF FromParts
<1>7. InPartsOrder(u, ps, d + 1)
  <2>1. ASSUME NEW a \in 1 .. Len(u), NEW b \in 1 .. Len(u), a < b
        PROVE  \E n, m \in 1 .. d + 1 : \E i \in 1 .. Len(ps[n]), j \in 1 .. Len(ps[m]) :
                 (n < m \/ (n = m /\ i < j)) /\ u[a] = ps[n][i] /\ u[b] = ps[m][j]
    <3>1. CASE b \in 1 .. l /\ u[b] = s[b]
      <4>1. a \in 1 .. l /\ u[a] = s[a]
        BY <1>2, <2>1, <3>1
      <4>2. \E n, m \in 1 .. d : \E i \in 1 .. Len(ps[n]), j \in 1 .. Len(ps[m]) :
              (n < m \/ (n = m /\ i < j)) /\ s[a] = ps[n][i] /\ s[b] = ps[m][j]
        BY <2>1, <3>1, <4>1 DEF Places, InPartsOrder, l
      <4>3. PICK n \in 1 .. d, m \in 1 .. d : \E i \in 1 .. Len(ps[n]), j \in 1 .. Len(ps[m]) :
              (n < m \/ (n = m /\ i < j)) /\ s[a] = ps[n][i] /\ s[b] = ps[m][j]
        BY <4>2
      <4>4. QED BY <1>3, <3>1, <4>1, <4>3
    <3>2. CASE /\ a \in 1 .. l /\ u[a] = s[a]
               /\ b - l \in 1 .. Len(t) /\ u[b] = t[b - l]
      <4>1. PICK n \in 1 .. d : \E i \in 1 .. Len(ps[n]) : s[a] = ps[n][i]
        BY <3>2 DEF Places, FromParts, l
      <4>2. PICK i \in 1 .. Len(ps[n]) : s[a] = ps[n][i]
        BY <4>1
      <4>3. n < d + 1 /\ n \in 1 .. d + 1 /\ d + 1 \in 1 .. d + 1
        OBVIOUS
      <4>4. b - l \in 1 .. Len(ps[d + 1]) /\ u[b] = ps[d + 1][b - l] /\ u[a] = ps[n][i]
        BY <1>4, <3>2, <4>2
      <4>5. QED BY <4>3, <4>4
    <3>3. CASE /\ a - l \in 1 .. Len(t) /\ u[a] = t[a - l]
               /\ b - l \in 1 .. Len(t) /\ u[b] = t[b - l]
      <4>1. a - l < b - l
        BY <1>2, <2>1
      <4>2. d + 1 \in 1 .. d + 1
        OBVIOUS
      <4>3. /\ a - l \in 1 .. Len(ps[d + 1]) /\ b - l \in 1 .. Len(ps[d + 1])
            /\ u[a] = ps[d + 1][a - l] /\ u[b] = ps[d + 1][b - l]
        BY <1>4, <3>3
      <4>4. QED BY <4>1, <4>2, <4>3
    <3>4. QED BY <1>5, <3>1, <3>2, <3>3
  <2>2. QED BY <2>1 DEF InPartsOrder
<1>8. AllParts(u, ps, d + 1)
  <2>1. ASSUME NEW n \in 1 .. d + 1, NEW i \in 1 .. Len(ps[n])
        PROVE  \E a \in 1 .. Len(u) : u[a] = ps[n][i]
    <3>1. CASE n = d + 1
      <4>1. i \in 1 .. Len(t) /\ l + i \in 1 .. Len(u)
        BY <1>2, <1>4, <3>1
      <4>2. QED BY <1>2, <1>4, <3>1, <4>1
    <3>2. CASE n # d + 1
      <4>1. n \in 1 .. d
        BY <3>2
      <4>2. PICK a \in 1 .. l : s[a] = ps[n][i]
        BY <4>1 DEF Places, AllParts, l
      <4>3. a \in 1 .. Len(u)
        BY <1>2
      <4>4. QED BY <1>2, <4>2, <4>3
    <3>3. QED BY <3>1, <3>2
  <2>2. QED BY <2>1 DEF AllParts
<1>9. QED BY <1>6, <1>7, <1>8 DEF Places, u, t

\* ... and all of them.
LEMMA FlattenPlaces ==
  ASSUME NEW S, NEW ps \in Seq(Seq(S))
  PROVE  Places(FlattenSeq(ps), ps, Len(ps))
<1>1. PICK f \in [0 .. Len(ps) -> Seq(S)] : Sums(f, ps)
  BY SumsExist
<1> DEFINE N == Len(ps)
           T == {d \in Nat : d <= N => Places(f[d], ps, d)}
<1>2. N \in Nat
  OBVIOUS
<1>3. 0 \in T
  <2>1. f[0] = <<>>
    BY <1>1 DEF Sums, Nil
  <2>2. Places(<<>>, ps, 0)
    BY DEF Places, FromParts, InPartsOrder, AllParts
  <2>3. QED BY <2>1, <2>2
<1>4. \A d \in T : d + 1 \in T
  <2> TAKE d \in T
  <2>1. SUFFICES ASSUME d + 1 <= N
                 PROVE  Places(f[d + 1], ps, d + 1)
    OBVIOUS
  <2>2. d + 1 \in 1 .. N /\ d \in 0 .. N /\ d + 1 - 1 = d
    BY <1>2, <2>1
  <2>3. Places(f[d], ps, d) /\ f[d] \in Seq(S)
    <3>1. d <= N => Places(f[d], ps, d)
      BY Zenon
    <3>2. f[d] \in Seq(S)
      BY <2>2, Zenon
    <3> HIDE DEF T
    <3>3. d <= N
      BY <1>2, <2>2
    <3>4. QED BY <3>1, <3>2, <3>3, Zenon
  <2>4. f[d + 1] = Cat(f[d], ps[d + 1])
    <3>1. f[d + 1] = Cat(f[d + 1 - 1], ps[d + 1])
      BY <1>1, <2>2 DEF Sums
    <3>2. QED BY <2>2, <3>1
  <2>5. Places(Cat(f[d], ps[d + 1]), ps, d + 1)
    BY <2>2, <2>3, PlacesStep
  <2>6. QED BY <2>4, <2>5
<1>5. N \in T
  <2>1. T \in SUBSET Nat
    OBVIOUS
  <2> HIDE DEF T
  <2>2. QED BY <1>2, <1>3, <1>4, <2>1, Induct
<1>6. Places(f[N], ps, N)
  BY <1>2, <1>5
<1>7. FlattenSeq(ps) = f[N]
  BY <1>1, FlattenIs
<1>8. QED BY <1>6, <1>7

\* Parts of one length.
LEMMA FlattenLength ==
  ASSUME NEW S, NEW ps \in Seq(Seq(S)), NEW p \in Nat, \A n \in 1 .. Len(ps) : Len(ps[n]) = p
  PROVE  Len(FlattenSeq(ps)) = Len(ps) * p
<1>1. PICK f \in [0 .. Len(ps) -> Seq(S)] : Sums(f, ps)
  BY SumsExist
<1> DEFINE N == Len(ps)
           T == {d \in Nat : d <= N => Len(f[d]) = d * p}
<1>2. N \in Nat
  OBVIOUS
<1>3. 0 \in T
  <2>1. f[0] = <<>>
    BY <1>1 DEF Sums, Nil
  <2>2. Len(f[0]) = 0 /\ 0 * p = 0
    BY <2>1
  <2>3. QED BY <2>2
<1>4. \A d \in T : d + 1 \in T
  <2> TAKE d \in T
  <2>1. SUFFICES ASSUME d + 1 <= N
                 PROVE  Len(f[d + 1]) = (d + 1) * p
    OBVIOUS
  <2>2. d + 1 \in 1 .. N /\ d \in 0 .. N /\ d + 1 - 1 = d
    BY <1>2, <2>1
  <2>3. f[d] \in Seq(S) /\ ps[d + 1] \in Seq(S)
    <3>1. f[d] \in Seq(S)
      BY <2>2
    <3>2. ps[d + 1] \in Seq(S)
      BY <2>2
    <3>3. QED BY <3>1, <3>2
  <2>8. Len(f[d]) = d * p /\ Len(ps[d + 1]) = p
    <3>1. d <= N
      BY <1>2, <2>2
    <3>2. d <= N => Len(f[d]) = d * p
      OBVIOUS
    <3>3. Len(f[d]) = d * p
      BY <3>1, <3>2
    <3>4. Len(ps[d + 1]) = p
      BY <2>2
    <3>5. QED BY <3>3, <3>4
  <2>4. f[d + 1] = Cat(f[d], ps[d + 1])
    <3>1. f[d + 1] = Cat(f[d + 1 - 1], ps[d + 1])
      BY <1>1, <2>2 DEF Sums
    <3>2. QED BY <2>2, <3>1
  <2>5. Len(Cat(f[d], ps[d + 1])) = Len(f[d]) + Len(ps[d + 1])
    BY <2>3, CatEntries
  <2>6. (d + 1) * p = d * p + p
    OBVIOUS
  <2>7. QED BY <2>4, <2>5, <2>6, <2>8
<1>5. N \in T
  <2>1. T \in SUBSET Nat
    OBVIOUS
  <2> HIDE DEF T
  <2>2. QED BY <1>2, <1>3, <1>4, <2>1, Induct
<1>6. Len(f[N]) = N * p
  BY <1>2, <1>5
<1>7. FlattenSeq(ps) = f[N]
  BY <1>1, FlattenIs
<1>8. QED BY <1>6, <1>7

\* The remainder, within two turns of the ring.
LEMMA Wraps ==
  ASSUME NEW a \in Nat, a < 2 * NSegments
  PROVE  a % NSegments = IF a < NSegments THEN a ELSE a - NSegments
BY SlotConstants

\* The segment n before s.
LEMMA BeforeIs ==
  ASSUME NEW s \in Segments, NEW n \in 0 .. NSegments
  PROVE  /\ Before(s, n) = IF n <= s THEN s - n ELSE s + NSegments - n
         /\ Before(s, n) \in Segments
<1>1. NSegments \in Nat \ {0} /\ s \in Nat /\ s < NSegments /\ n \in Nat /\ n <= NSegments
  BY SlotConstants DEF Segments
<1>2. s + NSegments - n \in Nat /\ s + NSegments - n < 2 * NSegments
  BY <1>1
<1>3. Before(s, n) = IF s + NSegments - n < NSegments THEN s + NSegments - n ELSE s + NSegments - n - NSegments
  <2>1. PICK a : a = s + NSegments - n
    OBVIOUS
  <2>2. a \in Nat /\ a < 2 * NSegments
    BY <1>2, <2>1
  <2>3. a % NSegments = IF a < NSegments THEN a ELSE a - NSegments
    BY <2>2, Wraps
  <2>4. Before(s, n) = a % NSegments
    BY <2>1 DEF Before
  <2>5. QED BY <1>1, <2>1, <2>2, <2>3, <2>4
<1>4. QED
  <2>1. CASE n <= s
    BY <1>1, <1>3, <2>1 DEF Segments
  <2>2. CASE ~(n <= s)
    BY <1>1, <1>3, <2>2 DEF Segments
  <2>3. QED BY <2>1, <2>2

\* The segment after s.
LEMMA AfterIs ==
  ASSUME NEW s \in Segments
  PROVE  /\ After(s) = IF s = NSegments - 1 THEN 0 ELSE s + 1
         /\ After(s) \in Segments
<1>1. NSegments \in Nat \ {0} /\ s \in Nat /\ s < NSegments
  BY SlotConstants DEF Segments
<1>2. s + 1 \in Nat /\ (s + 1 < 2 * NSegments \/ s + 1 = NSegments)
  BY <1>1
<1>3. After(s) = IF s + 1 < NSegments THEN s + 1 ELSE s + 1 - NSegments
  BY <1>1, <1>2, SlotConstants DEF After
<1>4. QED BY <1>1, <1>3 DEF Segments

\* Going back from a segment meets every segment once.
LEMMA BeforeOnce ==
  ASSUME NEW s \in Segments, NEW n \in 0 .. NSegments - 1, NEW m \in 0 .. NSegments - 1,
         Before(s, n) = Before(s, m)
  PROVE  n = m
<1>1. NSegments \in Nat \ {0} /\ s \in Nat /\ s < NSegments
  BY SlotConstants DEF Segments
<1>2. /\ Before(s, n) = IF n <= s THEN s - n ELSE s + NSegments - n
      /\ Before(s, m) = IF m <= s THEN s - m ELSE s + NSegments - m
  BY <1>1, BeforeIs
<1>3. CASE n <= s /\ m <= s
  <2>1. Before(s, n) = s - n
    BY <1>2, <1>3
  <2>2. Before(s, m) = s - m
    BY <1>2, <1>3
  <2>3. s - n = s - m
    BY <2>1, <2>2
  <2>4. QED BY <1>1, <1>3, <2>3
<1>4. CASE ~(n <= s) /\ ~(m <= s)
  <2>1. Before(s, n) = s + NSegments - n
    BY <1>2, <1>4
  <2>2. Before(s, m) = s + NSegments - m
    BY <1>2, <1>4
  <2>3. s + NSegments - n = s + NSegments - m
    BY <2>1, <2>2
  <2>4. QED BY <1>1, <1>4, <2>3
<1>5. CASE n <= s /\ ~(m <= s)
  <2>1. Before(s, n) = s - n
    BY <1>2, <1>5
  <2>2. Before(s, m) = s + NSegments - m
    BY <1>2, <1>5
  <2>3. s - n = s + NSegments - m
    BY <2>1, <2>2
  <2>4. QED BY <1>1, <1>5, <2>3
<1>6. CASE ~(n <= s) /\ m <= s
  <2>1. Before(s, n) = s + NSegments - n
    BY <1>2, <1>6
  <2>2. Before(s, m) = s - m
    BY <1>2, <1>6
  <2>3. s + NSegments - n = s - m
    BY <2>1, <2>2
  <2>4. QED BY <1>1, <1>6, <2>3
<1>7. QED BY <1>3, <1>4, <1>5, <1>6

\* ... and leaves none out.
LEMMA BeforeAll ==
  ASSUME NEW s \in Segments, NEW t \in Segments
  PROVE  \E n \in 0 .. NSegments - 1 : t = Before(s, n)
<1>1. NSegments \in Nat \ {0} /\ s \in Nat /\ s < NSegments /\ t \in Nat /\ t < NSegments
  BY SlotConstants DEF Segments
<1>2. CASE t <= s
  <2>1. s - t \in 0 .. NSegments - 1 /\ s - t \in 0 .. NSegments /\ s - t <= s /\ s - (s - t) = t
    BY <1>1, <1>2
  <2>2. QED BY <2>1, BeforeIs
<1>3. CASE t > s
  <2> DEFINE n == s + NSegments - t
  <2>1. n \in 0 .. NSegments - 1 /\ n \in 0 .. NSegments /\ ~(n <= s) /\ s + NSegments - n = t
    BY <1>1, <1>3
  <2> HIDE DEF n
  <2>2. Before(s, n) = t
    BY <2>1, BeforeIs
  <2>3. QED BY <2>1, <2>2
<1>4. QED BY <1>1, <1>2, <1>3

\* No step back.
LEMMA BeforeNone ==
  ASSUME NEW s \in Segments
  PROVE  Before(s, 0) = s
BY BeforeIs, SlotConstants DEF Segments

\* Back from the segment after s.
LEMMA BeforeAfter ==
  ASSUME NEW s \in Segments
  PROVE  /\ \A n \in 0 .. NSegments - 1 : Before(After(s), n + 1) = Before(s, n)
         /\ Before(s, NSegments - 1) = After(s)
         /\ Before(After(s), 0) = After(s)
<1>1. NSegments \in Nat \ {0} /\ s \in Nat /\ s < NSegments
  BY SlotConstants DEF Segments
<1>2. After(s) = (IF s = NSegments - 1 THEN 0 ELSE s + 1) /\ After(s) \in Segments
  BY AfterIs
<1>3. ASSUME NEW n \in 0 .. NSegments - 1
      PROVE  Before(After(s), n + 1) = Before(s, n)
  <2>1. n + 1 \in 0 .. NSegments /\ n \in 0 .. NSegments
    BY <1>1
  <2>2. Before(s, n) = IF n <= s THEN s - n ELSE s + NSegments - n
    BY <2>1, BeforeIs
  <2>3. Before(After(s), n + 1) = IF n + 1 <= After(s) THEN After(s) - (n + 1) ELSE After(s) + NSegments - (n + 1)
    BY <1>2, <2>1, BeforeIs
  <2>4. QED BY <1>1, <1>2, <2>2, <2>3
<1>4. Before(s, NSegments - 1) = After(s)
  <2>1. NSegments - 1 \in 0 .. NSegments
    BY <1>1
  <2>2. Before(s, NSegments - 1) = IF NSegments - 1 <= s THEN s - (NSegments - 1) ELSE s + NSegments - (NSegments - 1)
    BY <2>1, BeforeIs
  <2>3. QED BY <1>1, <1>2, <2>2
<1>5. QED BY <1>2, <1>3, <1>4, BeforeNone

\* After undoes a step back.
LEMMA AfterBefore ==
  ASSUME NEW s \in Segments, NEW n \in 0 .. NSegments - 1
  PROVE  After(Before(s, n + 1)) = Before(s, n)
<1>1. NSegments \in Nat \ {0} /\ s \in Nat /\ s < NSegments
  BY SlotConstants DEF Segments
<1>2. n + 1 \in 0 .. NSegments /\ n \in 0 .. NSegments
  BY <1>1
<1>3. Before(s, n) = IF n <= s THEN s - n ELSE s + NSegments - n
  BY <1>2, BeforeIs
<1>4. Before(s, n + 1) = (IF n + 1 <= s THEN s - (n + 1) ELSE s + NSegments - (n + 1)) /\ Before(s, n + 1) \in Segments
  BY <1>2, BeforeIs
<1>5. After(Before(s, n + 1)) = IF Before(s, n + 1) = NSegments - 1 THEN 0 ELSE Before(s, n + 1) + 1
  BY <1>4, AfterIs
<1>6. QED BY <1>1, <1>3, <1>4, <1>5

-----------------------------------------------------------------------------

-----------------------------------------------------------------------------
(* The head of a ring, and its segments seen from there.                    *)

At(r, n) == Before(HeadOf(r), n)

\* The head, without the remainder.
LEMMA HeadIs ==
  ASSUME NEW r \in Ring
  PROVE  /\ HeadOf(r) \in Segments
         /\ HeadOf(r) = IF r.tail + r.used = 0 THEN NSegments - 1
                        ELSE IF r.tail + r.used <= NSegments THEN r.tail + r.used - 1
                        ELSE r.tail + r.used - 1 - NSegments
<1>1. NSegments \in Nat \ {0} /\ r.tail \in Nat /\ r.tail < NSegments /\ r.used \in 0 .. NSegments
  BY SlotConstants DEF Segments, Ring
<1> DEFINE a == r.tail + r.used + NSegments - 1
<1>2. a \in Nat /\ a < 3 * NSegments - 1
  BY <1>1
<1>3. CASE a < 2 * NSegments
  <2>1. a % NSegments = IF a < NSegments THEN a ELSE a - NSegments
    BY <1>2, <1>3, Wraps
  <2>2. QED BY <1>1, <1>3, <2>1 DEF HeadOf, Segments
<1>4. CASE a >= 2 * NSegments
  <2>1. a % NSegments = a - 2 * NSegments
    BY <1>1, <1>2, <1>4
  <2>2. QED BY <1>1, <1>2, <1>4, <2>1 DEF HeadOf, Segments
<1>5. QED BY <1>1, <1>2, <1>3, <1>4

\* The tail, seen from the head.
LEMMA TailIs ==
  ASSUME NEW r \in Ring, r.used > 0
  PROVE  r.tail = At(r, r.used - 1)
<1>1. NSegments \in Nat \ {0} /\ r.tail \in Nat /\ r.tail < NSegments /\ r.used \in 1 .. NSegments
  BY SlotConstants DEF Segments, Ring
<1> DEFINE h == HeadOf(r)
<1>2. /\ h \in Segments
      /\ h = IF r.tail + r.used <= NSegments THEN r.tail + r.used - 1 ELSE r.tail + r.used - 1 - NSegments
  BY <1>1, HeadIs
<1> HIDE DEF h
<1>3. r.used - 1 \in 0 .. NSegments
  BY <1>1
<1>4. Before(h, r.used - 1) = IF r.used - 1 <= h THEN h - (r.used - 1) ELSE h + NSegments - (r.used - 1)
  BY <1>2, <1>3, BeforeIs
<1>5. r.tail = Before(h, r.used - 1)
  BY <1>1, <1>2, <1>4
<1>6. QED BY <1>5 DEF At, h

\* The n-th of a ring's segments from its tail.
LEMMA NthIs ==
  ASSUME NEW r \in Ring, NEW n \in 1 .. r.used
  PROVE  (r.tail + n - 1) % NSegments = At(r, r.used - n)
<1>1. NSegments \in Nat \ {0} /\ r.tail \in Nat /\ r.tail < NSegments /\ r.used \in 1 .. NSegments
  BY SlotConstants DEF Segments, Ring
<1> DEFINE h == HeadOf(r)
<1>2. /\ h \in Segments
      /\ h = IF r.tail + r.used <= NSegments THEN r.tail + r.used - 1 ELSE r.tail + r.used - 1 - NSegments
  BY <1>1, HeadIs
<1> HIDE DEF h
<1>3. r.used - n \in 0 .. NSegments
  BY <1>1
<1>4. Before(h, r.used - n) = IF r.used - n <= h THEN h - (r.used - n) ELSE h + NSegments - (r.used - n)
  BY <1>2, <1>3, BeforeIs
<1>5. r.tail + n - 1 \in Nat /\ r.tail + n - 1 < 2 * NSegments
  BY <1>1
<1>6. (r.tail + n - 1) % NSegments = IF r.tail + n - 1 < NSegments THEN r.tail + n - 1 ELSE r.tail + n - 1 - NSegments
  <2>1. PICK a : a = r.tail + n - 1
    OBVIOUS
  <2>2. a \in Nat /\ a < 2 * NSegments
    BY <1>5, <2>1
  <2>3. a % NSegments = IF a < NSegments THEN a ELSE a - NSegments
    BY <2>2, Wraps
  <2>4. QED BY <1>1, <2>1, <2>2, <2>3
<1>7. (r.tail + n - 1) % NSegments = Before(h, r.used - n)
  BY <1>1, <1>2, <1>4, <1>6
<1>8. QED BY <1>7 DEF At, h

\* A ring without its tail, and with one more segment.
LEMMA HeadWithoutTail ==
  ASSUME NEW r \in Ring, NEW q \in Ring, r.used > 1, q.tail = After(r.tail), q.used = r.used - 1
  PROVE  HeadOf(q) = HeadOf(r)
<1>1. NSegments \in Nat \ {0} /\ r.tail \in Nat /\ r.tail < NSegments /\ r.used \in 2 .. NSegments
  <2>1. NSegments \in Nat \ {0} /\ r.tail \in 0 .. NSegments - 1 /\ r.used \in 0 .. NSegments
    BY SlotConstants DEF Segments, Ring
  <2>2. QED BY <2>1
<1>2. r.tail \in Segments
  BY DEF Ring
<1>3. q.tail = IF r.tail = NSegments - 1 THEN 0 ELSE r.tail + 1
  BY <1>2, AfterIs
<1>4. HeadOf(r) = IF r.tail + r.used <= NSegments THEN r.tail + r.used - 1 ELSE r.tail + r.used - 1 - NSegments
  BY <1>1, HeadIs
<1>5. HeadOf(q) = IF q.tail + q.used = 0 THEN NSegments - 1
                        ELSE IF q.tail + q.used <= NSegments THEN q.tail + q.used - 1
                        ELSE q.tail + q.used - 1 - NSegments
  BY HeadIs
<1>6. QED BY <1>1, <1>3, <1>4, <1>5

\* ... and with one more segment.
LEMMA HeadWithNext ==
  ASSUME NEW r \in Ring, NEW q \in Ring, r.used < NSegments, q.tail = r.tail, q.used = r.used + 1
  PROVE  HeadOf(q) = After(HeadOf(r))
<1>1. NSegments \in Nat \ {0} /\ r.tail \in Nat /\ r.tail < NSegments /\ r.used \in 0 .. NSegments - 1
  BY SlotConstants DEF Segments, Ring
<1>2. HeadOf(r) \in Segments /\ HeadOf(r) = IF r.tail + r.used = 0 THEN NSegments - 1
                        ELSE IF r.tail + r.used <= NSegments THEN r.tail + r.used - 1
                        ELSE r.tail + r.used - 1 - NSegments
  BY HeadIs
<1>3. After(HeadOf(r)) = IF HeadOf(r) = NSegments - 1 THEN 0 ELSE HeadOf(r) + 1
  BY <1>2, AfterIs
<1>4. HeadOf(q) = IF q.tail + q.used = 0 THEN NSegments - 1
                        ELSE IF q.tail + q.used <= NSegments THEN q.tail + q.used - 1
                        ELSE q.tail + q.used - 1 - NSegments
  BY HeadIs
<1>5. QED BY <1>1, <1>2, <1>3, <1>4

\* The head, and the segment after it, seen from the head.
LEMMA HeadAt ==
  ASSUME NEW r \in Ring
  PROVE  At(r, 0) = HeadOf(r) /\ At(r, NSegments - 1) = After(HeadOf(r))
BY HeadIs, BeforeNone, BeforeAfter DEF At

\* A ring whose newest segment is h.
LEMMA HeadOfRun ==
  ASSUME NEW r \in Ring, NEW h \in Segments, r.used > 0, r.tail = Before(h, r.used - 1)
  PROVE  HeadOf(r) = h
<1>1. NSegments \in Nat \ {0} /\ r.tail \in Nat /\ r.tail < NSegments /\ r.used \in 1 .. NSegments
  BY SlotConstants DEF Segments, Ring
<1>2. r.used - 1 \in 0 .. NSegments /\ h \in Nat /\ h < NSegments
  BY <1>1 DEF Segments
<1>3. r.tail = IF r.used - 1 <= h THEN h - (r.used - 1) ELSE h + NSegments - (r.used - 1)
  BY <1>2, BeforeIs
<1>4. HeadOf(r) = IF r.tail + r.used <= NSegments THEN r.tail + r.used - 1 ELSE r.tail + r.used - 1 - NSegments
  BY <1>1, HeadIs
<1>5. QED BY <1>1, <1>2, <1>3, <1>4

-----------------------------------------------------------------------------
(* What Open finds. *)

\* A run of k segments back from h, and nothing live besides it.
OnFlash(f, h, k) ==
  /\ \A n \in 0 .. k - 1 : Live(f, Before(h, n)) /\ f[Before(h, n)].header = f[h].header - n
  /\ \A n \in k .. NSegments - 1 : ~Live(f, Before(h, n))

Flash == [Segments -> Segment]
SlotValues == Records \cup {Erased, Torn}

\* The parts of a flash.
LEMMA FlashType ==
  ASSUME NEW f \in Flash, NEW s \in Segments
  PROVE  /\ f[s] \in Segment /\ f[s].header \in Int /\ f[s].slots \in [Slots -> SlotValues]
         /\ DOMAIN f = Segments /\ DOMAIN f[s].slots = Slots
<1>1. f[s] \in Segment
  BY DEF Flash
<1>2. f[s].header \in -MaxRecords .. MaxRecords /\ f[s].slots \in [Slots -> SlotValues]
  BY <1>1 DEF Segment, SlotValues
<1>3. QED BY <1>1, <1>2, SlotConstants DEF Flash

\* The newest segment is the head of the run.
LEMMA NewestIs ==
  ASSUME NEW f \in Flash, NEW h \in Segments, NEW k \in 1 .. NSegments, OnFlash(f, h, k)
  PROVE  Newest(f) = h
<1> DEFINE P(s) == Live(f, s) /\ \A t \in Segments : Live(f, t) => f[t].header <= f[s].header
<1>1. 0 \in 0 .. k - 1 /\ Before(h, 0) = h
  BY BeforeNone
<1>2. ASSUME NEW t \in Segments, Live(f, t)
      PROVE  \E n \in 0 .. k - 1 : t = Before(h, n) /\ f[t].header = f[h].header - n
  <2>1. PICK n \in 0 .. NSegments - 1 : t = Before(h, n)
    BY BeforeAll
  <2>2. n \in 0 .. k - 1
    <3>1. n \notin k .. NSegments - 1
      BY <1>2, <2>1 DEF OnFlash
    <3>2. QED BY <3>1
  <2>3. QED BY <2>1, <2>2 DEF OnFlash
<1>3. f[h].header \in Int
  BY FlashType
<1>4. P(h)
  <2>1. Live(f, h)
    BY <1>1 DEF OnFlash
  <2>2. ASSUME NEW t \in Segments, Live(f, t)
        PROVE  f[t].header <= f[h].header
    BY <1>2, <1>3, <2>2
  <2>3. QED BY <2>1, <2>2
<1>5. ASSUME NEW s \in Segments, P(s)
      PROVE  s = h
  <2>1. PICK n \in 0 .. k - 1 : s = Before(h, n) /\ f[s].header = f[h].header - n
    BY <1>2, <1>5
  <2>2. f[h].header <= f[s].header
    BY <1>4, <1>5
  <2>3. n = 0
    BY <1>3, <2>1, <2>2
  <2>4. QED BY <1>1, <2>1, <2>3
<1>6. Newest(f) = CHOOSE s \in Segments : P(s)
  BY DEF Newest
<1> HIDE DEF P
<1>7. QED BY <1>4, <1>5, <1>6

\* The run is as long as it is.
LEMMA RunLengthIs ==
  ASSUME NEW f \in Flash, NEW h \in Segments, NEW k \in 1 .. NSegments, OnFlash(f, h, k)
  PROVE  RunLength(f, h) = k
<1> DEFINE Us == {u \in 1 .. NSegments : \A n \in 1 .. u - 1 :
                    Live(f, Before(h, n)) /\ f[Before(h, n)].header + n = f[h].header}
<1>1. k \in Us
  <2>1. ASSUME NEW n \in 1 .. k - 1
        PROVE  Live(f, Before(h, n)) /\ f[Before(h, n)].header + n = f[h].header
    <3>1. n \in 0 .. k - 1
      OBVIOUS
    <3>2. Live(f, Before(h, n)) /\ f[Before(h, n)].header = f[h].header - n
      BY <3>1 DEF OnFlash
    <3>3. f[h].header \in Int
      BY FlashType
    <3>4. QED BY <3>2, <3>3
  <2>2. QED BY <2>1
<1>2. ASSUME NEW u \in Us
      PROVE  u <= k
  <2>1. SUFFICES ASSUME u > k PROVE FALSE
    OBVIOUS
  <2>2. k \in 1 .. u - 1 /\ k \in k .. NSegments - 1
    BY <2>1, SlotConstants
  <2>3. Live(f, Before(h, k))
    BY <2>2
  <2>4. QED BY <2>2, <2>3 DEF OnFlash
<1>3. Us \subseteq Nat
  OBVIOUS
<1>4. RunLength(f, h) = Max(Us)
  BY DEF RunLength
<1> HIDE DEF Us
<1>5. Max(Us) = k
  <2>1. \A x \in Us : (\A y \in Us : x >= y) => x = k
    BY <1>1, <1>2, <1>3
  <2>2. \A y \in Us : k >= y
    BY <1>2, <1>3
  <2>3. QED BY <1>1, <2>1, <2>2 DEF Max
<1>6. QED BY <1>4, <1>5

Lengths(f) == [s \in Segments |-> ValidLength(f[s].slots)]

\* Open finds no ring on a flash without a header.
LEMMA FoundNone ==
  ASSUME NEW f \in Flash, NEW h \in Segments, OnFlash(f, h, 0)
  PROVE  Found(f) = NoRing
<1>1. \A s \in Segments : ~Live(f, s)
  <2> TAKE s \in Segments
  <2>1. PICK n \in 0 .. NSegments - 1 : s = Before(h, n)
    BY BeforeAll
  <2>2. QED BY <2>1 DEF OnFlash
<1>2. QED BY <1>1 DEF Found

\* Open finds the run.
LEMMA FoundIs ==
  ASSUME NEW f \in Flash, NEW h \in Segments, NEW k \in 1 .. NSegments, OnFlash(f, h, k)
  PROVE  LET r == Found(f)
         IN /\ r \in Ring /\ HeadOf(r) = h /\ r.used = k /\ r.tail = Before(h, k - 1)
            /\ r.epoch = f[h].header
            /\ r.sealed = (/\ Lengths(f)[h] < PerSegment
                           /\ f[h].slots[Lengths(f)[h] + 1] # Erased)
            /\ \A n \in 0 .. k - 1 : r.lens[Before(h, n)] = Lengths(f)[Before(h, n)]
            /\ \A s \in Segments : ~r.clean[s]
<1> DEFINE r == Found(f)
           run == {Before(h, n) : n \in 0 .. k - 1}
           lens == [s \in Segments |-> IF s \in run THEN ValidLength(f[s].slots) ELSE 0]
<1>1. Newest(f) = h /\ RunLength(f, h) = k
  BY NewestIs, RunLengthIs
<1>2. Live(f, h)
  <2>1. 0 \in 0 .. k - 1 /\ Before(h, 0) = h
    BY BeforeNone
  <2>2. QED BY <2>1 DEF OnFlash
<1>3. r = [tail |-> Before(h, k - 1), used |-> k, epoch |-> f[h].header,
           sealed |-> lens[h] < PerSegment /\ ~SlotErased(f, h, lens[h] + 1),
           lens |-> lens,
           clean |-> [s \in Segments |-> Live(f, s) /\ s \notin run]]
  BY <1>1, <1>2 DEF Found
<1>4. \A s \in Segments : Live(f, s) => s \in run
  <2> TAKE s \in Segments
  <2>1. PICK n \in 0 .. NSegments - 1 : s = Before(h, n)
    BY BeforeAll
  <2>2. n \notin 0 .. k - 1 => n \in k .. NSegments - 1
    BY SlotConstants
  <2>3. QED BY <2>1, <2>2 DEF OnFlash
<1>5. h \in run
  <2>1. 0 \in 0 .. k - 1 /\ Before(h, 0) = h
    BY BeforeNone
  <2>2. QED BY <2>1
<1>6. \A s \in run : s \in Segments
  <2>1. \A n \in 0 .. k - 1 : n \in 0 .. NSegments
    BY SlotConstants
  <2>2. QED BY <2>1, BeforeIs
<1>7. lens \in [Segments -> 0 .. PerSegment]
  <2>1. \A s \in Segments : ValidLength(f[s].slots) \in 0 .. PerSegment
    BY ValidLengthIs
  <2>2. QED BY <2>1, SlotConstants
<1>8. \A s \in run : lens[s] = Lengths(f)[s]
  BY <1>6 DEF Lengths
<1>9. \A n \in 0 .. k - 1 : Before(h, n) \in run
  OBVIOUS
<1>10. f[h].header \in Epochs
  BY <1>2 DEF Live
<1>11. Before(h, k - 1) \in Segments
  BY BeforeIs, SlotConstants
<1> HIDE DEF run
<1>12. r \in Ring
  <2>1. [s \in Segments |-> Live(f, s) /\ s \notin run] \in [Segments -> BOOLEAN]
    OBVIOUS
  <2>2. (lens[h] < PerSegment /\ ~SlotErased(f, h, lens[h] + 1)) \in BOOLEAN
    OBVIOUS
  <2> HIDE DEF lens
  <2>3. QED BY <1>3, <1>7, <1>10, <1>11, <2>1, <2>2 DEF Ring
<1>13. r.used = k /\ r.tail = Before(h, k - 1) /\ r.epoch = f[h].header
  BY <1>3
<1>14. HeadOf(r) = h
  <2> HIDE DEF r
  <2>1. r.used > 0 /\ r.tail = Before(h, r.used - 1)
    BY <1>13
  <2>2. QED BY <1>12, <2>1, HeadOfRun
<1>15. r.lens = lens
  BY <1>3
<1>16. \A n \in 0 .. k - 1 : r.lens[Before(h, n)] = Lengths(f)[Before(h, n)]
  <2> HIDE DEF lens, r
  <2>1. QED BY <1>8, <1>9, <1>15
<1>17. r.sealed = (Lengths(f)[h] < PerSegment /\ f[h].slots[Lengths(f)[h] + 1] # Erased)
  <2>1. r.sealed = (lens[h] < PerSegment /\ ~SlotErased(f, h, lens[h] + 1))
    BY <1>3
  <2>2. lens[h] = Lengths(f)[h]
    BY <1>5, <1>8
  <2> HIDE DEF lens, r
  <2>3. QED BY <2>1, <2>2 DEF SlotErased
<1>18. \A s \in Segments : ~r.clean[s]
  <2>1. r.clean = [s \in Segments |-> Live(f, s) /\ s \notin run]
    BY <1>3
  <2> HIDE DEF r
  <2>2. QED BY <1>4, <2>1
<1>19. QED BY <1>12, <1>13, <1>14, <1>16, <1>17, <1>18

-----------------------------------------------------------------------------
(* The log that a run of segments holds, of which lens tells the lengths. *)

Piece(f, s, lens) == SubSeq(f[s].slots, 1, lens[s])
Pieces(f, h, k, lens) == [n \in 1 .. k |-> Piece(f, Before(h, k - n), lens)]
Strung(f, h, k, lens) == FlattenSeq(Pieces(f, h, k, lens))

LensType == [Segments -> 0 .. PerSegment]

\* The records of one segment.
LEMMA PieceIs ==
  ASSUME NEW f \in Flash, NEW lens \in LensType, NEW s \in Segments
  PROVE  /\ Piece(f, s, lens) \in Seq(SlotValues)
         /\ Len(Piece(f, s, lens)) = lens[s]
         /\ \A i \in 1 .. lens[s] : Piece(f, s, lens)[i] = f[s].slots[i]
<1>1. f[s].slots \in [Slots -> SlotValues]
  BY FlashType
<1>2. lens[s] \in Nat /\ lens[s] <= PerSegment /\ PerSegment \in Nat
  BY SlotConstants DEF LensType
<1>3. \A i \in 1 .. lens[s] : f[s].slots[i] \in SlotValues
  BY <1>1, <1>2 DEF Slots
<1> DEFINE l == lens[s]  q == f[s].slots
<1>4. l \in Int /\ 1 \in Int /\ \A i \in 1 .. l : q[i] \in SlotValues
  BY <1>2, <1>3
<1> HIDE DEF l, q
<1>5. /\ SubSeq(q, 1, l) \in Seq(SlotValues)
      /\ Len(SubSeq(q, 1, l)) = IF 1 <= l THEN l - 1 + 1 ELSE 0
      /\ \A i \in 1 .. l - 1 + 1 : SubSeq(q, 1, l)[i] = q[1 + i - 1]
  BY <1>4, SubSeqProperties
<1>6. \A i \in 1 .. l : i \in 1 .. l - 1 + 1 /\ 1 + i - 1 = i
  BY <1>2 DEF l
<1>7. \A i \in 1 .. l : SubSeq(q, 1, l)[i] = q[i]
  BY <1>5, <1>6
<1>8. Len(SubSeq(q, 1, l)) = l
  BY <1>2, <1>5 DEF l
<1>9. QED BY <1>5, <1>7, <1>8 DEF Piece, l, q

\* The records of each segment.
LEMMA PiecesType ==
  ASSUME NEW f \in Flash, NEW h \in Segments, NEW k \in 0 .. NSegments, NEW lens \in LensType
  PROVE  /\ Pieces(f, h, k, lens) \in Seq(Seq(SlotValues))
         /\ Len(Pieces(f, h, k, lens)) = k
         /\ \A n \in 1 .. k : Before(h, k - n) \in Segments
<1>1. k \in Nat /\ NSegments \in Nat
  BY SlotConstants
<1>2. \A n \in 1 .. k : Before(h, k - n) \in Segments
  <2>1. \A n \in 1 .. k : k - n \in 0 .. NSegments
    BY <1>1
  <2>2. QED BY <2>1, BeforeIs
<1>3. \A n \in 1 .. k : Piece(f, Before(h, k - n), lens) \in Seq(SlotValues)
  BY <1>2, PieceIs
<1>4. Pieces(f, h, k, lens) \in [1 .. k -> Seq(SlotValues)]
  BY <1>3 DEF Pieces
<1>5. Len(Pieces(f, h, k, lens)) = k
  BY <1>1 DEF Pieces
<1>6. QED BY <1>1, <1>2, <1>4, <1>5

\* The log is a sequence of slots.
LEMMA StrungType ==
  ASSUME NEW f \in Flash, NEW h \in Segments, NEW k \in 0 .. NSegments, NEW lens \in LensType
  PROVE  Strung(f, h, k, lens) \in Seq(SlotValues)
BY PiecesType, FlattenType DEF Strung

\* No segment, no record.
LEMMA StrungNone ==
  ASSUME NEW f, NEW h, NEW lens
  PROVE  Strung(f, h, 0, lens) = <<>>
<1>1. Pieces(f, h, 0, lens) = <<>>
  BY DEF Pieces
<1>2. FlattenSeq(<<>>) = <<>>
  <2>1. Len(<<>>) = 0
    OBVIOUS
  <2>2. QED BY <2>1, Zenon DEF FlattenSeq
<1>3. QED BY <1>1, <1>2 DEF Strung

\* The oldest segment of a run, and the newest.
LEMMA StrungOldest ==
  ASSUME NEW f \in Flash, NEW h \in Segments, NEW k \in 0 .. NSegments - 1, NEW lens \in LensType
  PROVE  Strung(f, h, k + 1, lens) = Cat(Piece(f, Before(h, k), lens), Strung(f, h, k, lens))
<1> DEFINE ps == Pieces(f, h, k, lens)  qs == Pieces(f, h, k + 1, lens)
<1>1. k \in 0 .. NSegments /\ k + 1 \in 0 .. NSegments /\ k \in Nat
  BY SlotConstants
<1>2. ps \in Seq(Seq(SlotValues)) /\ qs \in Seq(Seq(SlotValues)) /\ Len(ps) = k /\ Len(qs) = k + 1
  BY <1>1, PiecesType
<1>3. \A i \in 1 .. k : qs[i + 1] = ps[i]
  <2> TAKE i \in 1 .. k
  <2>1. i + 1 \in 1 .. k + 1 /\ k + 1 - (i + 1) = k - i
    BY <1>1
  <2>2. qs[i + 1] = Piece(f, Before(h, k + 1 - (i + 1)), lens)
    BY <2>1 DEF Pieces
  <2>3. ps[i] = Piece(f, Before(h, k - i), lens)
    BY DEF Pieces
  <2>4. QED BY <2>1, <2>2, <2>3
<1>4. qs[1] = Piece(f, Before(h, k), lens)
  <2>1. 1 \in 1 .. k + 1 /\ k + 1 - 1 = k
    BY <1>1
  <2>2. qs[1] = Piece(f, Before(h, k + 1 - 1), lens)
    BY <2>1 DEF Pieces
  <2>3. QED BY <2>1, <2>2
<1> HIDE DEF ps, qs
<1>5. FlattenSeq(qs) = Cat(qs[1], FlattenSeq(ps))
  BY <1>2, <1>3, FlattenPrepend
<1>6. QED BY <1>4, <1>5 DEF Strung, ps, qs

\* The newest segment is the end of the log.
LEMMA StrungNewest ==
  ASSUME NEW f \in Flash, NEW h \in Segments, NEW k \in 0 .. NSegments - 1, NEW lens \in LensType
  PROVE  Strung(f, After(h), k + 1, lens) = Cat(Strung(f, h, k, lens), Piece(f, After(h), lens))
<1> DEFINE g == After(h)
           ps == Pieces(f, h, k, lens)  qs == Pieces(f, g, k + 1, lens)
<1>1. k \in 0 .. NSegments /\ k + 1 \in 0 .. NSegments /\ k \in Nat
  BY SlotConstants
<1>2. g \in Segments
  BY AfterIs
<1> HIDE DEF g
<1>3. ps \in Seq(Seq(SlotValues)) /\ qs \in Seq(Seq(SlotValues)) /\ Len(ps) = k /\ Len(qs) = k + 1
  BY <1>1, <1>2, PiecesType
<1>4. \A i \in 1 .. k : qs[i] = ps[i]
  <2> TAKE i \in 1 .. k
  <2>1. i \in 1 .. k + 1 /\ k + 1 - i = k - i + 1 /\ k - i \in 0 .. NSegments - 1
    BY <1>1, SlotConstants
  <2>2. qs[i] = Piece(f, Before(g, k + 1 - i), lens)
    BY <2>1 DEF Pieces
  <2>3. ps[i] = Piece(f, Before(h, k - i), lens)
    BY DEF Pieces
  <2>4. Before(g, k - i + 1) = Before(h, k - i)
    BY <2>1, BeforeAfter DEF g
  <2>5. QED BY <2>1, <2>2, <2>3, <2>4
<1>5. qs[k + 1] = Piece(f, g, lens)
  <2>1. k + 1 \in 1 .. k + 1 /\ k + 1 - (k + 1) = 0
    BY <1>1
  <2>2. qs[k + 1] = Piece(f, Before(g, k + 1 - (k + 1)), lens)
    BY <2>1 DEF Pieces
  <2>3. Before(g, 0) = g
    BY <1>2, BeforeNone
  <2>4. QED BY <2>1, <2>2, <2>3
<1> HIDE DEF ps, qs
<1>6. FlattenSeq(qs) = Cat(FlattenSeq(ps), qs[k + 1])
  BY <1>3, <1>4, FlattenAppend
<1>7. QED BY <1>5, <1>6 DEF Strung, ps, qs, g

\* The log only depends on its pieces.
LEMMA StrungSame ==
  ASSUME NEW f, NEW g, NEW h, NEW k \in Nat, NEW lens, NEW lengths,
         \A n \in 0 .. k - 1 : Piece(g, Before(h, n), lengths) = Piece(f, Before(h, n), lens)
  PROVE  Strung(g, h, k, lengths) = Strung(f, h, k, lens)
<1>1. \A n \in 1 .. k : k - n \in 0 .. k - 1
  OBVIOUS
<1>2. \A n \in 1 .. k : Piece(g, Before(h, k - n), lengths) = Piece(f, Before(h, k - n), lens)
  BY <1>1
<1>3. Pieces(g, h, k, lengths) = Pieces(f, h, k, lens)
  BY <1>2 DEF Pieces
<1>4. QED BY <1>3 DEF Strung

\* A segment's records only depend on its slots up to its length.
LEMMA PieceSame ==
  ASSUME NEW f \in Flash, NEW g \in Flash, NEW s \in Segments,
         NEW lens \in LensType, NEW lengths \in LensType, lengths[s] = lens[s],
         \A i \in 1 .. lens[s] : g[s].slots[i] = f[s].slots[i]
  PROVE  Piece(g, s, lengths) = Piece(f, s, lens)
<1> DEFINE a == Piece(g, s, lengths)  b == Piece(f, s, lens)
<1>1. /\ a \in Seq(SlotValues) /\ Len(a) = lengths[s]
      /\ \A i \in 1 .. lengths[s] : a[i] = g[s].slots[i]
  BY PieceIs
<1>2. /\ b \in Seq(SlotValues) /\ Len(b) = lens[s]
      /\ \A i \in 1 .. lens[s] : b[i] = f[s].slots[i]
  BY PieceIs
<1> HIDE DEF a, b
<1>3. Len(a) = Len(b) /\ \A i \in 1 .. Len(a) : a[i] = b[i]
  BY <1>1, <1>2
<1>4. a = b
  BY <1>1, <1>2, <1>3, SeqEqual
<1>5. QED BY <1>4 DEF a, b

\* Where the entries of the log come from: the segment, counted back from h, and the slot.
StrungFrom(f, h, k, lens) ==
  LET log == Strung(f, h, k, lens)
  IN /\ \A a \in 1 .. Len(log) : \E n \in 0 .. k - 1 : \E i \in 1 .. lens[Before(h, n)] :
          log[a] = f[Before(h, n)].slots[i]
     /\ \A a, b \in 1 .. Len(log) : a < b =>
          \E n, m \in 0 .. k - 1 : \E i \in 1 .. lens[Before(h, n)], j \in 1 .. lens[Before(h, m)] :
            /\ n > m \/ (n = m /\ i < j)
            /\ log[a] = f[Before(h, n)].slots[i] /\ log[b] = f[Before(h, m)].slots[j]
     /\ \A n \in 0 .. k - 1 : \A i \in 1 .. lens[Before(h, n)] :
          \E a \in 1 .. Len(log) : log[a] = f[Before(h, n)].slots[i]

\* Every record of the log is in a segment of the run, older ones first, and none is missing.
LEMMA StrungPlaces ==
  ASSUME NEW f \in Flash, NEW h \in Segments, NEW k \in 0 .. NSegments, NEW lens \in LensType
  PROVE  StrungFrom(f, h, k, lens)
<1> DEFINE ps == Pieces(f, h, k, lens)  log == Strung(f, h, k, lens)
<1>1. ps \in Seq(Seq(SlotValues)) /\ Len(ps) = k /\ \A n \in 1 .. k : Before(h, k - n) \in Segments
  BY PiecesType
<1>2. log = FlattenSeq(ps)
  BY DEF Strung
<1>3. \A n \in 1 .. k : /\ Len(ps[n]) = lens[Before(h, k - n)]
                        /\ \A i \in 1 .. Len(ps[n]) : ps[n][i] = f[Before(h, k - n)].slots[i]
  <2> TAKE n \in 1 .. k
  <2>1. ps[n] = Piece(f, Before(h, k - n), lens)
    BY DEF Pieces
  <2>2. Before(h, k - n) \in Segments
    BY <1>1
  <2> HIDE DEF ps
  <2>3. /\ Len(ps[n]) = lens[Before(h, k - n)]
        /\ \A i \in 1 .. lens[Before(h, k - n)] : ps[n][i] = f[Before(h, k - n)].slots[i]
    BY <2>1, <2>2, PieceIs
  <2>4. QED BY <2>3
<1> HIDE DEF ps
<1>4. Places(log, ps, k)
  BY <1>1, <1>2, FlattenPlaces
<1> HIDE DEF log
<1>5. k \in Nat /\ \A n \in 1 .. k : k - n \in 0 .. k - 1
  BY SlotConstants
<1>6. ASSUME NEW a \in 1 .. Len(log)
      PROVE  \E n \in 0 .. k - 1 : \E i \in 1 .. lens[Before(h, n)] : log[a] = f[Before(h, n)].slots[i]
  <2>1. PICK n \in 1 .. k : \E i \in 1 .. Len(ps[n]) : log[a] = ps[n][i]
    BY <1>4 DEF Places, FromParts
  <2>2. PICK i \in 1 .. Len(ps[n]) : log[a] = ps[n][i]
    BY <2>1
  <2>3. i \in 1 .. lens[Before(h, k - n)] /\ log[a] = f[Before(h, k - n)].slots[i]
    BY <1>3, <2>2
  <2>4. QED BY <1>5, <2>3
<1>7. ASSUME NEW a \in 1 .. Len(log), NEW b \in 1 .. Len(log), a < b
      PROVE  \E n, m \in 0 .. k - 1 : \E i \in 1 .. lens[Before(h, n)], j \in 1 .. lens[Before(h, m)] :
            /\ n > m \/ (n = m /\ i < j)
            /\ log[a] = f[Before(h, n)].slots[i] /\ log[b] = f[Before(h, m)].slots[j]
  <2>1. PICK n \in 1 .. k, m \in 1 .. k : \E i \in 1 .. Len(ps[n]), j \in 1 .. Len(ps[m]) :
          (n < m \/ (n = m /\ i < j)) /\ log[a] = ps[n][i] /\ log[b] = ps[m][j]
    BY <1>4, <1>7 DEF Places, InPartsOrder
  <2>2. PICK i \in 1 .. Len(ps[n]), j \in 1 .. Len(ps[m]) :
          (n < m \/ (n = m /\ i < j)) /\ log[a] = ps[n][i] /\ log[b] = ps[m][j]
    BY <2>1
  <2>3. i \in 1 .. lens[Before(h, k - n)] /\ log[a] = f[Before(h, k - n)].slots[i]
    BY <1>3, <2>2
  <2>4. j \in 1 .. lens[Before(h, k - m)] /\ log[b] = f[Before(h, k - m)].slots[j]
    BY <1>3, <2>2
  <2>5. k - n > k - m \/ (k - n = k - m /\ i < j)
    BY <1>5, <2>2
  <2>6. k - n \in 0 .. k - 1 /\ k - m \in 0 .. k - 1
    BY <1>5
  <2>7. QED BY <2>3, <2>4, <2>5, <2>6
<1>8. ASSUME NEW n \in 0 .. k - 1, NEW i \in 1 .. lens[Before(h, n)]
      PROVE  \E a \in 1 .. Len(log) : log[a] = f[Before(h, n)].slots[i]
  <2>1. k - n \in 1 .. k /\ k - (k - n) = n
    BY <1>5
  <2>2. i \in 1 .. Len(ps[k - n]) /\ ps[k - n][i] = f[Before(h, n)].slots[i]
    BY <1>3, <2>1
  <2>3. \E a \in 1 .. Len(log) : log[a] = ps[k - n][i]
    BY <1>4, <2>1, <2>2 DEF Places, AllParts
  <2>4. QED BY <2>2, <2>3
<1>9. QED BY <1>6, <1>7, <1>8 DEF StrungFrom, log

\* A log of full segments.
LEMMA StrungLength ==
  ASSUME NEW f \in Flash, NEW h \in Segments, NEW k \in 0 .. NSegments, NEW lens \in LensType,
         \A n \in 0 .. k - 1 : lens[Before(h, n)] = PerSegment
  PROVE  Len(Strung(f, h, k, lens)) = k * PerSegment
<1> DEFINE ps == Pieces(f, h, k, lens)
<1>1. ps \in Seq(Seq(SlotValues)) /\ Len(ps) = k /\ \A n \in 1 .. k : Before(h, k - n) \in Segments
  BY PiecesType
<1>2. \A n \in 1 .. k : Len(ps[n]) = PerSegment
  <2> TAKE n \in 1 .. k
  <2>1. ps[n] = Piece(f, Before(h, k - n), lens)
    BY DEF Pieces
  <2>2. Before(h, k - n) \in Segments /\ k - n \in 0 .. k - 1
    BY <1>1, SlotConstants
  <2> HIDE DEF ps
  <2>3. Len(ps[n]) = lens[Before(h, k - n)]
    BY <2>1, <2>2, PieceIs
  <2>4. QED BY <2>2, <2>3
<1> HIDE DEF ps
<1>3. PerSegment \in Nat
  BY SlotConstants
<1>4. Len(FlattenSeq(ps)) = Len(ps) * PerSegment
  BY <1>1, <1>2, <1>3, FlattenLength
<1>5. QED BY <1>1, <1>4 DEF Strung, ps

-----------------------------------------------------------------------------
\* What a ring takes for its records is the log of its segments.
LEMMA SlottedIs ==
  ASSUME NEW f, NEW r \in Ring
  PROVE  Slotted(f, r) = Strung(f, HeadOf(r), r.used, r.lens)
<1>1. \A n \in 1 .. r.used : (r.tail + n - 1) % NSegments = Before(HeadOf(r), r.used - n)
  BY NthIs DEF At
<1> DEFINE seg(n) == (r.tail + n - 1) % NSegments
<1>2. [n \in 1 .. r.used |-> SubSeq(f[seg(n)].slots, 1, r.lens[seg(n)])] = Pieces(f, HeadOf(r), r.used, r.lens)
  BY <1>1 DEF Pieces, Piece
<1>3. Slotted(f, r) = FlattenSeq([n \in 1 .. r.used |-> SubSeq(f[seg(n)].slots, 1, r.lens[seg(n)])])
  BY DEF Slotted
<1>4. QED BY <1>2, <1>3 DEF Strung

\* The lengths that Open finds.
LEMMA LengthsType ==
  ASSUME NEW f
  PROVE  Lengths(f) \in LensType
BY ValidLengthIs DEF Lengths, LensType

\* How many segments of a run are kept.
Kept(f, h, k) == IF k > 1 /\ Lengths(f)[Before(h, k - 1)] < PerSegment THEN k - 1 ELSE k

\* What Open finds and keeps is the log of the run, without a partial tail.
LEMMA SurvivingIs ==
  ASSUME NEW f \in Flash, NEW h \in Segments, NEW k \in 0 .. NSegments, OnFlash(f, h, k)
  PROVE  Surviving(f) = Strung(f, h, Kept(f, h, k), Lengths(f))
<1> DEFINE r == Found(f)
           q == IF NeedsRepair(r) THEN [r EXCEPT !.tail = After(r.tail), !.used = @ - 1] ELSE r
<1>1. Surviving(f) = Slotted(f, q)
  BY DEF Surviving
<1>2. CASE k = 0
  <2>1. r = NoRing
    BY <1>2, FoundNone
  <2>2. q = NoRing
    BY <2>1 DEF NeedsRepair, NoRing
  <2>3. NoRing \in Ring /\ NoRing.used = 0
    BY SlotConstants DEF NoRing, Ring, Segments
  <2>4. Slotted(f, NoRing) = Strung(f, HeadOf(NoRing), 0, NoRing.lens)
    BY <2>3, SlottedIs
  <2>5. Slotted(f, NoRing) = <<>>
    BY <2>4, StrungNone
  <2>6. Kept(f, h, k) = 0
    BY <1>2 DEF Kept
  <2>7. QED BY <1>1, <2>2, <2>5, <2>6, StrungNone
<1>3. CASE k # 0
  <2>1. k \in 1 .. NSegments
    BY <1>3
  <2>2. /\ r \in Ring /\ HeadOf(r) = h /\ r.used = k /\ r.tail = Before(h, k - 1)
        /\ \A n \in 0 .. k - 1 : r.lens[Before(h, n)] = Lengths(f)[Before(h, n)]
    BY <2>1, FoundIs
  <2> HIDE DEF r
  <2>3. NeedsRepair(r) <=> k > 1 /\ Lengths(f)[Before(h, k - 1)] < PerSegment
    <3>1. k - 1 \in 0 .. k - 1
      BY <2>1
    <3>2. r.lens[r.tail] = Lengths(f)[Before(h, k - 1)]
      BY <2>2, <3>1
    <3>3. QED BY <2>2, <3>2 DEF NeedsRepair
  <2>4. q \in Ring /\ HeadOf(q) = h /\ q.used = Kept(f, h, k) /\ q.lens = r.lens
    <3>1. CASE NeedsRepair(r)
      <4>1. q = [r EXCEPT !.tail = After(r.tail), !.used = @ - 1]
        BY <3>1
      <4>2. r.tail \in Segments /\ k > 1
        BY <2>2, <2>3, <3>1 DEF Ring
      <4>3. After(r.tail) \in Segments
        BY <4>2, AfterIs
      <4>4. r.used - 1 \in 0 .. NSegments
        <5>1. k - 1 \in 0 .. NSegments
          BY <2>1, <4>2, SlotConstants
        <5>2. QED BY <2>2, <5>1
      <4>5. q.tail = After(r.tail) /\ q.used = r.used - 1 /\ q.lens = r.lens
        BY <2>2, <4>1 DEF Ring
      <4>6. q \in Ring
        BY <2>2, <4>1, <4>3, <4>4 DEF Ring
      <4> HIDE DEF q
      <4>7. HeadOf(q) = HeadOf(r)
        BY <2>2, <4>2, <4>5, <4>6, HeadWithoutTail
      <4>8. q.used = Kept(f, h, k)
        BY <2>2, <2>3, <3>1, <4>5 DEF Kept
      <4>9. QED BY <2>2, <4>5, <4>6, <4>7, <4>8
    <3>2. CASE ~NeedsRepair(r)
      <4>1. q = r
        BY <3>2
      <4>2. k = Kept(f, h, k)
        BY <2>3, <3>2 DEF Kept
      <4> HIDE DEF q
      <4>3. QED BY <2>2, <4>1, <4>2
    <3>3. QED BY <3>1, <3>2
  <2> HIDE DEF q
  <2>5. Slotted(f, q) = Strung(f, h, Kept(f, h, k), r.lens)
    BY <2>4, SlottedIs
  <2>6. Kept(f, h, k) \in Nat /\ Kept(f, h, k) <= k
    BY <2>1 DEF Kept
  <2>7. \A n \in 0 .. Kept(f, h, k) - 1 : Piece(f, Before(h, n), r.lens) = Piece(f, Before(h, n), Lengths(f))
    <3>1. \A n \in 0 .. Kept(f, h, k) - 1 : n \in 0 .. k - 1
      BY <2>1, <2>6
    <3>2. QED BY <2>2, <3>1 DEF Piece
  <2> DEFINE m == Kept(f, h, k)
  <2> HIDE DEF m
  <2>8. Strung(f, h, m, r.lens) = Strung(f, h, m, Lengths(f))
    BY <2>6, <2>7, StrungSame DEF m
  <2>9. QED BY <1>1, <2>5, <2>8 DEF m
<1>4. QED BY <1>2, <1>3

-----------------------------------------------------------------------------
(* The inductive invariant. *)

ValidFirst(slots) == \A i, j \in Slots : i < j /\ Valid(slots[j]) => Valid(slots[i])
ErasedLast(slots) == \A i, j \in Slots : i < j /\ slots[i] = Erased => slots[j] = Erased

\* A record is older than those behind it in its segment and those of newer segments.
Ascending(f, h, k) ==
  \A n, m \in 0 .. k - 1 : \A i, j \in Slots :
    /\ n > m \/ (n = m /\ i < j)
    /\ Valid(f[Before(h, n)].slots[i]) /\ Valid(f[Before(h, m)].slots[j])
    => f[Before(h, n)].slots[i] < f[Before(h, m)].slots[j]

UpTo(f, h, k, last) == \A n \in 0 .. k - 1 : \A i \in Slots : f[Before(h, n)].slots[i] <= last

\* A flash that Open reads a log from.
Run(f, h, k, last) ==
  /\ OnFlash(f, h, k)
  /\ k > 0 => ErasedLast(f[h].slots) /\ f[h].header <= last
  /\ \A n \in 0 .. k - 1 : ValidFirst(f[Before(h, n)].slots)
  /\ Ascending(f, h, k)
  /\ UpTo(f, h, k, last)

FlashInv(f, last) == \E h \in Segments, k \in 0 .. NSegments : Run(f, h, k, last)

Following(r) == After(HeadOf(r))

\* The head takes another record.
HeadOpen(r) == r.used > 0 /\ r.lens[HeadOf(r)] < PerSegment /\ ~r.sealed

\* The headers: of the ring's segments, of which the drop of the tail may have failed, and of
\* the others, of which the next may have been started without the ring knowing.
Headers(f, r, e) ==
  /\ \A n \in 0 .. r.used - 1 :
       \/ Live(f, At(r, n)) /\ f[At(r, n)].header = r.epoch - n
       \/ ~Live(f, At(r, n)) /\ n > 0 /\ n = r.used - 1
  /\ \A n \in r.used .. NSegments - 1 :
       Live(f, At(r, n)) => /\ n = NSegments - 1 /\ f[At(r, n)].header = r.epoch + 1
                            /\ r.clean[At(r, n)] /\ ~HeadOpen(r) /\ r.epoch < e
  /\ r.used = 0 => r.tail = 0
  /\ r.epoch <= e

\* The segments the ring takes for clean.
Cleaned(f, r) ==
  /\ \A n \in 0 .. r.used - 1 : ~r.clean[At(r, n)]
  /\ \A n \in r.used .. NSegments - 1 :
       r.clean[At(r, n)] =>
         /\ \A i \in Slots : f[At(r, n)].slots[i] = Erased
         /\ \/ f[At(r, n)].header = Erased
            \/ n = NSegments - 1 /\ f[At(r, n)].header \in {r.epoch + 1, -(r.epoch + 1)}

\* The slots of the ring's segments.
Filled(f, r, v) ==
  /\ \A n \in 0 .. r.used - 1 : Live(f, At(r, n)) => ValidFirst(f[At(r, n)].slots)
  /\ \A n \in 0 .. r.used - 1 : n = 0 \/ n < r.used - 1 =>
       \A i \in Slots : i <= r.lens[At(r, n)] => Valid(f[At(r, n)].slots[i])
  /\ r.used > 0 => ErasedLast(f[HeadOf(r)].slots)
  /\ r.used > 0 /\ ~r.sealed => \A i \in Slots : i > r.lens[HeadOf(r)] => f[HeadOf(r)].slots[i] = Erased
  /\ Ascending(f, HeadOf(r), r.used)
  /\ UpTo(f, HeadOf(r), r.used, v)

\* The ring and the flash; v and e bound the records and the epochs.
Holds(f, r, v, e) == Headers(f, r, e) /\ Cleaned(f, r) /\ Filled(f, r, v)

\* The segments of a ring, seen from its head.
LEMMA AtIs ==
  ASSUME NEW r \in Ring
  PROVE  /\ HeadOf(r) \in Segments /\ Following(r) \in Segments
         /\ \A n \in 0 .. NSegments - 1 : At(r, n) \in Segments
         /\ \A n, m \in 0 .. NSegments - 1 : At(r, n) = At(r, m) => n = m
         /\ At(r, 0) = HeadOf(r) /\ At(r, NSegments - 1) = Following(r)
         /\ r.used > 0 => r.tail = At(r, r.used - 1)
         /\ r.used \in 0 .. NSegments /\ NSegments \in Nat /\ NSegments > 0
<1>1. HeadOf(r) \in Segments
  BY HeadIs
<1>2. Following(r) \in Segments
  BY <1>1, AfterIs DEF Following
<1>3. \A n \in 0 .. NSegments - 1 : At(r, n) \in Segments
  <2>1. \A n \in 0 .. NSegments - 1 : n \in 0 .. NSegments
    BY SlotConstants
  <2>2. QED BY <1>1, <2>1, BeforeIs DEF At
<1>4. \A n, m \in 0 .. NSegments - 1 : At(r, n) = At(r, m) => n = m
  BY <1>1, BeforeOnce DEF At
<1>5. At(r, 0) = HeadOf(r) /\ At(r, NSegments - 1) = Following(r)
  BY HeadAt DEF Following
<1>6. r.used > 0 => r.tail = At(r, r.used - 1)
  BY TailIs
<1>7. r.used \in 0 .. NSegments /\ NSegments \in Nat /\ NSegments > 0
  BY SlotConstants DEF Ring
<1>8. QED BY <1>1, <1>2, <1>3, <1>4, <1>5, <1>6, <1>7

\* Where the valid records come first, the search finds all of them.
LEMMA ValidLengthTells ==
  ASSUME NEW slots, ValidFirst(slots)
  PROVE  \A i \in Slots : Valid(slots[i]) <=> i <= ValidLength(slots)
<1> DEFINE l == ValidLength(slots)
<1>1. l \in 0 .. PerSegment /\ (l # 0 => Valid(slots[l])) /\ (l # PerSegment => ~Valid(slots[l + 1]))
  BY ValidLengthIs
<1> HIDE DEF l
<1>2. PerSegment \in Nat
  BY SlotConstants
<1>3. ASSUME NEW i \in Slots, i <= l
      PROVE  Valid(slots[i])
  <2>1. l # 0 /\ l \in Slots /\ Valid(slots[l]) /\ (i < l \/ i = l)
    BY <1>1, <1>2, <1>3 DEF Slots
  <2>2. QED BY <2>1 DEF ValidFirst
<1>4. ASSUME NEW i \in Slots, Valid(slots[i]), i > l
      PROVE  FALSE
  <2>1. l # PerSegment /\ l + 1 \in Slots /\ ~Valid(slots[l + 1]) /\ (l + 1 < i \/ i = l + 1)
    BY <1>1, <1>2, <1>4 DEF Slots
  <2>2. QED BY <1>4, <2>1 DEF ValidFirst
<1>5. \A i \in Slots : i \in Int /\ l \in Int
  BY <1>1, <1>2 DEF Slots
<1>6. QED BY <1>3, <1>4, <1>5 DEF l

-----------------------------------------------------------------------------

-----------------------------------------------------------------------------
(* Open. *)

\* What Open finds satisfies the invariant.
LEMMA OpenHolds ==
  ASSUME NEW f \in Flash, NEW h \in Segments, NEW k \in 0 .. NSegments, NEW last \in Nat,
         Run(f, h, k, last)
  PROVE  /\ Found(f) \in Ring /\ Holds(f, Found(f), last, last)
         /\ \A s \in Segments : ~Found(f).clean[s]
         /\ Found(f).used = k
<1>1. CASE k = 0
  <2>1. Found(f) = NoRing
    BY <1>1, FoundNone DEF Run
  <2>2. NoRing \in Ring /\ NoRing.used = 0 /\ NoRing.tail = 0 /\ NoRing.epoch = 0 /\ NoRing.clean = [s \in Segments |-> FALSE]
    BY SlotConstants DEF NoRing, Ring, Segments
  <2>3. ASSUME NEW s \in Segments
        PROVE  ~Live(f, s)
    <3>1. PICK n \in 0 .. NSegments - 1 : s = Before(h, n)
      BY BeforeAll
    <3>2. QED BY <1>1, <3>1 DEF Run, OnFlash
  <2> DEFINE r == NoRing
  <2>4. r \in Ring /\ r.used = 0 /\ r.tail = 0 /\ r.epoch = 0 /\ (\A s \in Segments : ~r.clean[s])
    BY <2>2
  <2> HIDE DEF r
  <2>5. \A n \in 0 .. NSegments - 1 : At(r, n) \in Segments
    BY <2>4, AtIs
  <2>6. Headers(f, r, last)
    BY <2>3, <2>4, <2>5 DEF Headers
  <2>7. Cleaned(f, r)
    BY <2>4, <2>5 DEF Cleaned
  <2>8. Filled(f, r, last)
    BY <2>4 DEF Filled, Ascending, UpTo
  <2>9. QED BY <1>1, <2>1, <2>4, <2>6, <2>7, <2>8 DEF Holds, r
<1>2. CASE k # 0
  <2> DEFINE r == Found(f)
  <2>1. k \in 1 .. NSegments
    BY <1>2
  <2>2. OnFlash(f, h, k)
    BY DEF Run
  <2>3. /\ r \in Ring /\ HeadOf(r) = h /\ r.used = k /\ r.tail = Before(h, k - 1)
        /\ r.epoch = f[h].header
        /\ r.sealed = (Lengths(f)[h] < PerSegment /\ f[h].slots[Lengths(f)[h] + 1] # Erased)
        /\ \A n \in 0 .. k - 1 : r.lens[Before(h, n)] = Lengths(f)[Before(h, n)]
        /\ \A s \in Segments : ~r.clean[s]
    BY <2>1, <2>2, FoundIs
  <2> HIDE DEF r
  <2>4. /\ \A n \in 0 .. NSegments - 1 : At(r, n) \in Segments
        /\ At(r, 0) = h
    BY <2>3, AtIs
  <2>5. \A n : At(r, n) = Before(h, n)
    BY <2>3 DEF At
  <2>6. Headers(f, r, last)
    <3>1. r.epoch <= last
      BY <2>1, <2>3 DEF Run
    <3>2. \A n \in 0 .. k - 1 : Live(f, At(r, n)) /\ f[At(r, n)].header = r.epoch - n
      BY <2>2, <2>3, <2>5 DEF OnFlash
    <3>3. \A n \in k .. NSegments - 1 : ~Live(f, At(r, n))
      BY <2>2, <2>5 DEF OnFlash
    <3>4. QED BY <2>1, <2>3, <3>1, <3>2, <3>3 DEF Headers
  <2>7. Cleaned(f, r)
    <3>1. \A n \in 0 .. NSegments - 1 : ~r.clean[At(r, n)]
      BY <2>3, <2>4
    <3>2. \A n \in 0 .. r.used - 1 : n \in 0 .. NSegments - 1
      BY <2>1, <2>3, SlotConstants
    <3>3. \A n \in r.used .. NSegments - 1 : n \in 0 .. NSegments - 1
      BY <2>1, <2>3, SlotConstants
    <3>4. QED BY <3>1, <3>2, <3>3 DEF Cleaned
  <2>8. Filled(f, r, last)
    <3>1. \A n \in 0 .. k - 1 : ValidFirst(f[Before(h, n)].slots) /\ Before(h, n) \in Segments
      <4>1. \A n \in 0 .. k - 1 : n \in 0 .. NSegments - 1
        BY <2>1, SlotConstants
      <4>2. QED BY <2>4, <2>5, <4>1 DEF Run
    <3>2. \A n \in 0 .. k - 1 : \A i \in Slots : Valid(f[Before(h, n)].slots[i]) <=> i <= r.lens[Before(h, n)]
      BY <2>3, <3>1, ValidLengthTells DEF Lengths
    <3>3. ErasedLast(f[h].slots)
      BY <2>1 DEF Run
    <3>4. ~r.sealed => \A i \in Slots : i > r.lens[h] => f[h].slots[i] = Erased
      <4>1. SUFFICES ASSUME ~r.sealed, NEW i \in Slots, i > r.lens[h]
                     PROVE  f[h].slots[i] = Erased
        OBVIOUS
      <4> DEFINE l == r.lens[h]
      <4>2. l = Lengths(f)[h] /\ l \in 0 .. PerSegment
        <5>1. 0 \in 0 .. k - 1 /\ Before(h, 0) = h
          BY <2>1, BeforeNone
        <5>2. r.lens[h] = Lengths(f)[h]
          BY <2>3, <5>1
        <5>3. Lengths(f)[h] \in 0 .. PerSegment
          BY ValidLengthIs DEF Lengths
        <5>4. QED BY <5>2, <5>3
      <4> HIDE DEF l
      <4>3. l < i /\ i <= PerSegment /\ i \in Nat /\ l \in Nat /\ PerSegment \in Nat
        BY <4>1, <4>2, SlotConstants DEF Slots, l
      <4>4. f[h].slots[l + 1] = Erased
        <5>1. l < PerSegment
          BY <4>3
        <5>2. QED BY <2>3, <4>1, <4>2, <5>1
      <4>5. l + 1 \in Slots /\ (l + 1 < i \/ l + 1 = i)
        BY <4>3 DEF Slots
      <4>6. QED BY <3>3, <4>4, <4>5 DEF ErasedLast
    <3>5. Ascending(f, h, k) /\ UpTo(f, h, k, last)
      BY DEF Run
    <3>6. QED BY <2>1, <2>3, <2>5, <3>1, <3>2, <3>3, <3>4, <3>5 DEF Filled
  <2>9. QED BY <2>3, <2>6, <2>7, <2>8 DEF Holds, r
<1>3. QED BY <1>1, <1>2

-----------------------------------------------------------------------------
(* What a power loss leaves of a ring. *)

\* The next segment was started without the ring knowing; the tail was dropped without it.
Ahead(f, r) == r.used < NSegments /\ Live(f, Following(r))
Gone(f, r) == r.used > 1 /\ ~Live(f, r.tail)

\* How many of the ring's segments are live, and how many of them Open keeps.
Alive(f, r) == IF Gone(f, r) THEN r.used - 1 ELSE r.used
Cut(f, r) ==
  /\ Alive(f, r) > 1 \/ (Ahead(f, r) /\ Alive(f, r) > 0)
  /\ Lengths(f)[At(r, Alive(f, r) - 1)] < PerSegment
Keeps(f, r) == IF Cut(f, r) THEN Alive(f, r) - 1 ELSE Alive(f, r)

\* The ring's segments whose header is still there, and the one that may be live beyond them.
LEMMA AliveIs ==
  ASSUME NEW f \in Flash, NEW r \in Ring, NEW v, NEW e, Holds(f, r, v, e)
  PROVE  /\ Alive(f, r) \in 0 .. r.used
         /\ r.used > 0 => Alive(f, r) > 0
         /\ \A n \in 0 .. Alive(f, r) - 1 : Live(f, At(r, n)) /\ f[At(r, n)].header = r.epoch - n
         /\ \A n \in Alive(f, r) .. NSegments - 1 :
              Live(f, At(r, n)) => n = NSegments - 1 /\ Ahead(f, r)
         /\ Ahead(f, r) => /\ Alive(f, r) < NSegments /\ f[Following(r)].header = r.epoch + 1
                           /\ r.clean[Following(r)] /\ ~HeadOpen(r) /\ r.epoch < e
                           /\ \A i \in Slots : f[Following(r)].slots[i] = Erased
<1> DEFINE j == Alive(f, r)
<1>1. /\ \A n \in 0 .. NSegments - 1 : At(r, n) \in Segments
      /\ At(r, NSegments - 1) = Following(r)
      /\ r.used > 0 => r.tail = At(r, r.used - 1)
      /\ r.used \in 0 .. NSegments /\ NSegments \in Nat /\ NSegments > 0
  BY AtIs
<1>2. Headers(f, r, e) /\ Cleaned(f, r)
  BY DEF Holds
<1>3. j \in 0 .. r.used /\ (r.used > 0 => j > 0)
  BY <1>1 DEF Alive, Gone
<1>4. \A n \in 0 .. j - 1 : Live(f, At(r, n)) /\ f[At(r, n)].header = r.epoch - n
  <2> TAKE n \in 0 .. j - 1
  <2>1. n \in 0 .. r.used - 1
    BY <1>1, <1>3
  <2>2. \/ Live(f, At(r, n)) /\ f[At(r, n)].header = r.epoch - n
        \/ ~Live(f, At(r, n)) /\ n > 0 /\ n = r.used - 1
    BY <1>2, <2>1 DEF Headers
  <2>3. CASE ~Live(f, At(r, n)) /\ n > 0 /\ n = r.used - 1
    <3>1. r.used > 1 /\ ~Live(f, r.tail)
      BY <1>1, <2>1, <2>3
    <3>2. j = r.used - 1
      BY <3>1 DEF Alive, Gone
    <3>3. QED BY <1>1, <2>3, <3>2
  <2>4. QED BY <2>2, <2>3
<1>5. ASSUME Ahead(f, r)
      PROVE  /\ j < NSegments /\ f[Following(r)].header = r.epoch + 1
             /\ r.clean[Following(r)] /\ ~HeadOpen(r) /\ r.epoch < e
             /\ \A i \in Slots : f[Following(r)].slots[i] = Erased
  <2>1. r.used < NSegments /\ Live(f, At(r, NSegments - 1)) /\ NSegments - 1 \in r.used .. NSegments - 1
    BY <1>1, <1>5 DEF Ahead
  <2>2. /\ f[At(r, NSegments - 1)].header = r.epoch + 1
        /\ r.clean[At(r, NSegments - 1)] /\ ~HeadOpen(r) /\ r.epoch < e
    BY <1>2, <2>1 DEF Headers
  <2>3. \A i \in Slots : f[At(r, NSegments - 1)].slots[i] = Erased
    BY <1>2, <2>1, <2>2 DEF Cleaned
  <2>4. j < NSegments
    BY <1>1, <1>3, <2>1
  <2>5. QED BY <1>1, <2>2, <2>3, <2>4
<1>6. \A n \in j .. NSegments - 1 : Live(f, At(r, n)) => n = NSegments - 1 /\ Ahead(f, r)
  <2> TAKE n \in j .. NSegments - 1
  <2>1. SUFFICES ASSUME Live(f, At(r, n)) PROVE n = NSegments - 1 /\ Ahead(f, r)
    OBVIOUS
  <2>2. CASE n >= r.used
    <3>1. n \in r.used .. NSegments - 1
      BY <1>1, <1>3, <2>2
    <3>2. n = NSegments - 1
      BY <1>2, <2>1, <3>1 DEF Headers
    <3>3. r.used < NSegments
      BY <1>1, <3>1
    <3>4. QED BY <1>1, <2>1, <3>2, <3>3 DEF Ahead
  <2>3. CASE n < r.used
    <3>1. j = r.used - 1 /\ Gone(f, r)
      BY <1>1, <1>3, <2>3 DEF Alive
    <3>2. n = r.used - 1 /\ r.used > 0
      BY <1>1, <1>3, <2>3, <3>1
    <3>3. QED BY <1>1, <2>1, <3>1, <3>2 DEF Gone
  <2>4. QED BY <1>1, <1>3, <2>2, <2>3
<1> HIDE DEF j
<1>7. QED BY <1>3, <1>4, <1>5, <1>6 DEF j

\* The run that Open would find, from the ring's head or from the segment behind it.
RunHead(f, r) == IF Ahead(f, r) THEN Following(r) ELSE HeadOf(r)
RunSize(f, r) == IF Ahead(f, r) THEN Alive(f, r) + 1 ELSE Alive(f, r)

\* The run that a power loss would leave.
LEMMA RunOnFlash ==
  ASSUME NEW f \in Flash, NEW r \in Ring, NEW v, NEW e, Holds(f, r, v, e)
  PROVE  /\ RunHead(f, r) \in Segments /\ RunSize(f, r) \in 0 .. NSegments
         /\ OnFlash(f, RunHead(f, r), RunSize(f, r))
<1> DEFINE j == Alive(f, r)  h == HeadOf(r)  g == Following(r)
<1>1. /\ h \in Segments /\ g \in Segments
      /\ At(r, 0) = h
      /\ r.used \in 0 .. NSegments /\ NSegments \in Nat /\ NSegments > 0
  BY AtIs
<1>2. /\ j \in 0 .. r.used
      /\ \A n \in 0 .. j - 1 : Live(f, Before(h, n)) /\ f[Before(h, n)].header = r.epoch - n
      /\ \A n \in j .. NSegments - 1 : Live(f, Before(h, n)) => n = NSegments - 1 /\ Ahead(f, r)
      /\ Ahead(f, r) => j < NSegments /\ f[g].header = r.epoch + 1
  BY AliveIs DEF At
<1>3. r.epoch \in Int
  BY SlotConstants DEF Ring, Epochs
<1> HIDE DEF j, h
<1>4. CASE ~Ahead(f, r)
  <2>1. RunHead(f, r) = h /\ RunSize(f, r) = j
    BY <1>4 DEF RunHead, RunSize, j, h
  <2>2. ASSUME NEW n \in 0 .. j - 1
        PROVE  Live(f, Before(h, n)) /\ f[Before(h, n)].header = f[h].header - n
    <3>1. 0 \in 0 .. j - 1 /\ Before(h, 0) = h
      BY <1>1, <1>2, BeforeNone
    <3>2. f[h].header = r.epoch - 0
      BY <1>2, <3>1
    <3>3. QED BY <1>2, <1>3, <3>2
  <2>3. \A n \in j .. NSegments - 1 : ~Live(f, Before(h, n))
    BY <1>2, <1>4
  <2>4. OnFlash(f, h, j)
    BY <2>2, <2>3 DEF OnFlash
  <2>5. QED BY <1>1, <1>2, <2>1, <2>4
<1>5. CASE Ahead(f, r)
  <2>1. RunHead(f, r) = g /\ RunSize(f, r) = j + 1
    BY <1>5 DEF RunHead, RunSize, j
  <2>2. j < NSegments /\ f[g].header = r.epoch + 1 /\ Live(f, g)
    BY <1>2, <1>5 DEF Ahead
  <2>3. /\ \A n \in 0 .. NSegments - 1 : Before(g, n + 1) = Before(h, n)
        /\ Before(g, 0) = g
    BY <1>1, BeforeAfter DEF Following, h
  <2> HIDE DEF g
  <2>4. ASSUME NEW n \in 0 .. j + 1 - 1
        PROVE  Live(f, Before(g, n)) /\ f[Before(g, n)].header = f[g].header - n
    <3>1. CASE n = 0
      BY <1>3, <2>2, <2>3, <3>1
    <3>2. CASE n # 0
      <4>1. n - 1 \in 0 .. j - 1 /\ n - 1 \in 0 .. NSegments - 1 /\ n - 1 + 1 = n
        BY <1>1, <1>2, <2>2, <3>2
      <4>2. Before(g, n) = Before(h, n - 1)
        BY <2>3, <4>1
      <4>3. Live(f, Before(h, n - 1)) /\ f[Before(h, n - 1)].header = r.epoch - (n - 1)
        BY <1>2, <4>1
      <4>4. QED BY <1>3, <2>2, <4>1, <4>2, <4>3
    <3>3. QED BY <3>1, <3>2
  <2>5. ASSUME NEW n \in j + 1 .. NSegments - 1
        PROVE  ~Live(f, Before(g, n))
    <3>1. n - 1 \in j .. NSegments - 1 /\ n - 1 \in 0 .. NSegments - 1 /\ n - 1 + 1 = n /\ n - 1 # NSegments - 1
      BY <1>1, <1>2
    <3>2. Before(g, n) = Before(h, n - 1)
      BY <2>3, <3>1
    <3>3. QED BY <1>2, <3>1, <3>2
  <2>6. OnFlash(f, g, j + 1)
    BY <1>1, <1>2, <2>4, <2>5 DEF OnFlash
  <2>7. j + 1 \in 0 .. NSegments
    BY <1>1, <1>2, <2>2
  <2>8. QED BY <1>1, <2>1, <2>6, <2>7 DEF g
<1>6. QED BY <1>4, <1>5

\* The log that a power loss would leave.
LEMMA KeepsIs ==
  ASSUME NEW f \in Flash, NEW r \in Ring, NEW v, NEW e, Holds(f, r, v, e)
  PROVE  /\ Surviving(f) = Strung(f, HeadOf(r), Keeps(f, r), Lengths(f))
         /\ Keeps(f, r) \in 0 .. Alive(f, r) /\ Keeps(f, r) <= r.used
         /\ Lengths(f) \in LensType
<1> DEFINE j == Alive(f, r)  h == HeadOf(r)  g == Following(r)
           a == RunHead(f, r)  k == RunSize(f, r)
<1>1. /\ h \in Segments /\ g \in Segments
      /\ r.used \in 0 .. NSegments /\ NSegments \in Nat /\ NSegments > 0
  BY AtIs
<1>2. /\ j \in 0 .. r.used
      /\ Ahead(f, r) => j < NSegments /\ \A i \in Slots : f[g].slots[i] = Erased
  BY AliveIs
<1>3. a \in Segments /\ k \in 0 .. NSegments /\ OnFlash(f, a, k)
  BY RunOnFlash
<1>4. Surviving(f) = Strung(f, a, Kept(f, a, k), Lengths(f))
  <2> HIDE DEF a, k
  <2>1. QED BY <1>3, SurvivingIs
<1>5. Lengths(f) \in LensType
  BY LengthsType
<1>6. Keeps(f, r) \in 0 .. j /\ Keeps(f, r) <= r.used
  BY <1>1, <1>2 DEF Keeps, Cut
<1>7. CASE ~Ahead(f, r)
  <2>1. a = h /\ k = j
    BY <1>7 DEF RunHead, RunSize
  <2>2. Kept(f, h, j) = Keeps(f, r)
    BY <1>7 DEF Kept, Keeps, Cut, At
  <2>3. QED BY <1>4, <1>5, <1>6, <2>1, <2>2
<1>8. CASE Ahead(f, r)
  <2> DEFINE m == Keeps(f, r)  lens == Lengths(f)
  <2>1. a = g /\ k = j + 1
    BY <1>8 DEF RunHead, RunSize
  <2>2. Kept(f, g, j + 1) = m + 1
    <3>1. j + 1 - 1 = j
      BY <1>1, <1>2
    <3>2. CASE j = 0
      BY <1>8, <3>2 DEF Kept, Keeps, Cut
    <3>3. CASE j # 0
      <4>1. j - 1 \in 0 .. NSegments - 1 /\ j - 1 + 1 = j
        BY <1>1, <1>2, <3>3
      <4>2. Before(g, j) = Before(h, j - 1)
        <5>1. Before(After(h), j - 1 + 1) = Before(h, j - 1)
          BY <1>1, <4>1, BeforeAfter
        <5>2. QED BY <4>1, <5>1 DEF Following
      <4>3. Kept(f, g, j + 1) = IF lens[Before(g, j)] < PerSegment THEN j ELSE j + 1
        <5>1. j + 1 > 1
          BY <1>1, <1>2, <3>3
        <5>2. Kept(f, g, j + 1) = IF j + 1 > 1 /\ lens[Before(g, j + 1 - 1)] < PerSegment THEN j + 1 - 1 ELSE j + 1
          BY <1>1, <1>2 DEF Kept
        <5>3. QED BY <1>1, <1>2, <3>1, <5>1, <5>2
      <4>4. m = IF lens[Before(h, j - 1)] < PerSegment THEN j - 1 ELSE j
        <5>1. j > 0
          BY <1>1, <1>2, <3>3
        <5>2. QED BY <1>8, <5>1 DEF Keeps, Cut, At
      <4>5. QED BY <4>1, <4>2, <4>3, <4>4
    <3>4. QED BY <3>2, <3>3
  <2>3. m \in 0 .. NSegments - 1
    BY <1>1, <1>2, <1>6, <1>8
  <2>4. Strung(f, g, m + 1, lens) = Cat(Strung(f, h, m, lens), Piece(f, g, lens))
    BY <1>1, <1>5, <2>3, StrungNewest DEF Following
  <2>5. Piece(f, g, lens) = Nil
    <3>1. lens[g] = 0
      <4>1. lens[g] = ValidLength(f[g].slots)
        BY <1>1 DEF Lengths
      <4>2. /\ ValidLength(f[g].slots) \in 0 .. PerSegment
            /\ ValidLength(f[g].slots) # 0 => Valid(f[g].slots[ValidLength(f[g].slots)])
        BY ValidLengthIs
      <4>3. \A i \in 1 .. PerSegment : ~Valid(f[g].slots[i])
        BY <1>2, <1>8, SlotConstants DEF Slots, Valid, Records, Erased
      <4>4. ValidLength(f[g].slots) # 0 => ValidLength(f[g].slots) \in 1 .. PerSegment
        BY <4>2
      <4>5. QED BY <4>1, <4>2, <4>3, <4>4
    <3> HIDE DEF g, lens
    <3>2. Piece(f, g, lens) \in Seq(SlotValues) /\ Len(Piece(f, g, lens)) = 0
      BY <1>1, <1>5, <3>1, PieceIs DEF lens
    <3>3. QED BY <3>2 DEF Nil
  <2>6. Cat(Strung(f, h, m, lens), Nil) = Strung(f, h, m, lens)
    <3>1. m \in 0 .. NSegments
      BY <1>1, <2>3
    <3>2. Strung(f, h, m, lens) \in Seq(SlotValues)
      BY <1>1, <1>5, <3>1, StrungType
    <3>3. QED BY <3>2, CatIs
  <2>7. Surviving(f) = Strung(f, h, m, lens)
    BY <1>4, <2>1, <2>2, <2>4, <2>5, <2>6
  <2>8. QED BY <1>5, <1>6, <2>7
<1>9. QED BY <1>7, <1>8

-----------------------------------------------------------------------------
(* The flash operations, on the invariant. *)

\* What an erase that is cut leaves of a segment.
Worn(a, b) ==
  /\ \A i \in Slots : b.slots[i] \in {Erased, Torn, a.slots[i]}
  /\ \/ b.header = Erased
     \/ b.header = a.header /\ (ValidFirst(a.slots) => ValidFirst(b.slots))

\* What a slot may hold.
LEMMA SlotFacts ==
  /\ \A s \in SlotValues : s \in Int
  /\ \A s : Valid(s) => s \in Int /\ s # Erased /\ s # Torn /\ s > 0
  /\ ~Valid(Erased) /\ ~Valid(Torn) /\ Erased = 0 /\ Torn = -1 /\ Erased # Torn
BY SlotConstants DEF Valid, Records, Erased, Torn, SlotValues

\* What a live header is.
LEMMA LiveFacts ==
  ASSUME NEW f, NEW s
  PROVE  /\ Live(f, s) => f[s].header \in Int /\ f[s].header > 0 /\ f[s].header # Erased
         /\ f[s].header = Erased => ~Live(f, s)
BY SlotConstants DEF Live, Epochs, Erased

\* An erase that was cut wears its segment.
LEMMA EraseIs ==
  ASSUME NEW a \in Segment, NEW b \in EraseLandings(a)
  PROVE  b \in Segment /\ Worn(a, b)
<1> DEFINE High(k, cut) == [a EXCEPT !.slots = [i \in Slots |-> IF i > k THEN Erased ELSE IF i = k /\ cut THEN Torn ELSE a.slots[i]]]
           Low(k) == [header |-> Erased, slots |-> [i \in Slots |-> IF i <= k THEN Erased ELSE a.slots[i]]]
<1>0. /\ a.header \in -MaxRecords .. MaxRecords /\ a.slots \in [Slots -> Records \cup {Erased, Torn}]
      /\ PerSegment \in Nat /\ Slots = 1 .. PerSegment /\ MaxRecords \in Nat
  BY SlotConstants DEF Segment, Slots
<1>1. (\E k \in {0} \cup Slots, cut \in BOOLEAN : b = High(k, cut)) \/ (\E k \in {0} \cup Slots : b = Low(k))
  BY DEF EraseLandings
<1>2. ASSUME NEW k \in {0} \cup Slots, NEW cut \in BOOLEAN, b = High(k, cut)
      PROVE  b \in Segment /\ Worn(a, b)
  <2>1. b.header = a.header /\ b.slots = [i \in Slots |-> IF i > k THEN Erased ELSE IF i = k /\ cut THEN Torn ELSE a.slots[i]]
    BY <1>2 DEF Segment
  <2>2. \A i \in Slots : b.slots[i] = IF i > k THEN Erased ELSE IF i = k /\ cut THEN Torn ELSE a.slots[i]
    BY <2>1
  <2>3. b.slots \in [Slots -> Records \cup {Erased, Torn}]
    BY <1>0, <2>1
  <2>4. b \in Segment
    BY <1>2, <2>3 DEF Segment
  <2>5. \A i \in Slots : b.slots[i] \in {Erased, Torn, a.slots[i]}
    BY <2>2
  <2>6. ASSUME ValidFirst(a.slots)
        PROVE  ValidFirst(b.slots)
    <3>1. SUFFICES ASSUME NEW i \in Slots, NEW j \in Slots, i < j, Valid(b.slots[j])
                   PROVE  Valid(b.slots[i])
      BY DEF ValidFirst
    <3>2. ~(j > k) /\ b.slots[j] = a.slots[j]
      BY <2>2, <3>1, SlotFacts
    <3>3. ~(i > k) /\ i # k
      BY <1>0, <3>1, <3>2
    <3>4. b.slots[i] = a.slots[i]
      BY <2>2, <3>3
    <3>5. QED BY <2>6, <3>1, <3>2, <3>4 DEF ValidFirst
  <2>7. QED BY <2>1, <2>4, <2>5, <2>6 DEF Worn
<1>3. ASSUME NEW k \in {0} \cup Slots, b = Low(k)
      PROVE  b \in Segment /\ Worn(a, b)
  <2>1. b.header = Erased /\ b.slots = [i \in Slots |-> IF i <= k THEN Erased ELSE a.slots[i]]
    BY <1>3
  <2>2. \A i \in Slots : b.slots[i] \in {Erased, Torn, a.slots[i]}
    BY <2>1
  <2>3. [i \in Slots |-> IF i <= k THEN Erased ELSE a.slots[i]] \in [Slots -> Records \cup {Erased, Torn}]
    BY <1>0
  <2>4. Erased \in -MaxRecords .. MaxRecords
    BY <1>0 DEF Erased
  <2>5. b \in Segment
    BY <1>3, <2>3, <2>4 DEF Segment
  <2>6. QED BY <2>1, <2>2, <2>5 DEF Worn
<1> HIDE DEF High, Low
<1>4. QED BY <1>1, <1>2, <1>3

\* So does one that was done.
LEMMA BlankIs ==
  ASSUME NEW a \in Segment
  PROVE  Blank \in Segment /\ Worn(a, Blank) /\ Blank.header = Erased /\ \A i \in Slots : Blank.slots[i] = Erased
<1>1. Blank.header = Erased /\ Blank.slots = [i \in Slots |-> Erased]
  BY DEF Blank
<1>2. Erased \in -MaxRecords .. MaxRecords
  BY SlotConstants DEF Erased
<1>3. Blank \in Segment
  BY <1>2 DEF Blank, Segment
<1>4. \A i \in Slots : Blank.slots[i] = Erased
  BY <1>1
<1>5. QED BY <1>1, <1>3, <1>4 DEF Worn

\* The order and the bound only fear records that were not there.
LEMMA AscendingLess ==
  ASSUME NEW f, NEW g, NEW h, NEW k, NEW v \in Nat,
         \A n \in 0 .. k - 1 : \A i \in Slots : g[Before(h, n)].slots[i] \in {Erased, Torn, f[Before(h, n)].slots[i]}
  PROVE  (Ascending(f, h, k) => Ascending(g, h, k)) /\ (UpTo(f, h, k, v) => UpTo(g, h, k, v))
<1>1. \A n \in 0 .. k - 1 : \A i \in Slots :
        Valid(g[Before(h, n)].slots[i]) => g[Before(h, n)].slots[i] = f[Before(h, n)].slots[i]
  BY SlotFacts
<1>2. Ascending(f, h, k) => Ascending(g, h, k)
  <2> SUFFICES ASSUME Ascending(f, h, k),
                      NEW n \in 0 .. k - 1, NEW m \in 0 .. k - 1, NEW i \in Slots, NEW j \in Slots,
                      n > m \/ (n = m /\ i < j),
                      Valid(g[Before(h, n)].slots[i]), Valid(g[Before(h, m)].slots[j])
               PROVE  g[Before(h, n)].slots[i] < g[Before(h, m)].slots[j]
    BY DEF Ascending
  <2>1. g[Before(h, n)].slots[i] = f[Before(h, n)].slots[i]
    BY <1>1
  <2>2. g[Before(h, m)].slots[j] = f[Before(h, m)].slots[j]
    BY <1>1
  <2>3. QED BY <2>1, <2>2 DEF Ascending
<1>3. UpTo(f, h, k, v) => UpTo(g, h, k, v)
  <2> SUFFICES ASSUME UpTo(f, h, k, v), NEW n \in 0 .. k - 1, NEW i \in Slots
               PROVE  g[Before(h, n)].slots[i] <= v
    BY DEF UpTo
  <2>1. f[Before(h, n)].slots[i] <= v
    BY DEF UpTo
  <2>2. Erased <= v /\ Torn <= v
    BY DEF Erased, Torn
  <2>3. QED BY <2>1, <2>2
<1>4. QED BY <1>2, <1>3

\* An erase of the tail.
LEMMA TailWorn ==
  ASSUME NEW f \in Flash, NEW r \in Ring, NEW v \in Nat, NEW e, Holds(f, r, v, e), r.used > 1,
         NEW g \in Flash, \A s \in Segments : s # r.tail => g[s] = f[s],
         Worn(f[r.tail], g[r.tail])
  PROVE  Holds(g, r, v, e)
<1>1. /\ HeadOf(r) \in Segments
      /\ \A n \in 0 .. NSegments - 1 : At(r, n) \in Segments
      /\ \A n, m \in 0 .. NSegments - 1 : At(r, n) = At(r, m) => n = m
      /\ At(r, 0) = HeadOf(r)
      /\ r.tail = At(r, r.used - 1)
      /\ r.used \in 0 .. NSegments /\ NSegments \in Nat /\ NSegments > 0
  BY AtIs
<1>2. \A n \in 0 .. NSegments - 1 : n # r.used - 1 => g[At(r, n)] = f[At(r, n)]
  <2> TAKE n \in 0 .. NSegments - 1
  <2>1. r.used - 1 \in 0 .. NSegments - 1
    BY <1>1
  <2>2. QED BY <1>1, <2>1
<1>3. /\ \A n \in 0 .. r.used - 1 : n \in 0 .. NSegments - 1
      /\ \A n \in r.used .. NSegments - 1 : n \in 0 .. NSegments - 1 /\ n # r.used - 1
  BY <1>1
<1>4. \A n \in 0 .. NSegments - 1 : n # r.used - 1 => (Live(g, At(r, n)) <=> Live(f, At(r, n)))
  BY <1>2 DEF Live
<1>5. ~Live(g, r.tail) \/ (/\ g[r.tail].header = f[r.tail].header /\ Live(f, r.tail)
                           /\ ValidFirst(f[r.tail].slots) => ValidFirst(g[r.tail].slots))
  BY LiveFacts DEF Worn, Live
<1>6. Headers(g, r, e)
  <2>1. Headers(f, r, e)
    BY DEF Holds
  <2>2. ASSUME NEW n \in 0 .. r.used - 1
        PROVE  \/ Live(g, At(r, n)) /\ g[At(r, n)].header = r.epoch - n
               \/ ~Live(g, At(r, n)) /\ n > 0 /\ n = r.used - 1
    <3>1. \/ Live(f, At(r, n)) /\ f[At(r, n)].header = r.epoch - n
          \/ ~Live(f, At(r, n)) /\ n > 0 /\ n = r.used - 1
      BY <2>1 DEF Headers
    <3>2. CASE n # r.used - 1
      BY <1>2, <1>3, <1>4, <3>1, <3>2
    <3>3. CASE n = r.used - 1
      <4>1. n > 0
        BY <1>1, <3>3
      <4>2. QED BY <1>1, <1>5, <3>1, <3>3, <4>1 DEF Live
    <3>4. QED BY <3>2, <3>3
  <2>3. ASSUME NEW n \in r.used .. NSegments - 1, Live(g, At(r, n))
        PROVE  /\ n = NSegments - 1 /\ g[At(r, n)].header = r.epoch + 1
               /\ r.clean[At(r, n)] /\ ~HeadOpen(r) /\ r.epoch < e
    <3>1. g[At(r, n)] = f[At(r, n)] /\ Live(f, At(r, n))
      BY <1>2, <1>3, <1>4, <2>3
    <3>2. QED BY <2>1, <3>1 DEF Headers
  <2>4. QED BY <2>1, <2>2, <2>3 DEF Headers
<1>7. Cleaned(g, r)
  <2>1. Cleaned(f, r)
    BY DEF Holds
  <2>2. \A n \in r.used .. NSegments - 1 : g[At(r, n)] = f[At(r, n)]
    BY <1>2, <1>3
  <2>3. QED BY <2>1, <2>2 DEF Cleaned
<1>8. Filled(g, r, v)
  <2>1. Filled(f, r, v)
    BY DEF Holds
  <2>2. g[HeadOf(r)] = f[HeadOf(r)]
    <3>1. 0 \in 0 .. NSegments - 1 /\ 0 # r.used - 1
      BY <1>1
    <3>2. QED BY <1>1, <1>2, <3>1
  <2>3. ASSUME NEW n \in 0 .. r.used - 1, Live(g, At(r, n))
        PROVE  ValidFirst(g[At(r, n)].slots)
    <3>1. Live(f, At(r, n)) => ValidFirst(f[At(r, n)].slots)
      BY <2>1 DEF Filled
    <3>2. CASE n # r.used - 1
      BY <1>2, <1>3, <1>4, <2>3, <3>1, <3>2
    <3>3. CASE n = r.used - 1
      BY <1>1, <1>5, <2>3, <3>1, <3>3
    <3>4. QED BY <3>2, <3>3
  <2>4. ASSUME NEW n \in 0 .. r.used - 1, n = 0 \/ n < r.used - 1, NEW i \in Slots, i <= r.lens[At(r, n)]
        PROVE  Valid(g[At(r, n)].slots[i])
    <3>1. Valid(f[At(r, n)].slots[i])
      BY <2>1, <2>4 DEF Filled
    <3>2. n # r.used - 1
      BY <1>1, <2>4
    <3>3. QED BY <1>2, <1>3, <3>1, <3>2
  <2>5. \A n \in 0 .. r.used - 1 : \A i \in Slots :
          g[Before(HeadOf(r), n)].slots[i] \in {Erased, Torn, f[Before(HeadOf(r), n)].slots[i]}
    <3> TAKE n \in 0 .. r.used - 1
    <3> TAKE i \in Slots
    <3>1. g[At(r, n)].slots[i] \in {Erased, Torn, f[At(r, n)].slots[i]}
      <4>1. CASE n # r.used - 1
        BY <1>2, <1>3, <4>1
      <4>2. CASE n = r.used - 1
        BY <1>1, <4>2 DEF Worn
      <4>3. QED BY <4>1, <4>2
    <3>2. QED BY <3>1 DEF At
  <2>6. Ascending(f, HeadOf(r), r.used) /\ UpTo(f, HeadOf(r), r.used, v)
    BY <2>1 DEF Filled
  <2>7. Ascending(g, HeadOf(r), r.used) /\ UpTo(g, HeadOf(r), r.used, v)
    BY <2>5, <2>6, AscendingLess
  <2>8. /\ r.used > 0 => ErasedLast(g[HeadOf(r)].slots)
        /\ r.used > 0 /\ ~r.sealed => \A i \in Slots : i > r.lens[HeadOf(r)] => g[HeadOf(r)].slots[i] = Erased
    BY <2>1, <2>2 DEF Filled
  <2>9. QED BY <2>3, <2>4, <2>7, <2>8 DEF Filled
<1>9. QED BY <1>6, <1>7, <1>8 DEF Holds

\* The segment after the head changes: it is erased, or started without the ring knowing.
LEMMA NextChanged ==
  ASSUME NEW f \in Flash, NEW r \in Ring, NEW v \in Nat, NEW e \in Int, Holds(f, r, v, e), r.used < NSegments,
         NEW g \in Flash, \A s \in Segments : s # Following(r) => g[s] = f[s],
         NEW q \in Ring, q.tail = r.tail, q.used = r.used, q.epoch = r.epoch, q.sealed = r.sealed, q.lens = r.lens,
         \A s \in Segments : s # Following(r) => q.clean[s] = r.clean[s],
         NEW e2 \in Int, e <= e2,
         Live(g, Following(r)) => /\ g[Following(r)].header = r.epoch + 1 /\ q.clean[Following(r)]
                                  /\ ~HeadOpen(r) /\ r.epoch < e2,
         q.clean[Following(r)] => /\ \A i \in Slots : g[Following(r)].slots[i] = Erased
                                  /\ g[Following(r)].header \in {Erased, r.epoch + 1, -(r.epoch + 1)}
  PROVE  Holds(g, q, v, e2)
<1>1. /\ HeadOf(r) \in Segments
      /\ \A n \in 0 .. NSegments - 1 : At(r, n) \in Segments
      /\ \A n, m \in 0 .. NSegments - 1 : At(r, n) = At(r, m) => n = m
      /\ At(r, 0) = HeadOf(r) /\ At(r, NSegments - 1) = Following(r)
      /\ r.used \in 0 .. NSegments /\ NSegments \in Nat /\ NSegments > 0
  BY AtIs
<1>2. /\ HeadOf(q) = HeadOf(r) /\ (HeadOpen(q) <=> HeadOpen(r))
      /\ \A n : At(q, n) = At(r, n)
  BY DEF HeadOf, HeadOpen, At
<1>3. \A n \in 0 .. NSegments - 1 :
        n # NSegments - 1 => g[At(r, n)] = f[At(r, n)] /\ q.clean[At(r, n)] = r.clean[At(r, n)]
  <2> TAKE n \in 0 .. NSegments - 1
  <2>1. NSegments - 1 \in 0 .. NSegments - 1
    BY <1>1
  <2>2. QED BY <1>1, <2>1
<1>4. /\ \A n \in 0 .. r.used - 1 : n \in 0 .. NSegments - 1 /\ n # NSegments - 1
      /\ \A n \in r.used .. NSegments - 1 : n \in 0 .. NSegments - 1
  BY <1>1
<1>5. r.epoch \in Int
  BY SlotConstants DEF Ring, Epochs
<1>6. \A n \in 0 .. r.used - 1 : g[At(r, n)] = f[At(r, n)] /\ q.clean[At(r, n)] = r.clean[At(r, n)]
  BY <1>3, <1>4
<1>7. Headers(g, q, e2)
  <2>1. Headers(f, r, e)
    BY DEF Holds
  <2>2. \A n \in 0 .. q.used - 1 :
          \/ Live(g, At(q, n)) /\ g[At(q, n)].header = q.epoch - n
          \/ ~Live(g, At(q, n)) /\ n > 0 /\ n = q.used - 1
    BY <1>2, <1>6, <2>1 DEF Headers, Live
  <2>3. ASSUME NEW n \in q.used .. NSegments - 1, Live(g, At(q, n))
        PROVE  /\ n = NSegments - 1 /\ g[At(q, n)].header = q.epoch + 1
               /\ q.clean[At(q, n)] /\ ~HeadOpen(q) /\ q.epoch < e2
    <3>1. CASE n = NSegments - 1
      BY <1>1, <1>2, <2>3, <3>1
    <3>2. CASE n # NSegments - 1
      <4>1. g[At(r, n)] = f[At(r, n)]
        BY <1>3, <1>4, <3>2
      <4>2. Live(f, At(r, n))
        BY <1>2, <2>3, <4>1 DEF Live
      <4>3. QED BY <2>1, <3>2, <4>2 DEF Headers
    <3>3. QED BY <3>1, <3>2
  <2>4. q.used = 0 => q.tail = 0
    BY <2>1 DEF Headers
  <2>5. q.epoch <= e2
    BY <1>5, <2>1 DEF Headers
  <2>6. QED BY <2>2, <2>3, <2>4, <2>5 DEF Headers
<1>8. Cleaned(g, q)
  <2>1. Cleaned(f, r)
    BY DEF Holds
  <2>2. \A n \in 0 .. q.used - 1 : ~q.clean[At(q, n)]
    BY <1>2, <1>6, <2>1 DEF Cleaned
  <2>3. ASSUME NEW n \in q.used .. NSegments - 1, q.clean[At(q, n)]
        PROVE  /\ \A i \in Slots : g[At(q, n)].slots[i] = Erased
               /\ \/ g[At(q, n)].header = Erased
                  \/ n = NSegments - 1 /\ g[At(q, n)].header \in {q.epoch + 1, -(q.epoch + 1)}
    <3>1. CASE n = NSegments - 1
      BY <1>1, <1>2, <2>3, <3>1
    <3>2. CASE n # NSegments - 1
      <4>1. g[At(r, n)] = f[At(r, n)] /\ r.clean[At(r, n)]
        BY <1>2, <1>3, <1>4, <2>3, <3>2
      <4>2. QED BY <1>2, <2>1, <4>1 DEF Cleaned
    <3>3. QED BY <3>1, <3>2
  <2>4. QED BY <2>2, <2>3 DEF Cleaned
<1>9. Filled(g, q, v)
  <2>1. Filled(f, r, v)
    BY DEF Holds
  <2>2. r.used > 0 => g[HeadOf(r)] = f[HeadOf(r)]
    <3>1. r.used > 0 => 0 \in 0 .. r.used - 1
      BY <1>1
    <3>2. QED BY <1>1, <1>6, <3>1
  <2>3. \A n \in 0 .. r.used - 1 : g[Before(HeadOf(r), n)] = f[Before(HeadOf(r), n)]
    BY <1>6 DEF At
  <2>4. Ascending(g, HeadOf(r), r.used) /\ UpTo(g, HeadOf(r), r.used, v)
    BY <2>1, <2>3 DEF Filled, Ascending, UpTo
  <2>5. /\ \A n \in 0 .. q.used - 1 : Live(g, At(q, n)) => ValidFirst(g[At(q, n)].slots)
        /\ \A n \in 0 .. q.used - 1 : n = 0 \/ n < q.used - 1 =>
             \A i \in Slots : i <= q.lens[At(q, n)] => Valid(g[At(q, n)].slots[i])
    BY <1>2, <1>6, <2>1 DEF Filled, Live
  <2>6. /\ q.used > 0 => ErasedLast(g[HeadOf(q)].slots)
        /\ q.used > 0 /\ ~q.sealed => \A i \in Slots : i > q.lens[HeadOf(q)] => g[HeadOf(q)].slots[i] = Erased
    BY <1>2, <2>1, <2>2 DEF Filled
  <2>7. QED BY <1>2, <2>4, <2>5, <2>6 DEF Filled
<1>10. QED BY <1>7, <1>8, <1>9 DEF Holds

\* The oldest segment is dropped.
LEMMA Dropped ==
  ASSUME NEW f \in Flash, NEW r \in Ring, NEW v \in Nat, NEW e, Holds(f, r, v, e), r.used > 1,
         NEW g \in Flash, \A s \in Segments : s # r.tail => g[s] = f[s],
         g[r.tail].header = Erased, \A i \in Slots : g[r.tail].slots[i] = Erased,
         NEW q \in Ring, q.tail = After(r.tail), q.used = r.used - 1, q.epoch = r.epoch, q.sealed = r.sealed,
         \A s \in Segments : s # r.tail => q.lens[s] = r.lens[s] /\ q.clean[s] = r.clean[s]
  PROVE  Holds(g, q, v, e) /\ HeadOf(q) = HeadOf(r) /\ (HeadOpen(q) <=> HeadOpen(r))
<1>1. /\ HeadOf(r) \in Segments
      /\ \A n \in 0 .. NSegments - 1 : At(r, n) \in Segments
      /\ \A n, m \in 0 .. NSegments - 1 : At(r, n) = At(r, m) => n = m
      /\ At(r, 0) = HeadOf(r)
      /\ r.tail = At(r, r.used - 1)
      /\ r.used \in 0 .. NSegments /\ NSegments \in Nat /\ NSegments > 0
  BY AtIs
<1>2. HeadOf(q) = HeadOf(r) /\ \A n : At(q, n) = At(r, n)
  BY HeadWithoutTail DEF At
<1>3. \A n \in 0 .. NSegments - 1 : n # r.used - 1 =>
        /\ g[At(r, n)] = f[At(r, n)] /\ q.lens[At(r, n)] = r.lens[At(r, n)]
        /\ q.clean[At(r, n)] = r.clean[At(r, n)]
  <2> TAKE n \in 0 .. NSegments - 1
  <2>1. r.used - 1 \in 0 .. NSegments - 1
    BY <1>1
  <2>2. QED BY <1>1, <2>1
<1>4. /\ \A n \in 0 .. q.used - 1 : /\ n \in 0 .. NSegments - 1 /\ n # r.used - 1 /\ n \in 0 .. r.used - 1
                                    /\ n < r.used - 1
      /\ \A n \in q.used .. NSegments - 1 : n \in 0 .. NSegments - 1 /\ (n # r.used - 1 => n \in r.used .. NSegments - 1)
      /\ 0 \in 0 .. q.used - 1 /\ q.used > 0 /\ q.used # 0 /\ q.used \in Int
  BY <1>1
<1>5. \A n \in 0 .. q.used - 1 :
        /\ g[At(r, n)] = f[At(r, n)] /\ q.lens[At(r, n)] = r.lens[At(r, n)]
        /\ q.clean[At(r, n)] = r.clean[At(r, n)]
  BY <1>3, <1>4
<1>6. HeadOpen(q) <=> HeadOpen(r)
  <2>1. q.lens[HeadOf(r)] = r.lens[HeadOf(r)]
    BY <1>1, <1>4, <1>5
  <2>2. r.used > 0 /\ q.used > 0
    BY <1>1, <1>4
  <2>3. QED BY <1>2, <2>1, <2>2, Zenon DEF HeadOpen
<1>7. Headers(g, q, e)
  <2>1. Headers(f, r, e)
    BY DEF Holds
  <2>2. \A n \in 0 .. q.used - 1 : Live(g, At(q, n)) /\ g[At(q, n)].header = q.epoch - n
    <3> TAKE n \in 0 .. q.used - 1
    <3>1. Live(f, At(r, n)) /\ f[At(r, n)].header = r.epoch - n
      BY <1>4, <2>1 DEF Headers
    <3>2. QED BY <1>2, <1>5, <3>1 DEF Live
  <2>3. ASSUME NEW n \in q.used .. NSegments - 1, Live(g, At(q, n))
        PROVE  /\ n = NSegments - 1 /\ g[At(q, n)].header = q.epoch + 1
               /\ q.clean[At(q, n)] /\ ~HeadOpen(q) /\ q.epoch < e
    <3>1. n # r.used - 1
      BY <1>1, <1>2, <2>3, LiveFacts
    <3>2. g[At(r, n)] = f[At(r, n)] /\ q.clean[At(r, n)] = r.clean[At(r, n)] /\ n \in r.used .. NSegments - 1
      BY <1>3, <1>4, <3>1
    <3>3. Live(f, At(r, n))
      BY <1>2, <2>3, <3>2 DEF Live
    <3>4. QED BY <1>2, <1>6, <2>1, <3>2, <3>3 DEF Headers
  <2>4. q.epoch <= e
    BY <2>1 DEF Headers
  <2>5. QED BY <1>4, <2>2, <2>3, <2>4 DEF Headers
<1>8. Cleaned(g, q)
  <2>1. Cleaned(f, r)
    BY DEF Holds
  <2>2. \A n \in 0 .. q.used - 1 : ~q.clean[At(q, n)]
    BY <1>2, <1>4, <1>5, <2>1 DEF Cleaned
  <2>3. ASSUME NEW n \in q.used .. NSegments - 1, q.clean[At(q, n)]
        PROVE  /\ \A i \in Slots : g[At(q, n)].slots[i] = Erased
               /\ \/ g[At(q, n)].header = Erased
                  \/ n = NSegments - 1 /\ g[At(q, n)].header \in {q.epoch + 1, -(q.epoch + 1)}
    <3>1. CASE n = r.used - 1
      BY <1>1, <1>2, <3>1
    <3>2. CASE n # r.used - 1
      <4>1. g[At(r, n)] = f[At(r, n)] /\ r.clean[At(r, n)] /\ n \in r.used .. NSegments - 1
        BY <1>2, <1>3, <1>4, <2>3, <3>2
      <4>2. QED BY <1>2, <2>1, <4>1 DEF Cleaned
    <3>3. QED BY <3>1, <3>2
  <2>4. QED BY <2>2, <2>3 DEF Cleaned
<1>9. Filled(g, q, v)
  <2>1. Filled(f, r, v)
    BY DEF Holds
  <2>2. g[HeadOf(r)] = f[HeadOf(r)] /\ q.lens[HeadOf(r)] = r.lens[HeadOf(r)] /\ r.used > 0
    BY <1>1, <1>4, <1>5
  <2>3. \A n \in 0 .. q.used - 1 : g[Before(HeadOf(r), n)] = f[Before(HeadOf(r), n)] /\ n \in 0 .. r.used - 1
    BY <1>4, <1>5 DEF At
  <2>4. Ascending(g, HeadOf(r), q.used) /\ UpTo(g, HeadOf(r), q.used, v)
    BY <2>1, <2>3 DEF Filled, Ascending, UpTo
  <2>5. /\ \A n \in 0 .. q.used - 1 : Live(g, At(q, n)) => ValidFirst(g[At(q, n)].slots)
        /\ \A n \in 0 .. q.used - 1 :
             \A i \in Slots : i <= q.lens[At(q, n)] => Valid(g[At(q, n)].slots[i])
    BY <1>2, <1>4, <1>5, <2>1 DEF Filled, Live
  <2>6. /\ ErasedLast(g[HeadOf(q)].slots)
        /\ ~q.sealed => \A i \in Slots : i > q.lens[HeadOf(q)] => g[HeadOf(q)].slots[i] = Erased
    BY <1>2, <2>1, <2>2 DEF Filled
  <2>7. QED BY <1>2, <2>4, <2>5, <2>6 DEF Filled
<1>10. QED BY <1>2, <1>6, <1>7, <1>8, <1>9 DEF Holds

\* The segment after the head becomes the head.
LEMMA HeaderDone ==
  ASSUME NEW f \in Flash, NEW r \in Ring, NEW v \in Nat, NEW e, Holds(f, r, v, e), r.used < NSegments,
         r.clean[Following(r)],
         NEW g \in Flash, \A s \in Segments : s # Following(r) => g[s] = f[s],
         g[Following(r)].header = r.epoch + 1, r.epoch + 1 \in Epochs,
         g[Following(r)].slots = f[Following(r)].slots,
         NEW q \in Ring, q.tail = r.tail, q.used = r.used + 1, q.epoch = r.epoch + 1, ~q.sealed,
         q.lens[Following(r)] = 0, ~q.clean[Following(r)],
         \A s \in Segments : s # Following(r) => q.lens[s] = r.lens[s] /\ q.clean[s] = r.clean[s],
         NEW e2 \in Int, r.epoch < e2
  PROVE  Holds(g, q, v, e2) /\ HeadOpen(q) /\ HeadOf(q) = Following(r)
<1> DEFINE F == Following(r)
<1>1. /\ HeadOf(r) \in Segments /\ F \in Segments
      /\ \A n \in 0 .. NSegments - 1 : At(r, n) \in Segments
      /\ \A n, m \in 0 .. NSegments - 1 : At(r, n) = At(r, m) => n = m
      /\ At(r, 0) = HeadOf(r) /\ At(r, NSegments - 1) = F
      /\ r.used \in 0 .. NSegments /\ NSegments \in Nat /\ NSegments > 0
  BY AtIs
<1>2. HeadOf(q) = F
  BY HeadWithNext DEF Following
<1>3. At(q, 0) = F /\ \A n \in 0 .. NSegments - 1 : At(q, n + 1) = At(r, n)
  BY <1>1, <1>2, BeforeAfter DEF At, Following
<1>4. r.epoch \in Int
  BY SlotConstants DEF Ring, Epochs
<1>5. \A n \in 0 .. NSegments - 1 : n # NSegments - 1 =>
        /\ g[At(r, n)] = f[At(r, n)] /\ q.lens[At(r, n)] = r.lens[At(r, n)]
        /\ q.clean[At(r, n)] = r.clean[At(r, n)]
  <2> TAKE n \in 0 .. NSegments - 1
  <2>1. NSegments - 1 \in 0 .. NSegments - 1
    BY <1>1
  <2>2. QED BY <1>1, <2>1
<1>6. \A i \in Slots : f[F].slots[i] = Erased
  <2>1. Cleaned(f, r)
    BY DEF Holds
  <2>2. NSegments - 1 \in r.used .. NSegments - 1
    BY <1>1
  <2>3. QED BY <1>1, <2>1, <2>2 DEF Cleaned
<1>7. \A i \in Slots : g[F].slots[i] = Erased
  BY <1>6
<1> HIDE DEF F
<1>8. ASSUME NEW n \in Int, n # 0, n \in 0 .. NSegments - 1
      PROVE  /\ n - 1 \in 0 .. NSegments - 1 /\ n - 1 # NSegments - 1
             /\ At(q, n) = At(r, n - 1) /\ g[At(q, n)] = f[At(r, n - 1)]
             /\ q.lens[At(q, n)] = r.lens[At(r, n - 1)] /\ q.clean[At(q, n)] = r.clean[At(r, n - 1)]
  <2>1. n - 1 \in 0 .. NSegments - 1 /\ n - 1 # NSegments - 1 /\ n - 1 + 1 = n
    BY <1>1, <1>8
  <2>2. At(q, n) = At(r, n - 1)
    BY <1>3, <2>1
  <2>3. QED BY <1>5, <2>1, <2>2
<1>9. /\ q.used \in 1 .. NSegments /\ q.used > 0
      /\ \A n \in 0 .. q.used - 1 : n \in Int /\ n \in 0 .. NSegments - 1 /\ (n # 0 => n - 1 \in 0 .. r.used - 1)
      /\ \A n \in q.used .. NSegments - 1 : n \in Int /\ n # 0 /\ n \in 0 .. NSegments - 1 /\ n - 1 \in r.used .. NSegments - 1
  BY <1>1
<1>10. Headers(g, q, e2)
  <2>1. Headers(f, r, e)
    BY DEF Holds
  <2>2. ASSUME NEW n \in 0 .. q.used - 1
        PROVE  \/ Live(g, At(q, n)) /\ g[At(q, n)].header = q.epoch - n
               \/ ~Live(g, At(q, n)) /\ n > 0 /\ n = q.used - 1
    <3>1. CASE n = 0
      <4>1. g[At(q, n)].header = r.epoch + 1
        BY <1>3, <3>1 DEF F
      <4>2. QED BY <1>4, <3>1, <4>1 DEF Live
    <3>2. CASE n # 0
      <4>1. n - 1 \in 0 .. r.used - 1 /\ g[At(q, n)] = f[At(r, n - 1)] /\ n \in Int
        BY <1>8, <1>9, <3>2
      <4>2. \/ Live(f, At(r, n - 1)) /\ f[At(r, n - 1)].header = r.epoch - (n - 1)
            \/ ~Live(f, At(r, n - 1)) /\ n - 1 > 0 /\ n - 1 = r.used - 1
        BY <2>1, <4>1 DEF Headers
      <4>3. (Live(g, At(q, n)) <=> Live(f, At(r, n - 1))) /\ q.epoch - n = r.epoch - (n - 1)
        BY <1>4, <4>1 DEF Live
      <4>4. QED BY <1>1, <4>1, <4>2, <4>3
    <3>3. QED BY <3>1, <3>2
  <2>3. ASSUME NEW n \in q.used .. NSegments - 1, Live(g, At(q, n))
        PROVE  FALSE
    <3>1. n - 1 \in r.used .. NSegments - 1 /\ g[At(q, n)] = f[At(r, n - 1)] /\ n - 1 # NSegments - 1
      BY <1>8, <1>9
    <3>2. Live(f, At(r, n - 1))
      BY <2>3, <3>1 DEF Live
    <3>3. QED BY <2>1, <3>1, <3>2 DEF Headers
  <2>4. q.epoch <= e2 /\ q.used # 0
    BY <1>4, <1>9
  <2>5. QED BY <2>2, <2>3, <2>4 DEF Headers
<1>11. Cleaned(g, q)
  <2>1. Cleaned(f, r)
    BY DEF Holds
  <2>2. ASSUME NEW n \in 0 .. q.used - 1
        PROVE  ~q.clean[At(q, n)]
    <3>1. CASE n = 0
      BY <1>3, <3>1 DEF F
    <3>2. CASE n # 0
      <4>1. n - 1 \in 0 .. r.used - 1 /\ q.clean[At(q, n)] = r.clean[At(r, n - 1)]
        BY <1>8, <1>9, <3>2
      <4>2. QED BY <2>1, <4>1 DEF Cleaned
    <3>3. QED BY <3>1, <3>2
  <2>3. ASSUME NEW n \in q.used .. NSegments - 1, q.clean[At(q, n)]
        PROVE  /\ \A i \in Slots : g[At(q, n)].slots[i] = Erased
               /\ g[At(q, n)].header = Erased
    <3>1. /\ n - 1 \in r.used .. NSegments - 1 /\ g[At(q, n)] = f[At(r, n - 1)] /\ n - 1 # NSegments - 1
          /\ q.clean[At(q, n)] = r.clean[At(r, n - 1)]
      BY <1>8, <1>9
    <3>2. QED BY <2>1, <2>3, <3>1 DEF Cleaned
  <2>4. QED BY <2>2, <2>3 DEF Cleaned
<1>12. Filled(g, q, v)
  <2>1. Filled(f, r, v)
    BY DEF Holds
  <2>2. ASSUME NEW n \in 0 .. q.used - 1, Live(g, At(q, n))
        PROVE  ValidFirst(g[At(q, n)].slots)
    <3>1. CASE n = 0
      BY <1>3, <1>7, <3>1, SlotFacts DEF ValidFirst
    <3>2. CASE n # 0
      <4>1. n - 1 \in 0 .. r.used - 1 /\ g[At(q, n)] = f[At(r, n - 1)]
        BY <1>8, <1>9, <3>2
      <4>2. Live(f, At(r, n - 1))
        BY <2>2, <4>1 DEF Live
      <4>3. QED BY <2>1, <4>1, <4>2 DEF Filled
    <3>3. QED BY <3>1, <3>2
  <2>3. ASSUME NEW n \in 0 .. q.used - 1, n = 0 \/ n < q.used - 1, NEW i \in Slots, i <= q.lens[At(q, n)]
        PROVE  Valid(g[At(q, n)].slots[i])
    <3>1. n # 0
      <4>1. i > 0 /\ i \in Int
        BY SlotConstants DEF Slots
      <4>2. n = 0 => q.lens[At(q, n)] = 0
        BY <1>3 DEF F
      <4>3. QED BY <2>3, <4>1, <4>2
    <3>2. n - 1 \in 0 .. r.used - 1 /\ g[At(q, n)] = f[At(r, n - 1)] /\ q.lens[At(q, n)] = r.lens[At(r, n - 1)]
      BY <1>8, <1>9, <3>1
    <3>3. n - 1 < r.used - 1
      BY <1>1, <2>3, <3>1
    <3>4. QED BY <2>1, <2>3, <3>2, <3>3 DEF Filled
  <2>4. /\ ErasedLast(g[HeadOf(q)].slots)
        /\ \A i \in Slots : i > q.lens[HeadOf(q)] => g[HeadOf(q)].slots[i] = Erased
    BY <1>2, <1>7 DEF ErasedLast
  <2>5. ASSUME NEW n \in 0 .. q.used - 1, NEW i \in Slots, Valid(g[At(q, n)].slots[i])
        PROVE  n # 0 /\ n \in Int /\ n - 1 \in 0 .. r.used - 1 /\ g[At(q, n)] = f[At(r, n - 1)]
    <3>1. n # 0
      BY <1>3, <1>7, <2>5, SlotFacts
    <3>2. QED BY <1>8, <1>9, <3>1
  <2>6. Ascending(g, HeadOf(q), q.used)
    <3> SUFFICES ASSUME NEW n \in 0 .. q.used - 1, NEW m \in 0 .. q.used - 1, NEW i \in Slots, NEW j \in Slots,
                        n > m \/ (n = m /\ i < j),
                        Valid(g[At(q, n)].slots[i]), Valid(g[At(q, m)].slots[j])
                 PROVE  g[At(q, n)].slots[i] < g[At(q, m)].slots[j]
      BY DEF Ascending, At
    <3>1. n \in Int /\ n - 1 \in 0 .. r.used - 1 /\ g[At(q, n)] = f[At(r, n - 1)]
      BY <2>5
    <3>2. m \in Int /\ m - 1 \in 0 .. r.used - 1 /\ g[At(q, m)] = f[At(r, m - 1)]
      BY <2>5
    <3>3. n - 1 > m - 1 \/ (n - 1 = m - 1 /\ i < j)
      BY <3>1, <3>2
    <3>4. Ascending(f, HeadOf(r), r.used)
      BY <2>1 DEF Filled
    <3>5. QED BY <3>1, <3>2, <3>3, <3>4 DEF Ascending, At
  <2>7. UpTo(g, HeadOf(q), q.used, v)
    <3> SUFFICES ASSUME NEW n \in 0 .. q.used - 1, NEW i \in Slots
                 PROVE  g[At(q, n)].slots[i] <= v
      BY DEF UpTo, At
    <3>1. CASE n = 0
      BY <1>3, <1>7, <3>1, SlotFacts
    <3>2. CASE n # 0
      <4>1. n - 1 \in 0 .. r.used - 1 /\ g[At(q, n)] = f[At(r, n - 1)]
        BY <1>8, <1>9, <3>2
      <4>2. UpTo(f, HeadOf(r), r.used, v)
        BY <2>1 DEF Filled
      <4>3. QED BY <4>1, <4>2 DEF UpTo, At
    <3>3. QED BY <3>1, <3>2
  <2>8. QED BY <2>2, <2>3, <2>4, <2>6, <2>7 DEF Filled
<1>13. HeadOpen(q)
  <2>1. q.lens[F] = 0
    BY DEF F
  <2>2. QED BY <1>2, <1>9, <2>1, SlotConstants DEF HeadOpen
<1>14. QED BY <1>2, <1>10, <1>11, <1>12, <1>13 DEF Holds, F

\* A slot of the head is written.
LEMMA SlotWritten ==
  ASSUME NEW f \in Flash, NEW r \in Ring, NEW v \in Nat, NEW e, Holds(f, r, v, e), HeadOpen(r),
         NEW i \in Int, i = r.lens[HeadOf(r)] + 1, NEW new \in Records, v < new,
         NEW g \in Flash, \A s \in Segments : s # HeadOf(r) => g[s] = f[s],
         g[HeadOf(r)].header = f[HeadOf(r)].header,
         \A j \in Slots : j # i => g[HeadOf(r)].slots[j] = f[HeadOf(r)].slots[j],
         g[HeadOf(r)].slots[i] \in {Erased, Torn, new},
         NEW q \in Ring, q.tail = r.tail, q.used = r.used, q.epoch = r.epoch, q.clean = r.clean,
         \A s \in Segments : s # HeadOf(r) => q.lens[s] = r.lens[s],
         \/ q.sealed /\ q.lens[HeadOf(r)] = r.lens[HeadOf(r)]
         \/ q.lens[HeadOf(r)] = i /\ g[HeadOf(r)].slots[i] = new
  PROVE  Holds(g, q, new, e) /\ i \in Slots /\ f[HeadOf(r)].slots[i] = Erased
<1> DEFINE h == HeadOf(r)
<1>1. /\ h \in Segments
      /\ \A n \in 0 .. NSegments - 1 : At(r, n) \in Segments
      /\ \A n, m \in 0 .. NSegments - 1 : At(r, n) = At(r, m) => n = m
      /\ At(r, 0) = h
      /\ r.used \in 0 .. NSegments /\ NSegments \in Nat /\ NSegments > 0
  BY AtIs
<1>2. HeadOf(q) = h /\ \A n : At(q, n) = At(r, n)
  BY DEF HeadOf, At
<1>3. r.used > 0 /\ r.lens[h] < PerSegment /\ ~r.sealed /\ r.lens[h] \in Nat /\ PerSegment \in Nat
  BY <1>1, SlotConstants DEF HeadOpen, Ring
<1>4. i \in Slots
  BY <1>3 DEF Slots
<1>5. Headers(f, r, e) /\ Cleaned(f, r) /\ Filled(f, r, v)
  BY DEF Holds
<1>6. \A n \in 0 .. NSegments - 1 : n # 0 => g[At(r, n)] = f[At(r, n)] /\ q.lens[At(r, n)] = r.lens[At(r, n)]
  <2> TAKE n \in 0 .. NSegments - 1
  <2>1. 0 \in 0 .. NSegments - 1
    BY <1>1
  <2>2. QED BY <1>1, <2>1
<1>7. /\ \A n \in 0 .. r.used - 1 : n \in 0 .. NSegments - 1 /\ n \in Int
      /\ \A n \in r.used .. NSegments - 1 : n \in 0 .. NSegments - 1 /\ n # 0
      /\ 0 \in 0 .. r.used - 1 /\ r.used # 0
  BY <1>1, <1>3
<1>8. \A n \in 0 .. NSegments - 1 : Live(g, At(r, n)) <=> Live(f, At(r, n))
  BY <1>1, <1>6 DEF Live
<1>9. \A n \in 0 .. NSegments - 1 : g[At(r, n)].header = f[At(r, n)].header
  BY <1>1, <1>6
<1>10. /\ \A j \in Slots : j < i => Valid(f[h].slots[j]) /\ g[h].slots[j] = f[h].slots[j]
       /\ \A j \in Slots : j >= i => f[h].slots[j] = Erased
       /\ \A j \in Slots : j > i => g[h].slots[j] = Erased
  <2>1. \A j \in Slots : j \in Int /\ (j < i => j <= r.lens[h] /\ j # i) /\ (j >= i => j > r.lens[h]) /\ (j > i => j # i /\ j >= i)
    BY <1>3 DEF Slots
  <2>2. \A j \in Slots : j <= r.lens[h] => Valid(f[h].slots[j])
    BY <1>1, <1>5, <1>7 DEF Filled
  <2>3. \A j \in Slots : j > r.lens[h] => f[h].slots[j] = Erased
    BY <1>3, <1>5 DEF Filled
  <2>4. QED BY <2>1, <2>2, <2>3
<1>11. Headers(g, q, e)
  <2>1. \A n \in r.used .. NSegments - 1 : ~Live(g, At(r, n))
    BY <1>5, <1>7, <1>8 DEF Headers
  <2>2. \A n \in 0 .. r.used - 1 :
          \/ Live(g, At(r, n)) /\ g[At(r, n)].header = r.epoch - n
          \/ ~Live(g, At(r, n)) /\ n > 0 /\ n = r.used - 1
    <3> TAKE n \in 0 .. r.used - 1
    <3>1. g[At(r, n)].header = f[At(r, n)].header /\ (Live(g, At(r, n)) <=> Live(f, At(r, n)))
      BY <1>7, <1>8, <1>9
    <3>2. QED BY <1>5, <3>1 DEF Headers
  <2>3. q.epoch <= e
    BY <1>5 DEF Headers
  <2>4. QED BY <1>2, <1>7, <2>1, <2>2, <2>3 DEF Headers
<1>12. Cleaned(g, q)
  <2>1. \A n \in r.used .. NSegments - 1 : g[At(r, n)] = f[At(r, n)]
    BY <1>6, <1>7
  <2>2. QED BY <1>2, <1>5, <2>1 DEF Cleaned
<1>13. Filled(g, q, new)
  <2>1. ValidFirst(g[h].slots) /\ ErasedLast(g[h].slots)
    <3>1. \A a, b \in Slots : a < b => (b <= i => a < i) /\ (b > i => b > i) /\ (b <= i \/ b > i) /\ (a >= i => b > i) /\ (a < i \/ a >= i)
      BY DEF Slots
    <3>2. \A a \in Slots : a < i => Valid(g[h].slots[a])
      BY <1>10
    <3>3. QED BY <1>10, <3>1, <3>2, SlotFacts DEF ValidFirst, ErasedLast
  <2>2. ASSUME NEW n \in 0 .. r.used - 1, Live(g, At(r, n))
        PROVE  ValidFirst(g[At(r, n)].slots)
    <3>1. CASE n = 0
      BY <1>1, <2>1, <3>1
    <3>2. CASE n # 0
      <4>1. g[At(r, n)] = f[At(r, n)] /\ Live(f, At(r, n))
        BY <1>6, <1>7, <1>8, <2>2, <3>2
      <4>2. QED BY <1>5, <4>1 DEF Filled
    <3>3. QED BY <3>1, <3>2
  <2>3. ASSUME NEW n \in 0 .. r.used - 1, n = 0 \/ n < r.used - 1, NEW j \in Slots, j <= q.lens[At(r, n)]
        PROVE  Valid(g[At(r, n)].slots[j])
    <3>1. CASE n = 0
      <4>1. At(r, n) = h
        BY <1>1, <3>1
      <4>2. CASE j < i
        BY <1>10, <4>1, <4>2
      <4>3. CASE ~(j < i)
        <5>1. j \in Int /\ j <= q.lens[h]
          BY <2>3, <4>1, SlotConstants DEF Slots
        <5>2. q.lens[h] = i /\ g[h].slots[i] = new
          BY <1>3, <4>3, <5>1
        <5>3. j = i
          BY <4>3, <5>1, <5>2
        <5>4. QED BY <4>1, <5>2, <5>3 DEF Valid
      <4>4. QED BY <4>2, <4>3
    <3>2. CASE n # 0
      <4>1. g[At(r, n)] = f[At(r, n)] /\ q.lens[At(r, n)] = r.lens[At(r, n)]
        BY <1>6, <1>7, <3>2
      <4>2. QED BY <1>5, <2>3, <4>1 DEF Filled
    <3>3. QED BY <3>1, <3>2
  <2>4. ~q.sealed => \A j \in Slots : j > q.lens[h] => g[h].slots[j] = Erased
    BY <1>10
  <2>5. \A n \in 0 .. r.used - 1 : \A j \in Slots : n # 0 \/ j # i => g[At(r, n)].slots[j] = f[At(r, n)].slots[j]
    BY <1>1, <1>6, <1>7
  <2>6. new \in Int /\ \A n \in 0 .. r.used - 1 : \A j \in Slots : f[At(r, n)].slots[j] < new /\ f[At(r, n)].slots[j] \in Int
    <3>1. new \in Int
      BY SlotConstants DEF Records
    <3>2. \A n \in 0 .. r.used - 1 : \A j \in Slots : f[At(r, n)].slots[j] <= v
      BY <1>5 DEF Filled, UpTo, At
    <3>3. \A n \in 0 .. r.used - 1 : \A j \in Slots : f[At(r, n)].slots[j] \in Int
      BY <1>1, <1>7, FlashType, SlotFacts
    <3>4. QED BY <3>1, <3>2, <3>3
  <2>7. Ascending(g, h, r.used)
    <3> SUFFICES ASSUME NEW n \in 0 .. r.used - 1, NEW m \in 0 .. r.used - 1, NEW a \in Slots, NEW b \in Slots,
                        n > m \/ (n = m /\ a < b),
                        Valid(g[At(r, n)].slots[a]), Valid(g[At(r, m)].slots[b])
                 PROVE  g[At(r, n)].slots[a] < g[At(r, m)].slots[b]
      BY DEF Ascending, At
    <3>1. n # 0 \/ a # i
      <4>1. SUFFICES ASSUME n = 0, a = i
                     PROVE  FALSE
        OBVIOUS
      <4>2. m = 0 /\ b > i
        BY <1>7, <4>1
      <4>3. g[At(r, m)].slots[b] = Erased
        BY <1>1, <1>10, <4>2
      <4>4. QED BY <4>3, SlotFacts
    <3>2. g[At(r, n)].slots[a] = f[At(r, n)].slots[a]
      BY <2>5, <3>1
    <3>3. CASE m # 0 \/ b # i
      <4>1. g[At(r, m)].slots[b] = f[At(r, m)].slots[b]
        BY <2>5, <3>3
      <4>2. Ascending(f, h, r.used)
        BY <1>5 DEF Filled
      <4>3. QED BY <3>2, <4>1, <4>2 DEF Ascending, At
    <3>4. CASE m = 0 /\ b = i
      <4>1. g[At(r, m)].slots[b] = new
        BY <1>1, <3>4, SlotFacts
      <4>2. QED BY <2>6, <3>2, <4>1
    <3>5. QED BY <3>3, <3>4
  <2>8. UpTo(g, h, r.used, new)
    <3> SUFFICES ASSUME NEW n \in 0 .. r.used - 1, NEW j \in Slots
                 PROVE  g[At(r, n)].slots[j] <= new
      BY DEF UpTo, At
    <3>1. CASE n # 0 \/ j # i
      BY <2>5, <2>6, <3>1
    <3>2. CASE n = 0 /\ j = i
      <4>1. g[At(r, n)].slots[j] \in {Erased, Torn, new}
        BY <1>1, <3>2
      <4>2. new > 0 /\ new \in Int
        BY SlotConstants DEF Records
      <4>3. QED BY <4>1, <4>2, SlotFacts
    <3>3. QED BY <3>1, <3>2
  <2> HIDE DEF h
  <2>9. QED BY <1>2, <2>1, <2>2, <2>3, <2>4, <2>7, <2>8 DEF Filled
<1>14. QED BY <1>4, <1>10, <1>11, <1>12, <1>13 DEF Holds

\* What a power loss would find.
LEMMA RunIs ==
  ASSUME NEW f \in Flash, NEW r \in Ring, NEW v \in Nat, NEW e \in Int, Holds(f, r, v, e),
         NEW last \in Nat, v <= last, e <= last
  PROVE  Run(f, RunHead(f, r), RunSize(f, r), last)
<1> DEFINE j == Alive(f, r)  h == HeadOf(r)  g == Following(r)  a == RunHead(f, r)  k == RunSize(f, r)
<1>1. /\ h \in Segments /\ g \in Segments /\ At(r, 0) = h
      /\ \A n \in 0 .. NSegments - 1 : At(r, n) \in Segments
      /\ r.used \in 0 .. NSegments /\ NSegments \in Nat /\ NSegments > 0
  BY AtIs
<1>2. /\ j \in 0 .. r.used
      /\ r.used > 0 => j > 0
      /\ \A n \in 0 .. j - 1 : Live(f, At(r, n)) /\ f[At(r, n)].header = r.epoch - n
      /\ Ahead(f, r) => /\ j < NSegments /\ f[g].header = r.epoch + 1 /\ r.epoch < e
                        /\ \A i \in Slots : f[g].slots[i] = Erased
  BY AliveIs
<1>3. a \in Segments /\ k \in 0 .. NSegments /\ OnFlash(f, a, k)
  BY RunOnFlash
<1>4. r.epoch \in Int /\ r.epoch <= e
  BY SlotConstants DEF Ring, Epochs, Holds, Headers
<1>5. Filled(f, r, v)
  BY DEF Holds
<1>6. \A n \in 0 .. j - 1 : n \in 0 .. r.used - 1 /\ n \in 0 .. NSegments - 1 /\ n \in Int
  BY <1>1, <1>2
<1>7. /\ \A n \in 0 .. j - 1 : ValidFirst(f[Before(h, n)].slots)
      /\ Ascending(f, h, j)
      /\ \A n \in 0 .. j - 1 : \A i \in Slots : f[Before(h, n)].slots[i] <= last
  <2>1. \A n \in 0 .. j - 1 : ValidFirst(f[At(r, n)].slots)
    BY <1>2, <1>5, <1>6 DEF Filled
  <2>2. Ascending(f, h, j)
    BY <1>5, <1>6 DEF Filled, Ascending
  <2>3. \A n \in 0 .. j - 1 : \A i \in Slots : f[At(r, n)].slots[i] <= v /\ f[At(r, n)].slots[i] \in Int
    <3>1. \A n \in 0 .. j - 1 : \A i \in Slots : f[At(r, n)].slots[i] <= v
      BY <1>5, <1>6 DEF Filled, UpTo, At
    <3>2. \A n \in 0 .. j - 1 : \A i \in Slots : f[At(r, n)].slots[i] \in Int
      BY <1>1, <1>6, FlashType, SlotFacts
    <3>3. QED BY <3>1, <3>2
  <2>4. \A n \in 0 .. j - 1 : \A i \in Slots : f[At(r, n)].slots[i] <= last
    BY <2>3
  <2> HIDE DEF j
  <2>5. QED BY <2>1, <2>2, <2>4 DEF At
<1>8. CASE ~Ahead(f, r)
  <2>1. a = h /\ k = j
    BY <1>8 DEF RunHead, RunSize
  <2>2. k > 0 => ErasedLast(f[a].slots) /\ f[a].header <= last
    <3>1. SUFFICES ASSUME j > 0
                   PROVE  ErasedLast(f[h].slots) /\ f[h].header <= last
      BY <2>1
    <3>2. r.used > 0 /\ 0 \in 0 .. j - 1
      BY <1>1, <1>2, <3>1
    <3>3. f[h].header = r.epoch - 0
      BY <1>1, <1>2, <3>2
    <3>4. ErasedLast(f[h].slots)
      BY <1>5, <3>2 DEF Filled
    <3>5. QED BY <1>4, <3>3, <3>4
  <2> HIDE DEF a, h, j, k
  <2>3. Run(f, a, k, last)
    BY <1>3, <1>7, <2>1, <2>2 DEF Run, UpTo
  <2>4. QED BY <2>3 DEF a, k
<1>9. CASE Ahead(f, r)
  <2>1. a = g /\ k = j + 1
    BY <1>9 DEF RunHead, RunSize
  <2>2. /\ f[g].header \in Int /\ f[g].header <= last /\ ErasedLast(f[g].slots)
        /\ ValidFirst(f[g].slots)
    BY <1>2, <1>4, <1>9, SlotFacts DEF ErasedLast, ValidFirst
  <2>3. \A i \in Slots : f[g].slots[i] = Erased
    BY <1>2, <1>9
  <2>4. /\ Before(g, 0) = g
        /\ \A n \in 0 .. NSegments - 1 : Before(g, n + 1) = Before(h, n)
    BY <1>1, BeforeAfter DEF Following
  <2>5. j \in Int /\ j < NSegments
    BY <1>1, <1>2, <1>9
  <2> HIDE DEF g, h, j
  <2>6. \A n \in 0 .. j : n # 0 => /\ n - 1 \in 0 .. j - 1 /\ n \in Int
                                   /\ Before(g, n) = Before(h, n - 1)
    <3> TAKE n \in 0 .. j
    <3>1. n # 0 => n - 1 \in 0 .. j - 1 /\ n - 1 \in 0 .. NSegments - 1 /\ n - 1 + 1 = n /\ n \in Int
      BY <1>1, <2>5
    <3>2. QED BY <2>4, <3>1
  <2>7. \A n \in 0 .. j : ValidFirst(f[Before(g, n)].slots)
    BY <1>7, <2>2, <2>4, <2>6
  <2>8. \A n \in 0 .. j : \A i \in Slots : f[Before(g, n)].slots[i] <= last
    BY <1>7, <2>3, <2>4, <2>6, SlotFacts
  <2>9. \A n, m \in 0 .. j : \A i, b \in Slots :
          /\ n > m \/ (n = m /\ i < b)
          /\ Valid(f[Before(g, n)].slots[i]) /\ Valid(f[Before(g, m)].slots[b])
          => f[Before(g, n)].slots[i] < f[Before(g, m)].slots[b]
    <3> SUFFICES ASSUME NEW n \in 0 .. j, NEW m \in 0 .. j, NEW i \in Slots, NEW b \in Slots,
                        n > m \/ (n = m /\ i < b),
                        Valid(f[Before(g, n)].slots[i]), Valid(f[Before(g, m)].slots[b])
                 PROVE  f[Before(g, n)].slots[i] < f[Before(g, m)].slots[b]
      OBVIOUS
    <3>1. n # 0 /\ m # 0
      BY <2>3, <2>4, SlotFacts
    <3>2. /\ n - 1 \in 0 .. j - 1 /\ n \in Int /\ Before(g, n) = Before(h, n - 1)
          /\ m - 1 \in 0 .. j - 1 /\ m \in Int /\ Before(g, m) = Before(h, m - 1)
      BY <2>6, <3>1
    <3>3. n - 1 > m - 1 \/ (n - 1 = m - 1 /\ i < b)
      BY <3>2
    <3>4. QED BY <1>7, <3>2, <3>3 DEF Ascending
  <2> HIDE DEF a, k
  <2>10. k - 1 = j
    BY <2>1, <2>5
  <2>11. Run(f, a, k, last)
    <3>1. Ascending(f, a, k)
      BY <2>1, <2>9, <2>10, Zenon DEF Ascending
    <3>2. UpTo(f, a, k, last)
      BY <2>1, <2>8, <2>10, Zenon DEF UpTo
    <3>3. \A n \in 0 .. k - 1 : ValidFirst(f[Before(a, n)].slots)
      BY <2>1, <2>7, <2>10, Zenon
    <3>4. k > 0 => ErasedLast(f[a].slots) /\ f[a].header <= last
      BY <2>1, <2>2
    <3>5. QED BY <1>3, <3>1, <3>2, <3>3, <3>4 DEF Run
  <2>12. QED BY <2>11 DEF a, k
<1>10. QED BY <1>8, <1>9

\* ... so that it would find a run.
LEMMA RunHolds ==
  ASSUME NEW f \in Flash, NEW r \in Ring, NEW v \in Nat, NEW e \in Int, Holds(f, r, v, e),
         NEW last \in Nat, v <= last, e <= last
  PROVE  FlashInv(f, last)
BY RunIs, RunOnFlash DEF FlashInv

-----------------------------------------------------------------------------
(* What a step takes from the log that would survive. *)

FrontLoss(a, b, m) == \E x \in Seq(SlotValues) : a = Cat(x, b) /\ Len(x) <= m

\* Nothing is lost.
LEMMA LossNone ==
  ASSUME NEW a \in Seq(SlotValues), NEW m \in Nat
  PROVE  FrontLoss(a, a, m)
<1>1. Nil \in Seq(SlotValues) /\ a = Cat(Nil, a)
  BY CatIs, NilType
<1>2. Len(Nil) <= m
  BY DEF Nil
<1>3. QED BY <1>1, <1>2 DEF FrontLoss

\* Two losses are one.
LEMMA LossThen ==
  ASSUME NEW a, NEW b, NEW c \in Seq(SlotValues), NEW m \in Int, NEW n \in Int, NEW l \in Int,
         FrontLoss(a, b, m), FrontLoss(b, c, n), m + n <= l
  PROVE  FrontLoss(a, c, l)
<1>1. PICK x \in Seq(SlotValues) : a = Cat(x, b) /\ Len(x) <= m
  BY DEF FrontLoss
<1>2. PICK y \in Seq(SlotValues) : b = Cat(y, c) /\ Len(y) <= n
  BY DEF FrontLoss
<1>3. a = Cat(Cat(x, y), c)
  BY <1>1, <1>2, CatAssociative
<1>4. Cat(x, y) \in Seq(SlotValues)
  BY CatIs
<1>5. Len(Cat(x, y)) = Len(x) + Len(y) /\ Len(x) \in Nat /\ Len(y) \in Nat
  BY CatEntries
<1>6. Len(Cat(x, y)) <= l
  BY <1>1, <1>2, <1>5
<1>7. QED BY <1>3, <1>4, <1>6 DEF FrontLoss

\* The loss of the oldest segment.
LEMMA StrungLoss ==
  ASSUME NEW f \in Flash, NEW h \in Segments, NEW k \in 0 .. NSegments - 1, NEW lens \in LensType
  PROVE  FrontLoss(Strung(f, h, k + 1, lens), Strung(f, h, k, lens), lens[Before(h, k)])
<1>1. k \in 0 .. NSegments
  BY SlotConstants
<1>2. Before(h, k) \in Segments
  BY <1>1, BeforeIs
<1>3. Piece(f, Before(h, k), lens) \in Seq(SlotValues) /\ Len(Piece(f, Before(h, k), lens)) = lens[Before(h, k)]
  BY <1>2, PieceIs
<1>4. Strung(f, h, k + 1, lens) = Cat(Piece(f, Before(h, k), lens), Strung(f, h, k, lens))
  BY StrungOldest
<1>5. lens[Before(h, k)] \in Int
  BY <1>2, SlotConstants DEF LensType
<1>6. QED BY <1>3, <1>4, <1>5 DEF FrontLoss

\* The loss of two segments, the newer of them partial.
LEMMA StrungLess ==
  ASSUME NEW f \in Flash, NEW g \in Flash, NEW h \in Segments, NEW lens \in LensType, NEW lengths \in LensType,
         NEW k \in 0 .. NSegments, NEW m \in 0 .. NSegments, m <= k, k <= m + 2,
         \A n \in 0 .. m - 1 : Piece(g, Before(h, n), lengths) = Piece(f, Before(h, n), lens),
         k = m + 2 => lens[Before(h, m)] < PerSegment
  PROVE  FrontLoss(Strung(f, h, k, lens), Strung(g, h, m, lengths), 2 * PerSegment - 1)
<1>1. m \in Nat /\ k \in Nat /\ NSegments \in Nat /\ PerSegment \in Nat /\ PerSegment > 0
  BY SlotConstants
<1>2. Strung(g, h, m, lengths) = Strung(f, h, m, lens)
  BY <1>1, StrungSame
<1>3. Strung(f, h, m, lens) \in Seq(SlotValues)
  BY StrungType
<1>4. CASE k = m
  BY <1>1, <1>2, <1>3, <1>4, LossNone
<1>5. CASE k = m + 1
  <2>1. m \in 0 .. NSegments - 1
    BY <1>1, <1>5
  <2>2. FrontLoss(Strung(f, h, m + 1, lens), Strung(f, h, m, lens), lens[Before(h, m)])
    BY <2>1, StrungLoss
  <2>3. Before(h, m) \in Segments
    BY BeforeIs
  <2>4. lens[Before(h, m)] \in Nat /\ lens[Before(h, m)] <= PerSegment
    BY <1>1, <2>3 DEF LensType
  <2>5. FrontLoss(Strung(f, h, m, lens), Strung(f, h, m, lens), 0)
    BY <1>3, LossNone
  <2>6. lens[Before(h, m)] + 0 <= 2 * PerSegment - 1 /\ 2 * PerSegment - 1 \in Int
    BY <1>1, <2>4
  <2>7. QED BY <1>2, <1>3, <1>5, <2>2, <2>4, <2>5, <2>6, LossThen
<1>6. CASE k = m + 2
  <2>1. m \in 0 .. NSegments - 1 /\ m + 1 \in 0 .. NSegments - 1 /\ m + 1 + 1 = m + 2 /\ m + 1 \in 0 .. NSegments
    BY <1>1, <1>6
  <2>2. FrontLoss(Strung(f, h, m + 1, lens), Strung(f, h, m, lens), lens[Before(h, m)])
    BY <2>1, StrungLoss
  <2>3. FrontLoss(Strung(f, h, m + 1 + 1, lens), Strung(f, h, m + 1, lens), lens[Before(h, m + 1)])
    <3>1. PICK n : n = m + 1
      OBVIOUS
    <3>2. QED BY <2>1, <3>1, StrungLoss
  <2>4. Before(h, m) \in Segments /\ Before(h, m + 1) \in Segments
    BY <2>1, BeforeIs
  <2>5. /\ lens[Before(h, m)] \in Nat /\ lens[Before(h, m)] < PerSegment
        /\ lens[Before(h, m + 1)] \in Nat /\ lens[Before(h, m + 1)] <= PerSegment
    BY <1>1, <1>6, <2>4 DEF LensType
  <2>6. lens[Before(h, m + 1)] + lens[Before(h, m)] <= 2 * PerSegment - 1 /\ 2 * PerSegment - 1 \in Int
    BY <1>1, <2>5
  <2>7. QED BY <1>2, <1>3, <1>6, <2>1, <2>2, <2>3, <2>5, <2>6, LossThen
<1>7. QED BY <1>1, <1>4, <1>5, <1>6

\* A segment that did not change keeps its records.
LEMMA PieceKept ==
  ASSUME NEW f \in Flash, NEW g \in Flash, NEW s \in Segments, g[s].slots = f[s].slots
  PROVE  Lengths(g)[s] = Lengths(f)[s] /\ Piece(g, s, Lengths(g)) = Piece(f, s, Lengths(f))
BY DEF Lengths, Piece

\* An erase of the oldest segment takes it, and the one after it if that is partial.
LEMMA TailErased ==
  ASSUME NEW f \in Flash, NEW r \in Ring, NEW v \in Nat, NEW e, Holds(f, r, v, e), r.used > 1,
         NEW g \in Flash, \A s \in Segments : s # r.tail => g[s] = f[s],
         Worn(f[r.tail], g[r.tail])
  PROVE  FrontLoss(Surviving(f), Surviving(g), 2 * PerSegment - 1)
<1> DEFINE h == HeadOf(r)  u == r.used  k == Keeps(f, r)  m == Keeps(g, r)  L == Lengths(f)  M == Lengths(g)
<1>1. /\ h \in Segments /\ Following(r) \in Segments
      /\ \A n \in 0 .. NSegments - 1 : At(r, n) \in Segments
      /\ \A n, a \in 0 .. NSegments - 1 : At(r, n) = At(r, a) => n = a
      /\ At(r, NSegments - 1) = Following(r)
      /\ r.tail = At(r, u - 1)
      /\ u \in 0 .. NSegments /\ NSegments \in Nat /\ NSegments > 0
  BY AtIs
<1>2. Holds(g, r, v, e)
  BY TailWorn
<1>3. Surviving(f) = Strung(f, h, k, L) /\ k \in 0 .. u /\ L \in LensType
  <2>1. Alive(f, r) \in 0 .. r.used
    BY AliveIs
  <2>2. QED BY <1>1, <2>1, KeepsIs
<1>4. Surviving(g) = Strung(g, h, m, M) /\ m \in 0 .. u /\ M \in LensType
  <2>1. Alive(g, r) \in 0 .. r.used
    BY <1>2, AliveIs
  <2>2. QED BY <1>1, <1>2, <2>1, KeepsIs
<1>5. \A n \in 0 .. u - 2 : g[At(r, n)] = f[At(r, n)] /\ At(r, n) \in Segments
  <2> TAKE n \in 0 .. u - 2
  <2>1. n \in 0 .. NSegments - 1 /\ u - 1 \in 0 .. NSegments - 1 /\ n # u - 1
    BY <1>1
  <2>2. QED BY <1>1, <2>1
<1>6. \A n \in 0 .. u - 2 : M[At(r, n)] = L[At(r, n)] /\ Piece(g, Before(h, n), M) = Piece(f, Before(h, n), L)
  BY <1>5, PieceKept DEF At
<1>7. Ahead(g, r) <=> Ahead(f, r)
  <2>1. u < NSegments => Following(r) # r.tail
    <3>1. u < NSegments => NSegments - 1 \in 0 .. NSegments - 1 /\ u - 1 \in 0 .. NSegments - 1 /\ NSegments - 1 # u - 1
      BY <1>1
    <3>2. QED BY <1>1, <3>1
  <2>2. u < NSegments => g[Following(r)] = f[Following(r)]
    BY <1>1, <2>1
  <2>3. QED BY <2>2 DEF Ahead, Live
<1>8. u - 2 \in 0 .. u - 2 /\ u - 1 \in 0 .. NSegments - 1 /\ u \in Int /\ u > 1 /\ r.tail \in Segments
  BY <1>1
<1>9. L[r.tail] \in Nat /\ L[r.tail] <= PerSegment /\ M[r.tail] \in Nat /\ M[r.tail] <= PerSegment /\ PerSegment \in Nat
  BY <1>3, <1>4, <1>8, SlotConstants DEF LensType
<1>10. L[r.tail] < PerSegment => M[r.tail] < PerSegment \/ ~Live(g, r.tail)
  <2>1. SUFFICES ASSUME M[r.tail] = PerSegment, Live(g, r.tail), L[r.tail] < PerSegment
                 PROVE  FALSE
    BY <1>9
  <2>2. ValidFirst(g[r.tail].slots)
    <3>1. u - 1 \in 0 .. r.used - 1
      BY <1>8
    <3>2. QED BY <1>1, <1>2, <2>1, <3>1 DEF Holds, Filled
  <2>3. \A i \in Slots : Valid(g[r.tail].slots[i])
    <3>1. \A i \in Slots : i <= PerSegment
      BY <1>9 DEF Slots
    <3>2. M[r.tail] = ValidLength(g[r.tail].slots)
      BY <1>8 DEF Lengths
    <3>3. QED BY <2>1, <2>2, <3>1, <3>2, ValidLengthTells
  <2>4. \A i \in Slots : Valid(f[r.tail].slots[i])
    BY <2>3, SlotFacts DEF Worn
  <2>5. L[r.tail] = ValidLength(f[r.tail].slots)
    BY <1>8 DEF Lengths
  <2>6. L[r.tail] + 1 \in Slots /\ ~Valid(f[r.tail].slots[L[r.tail] + 1])
    BY <1>9, <2>1, <2>5, ValidLengthIs DEF Slots
  <2>7. QED BY <2>4, <2>6
<1>11. M[r.tail] = PerSegment /\ Live(g, r.tail) => Piece(g, r.tail, M) = Piece(f, r.tail, L)
  <2>1. SUFFICES ASSUME M[r.tail] = PerSegment, Live(g, r.tail)
                 PROVE  Piece(g, r.tail, M) = Piece(f, r.tail, L)
    OBVIOUS
  <2>2. ValidFirst(g[r.tail].slots)
    <3>1. u - 1 \in 0 .. r.used - 1
      BY <1>8
    <3>2. QED BY <1>1, <1>2, <2>1, <3>1 DEF Holds, Filled
  <2>3. \A i \in Slots : Valid(g[r.tail].slots[i])
    <3>1. \A i \in Slots : i <= PerSegment
      BY <1>9 DEF Slots
    <3>2. M[r.tail] = ValidLength(g[r.tail].slots)
      BY <1>8 DEF Lengths
    <3>3. QED BY <2>1, <2>2, <3>1, <3>2, ValidLengthTells
  <2>4. \A i \in Slots : g[r.tail].slots[i] = f[r.tail].slots[i]
    BY <2>3, SlotFacts DEF Worn
  <2>5. L[r.tail] = PerSegment
    BY <1>9, <1>10, <2>1
  <2>6. \A i \in 1 .. L[r.tail] : g[r.tail].slots[i] = f[r.tail].slots[i]
    BY <2>4, <2>5 DEF Slots
  <2> HIDE DEF L, M
  <2>7. QED BY <1>3, <1>4, <1>8, <2>1, <2>5, <2>6, PieceSame
<1>12. Live(g, r.tail) => Live(f, r.tail)
  BY LiveFacts DEF Worn, Live
\* How many segments are kept, before and after.
<1>13. k = IF ~Live(f, r.tail)
           THEN IF (u > 2 \/ Ahead(f, r)) /\ L[At(r, u - 2)] < PerSegment THEN u - 2 ELSE u - 1
           ELSE IF L[r.tail] < PerSegment THEN u - 1 ELSE u
  <2>1. CASE ~Live(f, r.tail)
    <3>1. Alive(f, r) = u - 1
      BY <2>1 DEF Alive, Gone
    <3>2. u - 1 - 1 = u - 2 /\ (u - 1 > 1 <=> u > 2) /\ u - 1 > 0
      BY <1>8
    <3>3. QED BY <2>1, <3>1, <3>2 DEF Keeps, Cut
  <2>2. CASE Live(f, r.tail)
    <3>1. Alive(f, r) = u
      BY <2>2 DEF Alive, Gone
    <3>2. QED BY <1>1, <2>2, <3>1 DEF Keeps, Cut
  <2>3. QED BY <2>1, <2>2
<1>14. m = IF ~Live(g, r.tail)
           THEN IF (u > 2 \/ Ahead(g, r)) /\ M[At(r, u - 2)] < PerSegment THEN u - 2 ELSE u - 1
           ELSE IF M[r.tail] < PerSegment THEN u - 1 ELSE u
  <2>1. CASE ~Live(g, r.tail)
    <3>1. Alive(g, r) = u - 1
      BY <2>1 DEF Alive, Gone
    <3>2. u - 1 - 1 = u - 2 /\ (u - 1 > 1 <=> u > 2) /\ u - 1 > 0
      BY <1>8
    <3>3. QED BY <2>1, <3>1, <3>2 DEF Keeps, Cut
  <2>2. CASE Live(g, r.tail)
    <3>1. Alive(g, r) = u
      BY <2>2 DEF Alive, Gone
    <3>2. QED BY <1>1, <2>2, <3>1 DEF Keeps, Cut
  <2>3. QED BY <2>1, <2>2
<1> HIDE DEF h, k, m, L, M, u
<1>15. M[At(r, u - 2)] = L[At(r, u - 2)]
  BY <1>6, <1>8
<1>16. m <= k /\ k <= m + 2 /\ (k = m + 2 => L[Before(h, m)] < PerSegment)
  <2>1. m \in Int /\ k \in Int
    BY <1>3, <1>4
  <2>2. m <= k /\ k <= m + 2 /\ (k = m + 2 => m = u - 2 /\ L[At(r, u - 2)] < PerSegment)
    BY <1>7, <1>8, <1>10, <1>12, <1>13, <1>14, <1>15, <2>1
  <2>3. QED BY <2>2 DEF At, h
<1>17. \A n \in 0 .. m - 1 : Piece(g, Before(h, n), M) = Piece(f, Before(h, n), L)
  <2> TAKE n \in 0 .. m - 1
  <2>1. CASE n \in 0 .. u - 2
    BY <1>6, <2>1
  <2>2. CASE n \notin 0 .. u - 2
    <3>1. m = u /\ n = u - 1
      BY <1>4, <1>8, <2>2
    <3>2. M[r.tail] = PerSegment /\ Live(g, r.tail)
      BY <1>8, <1>9, <1>14, <3>1
    <3>3. Before(h, n) = r.tail
      BY <1>1, <3>1 DEF At, h
    <3>4. QED BY <1>11, <3>2, <3>3
  <2>3. QED BY <2>1, <2>2
<1>18. k \in 0 .. NSegments /\ m \in 0 .. NSegments
  BY <1>1, <1>3, <1>4
<1>19. FrontLoss(Strung(f, h, k, L), Strung(g, h, m, M), 2 * PerSegment - 1)
  BY <1>1, <1>3, <1>4, <1>16, <1>17, <1>18, StrungLess
<1>20. QED BY <1>3, <1>4, <1>19

\* Where nothing is live beyond the ring, its head keeps it from losing an only segment.
LEMMA NextChangedLog ==
  ASSUME NEW f \in Flash, NEW r \in Ring, NEW v, NEW e, Holds(f, r, v, e), r.used < NSegments,
         NEW g \in Flash, NEW w, NEW d, Holds(g, r, w, d), \A s \in Segments : s # Following(r) => g[s] = f[s],
         Ahead(f, r) => Ahead(g, r)
  PROVE  /\ FrontLoss(Surviving(f), Surviving(g), 2 * PerSegment - 1)
         /\ (Ahead(g, r) => Ahead(f, r)) \/ Lengths(f)[HeadOf(r)] = PerSegment => Surviving(g) = Surviving(f)
<1> DEFINE h == HeadOf(r)  u == r.used  k == Keeps(f, r)  m == Keeps(g, r)  L == Lengths(f)  M == Lengths(g)
           j == Alive(f, r)
<1>1. /\ h \in Segments
      /\ \A n \in 0 .. NSegments - 1 : At(r, n) \in Segments
      /\ \A n, a \in 0 .. NSegments - 1 : At(r, n) = At(r, a) => n = a
      /\ At(r, 0) = h /\ At(r, NSegments - 1) = Following(r)
      /\ u > 0 => r.tail = At(r, u - 1)
      /\ u \in 0 .. NSegments /\ NSegments \in Nat /\ NSegments > 0
  BY AtIs
<1>2. j \in 0 .. u
  BY AliveIs
<1>3. Surviving(f) = Strung(f, h, k, L) /\ k \in 0 .. j /\ L \in LensType
  BY KeepsIs
<1>4. \A n \in 0 .. u - 1 : g[At(r, n)] = f[At(r, n)] /\ At(r, n) \in Segments
  <2> TAKE n \in 0 .. u - 1
  <2>1. n \in 0 .. NSegments - 1 /\ NSegments - 1 \in 0 .. NSegments - 1 /\ n # NSegments - 1
    BY <1>1
  <2>2. QED BY <1>1, <2>1
<1>5. \A n \in 0 .. u - 1 : M[At(r, n)] = L[At(r, n)] /\ Piece(g, Before(h, n), M) = Piece(f, Before(h, n), L)
  BY <1>4, PieceKept DEF At
<1>6. Alive(g, r) = j
  <2>1. u > 1 => g[r.tail] = f[r.tail]
    <3>1. u > 1 => u - 1 \in 0 .. u - 1 /\ u > 0
      BY <1>1
    <3>2. QED BY <1>1, <1>4, <3>1
  <2>2. Gone(g, r) <=> Gone(f, r)
    BY <2>1 DEF Gone, Live
  <2>3. QED BY <2>2 DEF Alive
<1>7. Surviving(g) = Strung(g, h, m, M) /\ m \in 0 .. j /\ M \in LensType
  BY <1>6, KeepsIs
<1>8. k = IF (j > 1 \/ (Ahead(f, r) /\ j > 0)) /\ L[At(r, j - 1)] < PerSegment THEN j - 1 ELSE j
  BY DEF Keeps, Cut
<1>9. m = IF (j > 1 \/ (Ahead(g, r) /\ j > 0)) /\ M[At(r, j - 1)] < PerSegment THEN j - 1 ELSE j
  BY <1>6 DEF Keeps, Cut
<1>10. j > 0 => M[At(r, j - 1)] = L[At(r, j - 1)]
  <2>1. j > 0 => j - 1 \in 0 .. u - 1
    BY <1>1, <1>2
  <2>2. QED BY <1>5, <2>1
<1>11. L[h] \in Nat /\ PerSegment \in Nat
  BY <1>1, <1>3, SlotConstants DEF LensType
<1> HIDE DEF h, u, k, m, L, M, j
<1>12. \A n \in 0 .. j - 1 : Piece(g, Before(h, n), M) = Piece(f, Before(h, n), L)
  <2>1. \A n \in 0 .. j - 1 : n \in 0 .. u - 1
    BY <1>1, <1>2
  <2>2. QED BY <1>5, <2>1
<1>13. \A n \in 0 .. m - 1 : Piece(g, Before(h, n), M) = Piece(f, Before(h, n), L)
  <2>1. \A n \in 0 .. m - 1 : n \in 0 .. j - 1
    BY <1>1, <1>2, <1>7
  <2>2. QED BY <1>12, <2>1
<1>14. j \in Nat /\ k \in 0 .. NSegments /\ m \in 0 .. NSegments /\ k \in Nat /\ m \in Nat
  BY <1>1, <1>2, <1>3, <1>7
<1>15. m <= k /\ k <= m + 1
  BY <1>8, <1>9, <1>10, <1>14
<1>16. FrontLoss(Strung(f, h, k, L), Strung(g, h, m, M), 2 * PerSegment - 1)
  <2>1. k <= m + 2 /\ k # m + 2
    BY <1>14, <1>15
  <2>2. QED BY <1>1, <1>3, <1>7, <1>13, <1>14, <1>15, <2>1, StrungLess
<1>17. ASSUME (Ahead(g, r) => Ahead(f, r)) \/ L[h] = PerSegment
       PROVE  Strung(g, h, m, M) = Strung(f, h, k, L)
  <2>1. m = k
    <3>1. CASE Ahead(g, r) => Ahead(f, r)
      BY <1>8, <1>9, <1>10, <1>14, <3>1
    <3>2. CASE L[h] = PerSegment
      <4>1. j = 1 => ~(L[At(r, j - 1)] < PerSegment)
        BY <1>1, <1>11, <3>2
      <4>2. QED BY <1>8, <1>9, <1>10, <1>14, <4>1
    <3>3. QED BY <1>17, <3>1, <3>2
  <2>2. QED BY <1>13, <1>14, <2>1, StrungSame
<1>18. QED BY <1>3, <1>7, <1>16, <1>17 DEF L, h

\* One more record at the end of a log.
LEMMA CatAppend ==
  ASSUME NEW S, NEW s \in Seq(S), NEW t \in Seq(S), NEW z \in S
  PROVE  Cat(s, Append(t, z)) = Append(Cat(s, t), z)
<1> DEFINE a == Cat(s, Append(t, z))  b == Append(Cat(s, t), z)
<1>1. Append(t, z) \in Seq(S) /\ Len(Append(t, z)) = Len(t) + 1 /\ Len(t) \in Nat
  OBVIOUS
<1>2. \A i \in 1 .. Len(t) : Append(t, z)[i] = t[i]
  OBVIOUS
<1>3. Append(t, z)[Len(t) + 1] = z
  OBVIOUS
<1>4. Cat(s, t) \in Seq(S) /\ a \in Seq(S)
  BY <1>1, CatIs
<1>5. /\ Len(Cat(s, t)) = Len(s) + Len(t) /\ Len(s) \in Nat
      /\ \A i \in 1 .. Len(s) : Cat(s, t)[i] = s[i]
      /\ \A i \in 1 .. Len(t) : Cat(s, t)[Len(s) + i] = t[i]
  BY CatEntries
<1>6. PICK u : u = Append(t, z)
  OBVIOUS
<1>7. u \in Seq(S) /\ Len(u) = Len(t) + 1
  BY <1>1, <1>6
<1>8. /\ Len(a) = Len(s) + Len(u)
      /\ \A i \in 1 .. Len(s) : a[i] = s[i]
      /\ \A i \in 1 .. Len(u) : a[Len(s) + i] = u[i]
  <2>1. a = Cat(s, u) /\ u \in Seq(S)
    BY <1>6, <1>7
  <2> HIDE DEF a
  <2>2. /\ Len(Cat(s, u)) = Len(s) + Len(u)
        /\ \A i \in 1 .. Len(s) : Cat(s, u)[i] = s[i]
        /\ \A i \in 1 .. Len(u) : Cat(s, u)[Len(s) + i] = u[i]
    <3>1. ASSUME NEW x \in Seq(S)
          PROVE  /\ Len(Cat(s, x)) = Len(s) + Len(x)
                 /\ \A i \in 1 .. Len(s) : Cat(s, x)[i] = s[i]
                 /\ \A i \in 1 .. Len(x) : Cat(s, x)[Len(s) + i] = x[i]
      BY CatEntries
    <3>2. QED BY <2>1, <3>1, Zenon
  <2>3. QED BY <2>1, <2>2, Zenon
<1>9. PICK c : c = Cat(s, t)
  OBVIOUS
<1>10. c \in Seq(S) /\ b = Append(c, z) /\ Len(c) = Len(s) + Len(t)
  BY <1>4, <1>5, <1>9
<1> HIDE DEF a, b
<1>11. /\ b \in Seq(S) /\ Len(b) = Len(c) + 1 /\ b[Len(c) + 1] = z
       /\ \A i \in 1 .. Len(c) : b[i] = c[i]
  BY <1>10
<1>12. Len(a) = Len(b)
  BY <1>1, <1>5, <1>7, <1>8, <1>10, <1>11
<1>13. \A i \in 1 .. Len(a) : a[i] = b[i]
  <2> TAKE i \in 1 .. Len(a)
  <2>1. CASE i <= Len(s)
    <3>1. i \in 1 .. Len(s) /\ i \in 1 .. Len(c)
      BY <1>1, <1>5, <1>10, <2>1
    <3>2. QED BY <1>5, <1>8, <1>9, <1>11, <3>1
  <2>2. CASE i > Len(s)
    <3>1. PICK n : n = i - Len(s)
      OBVIOUS
    <3>2. n \in 1 .. Len(t) + 1 /\ Len(s) + n = i /\ n \in Int
      BY <1>1, <1>5, <1>7, <1>8, <2>2, <3>1
    <3>3. a[i] = u[n]
      BY <1>7, <1>8, <3>2
    <3>4. CASE n \in 1 .. Len(t)
      <4>1. u[n] = t[n]
        BY <1>2, <1>6, <3>4
      <4>2. c[i] = t[n] /\ i \in 1 .. Len(c)
        BY <1>1, <1>5, <1>9, <1>10, <3>2, <3>4
      <4>3. QED BY <1>11, <3>3, <4>1, <4>2
    <3>5. CASE n = Len(t) + 1
      <4>1. u[n] = z
        BY <1>3, <1>6, <3>5
      <4>2. i = Len(c) + 1
        BY <1>1, <1>5, <1>10, <3>2, <3>5
      <4>3. QED BY <1>11, <3>3, <4>1, <4>2
    <3>6. QED BY <1>1, <3>2, <3>4, <3>5
  <2>3. QED BY <1>1, <1>5, <1>7, <1>8, <2>1, <2>2
<1>14. a = b
  BY <1>4, <1>11, <1>12, <1>13 DEF a
<1>15. QED BY <1>14 DEF a, b

\* A record that lands joins the log; a write that leaves anything else does not.
LEMMA SlotWrittenLog ==
  ASSUME NEW f \in Flash, NEW r \in Ring, NEW v \in Nat, NEW e, Holds(f, r, v, e), HeadOpen(r),
         NEW i \in Int, i = r.lens[HeadOf(r)] + 1, NEW new \in Records, v < new,
         NEW g \in Flash, \A s \in Segments : s # HeadOf(r) => g[s] = f[s],
         g[HeadOf(r)].header = f[HeadOf(r)].header,
         \A j \in Slots : j # i => g[HeadOf(r)].slots[j] = f[HeadOf(r)].slots[j],
         g[HeadOf(r)].slots[i] \in {Erased, Torn, new},
         NEW q \in Ring, q.tail = r.tail, q.used = r.used, q.epoch = r.epoch, q.clean = r.clean,
         \A s \in Segments : s # HeadOf(r) => q.lens[s] = r.lens[s],
         \/ q.sealed /\ q.lens[HeadOf(r)] = r.lens[HeadOf(r)]
         \/ q.lens[HeadOf(r)] = i /\ g[HeadOf(r)].slots[i] = new
  PROVE  /\ g[HeadOf(r)].slots[i] = new => Surviving(g) = Append(Surviving(f), new)
         /\ g[HeadOf(r)].slots[i] # new => Surviving(g) = Surviving(f)
<1> DEFINE h == HeadOf(r)  u == r.used  k == Keeps(f, r)  L == Lengths(f)  M == Lengths(g)
           j == Alive(f, r)  b == Before(h, 1)
<1>1. /\ h \in Segments
      /\ \A n \in 0 .. NSegments - 1 : At(r, n) \in Segments
      /\ \A n, a \in 0 .. NSegments - 1 : At(r, n) = At(r, a) => n = a
      /\ At(r, 0) = h /\ At(r, NSegments - 1) = Following(r)
      /\ u > 0 => r.tail = At(r, u - 1)
      /\ u \in 0 .. NSegments /\ NSegments \in Nat /\ NSegments > 0
  BY AtIs
<1>2. HeadOf(q) = h /\ Following(q) = Following(r) /\ \A n : At(q, n) = At(r, n)
  BY DEF HeadOf, At, Following
<1>3. Holds(g, q, new, e) /\ i \in Slots /\ f[h].slots[i] = Erased
  BY SlotWritten
<1>4. u > 0
  BY DEF HeadOpen
<1>5. j \in 0 .. u /\ j > 0 /\ ~Ahead(f, r) /\ Live(f, h)
  <2>1. j \in 0 .. u /\ j > 0 /\ ~Ahead(f, r)
    BY <1>4, AliveIs
  <2>2. 0 \in 0 .. j - 1
    BY <1>1, <2>1
  <2>3. QED BY <1>1, <2>1, <2>2, AliveIs
<1>6. \A n \in 0 .. NSegments - 1 : n # 0 => g[At(r, n)] = f[At(r, n)] /\ At(r, n) \in Segments
  <2> TAKE n \in 0 .. NSegments - 1
  <2>1. 0 \in 0 .. NSegments - 1
    BY <1>1
  <2>2. QED BY <1>1, <2>1
<1>7. \A n \in 0 .. NSegments - 1 : n # 0 =>
        M[At(r, n)] = L[At(r, n)] /\ Piece(g, At(r, n), M) = Piece(f, At(r, n), L)
  BY <1>6, PieceKept
<1>8. ~Ahead(g, q)
  <2>1. SUFFICES ASSUME u < NSegments, Live(g, Following(r))
                 PROVE  FALSE
    BY <1>2 DEF Ahead
  <2>2. NSegments - 1 \in 0 .. NSegments - 1 /\ NSegments - 1 # 0
    BY <1>1, <1>4, <2>1
  <2>3. g[Following(r)] = f[Following(r)]
    BY <1>1, <1>6, <2>2
  <2>4. QED BY <1>5, <2>1, <2>3 DEF Ahead, Live
<1>9. Alive(g, q) = j
  <2>1. u > 1 => g[r.tail] = f[r.tail]
    <3>1. u > 1 => u - 1 \in 0 .. NSegments - 1 /\ u - 1 # 0
      BY <1>1
    <3>2. QED BY <1>1, <1>4, <1>6, <3>1
  <2>2. Gone(g, q) <=> Gone(f, r)
    BY <2>1 DEF Gone, Live
  <2>3. QED BY <2>2 DEF Alive
<1>10. k = IF j > 1 /\ L[At(r, j - 1)] < PerSegment THEN j - 1 ELSE j
  BY <1>5 DEF Keeps, Cut
<1>11. Keeps(g, q) = IF j > 1 /\ M[At(r, j - 1)] < PerSegment THEN j - 1 ELSE j
  BY <1>2, <1>8, <1>9 DEF Keeps, Cut
<1>12. Keeps(g, q) = k
  <2>1. j > 1 => j - 1 \in 0 .. NSegments - 1 /\ j - 1 # 0
    BY <1>1, <1>5
  <2>2. j > 1 => M[At(r, j - 1)] = L[At(r, j - 1)]
    BY <1>7, <2>1
  <2> HIDE DEF j, k, L, M
  <2>3. QED BY <1>10, <1>11, <2>2, Zenon
<1>13. /\ Surviving(f) = Strung(f, h, k, L) /\ L \in LensType
       /\ Surviving(g) = Strung(g, h, k, M) /\ M \in LensType
  BY <1>2, <1>3, <1>12, KeepsIs
<1>14. ValidFirst(f[h].slots) /\ ValidFirst(g[h].slots) /\ (\A n \in Slots : n < i => Valid(f[h].slots[n]))
       /\ (\A n \in Slots : n > i => g[h].slots[n] = Erased)
  <2>1. Filled(f, r, v) /\ Filled(g, q, new) /\ 0 \in 0 .. u - 1 /\ Live(g, h)
    BY <1>1, <1>3, <1>4, <1>5 DEF Holds, Live
  <2>2. ValidFirst(f[h].slots) /\ ValidFirst(g[h].slots)
    BY <1>1, <1>2, <1>5, <2>1 DEF Filled
  <2>3. r.lens[h] \in Int /\ ~r.sealed
    BY <1>1, SlotConstants DEF Ring, HeadOpen
  <2>4. \A n \in Slots : n < i => Valid(f[h].slots[n])
    <3>1. \A n \in Slots : n < i => n <= r.lens[h]
      BY <2>3 DEF Slots
    <3>2. \A n \in Slots : n <= r.lens[h] => Valid(f[h].slots[n])
      BY <1>1, <2>1 DEF Filled
    <3>3. QED BY <3>1, <3>2
  <2>5. \A n \in Slots : n > i => g[h].slots[n] = Erased
    <3>1. \A n \in Slots : n > i => n > r.lens[h] /\ n # i
      BY <2>3 DEF Slots
    <3>2. \A n \in Slots : n > r.lens[h] => f[h].slots[n] = Erased
      BY <1>4, <2>1, <2>3 DEF Filled
    <3>3. QED BY <3>1, <3>2
  <2>6. QED BY <2>2, <2>4, <2>5
<1>15. L[h] = i - 1 /\ i - 1 \in 0 .. PerSegment
  <2>1. L[h] = ValidLength(f[h].slots) /\ L[h] \in 0 .. PerSegment /\ PerSegment \in Nat
    BY <1>1, ValidLengthIs, SlotConstants DEF Lengths
  <2>2. \A n \in Slots : Valid(f[h].slots[n]) <=> n <= L[h]
    BY <1>14, <2>1, ValidLengthTells
  <2>3. ~(i <= L[h])
    BY <1>3, <2>2, SlotFacts
  <2>4. i - 1 \in Slots => i - 1 <= L[h]
    BY <1>14, <2>2
  <2> HIDE DEF L, h
  <2>5. QED BY <1>3, <2>1, <2>3, <2>4 DEF Slots
<1>16. M[h] = IF g[h].slots[i] = new THEN i ELSE i - 1
  <2>1. M[h] = ValidLength(g[h].slots) /\ M[h] \in 0 .. PerSegment /\ PerSegment \in Nat
    BY <1>1, ValidLengthIs, SlotConstants DEF Lengths
  <2>2. \A n \in Slots : Valid(g[h].slots[n]) <=> n <= M[h]
    BY <1>14, <2>1, ValidLengthTells
  <2>3. i - 1 \in Slots => i - 1 <= M[h]
    <3>1. i - 1 \in Slots => i - 1 < i /\ i - 1 # i
      OBVIOUS
    <3>2. i - 1 \in Slots => Valid(g[h].slots[i - 1])
      BY <1>14, <3>1
    <3>3. QED BY <2>2, <3>2
  <2>4. i + 1 \in Slots => ~(i + 1 <= M[h])
    <3>1. i + 1 \in Slots => i + 1 > i
      OBVIOUS
    <3>2. QED BY <1>14, <2>2, <3>1, SlotFacts
  <2>5. i <= M[h] <=> g[h].slots[i] = new
    <3>1. i <= M[h] <=> Valid(g[h].slots[i])
      BY <1>3, <2>2
    <3>2. Valid(new)
      BY DEF Valid
    <3>3. g[h].slots[i] # new => ~Valid(g[h].slots[i])
      BY SlotFacts
    <3>4. QED BY <3>1, <3>2, <3>3
  <2> HIDE DEF M, h
  <2>6. QED BY <1>3, <2>1, <2>3, <2>4, <2>5 DEF Slots
\* The pieces behind the head's are the same.
<1>17. b \in Segments /\ After(b) = h /\ \A n \in 0 .. NSegments - 1 : Before(h, n + 1) = Before(b, n)
  <2>1. 1 \in 0 .. NSegments /\ 0 \in 0 .. NSegments - 1
    BY <1>1
  <2>2. b \in Segments
    BY <1>1, <2>1, BeforeIs
  <2>3. After(Before(h, 0 + 1)) = Before(h, 0)
    BY <1>1, <2>1, AfterBefore
  <2>4. After(b) = h
    BY <1>1, <2>3, BeforeNone
  <2>5. \A n \in 0 .. NSegments - 1 : Before(After(b), n + 1) = Before(b, n)
    BY <2>2, BeforeAfter
  <2>6. QED BY <2>2, <2>4, <2>5
<1> HIDE DEF h, u, k, L, M, j, b
<1>18. k \in 1 .. NSegments /\ k - 1 \in 0 .. NSegments - 1 /\ k - 1 + 1 = k /\ k - 1 \in Nat
  <2>1. k \in 1 .. NSegments
    BY <1>1, <1>5, <1>10
  <2>2. QED BY <1>1, <2>1
<1> DEFINE l == k - 1
<1>19. Strung(f, h, k, L) = Cat(Strung(f, b, k - 1, L), Piece(f, h, L))
  <2>1. Strung(f, After(b), l + 1, L) = Cat(Strung(f, b, l, L), Piece(f, After(b), L))
    <3>1. l \in 0 .. NSegments - 1
      BY <1>18
    <3> HIDE DEF l
    <3>2. QED BY <1>13, <1>17, <3>1, StrungNewest
  <2>2. QED BY <1>17, <1>18, <2>1
<1>20. Strung(g, h, k, M) = Cat(Strung(g, b, k - 1, M), Piece(g, h, M))
  <2>1. Strung(g, After(b), l + 1, M) = Cat(Strung(g, b, l, M), Piece(g, After(b), M))
    <3>1. l \in 0 .. NSegments - 1
      BY <1>18
    <3> HIDE DEF l
    <3>2. QED BY <1>13, <1>17, <3>1, StrungNewest
  <2>2. QED BY <1>17, <1>18, <2>1
<1>21. Strung(g, b, k - 1, M) = Strung(f, b, k - 1, L)
  <2>1. \A n \in 0 .. l - 1 : Piece(g, Before(b, n), M) = Piece(f, Before(b, n), L)
    <3> TAKE n \in 0 .. l - 1
    <3>1. n \in 0 .. NSegments - 1 /\ n + 1 \in 0 .. NSegments - 1 /\ n + 1 # 0
      BY <1>1, <1>18
    <3>2. Before(b, n) = At(r, n + 1)
      BY <1>17, <3>1 DEF At, h
    <3>3. QED BY <1>7, <3>1, <3>2
  <2>2. l \in Nat
    BY <1>18
  <2> HIDE DEF l
  <2>3. Strung(g, b, l, M) = Strung(f, b, l, L)
    BY <2>1, <2>2, StrungSame
  <2>4. QED BY <2>3 DEF l
<1>22. /\ Piece(f, h, L) \in Seq(SlotValues) /\ Len(Piece(f, h, L)) = i - 1
       /\ \A n \in 1 .. i - 1 : Piece(f, h, L)[n] = f[h].slots[n]
       /\ Piece(g, h, M) \in Seq(SlotValues) /\ Len(Piece(g, h, M)) = M[h]
       /\ \A n \in 1 .. M[h] : Piece(g, h, M)[n] = g[h].slots[n]
  <2>1. /\ Piece(f, h, L) \in Seq(SlotValues) /\ Len(Piece(f, h, L)) = L[h]
        /\ \A n \in 1 .. L[h] : Piece(f, h, L)[n] = f[h].slots[n]
    BY <1>1, <1>13, PieceIs
  <2>2. /\ Piece(g, h, M) \in Seq(SlotValues) /\ Len(Piece(g, h, M)) = M[h]
        /\ \A n \in 1 .. M[h] : Piece(g, h, M)[n] = g[h].slots[n]
    BY <1>1, <1>13, PieceIs
  <2>3. L[h] = i - 1
    BY <1>15
  <2>4. QED BY <2>1, <2>2, <2>3, Zenon
<1>23. \A n \in 1 .. i - 1 : g[h].slots[n] = f[h].slots[n]
  <2>1. \A n \in 1 .. i - 1 : n \in Slots /\ n # i
    BY <1>3, SlotConstants DEF Slots
  <2>2. QED BY <2>1 DEF h
<1>24. new \in SlotValues
  BY DEF SlotValues
<1>25. CASE g[h].slots[i] = new
  <2>1. M[h] = i
    BY <1>16, <1>25
  <2> DEFINE pf == Piece(f, h, L)  pg == Piece(g, h, M)
  <2> HIDE DEF pf, pg
  <2>2. /\ pf \in Seq(SlotValues) /\ Len(pf) = i - 1
        /\ pg \in Seq(SlotValues) /\ Len(pg) = i
        /\ \A n \in 1 .. i - 1 : pf[n] = f[h].slots[n]
        /\ \A n \in 1 .. i : pg[n] = g[h].slots[n]
    BY <1>22, <2>1 DEF pf, pg
  <2>3. i >= 1
    BY <1>3 DEF Slots
  <2>4. pg = Append(pf, new)
    <3>1. Append(pf, new) \in Seq(SlotValues) /\ Len(Append(pf, new)) = i /\ Append(pf, new)[i] = new
          /\ \A n \in 1 .. i - 1 : Append(pf, new)[n] = pf[n]
      BY <1>24, <2>2
    <3>2. \A n \in 1 .. i : pg[n] = Append(pf, new)[n]
      <4> TAKE n \in 1 .. i
      <4>1. CASE n = i
        BY <1>25, <2>2, <2>3, <3>1, <4>1
      <4>2. CASE n # i
        <5>1. n \in 1 .. i - 1
          BY <2>3, <4>2
        <5>2. QED BY <1>23, <2>2, <3>1, <5>1
      <4>3. QED BY <4>1, <4>2
    <3>3. PICK z : z = Append(pf, new)
      OBVIOUS
    <3>4. z \in Seq(SlotValues) /\ Len(z) = i /\ \A n \in 1 .. i : pg[n] = z[n]
      BY <3>1, <3>2, <3>3
    <3>5. pg \in Seq(SlotValues) /\ Len(pg) = Len(z) /\ \A n \in 1 .. Len(pg) : pg[n] = z[n]
      BY <2>2, <3>4
    <3>6. pg = z
      BY <3>4, <3>5
    <3>7. QED BY <3>3, <3>6
  <2>5. Strung(f, b, k - 1, L) \in Seq(SlotValues)
    <3>1. k - 1 \in 0 .. NSegments
      BY <1>1, <1>18
    <3>2. QED BY <1>13, <1>17, <3>1, StrungType
  <2>6. Cat(Strung(f, b, k - 1, L), Append(pf, new)) = Append(Cat(Strung(f, b, k - 1, L), pf), new)
    BY <1>24, <2>2, <2>5, CatAppend
  <2>7. QED BY <1>13, <1>19, <1>20, <1>21, <1>25, <2>4, <2>6 DEF pf, pg, h
<1>26. CASE g[h].slots[i] # new
  <2>1. M[h] = L[h]
    BY <1>15, <1>16, <1>26
  <2>2. \A n \in 1 .. L[h] : g[h].slots[n] = f[h].slots[n]
    BY <1>15, <1>23
  <2>3. Piece(g, h, M) = Piece(f, h, L)
    BY <1>1, <1>13, <2>1, <2>2, PieceSame
  <2>4. QED BY <1>13, <1>19, <1>20, <1>21, <1>26, <2>3 DEF h
<1>27. QED BY <1>25, <1>26 DEF h

-----------------------------------------------------------------------------
(* The steps. *)

\* The ring has room for a head and a tail.
LEMMA TwoSegments == NSegments \in Nat /\ NSegments > 1
BY RingConstants

\* The last record that may be on flash, and the last epoch.
Given(p, n) == IF p \in {"Drop", "Erase", "Header", "Record"} THEN n - 1 ELSE n
Started(p, n) == IF p \in {"Drop", "Erase", "Header"} THEN n - 1 ELSE n

AtPc(r, p) ==
  /\ p = "Repair" => r.used > 1
  /\ p = "Drop" => r.used = NSegments
  /\ p \in {"Erase", "Header"} => r.used < NSegments /\ (r.clean[Following(r)] <=> p = "Header")
  /\ p \in {"Drop", "Erase", "Header"} => ~HeadOpen(r)
  /\ p = "Record" => HeadOpen(r)

RingInv ==
  /\ TypeOK
  /\ pc \in {"Drop", "Erase", "Header", "Record"} => record \in Records
  /\ pc = "Off" => ring = NoRing /\ FlashInv(flash, record)
  /\ pc # "Off" => Holds(flash, ring, Given(pc, record), Started(pc, record)) /\ AtPc(ring, pc)

\* A step takes a beginning of the log, or adds the record.
LogStep ==
  \/ FrontLoss(Surviving(flash), Surviving(flash'), 2 * PerSegment - 1) /\ ~Acknowledged
  \/ Surviving(flash') = Append(Surviving(flash), record) /\ pc = "Record"

\* What the invariant says of a ring that is open.
LEMMA InvFacts ==
  ASSUME RingInv
  PROVE  /\ flash \in Flash /\ ring \in Ring /\ record \in Nat /\ record <= MaxRecords /\ MaxRecords \in Nat
         /\ Given(pc, record) \in Nat /\ Given(pc, record) <= record
         /\ Started(pc, record) \in Nat /\ Started(pc, record) <= record
         /\ pc \in {"Drop", "Erase", "Header", "Record"} => record \in Records
         /\ pc # "Off" => /\ Holds(flash, ring, Given(pc, record), Started(pc, record))
                          /\ AtPc(ring, pc)
                          /\ NextSegment = Following(ring)
<1>1. /\ flash \in Flash /\ ring \in Ring /\ record \in Nat /\ record <= MaxRecords
      /\ MaxRecords \in Nat
  BY SlotConstants DEF RingInv, TypeOK, Flash, Records
<1>2. pc \in {"Drop", "Erase", "Header", "Record"} => record \in Records
  BY DEF RingInv
<1>3. /\ Given(pc, record) \in Nat /\ Given(pc, record) <= record
      /\ Started(pc, record) \in Nat /\ Started(pc, record) <= record
  BY <1>1, <1>2, SlotConstants DEF Given, Started, Records
<1>4. pc # "Off" => /\ Holds(flash, ring, Given(pc, record), Started(pc, record))
                    /\ AtPc(ring, pc)
  BY DEF RingInv
<1>5. pc # "Off" => NextSegment = Following(ring)
  <2>1. SUFFICES ASSUME pc # "Off", ring.used = 0
                 PROVE  Following(ring) = 0
    BY DEF NextSegment, Following
  <2>2. ring.tail = 0
    BY <1>4, <2>1 DEF Holds, Headers
  <2>3. HeadOf(ring) = NSegments - 1
    BY <1>1, <2>1, <2>2, HeadIs
  <2>4. NSegments - 1 \in Segments
    BY TwoSegments DEF Segments
  <2>5. QED BY <2>3, <2>4, AfterIs DEF Following
<1>6. QED BY <1>1, <1>2, <1>3, <1>4, <1>5

\* The log is a sequence of slots.
LEMMA SurvivingType ==
  ASSUME NEW f \in Flash, NEW r \in Ring, NEW v, NEW e, Holds(f, r, v, e)
  PROVE  Surviving(f) \in Seq(SlotValues)
<1>1. HeadOf(r) \in Segments
  BY AtIs
<1>2. Keeps(f, r) \in 0 .. NSegments
  <2>1. Alive(f, r) \in 0 .. r.used /\ r.used \in 0 .. NSegments
    BY AliveIs, AtIs
  <2>2. QED BY <2>1, KeepsIs, TwoSegments
<1>3. QED BY <1>1, <1>2, KeepsIs, StrungType

\* The bounds of the invariant may be wider.
LEMMA HoldsMore ==
  ASSUME NEW f \in Flash, NEW r \in Ring, NEW v \in Int, NEW e \in Int, Holds(f, r, v, e),
         NEW w \in Int, v <= w, NEW d \in Int, e <= d
  PROVE  Holds(f, r, w, d)
<1>1. r.epoch \in Int
  BY SlotConstants DEF Ring, Epochs
<1>2. Headers(f, r, d)
  BY <1>1 DEF Holds, Headers
<1>3. UpTo(f, HeadOf(r), r.used, w)
  <2> SUFFICES ASSUME NEW n \in 0 .. r.used - 1, NEW i \in Slots
               PROVE  f[At(r, n)].slots[i] <= w
    BY DEF UpTo, At
  <2>1. n \in 0 .. NSegments - 1
    BY AtIs
  <2>2. f[At(r, n)].slots[i] \in Int
    BY <2>1, AtIs, FlashType, SlotFacts
  <2>3. f[At(r, n)].slots[i] <= v
    BY DEF Holds, Filled, UpTo, At
  <2>4. QED BY <2>2, <2>3
<1>4. Filled(f, r, w)
  BY <1>3 DEF Holds, Filled
<1>5. QED BY <1>2, <1>4 DEF Holds

\* The ring without its tail.
LEMMA DroppedType ==
  ASSUME ring \in Ring, ring.used > 0
  PROVE  /\ TailDropped \in Ring
         /\ TailDropped.tail = After(ring.tail) /\ TailDropped.used = ring.used - 1
         /\ TailDropped.epoch = ring.epoch /\ TailDropped.sealed = ring.sealed
         /\ TailDropped.lens = [ring.lens EXCEPT ![ring.tail] = 0]
         /\ TailDropped.clean = [ring.clean EXCEPT ![ring.tail] = TRUE]
<1>1. /\ ring.tail \in Segments /\ ring.used \in 0 .. NSegments /\ ring.epoch \in {0} \cup Epochs /\ ring.sealed \in BOOLEAN
      /\ ring.lens \in [Segments -> 0 .. PerSegment] /\ ring.clean \in [Segments -> BOOLEAN]
  BY DEF Ring
<1>2. After(ring.tail) \in Segments
  BY <1>1, AfterIs
<1>3. /\ TailDropped.tail = After(ring.tail) /\ TailDropped.used = ring.used - 1
      /\ TailDropped.epoch = ring.epoch /\ TailDropped.sealed = ring.sealed
      /\ TailDropped.lens = [ring.lens EXCEPT ![ring.tail] = 0]
      /\ TailDropped.clean = [ring.clean EXCEPT ![ring.tail] = TRUE]
  BY DEF TailDropped, Ring
<1>4. /\ ring.used - 1 \in 0 .. NSegments
      /\ [ring.lens EXCEPT ![ring.tail] = 0] \in [Segments -> 0 .. PerSegment]
      /\ [ring.clean EXCEPT ![ring.tail] = TRUE] \in [Segments -> BOOLEAN]
  BY <1>1, SlotConstants
<1>5. TailDropped \in Ring
  BY <1>1, <1>2, <1>4 DEF TailDropped, Ring
<1>6. QED BY <1>3, <1>5

\* An operation that is cut leaves a flash that Open can read.
LEMMA OffStep ==
  ASSUME NEW v \in Nat, NEW e \in Int, NEW r \in Ring,
         flash' \in Flash, Holds(flash', r, v, e), record \in {0} \cup Records, v <= record, e <= record,
         LosePower, UNCHANGED record
  PROVE  RingInv'
<1>1. record \in Nat
  BY SlotConstants DEF Records
<1>2. FlashInv(flash', record')
  BY <1>1, RunHolds
<1>3. NoRing \in Ring
  BY SlotConstants DEF NoRing, Ring, Segments
<1>4. TypeOK'
  BY <1>3 DEF TypeOK, LosePower, Flash
<1>5. QED BY <1>2, <1>4 DEF RingInv, LosePower

\* Open changes nothing on the flash, and its ring holds.
LEMMA OpenStep ==
  ASSUME RingInv, Open
  PROVE  RingInv' /\ LogStep
<1>1. flash \in Flash /\ record \in Nat
  BY InvFacts
<1>2. FlashInv(flash, record) /\ ring = NoRing
  BY DEF RingInv, Open
<1>3. PICK h \in Segments, k \in 0 .. NSegments : Run(flash, h, k, record)
  BY <1>2 DEF FlashInv
<1>4. /\ Found(flash) \in Ring /\ Holds(flash, Found(flash), record, record)
      /\ \A s \in Segments : ~Found(flash).clean[s]
  BY <1>1, <1>3, OpenHolds
<1>5. flash' = flash
  BY <1>1, <1>4 DEF Open, Flash
<1>6. pc' \in {"Repair", "Idle"} /\ (pc' = "Repair" => ring'.used > 1)
  BY DEF Open, NeedsRepair
<1>7. TypeOK'
  BY <1>1, <1>4, <1>5, <1>6 DEF Open, TypeOK, Flash, RingInv
<1>8. Given(pc', record') = record /\ Started(pc', record') = record
  BY <1>6 DEF Given, Started, Open
<1>9. Holds(flash', ring', Given(pc', record'), Started(pc', record'))
  BY <1>4, <1>5, <1>8 DEF Open
<1>10. AtPc(ring', pc')
  BY <1>6 DEF AtPc
<1>11. RingInv'
  BY <1>6, <1>7, <1>9, <1>10 DEF RingInv
<1>12. Surviving(flash) \in Seq(SlotValues)
  BY <1>1, <1>4, SurvivingType
<1>13. FrontLoss(Surviving(flash), Surviving(flash'), 2 * PerSegment - 1)
  <2>1. 2 * PerSegment - 1 \in Nat
    BY SlotConstants
  <2>2. QED BY <1>5, <1>12, <2>1, LossNone
<1>14. ~Acknowledged
  BY DEF Open, Acknowledged
<1>15. QED BY <1>11, <1>13, <1>14 DEF LogStep

\* The erase of the tail, wherever it comes from.
LEMMA TailErase ==
  ASSUME NEW f \in Flash, NEW r \in Ring, NEW v \in Nat, NEW e, Holds(f, r, v, e), r.used > 1,
         NEW landed, landed \in EraseLandings(f[r.tail]) \/ landed = Blank,
         NEW g, g = [f EXCEPT ![r.tail] = landed]
  PROVE  g \in Flash /\ Holds(g, r, v, e) /\ FrontLoss(Surviving(f), Surviving(g), 2 * PerSegment - 1)
<1>1. r.tail \in Segments /\ f[r.tail] \in Segment
  BY FlashType DEF Ring
<1>2. landed \in Segment /\ Worn(f[r.tail], landed)
  BY <1>1, EraseIs, BlankIs
<1>3. g \in Flash /\ g[r.tail] = landed /\ \A s \in Segments : s # r.tail => g[s] = f[s]
  BY <1>1, <1>2 DEF Flash
<1>4. QED BY <1>2, <1>3, TailWorn, TailErased

\* A drop, by Open and by Append.
LEMMA DropTailStep ==
  ASSUME RingInv, pc # "Off", ring.used > 1, NEW done, DropTail(done, "Idle"), UNCHANGED record,
         done = "Idle" \/ (done = StartOf(TailDropped) /\ ~HeadOpen(ring)), record \in Records \/ pc = "Repair",
         Given(pc, record) = Given(done, record), Started(pc, record) = Started(done, record)
  PROVE  RingInv' /\ FrontLoss(Surviving(flash), Surviving(flash'), 2 * PerSegment - 1)
<1> DEFINE v == Given(pc, record)  e == Started(pc, record)
<1>1. /\ flash \in Flash /\ ring \in Ring /\ record \in Nat /\ v \in Nat /\ v <= record /\ e \in Int /\ e <= record
      /\ Holds(flash, ring, v, e)
  BY InvFacts
<1>2. record \in {0} \cup Records
  BY DEF RingInv, TypeOK
<1>3. ring.tail \in Segments /\ flash[ring.tail] \in Segment
  BY <1>1, FlashType DEF Ring
<1> HIDE DEF v, e
<1>4. ASSUME flash' = [flash EXCEPT ![ring.tail] = Blank], ring' = TailDropped, pc' = done
      PROVE  RingInv' /\ FrontLoss(Surviving(flash), Surviving(flash'), 2 * PerSegment - 1)
  <2>1. flash' \in Flash /\ FrontLoss(Surviving(flash), Surviving(flash'), 2 * PerSegment - 1)
    BY <1>1, <1>4, TailErase
  <2>2. /\ flash'[ring.tail] = Blank /\ \A s \in Segments : s # ring.tail => flash'[s] = flash[s]
        /\ Blank.header = Erased /\ \A i \in Slots : Blank.slots[i] = Erased
    BY <1>1, <1>3, <1>4, BlankIs DEF Flash
  <2>3. /\ TailDropped \in Ring
        /\ TailDropped.tail = After(ring.tail) /\ TailDropped.used = ring.used - 1
        /\ TailDropped.epoch = ring.epoch /\ TailDropped.sealed = ring.sealed
        /\ TailDropped.lens = [ring.lens EXCEPT ![ring.tail] = 0]
        /\ TailDropped.clean = [ring.clean EXCEPT ![ring.tail] = TRUE]
    <3>1. ring.used > 0 /\ ring \in Ring
      BY <1>1, AtIs
    <3>2. QED BY <3>1, DroppedType
  <2>4. \A s \in Segments : s # ring.tail => /\ TailDropped.lens[s] = ring.lens[s]
                                             /\ TailDropped.clean[s] = ring.clean[s]
    BY <1>1, <2>3 DEF Ring
  <2>5. Holds(flash', TailDropped, v, e) /\ (HeadOpen(TailDropped) <=> HeadOpen(ring))
    <3>1. flash'[ring.tail].header = Erased /\ \A i \in Slots : flash'[ring.tail].slots[i] = Erased
      BY <2>2
    <3>2. PICK q \in Ring : q = TailDropped
      BY <2>3
    <3>3. /\ q.tail = After(ring.tail) /\ q.used = ring.used - 1 /\ q.epoch = ring.epoch /\ q.sealed = ring.sealed
          /\ \A s \in Segments : s # ring.tail => q.lens[s] = ring.lens[s] /\ q.clean[s] = ring.clean[s]
      BY <2>3, <2>4, <3>2
    <3>4. Holds(flash', q, v, e) /\ (HeadOpen(q) <=> HeadOpen(ring))
      BY <1>1, <2>1, <2>2, <3>1, <3>3, Dropped
    <3>5. QED BY <3>2, <3>4
  <2>6. Holds(flash', ring', Given(pc', record'), Started(pc', record'))
    BY <1>4, <2>5 DEF v, e
  <2>7. CASE done = "Idle"
    <3>1. AtPc(ring', pc')
      BY <1>4, <2>7 DEF AtPc
    <3>2. TypeOK'
      BY <1>2, <1>4, <2>1, <2>3, <2>7 DEF TypeOK, Flash
    <3>3. QED BY <1>4, <2>1, <2>6, <2>7, <3>1, <3>2 DEF RingInv
  <2>8. CASE done # "Idle"
    <3>1. done = StartOf(TailDropped) /\ ~HeadOpen(ring) /\ done \in {"Header", "Erase"}
      BY <2>8 DEF StartOf
    <3>2. ring.used \in 0 .. NSegments /\ TailDropped.used # 0 /\ TailDropped.used < NSegments
      BY <1>1, <2>3, AtIs
    <3>3. TailDropped.clean[Following(TailDropped)] <=> done = "Header"
      BY <3>1, <3>2 DEF StartOf, Following
    <3>4. AtPc(ring', pc')
      BY <1>4, <2>5, <3>1, <3>2, <3>3 DEF AtPc
    <3>5. TypeOK'
      BY <1>2, <1>4, <2>1, <2>3, <3>1 DEF TypeOK, Flash
    <3>6. record \in Records
      <4>1. pc # "Repair"
        BY <1>1, <3>1 DEF Given
      <4>2. QED BY <4>1
    <3>7. QED BY <1>4, <2>1, <2>6, <3>1, <3>4, <3>5, <3>6 DEF RingInv
  <2>9. QED BY <2>7, <2>8
<1>5. ASSUME NEW landed \in EraseLandings(flash[ring.tail]), flash' = [flash EXCEPT ![ring.tail] = landed],
             (UNCHANGED ring /\ pc' = "Idle") \/ LosePower
      PROVE  RingInv' /\ FrontLoss(Surviving(flash), Surviving(flash'), 2 * PerSegment - 1)
  <2>1. flash' \in Flash /\ Holds(flash', ring, v, e) /\ FrontLoss(Surviving(flash), Surviving(flash'), 2 * PerSegment - 1)
    BY <1>1, <1>5, TailErase
  <2>2. CASE LosePower
    <3>1. RingInv'
      BY <1>1, <1>2, <2>1, <2>2, OffStep
    <3>2. QED BY <2>1, <3>1
  <2>3. CASE UNCHANGED ring /\ pc' = "Idle"
    <3>1. AtPc(ring', pc')
      BY <2>3 DEF AtPc
    <3>2. TypeOK'
      BY <1>1, <1>2, <2>1, <2>3 DEF TypeOK, Flash
    <3>3. Given(pc', record') = record /\ Started(pc', record') = record
      BY <2>3 DEF Given, Started
    <3>4. Holds(flash', ring', record, record)
      <4>1. Holds(flash', ring, record, record)
        BY <1>1, <2>1, HoldsMore
      <4>2. QED BY <2>3, <4>1
    <3>5. QED BY <2>1, <2>3, <3>1, <3>2, <3>3, <3>4 DEF RingInv
  <2>4. QED BY <1>5, <2>2, <2>3
<1>6. QED BY <1>4, <1>5 DEF DropTail

\* Open's drop of a partial tail.
LEMMA RepairStep ==
  ASSUME RingInv, Repair
  PROVE  RingInv' /\ LogStep
<1>1. pc = "Repair" /\ DropTail("Idle", "Idle") /\ UNCHANGED record
  BY DEF Repair
<1>2. ring.used > 1
  BY <1>1 DEF RingInv, AtPc
<1>3. Given(pc, record) = Given("Idle", record) /\ Started(pc, record) = Started("Idle", record)
  BY <1>1 DEF Given, Started
<1>4. RingInv' /\ FrontLoss(Surviving(flash), Surviving(flash'), 2 * PerSegment - 1)
  BY <1>1, <1>2, <1>3, DropTailStep
<1>5. ~Acknowledged
  BY <1>1 DEF Acknowledged
<1>6. QED BY <1>4, <1>5 DEF LogStep

\* Append's drop of the oldest segment.
LEMMA DropStep ==
  ASSUME RingInv, Drop
  PROVE  RingInv' /\ LogStep
<1>1. pc = "Drop" /\ DropTail(StartOf(TailDropped), "Idle") /\ UNCHANGED record
  BY DEF Drop
<1>2. ring.used > 1 /\ ~HeadOpen(ring) /\ record \in Records
  BY <1>1, TwoSegments DEF RingInv, AtPc
<1>3. StartOf(TailDropped) \in {"Header", "Erase"}
  BY DEF StartOf
<1>4. /\ Given(pc, record) = Given(StartOf(TailDropped), record)
      /\ Started(pc, record) = Started(StartOf(TailDropped), record)
  BY <1>1, <1>3 DEF Given, Started
<1>5. RingInv' /\ FrontLoss(Surviving(flash), Surviving(flash'), 2 * PerSegment - 1)
  BY <1>1, <1>2, <1>4, DropTailStep
<1>6. ~Acknowledged
  BY <1>1 DEF Acknowledged
<1>7. QED BY <1>5, <1>6 DEF LogStep

\* Nothing happens to the flash.
LEMMA SameLog ==
  ASSUME RingInv, pc # "Off", UNCHANGED flash
  PROVE  FrontLoss(Surviving(flash), Surviving(flash'), 2 * PerSegment - 1)
<1>1. Surviving(flash) \in Seq(SlotValues)
  BY InvFacts, SurvivingType
<1>2. 2 * PerSegment - 1 \in Nat
  BY SlotConstants
<1>3. QED BY <1>1, <1>2, LossNone

\* Append is called.
LEMMA GiveStep ==
  ASSUME RingInv, Give
  PROVE  RingInv' /\ LogStep
<1>1. /\ pc = "Idle" /\ record < MaxRecords /\ record' = record + 1 /\ flash' = flash /\ ring' = ring
      /\ pc' = IF ring.used = 0 THEN StartOf(ring)
               ELSE IF ring.lens[HeadOf(ring)] < PerSegment /\ ~ring.sealed THEN "Record"
               ELSE IF ring.used = NSegments THEN "Drop" ELSE StartOf(ring)
  BY DEF Give
<1>2. /\ flash \in Flash /\ ring \in Ring /\ record \in Nat /\ MaxRecords \in Nat
      /\ Holds(flash, ring, Given(pc, record), Started(pc, record)) /\ NextSegment = Following(ring)
  BY <1>1, InvFacts
<1>3. Given(pc, record) = record /\ Started(pc, record) = record
  BY <1>1 DEF Given, Started
<1>4. record' \in Records /\ record' - 1 = record
  BY <1>1, <1>2 DEF Records
<1>5. StartOf(ring) \in {"Header", "Erase"} /\ (ring.clean[Following(ring)] <=> StartOf(ring) = "Header")
  BY <1>2 DEF StartOf, NextSegment
<1>6. ring.used \in 0 .. NSegments /\ NSegments \in Nat /\ NSegments > 1
  BY <1>2, AtIs, TwoSegments
<1>7. /\ pc' \in {"Record", "Drop", "Header", "Erase"}
      /\ pc' = "Record" => HeadOpen(ring)
      /\ pc' # "Record" => ~HeadOpen(ring)
      /\ pc' = "Drop" => ring.used = NSegments
      /\ pc' \in {"Header", "Erase"} => ring.used < NSegments /\ pc' = StartOf(ring)
  BY <1>1, <1>5, <1>6 DEF HeadOpen
<1>8. AtPc(ring', pc')
  BY <1>1, <1>5, <1>7 DEF AtPc
<1>9. TypeOK'
  BY <1>1, <1>2, <1>4, <1>7 DEF TypeOK, Flash
<1>10. Given(pc', record') = record
  BY <1>4, <1>7 DEF Given
<1>11. Started(pc', record') \in Int /\ record <= Started(pc', record')
  BY <1>1, <1>2, <1>4, <1>7 DEF Started
<1>12. Holds(flash', ring', Given(pc', record'), Started(pc', record'))
  <2>1. Holds(flash, ring, record, Started(pc', record'))
    BY <1>2, <1>3, <1>11, HoldsMore
  <2>2. QED BY <1>1, <1>10, <2>1
<1>13. RingInv'
  BY <1>4, <1>7, <1>8, <1>9, <1>12 DEF RingInv
<1>14. ~Acknowledged
  BY <1>1 DEF Acknowledged
<1>15. QED BY <1>1, <1>13, <1>14, SameLog DEF LogStep

\* The power goes between two flash operations.
LEMMA PowerLossStep ==
  ASSUME RingInv, PowerLoss
  PROVE  RingInv' /\ LogStep
<1>1. pc # "Off" /\ LosePower /\ flash' = flash /\ record' = record
  BY DEF PowerLoss
<1>2. /\ flash \in Flash /\ ring \in Ring
      /\ Given(pc, record) \in Nat /\ Given(pc, record) <= record
      /\ Started(pc, record) \in Nat /\ Started(pc, record) <= record
      /\ Holds(flash, ring, Given(pc, record), Started(pc, record))
  BY <1>1, InvFacts
<1>3. record \in {0} \cup Records
  BY DEF RingInv, TypeOK
<1>4. RingInv'
  <2>1. PICK v \in Nat : v = Given(pc, record)
    BY <1>2
  <2>2. PICK e \in Nat : e = Started(pc, record)
    BY <1>2
  <2>3. Holds(flash', ring, v, e) /\ flash' \in Flash
    BY <1>1, <1>2, <2>1, <2>2
  <2>4. QED BY <1>1, <1>2, <1>3, <2>1, <2>2, <2>3, OffStep
<1>5. ~Acknowledged
  BY <1>1 DEF Acknowledged, LosePower
<1>6. QED BY <1>1, <1>4, <1>5, SameLog DEF LogStep

\* The segment that is to become the head is erased.
LEMMA EraseStep ==
  ASSUME RingInv, EraseSegment
  PROVE  RingInv' /\ LogStep
<1> DEFINE F == Following(ring)  v == Given(pc, record)  e == Started(pc, record)
<1>1. pc = "Erase" /\ record' = record
  BY DEF EraseSegment
<1>2. /\ flash \in Flash /\ ring \in Ring /\ record \in Nat /\ v \in Nat /\ v <= record /\ e \in Int /\ e <= record
      /\ Holds(flash, ring, v, e) /\ AtPc(ring, pc) /\ NextSegment = F /\ record \in Records
  BY <1>1, InvFacts
<1>3. F \in Segments /\ flash[F] \in Segment /\ ring.used \in 0 .. NSegments
  BY <1>2, AtIs, FlashType
<1>4. ring.used < NSegments /\ ~ring.clean[F] /\ ~HeadOpen(ring)
  BY <1>1, <1>2 DEF AtPc
<1>5. ~Live(flash, F)
  <2>1. ~Ahead(flash, ring)
    BY <1>2, <1>4, AliveIs
  <2>2. QED BY <1>4, <2>1 DEF Ahead
<1>6. ASSUME NEW landed, landed \in EraseLandings(flash[F]) \/ landed = Blank,
             flash' = [flash EXCEPT ![F] = landed]
      PROVE  /\ flash' \in Flash /\ flash'[F] = landed /\ \A s \in Segments : s # F => flash'[s] = flash[s]
             /\ Holds(flash', ring, v, e) /\ ~Live(flash', F)
             /\ FrontLoss(Surviving(flash), Surviving(flash'), 2 * PerSegment - 1)
  <2>1. landed \in Segment /\ Worn(flash[F], landed)
    BY <1>3, <1>6, EraseIs, BlankIs
  <2>2. flash' \in Flash /\ flash'[F] = landed /\ \A s \in Segments : s # F => flash'[s] = flash[s]
    BY <1>2, <1>3, <1>6, <2>1 DEF Flash
  <2>3. ~Live(flash', F)
    BY <1>5, <2>1, <2>2, LiveFacts DEF Worn, Live
  <2> HIDE DEF v, e
  <2>4. Holds(flash', ring, v, e)
    BY <1>2, <1>4, <2>2, <2>3, NextChanged
  <2>5. FrontLoss(Surviving(flash), Surviving(flash'), 2 * PerSegment - 1)
    <3>1. Ahead(flash, ring) => Ahead(flash', ring)
      BY <1>5 DEF Ahead
    <3>2. QED BY <1>2, <1>4, <2>2, <2>4, <3>1, NextChangedLog
  <2>6. QED BY <2>2, <2>3, <2>4, <2>5
<1>7. ~Acknowledged
  BY <1>1 DEF Acknowledged
<1> HIDE DEF F
<1>8. ASSUME flash' = [flash EXCEPT ![F] = Blank], ring' = [ring EXCEPT !.clean[F] = TRUE], pc' = "Header"
      PROVE  RingInv' /\ LogStep
  <2>1. /\ flash' \in Flash /\ flash'[F] = Blank /\ \A s \in Segments : s # F => flash'[s] = flash[s]
        /\ Holds(flash', ring, v, e) /\ ~Live(flash', F)
        /\ FrontLoss(Surviving(flash), Surviving(flash'), 2 * PerSegment - 1)
    BY <1>6, <1>8
  <2>2. /\ ring' \in Ring /\ ring'.tail = ring.tail /\ ring'.used = ring.used /\ ring'.epoch = ring.epoch
        /\ ring'.sealed = ring.sealed /\ ring'.lens = ring.lens
        /\ ring'.clean = [ring.clean EXCEPT ![F] = TRUE]
    BY <1>2, <1>3, <1>8 DEF Ring
  <2>3. ring'.clean[F] /\ \A s \in Segments : s # F => ring'.clean[s] = ring.clean[s]
    BY <1>2, <1>3, <2>2 DEF Ring
  <2>4. flash'[F].header = Erased /\ \A i \in Slots : flash'[F].slots[i] = Erased
    BY <1>3, <2>1, BlankIs
  <2>5. Given(pc', record') = v /\ Started(pc', record') = e
    BY <1>1, <1>8 DEF Given, Started
  <2> HIDE DEF v, e
  <2>6. Holds(flash', ring', v, e)
    <3>1. PICK q \in Ring : q = ring'
      BY <2>2
    <3>2. /\ q.tail = ring.tail /\ q.used = ring.used /\ q.epoch = ring.epoch
          /\ q.sealed = ring.sealed /\ q.lens = ring.lens
          /\ \A s \in Segments : s # F => q.clean[s] = ring.clean[s]
      BY <2>2, <2>3, <3>1
    <3>3. Holds(flash', q, v, e)
      BY <1>2, <1>4, <2>1, <2>4, <3>2, NextChanged DEF F
    <3>4. QED BY <3>1, <3>3
  <2>7. HeadOf(ring') = HeadOf(ring) /\ Following(ring') = F /\ (HeadOpen(ring') <=> HeadOpen(ring))
    BY <2>2 DEF HeadOf, Following, HeadOpen, F
  <2>8. AtPc(ring', pc')
    BY <1>4, <1>8, <2>2, <2>3, <2>7 DEF AtPc
  <2>9. TypeOK'
    BY <1>1, <1>2, <1>8, <2>1, <2>2 DEF TypeOK, Flash
  <2>10. RingInv'
    BY <1>1, <1>2, <1>8, <2>5, <2>6, <2>8, <2>9 DEF RingInv
  <2>11. QED BY <1>7, <2>1, <2>10 DEF LogStep
<1>9. ASSUME NEW landed \in EraseLandings(flash[F]), flash' = [flash EXCEPT ![F] = landed],
             (UNCHANGED ring /\ pc' = "Idle") \/ LosePower
      PROVE  RingInv' /\ LogStep
  <2>1. /\ flash' \in Flash
        /\ Holds(flash', ring, v, e)
        /\ FrontLoss(Surviving(flash), Surviving(flash'), 2 * PerSegment - 1)
    BY <1>6, <1>9
  <2> HIDE DEF v, e
  <2>2. CASE LosePower
    <3>1. RingInv'
      BY <1>1, <1>2, <2>1, <2>2, OffStep
    <3>2. QED BY <1>7, <2>1, <3>1 DEF LogStep
  <2>3. CASE UNCHANGED ring /\ pc' = "Idle"
    <3>1. AtPc(ring', pc')
      BY <2>3 DEF AtPc
    <3>2. TypeOK'
      BY <1>1, <1>2, <2>1, <2>3 DEF TypeOK, Flash
    <3>3. Given(pc', record') = record /\ Started(pc', record') = record
      BY <1>1, <2>3 DEF Given, Started
    <3>4. Holds(flash', ring', record, record)
      <4>1. Holds(flash', ring, record, record)
        BY <1>2, <2>1, HoldsMore
      <4>2. QED BY <2>3, <4>1
    <3>5. QED BY <1>7, <2>1, <2>3, <3>1, <3>2, <3>3, <3>4 DEF RingInv, LogStep
  <2>4. QED BY <1>9, <2>2, <2>3
<1>10. QED BY <1>2, <1>8, <1>9 DEF EraseSegment

\* Its header is written.
LEMMA StartStep ==
  ASSUME RingInv, StartSegment
  PROVE  RingInv' /\ LogStep
<1> DEFINE F == Following(ring)  v == Given(pc, record)  e == Started(pc, record)
           epoch == ring.epoch + 1
<1>1. pc = "Header" /\ record' = record
  BY DEF StartSegment
<1>2. /\ flash \in Flash /\ ring \in Ring /\ record \in Nat /\ v \in Nat /\ v <= record /\ e \in Int /\ e <= record
      /\ Holds(flash, ring, v, e) /\ AtPc(ring, pc) /\ NextSegment = F /\ record \in Records
      /\ record <= MaxRecords /\ MaxRecords \in Nat
  BY <1>1, InvFacts
<1>3. F \in Segments /\ flash[F] \in Segment /\ ring.used \in 0 .. NSegments /\ NSegments \in Nat
      /\ At(ring, NSegments - 1) = F
  BY <1>2, AtIs, FlashType
<1>4. ring.used < NSegments /\ ring.clean[F] /\ ~HeadOpen(ring)
  BY <1>1, <1>2 DEF AtPc
<1>5. ring.epoch \in Nat /\ ring.epoch <= e /\ e = record - 1
  BY <1>1, <1>2, SlotConstants DEF Ring, Epochs, Holds, Headers, Started
<1>6. epoch \in Epochs /\ epoch \in Int /\ epoch > 0 /\ ring.epoch < record /\ epoch <= MaxRecords
  BY <1>2, <1>5 DEF Epochs
<1>7. flash[F].header \in {Erased, epoch, -epoch} /\ \A i \in Slots : flash[F].slots[i] = Erased
  <2>1. Cleaned(flash, ring)
    BY <1>2 DEF Holds
  <2>2. NSegments - 1 \in ring.used .. NSegments - 1
    BY <1>3, <1>4
  <2>3. QED BY <1>3, <1>4, <2>1, <2>2 DEF Cleaned
<1> DEFINE landings == HeaderLandings(flash[F].header, epoch)
<1>8. epoch \in landings /\ \A l \in landings : l \in {Erased, epoch, -epoch} /\ (flash[F].header = epoch => l = epoch)
  BY <1>6, <1>7, SlotFacts DEF HeaderLandings
<1>9. ~Acknowledged
  BY <1>1 DEF Acknowledged
<1> HIDE DEF F, epoch, landings
<1>10. ASSUME NEW landed \in landings, WriteHeader(F, landed)
       PROVE  /\ flash' \in Flash /\ \A s \in Segments : s # F => flash'[s] = flash[s]
              /\ flash'[F].header = landed /\ flash'[F].slots = flash[F].slots
              /\ Holds(flash', ring, v, record)
              /\ FrontLoss(Surviving(flash), Surviving(flash'), 2 * PerSegment - 1)
  <2>1. landed \in {Erased, epoch, -epoch} /\ landed \in -MaxRecords .. MaxRecords
    BY <1>2, <1>6, <1>8, SlotFacts
  <2>2. flash' = [flash EXCEPT ![F].header = landed]
    BY <1>10 DEF WriteHeader
  <2>3. /\ flash' \in Flash /\ \A s \in Segments : s # F => flash'[s] = flash[s]
        /\ flash'[F].header = landed /\ flash'[F].slots = flash[F].slots
    <3>1. flash'[F] = [flash[F] EXCEPT !.header = landed] /\ \A s \in Segments : s # F => flash'[s] = flash[s]
      BY <1>2, <1>3, <2>2 DEF Flash
    <3>2. [flash[F] EXCEPT !.header = landed] \in Segment
      BY <1>3, <2>1 DEF Segment
    <3>3. flash' \in Flash
      BY <1>2, <1>3, <2>2, <3>2 DEF Flash
    <3>4. QED BY <1>3, <3>1, <3>3 DEF Segment
  <2>4. Live(flash', F) => landed = epoch
    BY <1>6, <2>1, <2>3, SlotConstants DEF Live, Epochs, Erased
  <2> HIDE DEF v, e
  <2>5. Holds(flash', ring, v, record)
    <3>1. Live(flash', F) => flash'[F].header = ring.epoch + 1 /\ ring.clean[F] /\ ~HeadOpen(ring) /\ ring.epoch < record
      BY <1>4, <1>6, <2>3, <2>4 DEF epoch
    <3>2. /\ \A i \in Slots : flash'[F].slots[i] = Erased
          /\ flash'[F].header \in {Erased, ring.epoch + 1, -(ring.epoch + 1)}
      BY <1>7, <2>1, <2>3 DEF epoch
    <3>3. QED BY <1>2, <1>4, <2>3, <3>1, <3>2, NextChanged DEF F
  <2>6. Ahead(flash, ring) => Ahead(flash', ring)
    <3>1. SUFFICES ASSUME Live(flash, F)
                   PROVE  Live(flash', F)
      BY DEF Ahead, F
    <3>2. flash[F].header = epoch
      BY <1>6, <1>7, <3>1, SlotConstants DEF Live, Epochs, Erased
    <3>3. flash'[F].header = epoch
      BY <1>8, <2>3, <3>2
    <3>4. QED BY <1>6, <3>3 DEF Live
  <2>7. FrontLoss(Surviving(flash), Surviving(flash'), 2 * PerSegment - 1)
    BY <1>2, <1>4, <2>3, <2>5, <2>6, NextChangedLog DEF F
  <2>8. QED BY <2>3, <2>5, <2>7
<1>11. ASSUME epoch \in landings, WriteHeader(F, epoch),
              ring' = [ring EXCEPT !.epoch = epoch, !.used = @ + 1, !.lens[F] = 0,
                                   !.clean[F] = FALSE, !.sealed = FALSE],
              pc' = "Record"
       PROVE  RingInv' /\ LogStep
  <2>1. /\ flash' \in Flash /\ \A s \in Segments : s # F => flash'[s] = flash[s]
        /\ flash'[F].header = epoch /\ flash'[F].slots = flash[F].slots
        /\ FrontLoss(Surviving(flash), Surviving(flash'), 2 * PerSegment - 1)
    BY <1>10, <1>11
  <2>2. /\ ring' \in Ring /\ ring'.tail = ring.tail /\ ring'.used = ring.used + 1 /\ ring'.epoch = epoch
        /\ ring'.sealed = FALSE /\ ring'.lens = [ring.lens EXCEPT ![F] = 0]
        /\ ring'.clean = [ring.clean EXCEPT ![F] = FALSE]
    <3>1. /\ ring.tail \in Segments /\ ring.used \in 0 .. NSegments /\ ring.epoch \in {0} \cup Epochs /\ ring.sealed \in BOOLEAN
          /\ ring.lens \in [Segments -> 0 .. PerSegment] /\ ring.clean \in [Segments -> BOOLEAN]
      BY <1>2 DEF Ring
    <3>2. /\ ring'.tail = ring.tail /\ ring'.used = ring.used + 1 /\ ring'.epoch = epoch
          /\ ring'.sealed = FALSE /\ ring'.lens = [ring.lens EXCEPT ![F] = 0]
          /\ ring'.clean = [ring.clean EXCEPT ![F] = FALSE]
      BY <1>2, <1>11 DEF Ring
    <3>3. ring' = [tail |-> ring.tail, used |-> ring.used + 1, epoch |-> epoch, sealed |-> FALSE,
                   lens |-> [ring.lens EXCEPT ![F] = 0], clean |-> [ring.clean EXCEPT ![F] = FALSE]]
      BY <1>2, <1>11 DEF Ring
    <3>4. /\ ring.used + 1 \in 0 .. NSegments
          /\ [ring.lens EXCEPT ![F] = 0] \in [Segments -> 0 .. PerSegment]
          /\ [ring.clean EXCEPT ![F] = FALSE] \in [Segments -> BOOLEAN]
      BY <1>3, <1>4, <3>1, SlotConstants
    <3>5. ring' \in Ring
      BY <1>6, <3>1, <3>3, <3>4 DEF Ring
    <3>6. QED BY <3>2, <3>5
  <2>3. /\ ring'.lens[F] = 0 /\ ~ring'.clean[F]
        /\ \A s \in Segments : s # F => ring'.lens[s] = ring.lens[s] /\ ring'.clean[s] = ring.clean[s]
    BY <1>2, <1>3, <2>2 DEF Ring
  <2>4. Given(pc', record') = v /\ Started(pc', record') = record
    BY <1>1, <1>11 DEF Given, Started
  <2> HIDE DEF v, e
  <2>5. Holds(flash', ring', v, record) /\ HeadOpen(ring')
    <3>1. PICK q \in Ring : q = ring'
      BY <2>2
    <3>2. /\ q.tail = ring.tail /\ q.used = ring.used + 1 /\ q.epoch = ring.epoch + 1 /\ ~q.sealed
          /\ q.lens[F] = 0 /\ ~q.clean[F]
          /\ \A s \in Segments : s # F => q.lens[s] = ring.lens[s] /\ q.clean[s] = ring.clean[s]
      BY <2>2, <2>3, <3>1 DEF epoch
    <3>3. ring.epoch + 1 \in Epochs /\ flash'[F].header = ring.epoch + 1
      BY <1>6, <2>1 DEF epoch
    <3>4. record \in Int
      BY <1>2
    <3>5. Holds(flash', q, v, record) /\ HeadOpen(q)
      BY <1>2, <1>4, <1>6, <2>1, <3>2, <3>3, <3>4, HeaderDone DEF F
    <3>6. QED BY <3>1, <3>5
  <2>6. AtPc(ring', pc')
    BY <1>11, <2>5 DEF AtPc
  <2>7. TypeOK'
    BY <1>1, <1>2, <1>11, <2>1, <2>2 DEF TypeOK, Flash
  <2>8. RingInv'
    BY <1>1, <1>2, <1>11, <2>4, <2>5, <2>6, <2>7 DEF RingInv
  <2>9. QED BY <1>9, <2>1, <2>8 DEF LogStep
<1>12. ASSUME NEW landed \in landings, WriteHeader(F, landed),
              (UNCHANGED ring /\ pc' = "Idle") \/ LosePower
       PROVE  RingInv' /\ LogStep
  <2>1. /\ flash' \in Flash
        /\ Holds(flash', ring, v, record)
        /\ FrontLoss(Surviving(flash), Surviving(flash'), 2 * PerSegment - 1)
    BY <1>10, <1>12
  <2> HIDE DEF v, e
  <2>2. CASE LosePower
    <3>1. RingInv'
      BY <1>1, <1>2, <2>1, <2>2, OffStep
    <3>2. QED BY <1>9, <2>1, <3>1 DEF LogStep
  <2>3. CASE UNCHANGED ring /\ pc' = "Idle"
    <3>1. AtPc(ring', pc')
      BY <2>3 DEF AtPc
    <3>2. TypeOK'
      BY <1>1, <1>2, <2>1, <2>3 DEF TypeOK, Flash
    <3>3. Given(pc', record') = record /\ Started(pc', record') = record
      BY <1>1, <2>3 DEF Given, Started
    <3>4. Holds(flash', ring', record, record)
      <4>1. Holds(flash', ring, record, record)
        BY <1>2, <2>1, HoldsMore
      <4>2. QED BY <2>3, <4>1
    <3>5. QED BY <1>9, <2>1, <2>3, <3>1, <3>2, <3>3, <3>4 DEF RingInv, LogStep
  <2>4. QED BY <1>12, <2>2, <2>3
<1>13. QED BY <1>2, <1>11, <1>12 DEF StartSegment, epoch, landings

\* The record is written.
LEMMA WriteStep ==
  ASSUME RingInv, WriteRecord
  PROVE  RingInv' /\ LogStep
<1> DEFINE h == HeadOf(ring)  i == ring.lens[h] + 1  v == Given(pc, record)
           landings == SlotLandings(flash[h].slots[i], record)
<1>1. pc = "Record" /\ record' = record
  BY DEF WriteRecord
<1>2. /\ flash \in Flash /\ ring \in Ring /\ record \in Nat /\ v = record - 1 /\ v \in Nat
      /\ Holds(flash, ring, v, record) /\ HeadOpen(ring) /\ record \in Records
  <2>1. Given(pc, record) = record - 1 /\ Started(pc, record) = record
    BY <1>1 DEF Given, Started
  <2>2. HeadOpen(ring)
    BY <1>1 DEF RingInv, AtPc
  <2>3. QED BY <1>1, <2>1, <2>2, InvFacts
<1>3. h \in Segments /\ flash[h] \in Segment /\ flash[h].slots \in [Slots -> SlotValues]
  BY <1>2, AtIs, FlashType
<1>4. ring.lens[h] \in Nat /\ i \in Int /\ i \in Slots
  BY <1>2, <1>3, SlotConstants DEF Ring, HeadOpen, Slots
<1>5. v < record
  BY <1>2
<1> HIDE DEF v
\* A write of the slot, and what the ring makes of it.
<1>6. ASSUME NEW landed \in {Erased, Torn, record}, WriteSlot(h, i, landed)
      PROVE  /\ flash' \in Flash /\ \A s \in Segments : s # h => flash'[s] = flash[s]
             /\ flash'[h].header = flash[h].header /\ flash'[h].slots[i] = landed
             /\ \A j \in Slots : j # i => flash'[h].slots[j] = flash[h].slots[j]
  <2>1. flash' = [flash EXCEPT ![h].slots[i] = landed]
    BY <1>6 DEF WriteSlot
  <2> HIDE DEF h, i
  <2>2. flash'[h] = [flash[h] EXCEPT !.slots[i] = landed] /\ \A s \in Segments : s # h => flash'[s] = flash[s]
    BY <1>2, <1>3, <2>1 DEF Flash
  <2>3. landed \in SlotValues
    BY <1>2 DEF SlotValues
  <2>4. /\ flash'[h].header = flash[h].header
        /\ flash'[h].slots = [flash[h].slots EXCEPT ![i] = landed]
    BY <1>3, <2>2 DEF Segment
  <2>5. flash'[h].slots \in [Slots -> SlotValues]
    BY <1>3, <2>3, <2>4
  <2>6. flash'[h] \in Segment
    <3>1. flash[h].header \in -MaxRecords .. MaxRecords
      BY <1>3 DEF Segment
    <3>2. flash'[h] = [header |-> flash'[h].header, slots |-> flash'[h].slots]
      BY <1>3, <2>2 DEF Segment
    <3>3. QED BY <2>4, <2>5, <3>1, <3>2 DEF Segment, SlotValues
  <2>7. flash' \in Flash
    BY <1>2, <1>3, <2>1, <2>2, <2>6 DEF Flash
  <2>8. QED BY <1>3, <1>4, <2>2, <2>4, <2>7
<1>7. ASSUME NEW landed \in {Erased, Torn, record}, WriteSlot(h, i, landed),
             NEW q \in Ring, q.tail = ring.tail, q.used = ring.used, q.epoch = ring.epoch, q.clean = ring.clean,
             \A s \in Segments : s # h => q.lens[s] = ring.lens[s],
             \/ q.sealed /\ q.lens[h] = ring.lens[h]
             \/ q.lens[h] = i /\ landed = record
      PROVE  /\ flash' \in Flash /\ Holds(flash', q, record, record)
             /\ landed = record => Surviving(flash') = Append(Surviving(flash), record)
             /\ landed # record => Surviving(flash') = Surviving(flash)
  <2>1. /\ flash' \in Flash /\ \A s \in Segments : s # h => flash'[s] = flash[s]
        /\ flash'[h].header = flash[h].header /\ flash'[h].slots[i] = landed
        /\ \A j \in Slots : j # i => flash'[h].slots[j] = flash[h].slots[j]
    BY <1>6, <1>7
  <2>2. PICK j \in Int : j = i
    BY <1>4
  <2>3. /\ j = ring.lens[HeadOf(ring)] + 1
        /\ \A a \in Slots : a # j => flash'[HeadOf(ring)].slots[a] = flash[HeadOf(ring)].slots[a]
        /\ flash'[HeadOf(ring)].slots[j] = landed
        /\ \/ q.sealed /\ q.lens[HeadOf(ring)] = ring.lens[HeadOf(ring)]
           \/ q.lens[HeadOf(ring)] = j /\ landed = record
    BY <1>7, <2>1, <2>2
  <2>4. Holds(flash', q, record, record)
    BY <1>2, <1>5, <1>7, <2>1, <2>3, SlotWritten
  <2>5. /\ landed = record => Surviving(flash') = Append(Surviving(flash), record)
        /\ landed # record => Surviving(flash') = Surviving(flash)
    BY <1>2, <1>5, <1>7, <2>1, <2>3, SlotWrittenLog
  <2>6. QED BY <2>1, <2>4, <2>5
<1>8. flash[h].slots[i] = Erased
  <2>1. Filled(flash, ring, v) /\ ~ring.sealed /\ ring.used > 0
    BY <1>2 DEF Holds, HeadOpen
  <2>2. i > ring.lens[h]
    BY <1>4
  <2>3. QED BY <1>4, <2>1, <2>2 DEF Filled
<1>9. landings = {Erased, Torn, record}
  BY <1>8 DEF SlotLandings
<1>10. /\ ring.used \in 0 .. NSegments /\ ring.tail \in Segments /\ ring.epoch \in {0} \cup Epochs
       /\ ring.lens \in [Segments -> 0 .. PerSegment] /\ ring.clean \in [Segments -> BOOLEAN] /\ ring.sealed \in BOOLEAN
  BY <1>2 DEF Ring
<1>11. Surviving(flash) \in Seq(SlotValues) /\ 2 * PerSegment - 1 \in Nat
  BY <1>2, SurvivingType, SlotConstants
<1> HIDE DEF landings, i, h
<1>12. ASSUME WriteSlot(h, i, record), ring' = [ring EXCEPT !.lens[h] = @ + 1], pc' = "Idle"
       PROVE  RingInv' /\ LogStep
  <2>1. ring' = [ring EXCEPT !.lens[h] = ring.lens[h] + 1]
    BY <1>2, <1>3, <1>10, <1>12
  <2>2. ring' = [ring EXCEPT !.lens[h] = i]
    BY <2>1 DEF i
  <2>3. i \in 0 .. PerSegment
    BY <1>4, SlotConstants DEF Slots
  <2>4. [ring.lens EXCEPT ![h] = i] \in [Segments -> 0 .. PerSegment]
    BY <1>3, <1>10, <2>3
  <2>5. ring' = [ring EXCEPT !.lens = [ring.lens EXCEPT ![h] = i]]
    BY <1>2, <2>2 DEF Ring
  <2>6. /\ ring' \in Ring /\ ring'.tail = ring.tail /\ ring'.used = ring.used /\ ring'.epoch = ring.epoch
        /\ ring'.clean = ring.clean /\ ring'.lens = [ring.lens EXCEPT ![h] = i]
    BY <1>2, <2>4, <2>5 DEF Ring
  <2>7. ring'.lens[h] = i /\ \A s \in Segments : s # h => ring'.lens[s] = ring.lens[s]
    BY <1>3, <1>10, <2>6
  <2>8. PICK q \in Ring : q = ring'
    BY <2>6
  <2>9. /\ q.tail = ring.tail /\ q.used = ring.used /\ q.epoch = ring.epoch /\ q.clean = ring.clean
        /\ q.lens[h] = i /\ \A s \in Segments : s # h => q.lens[s] = ring.lens[s]
    BY <2>6, <2>7, <2>8
  <2>10. /\ flash' \in Flash /\ Holds(flash', q, record, record)
         /\ Surviving(flash') = Append(Surviving(flash), record)
    BY <1>7, <1>12, <2>9
  <2>11. AtPc(ring', pc')
    BY <1>12 DEF AtPc
  <2>12. TypeOK'
    BY <1>1, <1>2, <1>12, <2>6, <2>10 DEF TypeOK, Flash
  <2>13. Given(pc', record') = record /\ Started(pc', record') = record
    BY <1>1, <1>12 DEF Given, Started
  <2>14. RingInv'
    BY <1>12, <2>8, <2>10, <2>11, <2>12, <2>13 DEF RingInv
  <2>15. QED BY <1>1, <2>10, <2>14 DEF LogStep
<1>13. ASSUME NEW landed \in landings, WriteSlot(h, i, landed),
              (ring' = [ring EXCEPT !.sealed = TRUE] /\ pc' = "Idle") \/ LosePower
       PROVE  RingInv' /\ LogStep
  <2>1. PICK q \in Ring : q = [ring EXCEPT !.sealed = TRUE]
    <3>1. [ring EXCEPT !.sealed = TRUE] \in Ring
      BY <1>2 DEF Ring
    <3>2. QED BY <3>1
  <2>2. /\ q.tail = ring.tail /\ q.used = ring.used /\ q.epoch = ring.epoch /\ q.clean = ring.clean
        /\ q.lens = ring.lens /\ q.sealed
    BY <1>2, <2>1 DEF Ring
  <2>3. landed \in {Erased, Torn, record}
    BY <1>9, <1>13
  <2>4. /\ flash' \in Flash /\ Holds(flash', q, record, record)
        /\ landed = record => Surviving(flash') = Append(Surviving(flash), record)
        /\ landed # record => Surviving(flash') = Surviving(flash)
    BY <1>7, <1>13, <2>2, <2>3
  <2>5. RingInv'
    <3>1. CASE LosePower
      <4>1. record \in {0} \cup Records /\ record \in Int
        BY <1>2
      <4>2. QED BY <1>1, <1>2, <2>4, <3>1, <4>1, OffStep
    <3>2. CASE ring' = [ring EXCEPT !.sealed = TRUE] /\ pc' = "Idle"
      <4>1. AtPc(ring', pc')
        BY <3>2 DEF AtPc
      <4>2. TypeOK'
        BY <1>1, <1>2, <2>1, <2>4, <3>2 DEF TypeOK, Flash
      <4>3. Given(pc', record') = record /\ Started(pc', record') = record
        BY <1>1, <3>2 DEF Given, Started
      <4>4. QED BY <2>1, <2>4, <3>2, <4>1, <4>2, <4>3 DEF RingInv
    <3>3. QED BY <1>13, <3>1, <3>2
  <2>6. LogStep
    <3>1. CASE landed = record
      BY <1>1, <2>4, <3>1 DEF LogStep
    <3>2. CASE landed # record
      <4>1. FrontLoss(Surviving(flash), Surviving(flash'), 2 * PerSegment - 1)
        BY <1>11, <2>4, <3>2, LossNone
      <4>2. ~Acknowledged
        <5>1. CASE LosePower
          BY <5>1 DEF LosePower, Acknowledged
        <5>2. CASE ring' = [ring EXCEPT !.sealed = TRUE]
          BY <2>1, <2>2, <5>2 DEF Acknowledged
        <5>3. QED BY <1>13, <5>1, <5>2
      <4>3. QED BY <4>1, <4>2 DEF LogStep
    <3>3. QED BY <3>1, <3>2
  <2>7. QED BY <2>5, <2>6
<1>14. \/ /\ WriteSlot(h, i, IF record \in landings THEN record ELSE Torn)
          /\ ring' = [ring EXCEPT !.lens[h] = @ + 1]
          /\ pc' = "Idle"
       \/ /\ \E landed \in landings : WriteSlot(h, i, landed)
          /\ (ring' = [ring EXCEPT !.sealed = TRUE] /\ pc' = "Idle") \/ LosePower
  BY DEF WriteRecord, h, i, landings
<1>15. record \in landings
  BY <1>9
<1>16. QED BY <1>12, <1>13, <1>14, <1>15

-----------------------------------------------------------------------------
(* The invariant. *)

HInv == RingInv /\ durable = Surviving(flash)

\* An erased flash holds an empty ring.
LEMMA InitHolds ==
  ASSUME HInit
  PROVE  HInv
<1>1. /\ flash = [s \in Segments |-> Blank] /\ ring = NoRing /\ pc = "Off" /\ record = 0 /\ durable = <<>>
  BY DEF HInit, Init
<1>2. 0 \in Segments /\ 0 \in 0 .. NSegments
  BY TwoSegments DEF Segments
<1>3. Blank \in Segment /\ Blank.header = Erased
  <2>1. Erased \in -MaxRecords .. MaxRecords
    BY SlotConstants DEF Erased
  <2>2. QED BY <2>1 DEF Blank, Segment
<1>4. flash \in Flash
  BY <1>1, <1>3 DEF Flash
<1>5. \A s \in Segments : ~Live(flash, s)
  BY <1>1, <1>3, LiveFacts
<1>6. OnFlash(flash, 0, 0)
  <2>1. \A n \in 0 .. NSegments - 1 : Before(0, n) \in Segments
    <3>1. \A n \in 0 .. NSegments - 1 : n \in 0 .. NSegments
      BY SlotConstants
    <3>2. QED BY <1>2, <3>1, BeforeIs
  <2>2. QED BY <1>5, <2>1 DEF OnFlash
<1>7. Run(flash, 0, 0, record)
  BY <1>6 DEF Run, Ascending, UpTo
<1>8. FlashInv(flash, record)
  BY <1>2, <1>7 DEF FlashInv
<1>9. NoRing \in Ring
  BY SlotConstants DEF NoRing, Ring, Segments
<1>10. RingInv
  BY <1>1, <1>4, <1>8, <1>9 DEF RingInv, TypeOK, Flash
<1>11. Surviving(flash) = Strung(flash, 0, Kept(flash, 0, 0), Lengths(flash))
  BY <1>2, <1>4, <1>6, SurvivingIs
<1>12. Kept(flash, 0, 0) = 0
  BY DEF Kept
<1>13. QED BY <1>1, <1>10, <1>11, <1>12, StrungNone DEF HInv

\* Every flash operation keeps the invariant, and takes a beginning of the log or adds the record.
LEMMA RingStepHolds ==
  ASSUME RingInv, Next
  PROVE  RingInv' /\ LogStep
BY OpenStep, RepairStep, GiveStep, DropStep, EraseStep, StartStep, WriteStep, PowerLossStep DEF Next

\* So does every step with its history.
LEMMA StepHolds ==
  ASSUME HInv, [HNext]_hvars
  PROVE  HInv'
<1>1. CASE HNext
  BY <1>1, RingStepHolds DEF HInv, HNext
<1>2. CASE UNCHANGED hvars
  <2>1. flash' = flash /\ ring' = ring /\ pc' = pc /\ record' = record /\ durable' = durable
    BY <1>2 DEF hvars, vars, history
  <2>2. RingInv'
    BY <2>1 DEF HInv, RingInv, TypeOK
  <2>3. QED BY <2>1, <2>2 DEF HInv
<1>3. QED BY <1>1, <1>2

(* Whatever is cut or fails, at every flash operation: Open finds a run of *)
(* consecutive segments on the flash, the ring in memory describes that run*)
(* but for the one segment being dropped or started, the records in it are in*)
(* order, and what a power loss would leave now is the history's durable log.*)
THEOREM RingHolds == HSpec => []HInv
<1>1. HInit => HInv
  BY InitHolds
<1>2. HInv /\ [HNext]_hvars => HInv'
  BY StepHolds
<1>3. QED BY <1>1, <1>2, PTL DEF HSpec

-----------------------------------------------------------------------------
(* The log. *)

\* What is left of a log after a loss.
LEMMA CatTail ==
  ASSUME NEW S, NEW x \in Seq(S), NEW b \in Seq(S)
  PROVE  SubSeq(Cat(x, b), Len(x) + 1, Len(Cat(x, b))) = b /\ Len(x) <= Len(Cat(x, b))
<1> DEFINE a == Cat(x, b)
<1>1. /\ a \in Seq(S) /\ Len(a) = Len(x) + Len(b) /\ Len(x) \in Nat /\ Len(b) \in Nat
      /\ \A i \in 1 .. Len(b) : a[Len(x) + i] = b[i]
  BY CatIs, CatEntries
<1> HIDE DEF a
<1>2. PICK n \in Nat : n = Len(x)
  BY <1>1
<1> DEFINE c == SubSeq(a, n + 1, Len(a))
<1>3. c \in Seq(S) /\ Len(c) = Len(b) /\ \A i \in 1 .. Len(b) : c[i] = a[n + i]
  <2>1. n + 1 \in Int /\ Len(a) \in Int /\ n + 1 >= 1 /\ Len(a) <= Len(a) /\ Len(a) = n + Len(b)
    BY <1>1, <1>2
  <2>2. \A i \in n + 1 .. Len(a) : a[i] \in S
    BY <1>1, <1>2
  <2>3. c \in Seq(S) /\ Len(c) = (IF n + 1 <= Len(a) THEN Len(a) - (n + 1) + 1 ELSE 0)
        /\ \A i \in 1 .. Len(a) - (n + 1) + 1 : c[i] = a[n + 1 + i - 1]
    <3>1. PICK l \in Int, m \in Int : l = n + 1 /\ m = Len(a)
      BY <2>1
    <3>2. \A i \in l .. m : a[i] \in S
      BY <2>2, <3>1
    <3>3. /\ SubSeq(a, l, m) \in Seq(S) /\ Len(SubSeq(a, l, m)) = IF l <= m THEN m - l + 1 ELSE 0
          /\ \A i \in 1 .. m - l + 1 : SubSeq(a, l, m)[i] = a[l + i - 1]
      BY <3>2, SubSeqProperties
    <3>4. QED BY <3>1, <3>3 DEF c
  <2>4. Len(a) - (n + 1) + 1 = Len(b) /\ \A i \in 1 .. Len(b) : n + 1 + i - 1 = n + i
    BY <1>1, <1>2, <2>1
  <2>5. QED BY <1>1, <2>1, <2>3, <2>4
<1> HIDE DEF c
<1>4. \A i \in 1 .. Len(b) : c[i] = b[i]
  BY <1>1, <1>2, <1>3
<1>5. c = b
  BY <1>3, <1>4
<1>6. QED BY <1>1, <1>2, <1>5 DEF a, c

\* No record of the log is newer than the ring knows.
LEMMA LogUpTo ==
  ASSUME NEW f \in Flash, NEW r \in Ring, NEW v, NEW e, Holds(f, r, v, e)
  PROVE  \A a \in 1 .. Len(Surviving(f)) : Surviving(f)[a] <= v
<1> DEFINE h == HeadOf(r)  k == Keeps(f, r)  L == Lengths(f)  log == Strung(f, h, k, L)
<1>1. /\ h \in Segments /\ r.used \in 0 .. NSegments /\ NSegments \in Nat
      /\ \A n \in 0 .. NSegments - 1 : At(r, n) \in Segments
  BY AtIs
<1>2. Surviving(f) = log /\ k \in 0 .. r.used /\ L \in LensType
  <2>1. Alive(f, r) \in 0 .. r.used
    BY AliveIs
  <2>2. QED BY <1>1, <2>1, KeepsIs
<1> HIDE DEF h, k, L
<1>3. k \in 0 .. NSegments
  BY <1>1, <1>2
<1>4. \A a \in 1 .. Len(log) : \E n \in 0 .. k - 1 : \E i \in 1 .. L[Before(h, n)] : log[a] = f[Before(h, n)].slots[i]
  <2>1. StrungFrom(f, h, k, L)
    BY <1>1, <1>2, <1>3, StrungPlaces, Zenon
  <2>2. QED BY <2>1 DEF StrungFrom, log
<1>5. ASSUME NEW n \in 0 .. k - 1, NEW i \in 1 .. L[Before(h, n)]
      PROVE  f[Before(h, n)].slots[i] <= v
  <2>1. n \in 0 .. r.used - 1 /\ n \in 0 .. NSegments - 1
    BY <1>1, <1>2
  <2>2. L[Before(h, n)] \in 0 .. PerSegment
    BY <1>1, <1>2, <2>1 DEF LensType, At, h
  <2>3. i \in Slots
    BY <2>2, SlotConstants DEF Slots
  <2>4. UpTo(f, h, r.used, v)
    BY DEF Holds, Filled, h
  <2>5. QED BY <2>1, <2>3, <2>4 DEF UpTo
<1>6. QED BY <1>2, <1>4, <1>5

\* What the invariant says of the type of the log, whatever the power does.
LEMMA ReadType ==
  ASSUME NEW f \in Flash, NEW r \in Ring, NEW p, NEW n,
         p = "Off" => FlashInv(f, n), p # "Off" => Holds(f, r, Given(p, n), Started(p, n))
  PROVE  Surviving(f) \in Seq(SlotValues)
<1>1. CASE p # "Off"
  BY <1>1, SurvivingType
<1>2. CASE p = "Off"
  <2>1. PICK h \in Segments, k \in 0 .. NSegments : OnFlash(f, h, k)
    BY <1>2 DEF FlashInv, Run
  <2>2. Kept(f, h, k) \in 0 .. NSegments
    BY SlotConstants DEF Kept
  <2>3. QED BY <2>1, <2>2, SurvivingIs, StrungType, LengthsType
<1>3. QED BY <1>1, <1>2

\* A flash operation is a step of the log.
LEMMA StepOfLog ==
  ASSUME HInv, HNext
  PROVE  (Log!Next \/ UNCHANGED durable) /\ (Acknowledged => record \in Range(durable'))
<1>1. /\ RingInv /\ RingInv' /\ LogStep /\ durable = Surviving(flash) /\ durable' = Surviving(flash')
  BY RingStepHolds DEF HInv, HNext
<1> DEFINE m == 2 * PerSegment - 1
<1>2. m \in Nat
  BY SlotConstants
<1> HIDE DEF m
<1>3. CASE FrontLoss(Surviving(flash), Surviving(flash'), 2 * PerSegment - 1) /\ ~Acknowledged
  <2>1. PICK x \in Seq(SlotValues) : durable = Cat(x, durable') /\ Len(x) <= m
    BY <1>1, <1>3 DEF FrontLoss, m
  <2>2. durable' \in Seq(SlotValues)
    <3>1. /\ flash' \in Flash /\ ring' \in Ring /\ (pc' = "Off" => FlashInv(flash', record'))
          /\ pc' # "Off" => Holds(flash', ring', Given(pc', record'), Started(pc', record'))
      BY <1>1 DEF RingInv, TypeOK, Flash
    <3>2. QED BY <1>1, <3>1, ReadType
  <2>3. Len(x) \in Nat
    BY <2>1
  <2>4. CASE Len(x) = 0
    <3>1. x = Nil
      BY <2>4 DEF Nil
    <3>2. durable = durable'
      BY <2>1, <2>2, <3>1, CatIs
    <3>3. QED BY <1>3, <3>2
  <2>5. CASE Len(x) # 0
    <3>1. SubSeq(durable, Len(x) + 1, Len(durable)) = durable' /\ Len(x) <= Len(durable)
      BY <2>1, <2>2, CatTail
    <3>2. Len(x) \in 1 .. m
      BY <1>2, <2>1, <2>3, <2>5
    <3>3. Log!Forget(Len(x))
      BY <3>1 DEF Log!Forget
    <3>4. Log!Next
      BY <3>2, <3>3 DEF Log!Next, m
    <3>5. QED BY <1>3, <3>4
  <2>6. QED BY <2>4, <2>5
<1>4. CASE Surviving(flash') = Append(Surviving(flash), record) /\ pc = "Record"
  <2>1. durable' = Append(durable, record)
    BY <1>1, <1>4
  <2>2. /\ flash \in Flash /\ ring \in Ring /\ record \in Records /\ record \in Nat
        /\ Holds(flash, ring, record - 1, record)
    <3>1. Given(pc, record) = record - 1 /\ Started(pc, record) = record
      BY <1>4 DEF Given, Started
    <3>2. QED BY <1>1, <1>4, <3>1, InvFacts
  <2>3. durable \in Seq(SlotValues)
    BY <1>1, <2>2, SurvivingType
  <2>4. durable = <<>> \/ Last(durable) < record
    <3>1. SUFFICES ASSUME durable # <<>>
                   PROVE  durable[Len(durable)] < record
      BY DEF Last
    <3>2. Len(durable) \in 1 .. Len(durable)
      BY <2>3, <3>1
    <3>3. durable[Len(durable)] <= record - 1
      BY <1>1, <2>2, <3>2, LogUpTo
    <3>4. durable[Len(durable)] \in SlotValues
      BY <2>3, <3>2
    <3>5. durable[Len(durable)] \in Int
      BY <3>4, SlotFacts
    <3>6. QED BY <2>2, <3>3, <3>5
  <2>5. Log!Land(record)
    BY <2>1, <2>4 DEF Log!Land, Log!Last, Last
  <2>6. Log!Next
    BY <2>2, <2>5 DEF Log!Next
  <2>7. record \in Range(durable')
    <3>1. record \in SlotValues
      BY <2>2 DEF SlotValues
    <3>2. /\ Append(durable, record)[Len(durable) + 1] = record
          /\ Len(durable) + 1 \in DOMAIN Append(durable, record)
      BY <2>3, <3>1
    <3>3. QED BY <2>1, <3>2 DEF Range
  <2>8. QED BY <2>6, <2>7
<1>5. QED BY <1>1, <1>3, <1>4 DEF LogStep

(* The ring is a log that only loses its oldest records, less than two     *)
(* segments of them at once, gains each record at its end, and holds every *)
(* record whose Append returned true.                                      *)
THEOREM LogImplemented == HSpec => ImplementsLog
<1>1. HInit => Log!Init
  BY DEF HInit, Log!Init
<1>2. HInv /\ [HNext]_hvars => [Log!Next]_durable
  <2>1. UNCHANGED hvars => UNCHANGED durable
    BY DEF hvars, history
  <2>2. QED BY <2>1, StepOfLog
<1>3. HInv /\ [HNext]_hvars => [Acknowledged => record \in Range(durable')]_hvars
  BY StepOfLog
<1>4. QED BY <1>1, <1>2, <1>3, RingHolds, PTL DEF HSpec, ImplementsLog, AckedIsDurable, Log!Spec

-----------------------------------------------------------------------------
(* What the ring reports. *)

\* What the ring reports is in order, and a power loss would take a beginning of it.
LEMMA ReportedIs ==
  ASSUME NEW f \in Flash, NEW r \in Ring, NEW v, NEW e, Holds(f, r, v, e)
  PROVE  LET log == Slotted(f, r)
         IN /\ log \in Seq(SlotValues)
            /\ \A a, b \in 1 .. Len(log) : a < b /\ Valid(log[a]) /\ Valid(log[b]) => log[a] < log[b]
            /\ \A a \in 1 .. Len(log) : Valid(log[a]) =>
                 log[a] \in Range(Surviving(f)) \/ \A x \in Range(Surviving(f)) : log[a] < x
<1> DEFINE h == HeadOf(r)  u == r.used  k == Keeps(f, r)  lens == r.lens  L == Lengths(f)
           log == Strung(f, h, u, lens)  durable_ == Strung(f, h, k, L)
<1>1. /\ h \in Segments /\ u \in 0 .. NSegments /\ NSegments \in Nat
      /\ \A n \in 0 .. NSegments - 1 : Before(h, n) \in Segments
  BY AtIs DEF At
<1>2. Slotted(f, r) = log /\ lens \in LensType
  BY SlottedIs DEF Ring, LensType
<1>3. Surviving(f) = durable_ /\ k \in 0 .. Alive(f, r) /\ k \in 0 .. u /\ L \in LensType /\ Alive(f, r) \in 0 .. u
  <2>1. Alive(f, r) \in 0 .. r.used
    BY AliveIs
  <2>2. QED BY <1>1, <2>1, KeepsIs
<1>4. \A n \in 0 .. k - 1 : ValidFirst(f[Before(h, n)].slots) /\ L[Before(h, n)] = ValidLength(f[Before(h, n)].slots)
  <2> TAKE n \in 0 .. k - 1
  <2>1. n \in 0 .. Alive(f, r) - 1 /\ n \in 0 .. u - 1 /\ n \in 0 .. NSegments - 1
    BY <1>1, <1>3
  <2>2. Live(f, At(r, n))
    BY <2>1, AliveIs
  <2>3. ValidFirst(f[At(r, n)].slots)
    BY <2>1, <2>2 DEF Holds, Filled
  <2>4. Before(h, n) \in Segments
    BY <1>1, <2>1
  <2>5. QED BY <2>3, <2>4 DEF At, Lengths
<1>5. Ascending(f, h, u)
  BY DEF Holds, Filled
<1> HIDE DEF h, u, k, lens, L
<1>6. /\ log \in Seq(SlotValues) /\ StrungFrom(f, h, u, lens)
      /\ durable_ \in Seq(SlotValues) /\ StrungFrom(f, h, k, L)
  <2>1. k \in 0 .. NSegments
    BY <1>1, <1>3
  <2>2. QED BY <1>1, <1>2, <1>3, <2>1, StrungType, StrungPlaces
<1>7. \A n \in 0 .. u - 1 : \A i \in 1 .. lens[Before(h, n)] : i \in Slots
  <2> TAKE n \in 0 .. u - 1
  <2>1. Before(h, n) \in Segments
    BY <1>1
  <2>2. lens[Before(h, n)] \in 0 .. PerSegment
    BY <1>2, <2>1 DEF LensType
  <2>3. QED BY <2>2, SlotConstants DEF Slots
<1>8. \A n \in 0 .. k - 1 : n \in 0 .. u - 1 /\ \A i \in 1 .. L[Before(h, n)] : i \in Slots
  <2> TAKE n \in 0 .. k - 1
  <2>1. n \in 0 .. u - 1 /\ n \in 0 .. NSegments - 1
    BY <1>1, <1>3
  <2>2. L[Before(h, n)] \in 0 .. PerSegment
    BY <1>1, <1>3, <2>1 DEF LensType
  <2>3. QED BY <2>1, <2>2, SlotConstants DEF Slots
<1> HIDE DEF log, durable_
<1>9. /\ \A a \in 1 .. Len(log) : \E n \in 0 .. u - 1 : \E i \in 1 .. lens[Before(h, n)] : log[a] = f[Before(h, n)].slots[i]
      /\ \A a, b \in 1 .. Len(log) : a < b =>
           \E n, m \in 0 .. u - 1 : \E i \in 1 .. lens[Before(h, n)], j \in 1 .. lens[Before(h, m)] :
             /\ n > m \/ (n = m /\ i < j)
             /\ log[a] = f[Before(h, n)].slots[i] /\ log[b] = f[Before(h, m)].slots[j]
  BY <1>6, Zenon DEF StrungFrom, log
<1>10. /\ \A a \in 1 .. Len(durable_) : \E n \in 0 .. k - 1 : \E i \in 1 .. L[Before(h, n)] :
            durable_[a] = f[Before(h, n)].slots[i]
       /\ \A n \in 0 .. k - 1 : \A i \in 1 .. L[Before(h, n)] :
            \E a \in 1 .. Len(durable_) : durable_[a] = f[Before(h, n)].slots[i]
  BY <1>6, Zenon DEF StrungFrom, durable_
<1>11. ASSUME NEW a \in 1 .. Len(log), NEW b \in 1 .. Len(log), a < b, Valid(log[a]), Valid(log[b])
       PROVE  log[a] < log[b]
  <2>1. PICK n \in 0 .. u - 1, m \in 0 .. u - 1 : \E i \in 1 .. lens[Before(h, n)], j \in 1 .. lens[Before(h, m)] :
          /\ n > m \/ (n = m /\ i < j)
          /\ log[a] = f[Before(h, n)].slots[i] /\ log[b] = f[Before(h, m)].slots[j]
    BY <1>9, <1>11
  <2>2. PICK i \in 1 .. lens[Before(h, n)], j \in 1 .. lens[Before(h, m)] :
          /\ n > m \/ (n = m /\ i < j)
          /\ log[a] = f[Before(h, n)].slots[i] /\ log[b] = f[Before(h, m)].slots[j]
    BY <2>1
  <2>3. i \in Slots /\ j \in Slots
    BY <1>7
  <2>4. QED BY <1>5, <1>11, <2>2, <2>3 DEF Ascending
<1>12. ASSUME NEW a \in 1 .. Len(log), Valid(log[a])
       PROVE  log[a] \in Range(durable_) \/ \A x \in Range(durable_) : log[a] < x
  <2>1. PICK n \in 0 .. u - 1 : \E i \in 1 .. lens[Before(h, n)] : log[a] = f[Before(h, n)].slots[i]
    BY <1>9
  <2>2. PICK i \in 1 .. lens[Before(h, n)] : log[a] = f[Before(h, n)].slots[i]
    BY <2>1
  <2>3. i \in Slots /\ i \in Int
    BY <1>7, SlotConstants DEF Slots
  <2>4. Range(durable_) = {durable_[b] : b \in 1 .. Len(durable_)}
    BY <1>6 DEF Range
  <2>5. CASE n \in 0 .. k - 1
    <3>1. i <= L[Before(h, n)]
      BY <1>4, <1>12, <2>2, <2>3, <2>5, ValidLengthTells
    <3>2. i \in 1 .. L[Before(h, n)]
      <4>1. L[Before(h, n)] \in Int
        <5>1. n \in 0 .. NSegments - 1
          BY <1>1
        <5>2. QED BY <1>1, <1>3, <5>1, SlotConstants DEF LensType
      <4>2. QED BY <2>3, <3>1, <4>1
    <3>3. QED BY <1>10, <2>2, <2>4, <2>5, <3>2
  <2>6. CASE n \notin 0 .. k - 1
    <3>1. SUFFICES ASSUME NEW b \in 1 .. Len(durable_)
                   PROVE  log[a] < durable_[b]
      BY <2>4
    <3>2. PICK m \in 0 .. k - 1 : \E j \in 1 .. L[Before(h, m)] : durable_[b] = f[Before(h, m)].slots[j]
      BY <1>10
    <3>3. PICK j \in 1 .. L[Before(h, m)] : durable_[b] = f[Before(h, m)].slots[j]
      BY <3>2
    <3>4. j \in Slots /\ m \in 0 .. u - 1 /\ n > m
      BY <1>1, <1>3, <1>8, <2>6
    <3>5. j <= L[Before(h, m)]
      <4>1. m \in 0 .. NSegments - 1
        BY <1>1, <1>3
      <4>2. L[Before(h, m)] \in Int
        BY <1>1, <1>3, <4>1, SlotConstants DEF LensType
      <4>3. QED BY <4>2
    <3>6. Valid(f[Before(h, m)].slots[j])
      BY <1>4, <3>4, <3>5, ValidLengthTells
    <3>7. QED BY <1>5, <1>12, <2>2, <2>3, <3>3, <3>4, <3>6 DEF Ascending
  <2>7. QED BY <2>5, <2>6
<1>13. QED BY <1>2, <1>3, <1>6, <1>11, <1>12

\* The same of the state between two Appends.
LEMMA ReportedOrder ==
  ASSUME HInv, pc = "Idle"
  PROVE  /\ Reported \in Seq(SlotValues) /\ Reported \in Seq(Int) /\ DOMAIN Reported = 1 .. Len(Reported)
         /\ \A a, b \in DOMAIN Reported :
              a < b /\ Valid(Reported[a]) /\ Valid(Reported[b]) => Reported[a] < Reported[b]
         /\ \A a \in DOMAIN Reported : Valid(Reported[a]) =>
              Reported[a] \in Range(durable) \/ \A x \in Range(durable) : Reported[a] < x
<1>1. /\ flash \in Flash /\ ring \in Ring /\ Holds(flash, ring, Given(pc, record), Started(pc, record))
      /\ durable = Surviving(flash)
  BY InvFacts DEF HInv
<1> DEFINE log == Slotted(flash, ring)
<1>2. /\ log \in Seq(SlotValues)
      /\ \A a, b \in 1 .. Len(log) : a < b /\ Valid(log[a]) /\ Valid(log[b]) => log[a] < log[b]
      /\ \A a \in 1 .. Len(log) : Valid(log[a]) =>
           log[a] \in Range(Surviving(flash)) \/ \A x \in Range(Surviving(flash)) : log[a] < x
  BY <1>1, ReportedIs
<1> HIDE DEF log
<1>3. DOMAIN log = 1 .. Len(log)
  BY <1>2
<1>4. log \in Seq(Int)
  <2>1. \A s \in SlotValues : s \in Int
    BY SlotFacts
  <2>2. \A i \in 1 .. Len(log) : log[i] \in SlotValues
    BY <1>2
  <2>3. \A i \in 1 .. Len(log) : log[i] \in Int
    BY <2>2, <2>1
  <2>4. Len(log) \in Nat /\ log \in [1 .. Len(log) -> SlotValues]
    BY <1>2
  <2>5. log \in [1 .. Len(log) -> Int]
    BY <2>3, <2>4
  <2>6. QED BY <2>4, <2>5, SeqDef
<1>5. Reported = log
  BY DEF Reported, log
<1>6. QED BY <1>1, <1>2, <1>3, <1>4, <1>5

(* The records that the open ring reports are in order, also with a hole that*)
(* a failed drop left, and a power loss takes only a beginning of them.    *)
THEOREM ReportedSurvivesAlways == HSpec => []ReportedSurvives
<1>1. HInv => ReportedSurvives
  <2> SUFFICES ASSUME HInv, pc = "Idle"
               PROVE  LET log == Reported
                          readable == {i \in DOMAIN log : Valid(log[i])}
                      IN /\ \A i, j \in readable : i < j => log[i] < log[j]
                         /\ \A i \in readable : log[i] \in Range(durable) \/ (\A r \in Range(durable) : log[i] < r)
    BY DEF ReportedSurvives
  <2>1. QED BY ReportedOrder
<1>2. QED BY <1>1, RingHolds, PTL

(* The binary search over the records that the ring reports, some of which may*)
(* be unreadable, passes over no record from the number looked for on.     *)
THEOREM LookupMissesNoneAlways == HSpec => []LookupMissesNone
<1>1. HInv => LookupMissesNone
  <2> SUFFICES ASSUME HInv, pc = "Idle", NEW seq \in Records, NEW i \in DOMAIN Reported,
                      Valid(Reported[i]), Reported[i] >= seq
               PROVE  i > LowerBound(Reported, seq)
    BY DEF LookupMissesNone
  <2> DEFINE log == Reported  found == LowerBound(log, seq)
  <2>1. /\ log \in Seq(Int) /\ DOMAIN log = 1 .. Len(log)
        /\ \A a, b \in DOMAIN log : a < b /\ Valid(log[a]) /\ Valid(log[b]) => log[a] < log[b]
    BY ReportedOrder
  <2> HIDE DEF log
  <2>2. found \in 0 .. Len(log) /\ (found # 0 => Valid(log[found]) /\ log[found] < seq)
    BY <2>1, LowerBoundIs
  <2> HIDE DEF found
  <2>3. SUFFICES ASSUME i <= found
                 PROVE  FALSE
    BY <2>1, <2>2 DEF log, found
  <2>4. i \in 1 .. Len(log) /\ i \in DOMAIN log /\ Valid(log[i]) /\ log[i] >= seq
    BY <2>1 DEF log
  <2>5. found \in DOMAIN log /\ found # 0
    BY <2>1, <2>2, <2>3, <2>4
  <2>6. seq \in Int /\ log[i] \in Int /\ log[found] \in Int
    BY <2>1, <2>4, <2>5, SlotConstants DEF Records
  <2>7. i < found \/ i = found
    BY <2>2, <2>3, <2>4
  <2>8. QED BY <2>1, <2>2, <2>4, <2>5, <2>6, <2>7
<1>2. QED BY <1>1, RingHolds, PTL

-----------------------------------------------------------------------------
(* As long as nothing goes wrong. *)

Least == (NSegments - 1) * PerSegment

\* The last records up to v, and enough of them.
Numbered(log, v) == log = [i \in 1 .. Len(log) |-> v - Len(log) + i]
CalmLog(log, v, p) ==
  /\ Numbered(log, v)
  /\ Len(log) = v \/ Len(log) >= Least
  /\ p \in {"Off", "Idle", "Drop"} => Len(log) = v \/ Len(log) > Least

\* Every segment but the newest is full, and no write was cut.
CalmFlash(f, last) ==
  \E h \in Segments, k \in 0 .. NSegments :
    /\ Run(f, h, k, last)
    /\ \A n \in 1 .. k - 1 : \A i \in Slots : Valid(f[Before(h, n)].slots[i])
    /\ k > 0 => \A i \in Slots : f[h].slots[i] # Torn

CalmRing(f, r) ==
  /\ ~r.sealed
  /\ \A n \in 0 .. r.used - 1 :
       /\ Live(f, At(r, n))
       /\ \A i \in Slots : Valid(f[At(r, n)].slots[i]) <=> i <= r.lens[At(r, n)]
  /\ \A n \in 1 .. r.used - 1 : r.lens[At(r, n)] = PerSegment
  /\ \A n \in r.used .. NSegments - 1 : ~Live(f, At(r, n))

CalmNow ==
  /\ CalmLog(durable, Given(pc, record), pc)
  /\ pc # "Repair"
  /\ pc = "Off" => CalmFlash(flash, record)
  /\ pc # "Off" => CalmRing(flash, ring)

CalmInv == calm => CalmNow

\* What the ring holds is what would survive.
LEMMA CalmSurvives ==
  ASSUME NEW f \in Flash, NEW r \in Ring, NEW v, NEW e, Holds(f, r, v, e), CalmRing(f, r)
  PROVE  /\ ~Ahead(f, r) /\ Alive(f, r) = r.used /\ Keeps(f, r) = r.used
         /\ \A n \in 0 .. r.used - 1 : Lengths(f)[At(r, n)] = r.lens[At(r, n)]
         /\ r.lens \in LensType
         /\ Surviving(f) = Strung(f, HeadOf(r), r.used, r.lens)
         /\ Surviving(f) = Slotted(f, r)
<1> DEFINE h == HeadOf(r)  u == r.used  L == Lengths(f)  lens == r.lens
<1>1. /\ h \in Segments
      /\ \A n \in 0 .. NSegments - 1 : At(r, n) \in Segments
      /\ At(r, NSegments - 1) = Following(r)
      /\ u > 0 => r.tail = At(r, u - 1)
      /\ u \in 0 .. NSegments /\ NSegments \in Nat /\ NSegments > 0
  BY AtIs
<1>2. lens \in LensType /\ L \in LensType
  BY LengthsType DEF Ring, LensType
<1>3. ~Ahead(f, r)
  <2>1. u < NSegments => NSegments - 1 \in u .. NSegments - 1
    BY <1>1
  <2>2. QED BY <1>1, <2>1 DEF CalmRing, Ahead
<1>4. Alive(f, r) = u
  <2>1. u > 1 => u - 1 \in 0 .. u - 1 /\ u > 0
    BY <1>1
  <2>2. QED BY <1>1, <2>1 DEF CalmRing, Alive, Gone
<1>5. \A n \in 0 .. u - 1 : L[At(r, n)] = lens[At(r, n)] /\ n \in 0 .. NSegments - 1
  <2> TAKE n \in 0 .. u - 1
  <2>1. n \in 0 .. NSegments - 1
    BY <1>1
  <2>2. At(r, n) \in Segments
    BY <1>1, <2>1
  <2>3. ValidFirst(f[At(r, n)].slots)
    BY DEF CalmRing, Holds, Filled
  <2>4. PICK l \in 0 .. PerSegment : l = L[At(r, n)]
    BY <1>2, <2>2 DEF LensType
  <2>5. PICK m \in 0 .. PerSegment : m = lens[At(r, n)]
    BY <1>2, <2>2 DEF LensType
  <2>6. \A i \in Slots : i <= l <=> i <= m
    <3>1. L[At(r, n)] = ValidLength(f[At(r, n)].slots)
      BY <2>2 DEF Lengths
    <3>2. \A i \in Slots : Valid(f[At(r, n)].slots[i]) <=> i <= l
      BY <2>3, <2>4, <3>1, ValidLengthTells
    <3>3. \A i \in Slots : Valid(f[At(r, n)].slots[i]) <=> i <= m
      BY <2>5 DEF CalmRing
    <3>4. QED BY <3>2, <3>3
  <2>7. l = m
    <3>1. PerSegment \in Nat /\ (l > 0 => l \in Slots) /\ (m > 0 => m \in Slots)
      BY SlotConstants DEF Slots
    <3>2. (l > 0 => l <= m) /\ (m > 0 => m <= l)
      BY <2>6, <3>1
    <3>3. QED BY <3>1, <3>2
  <2>8. QED BY <2>1, <2>4, <2>5, <2>7
<1>6. Keeps(f, r) = u
  <2>1. u > 1 => u - 1 \in 0 .. u - 1 /\ u - 1 \in 1 .. u - 1
    BY <1>1
  <2>2. u > 1 => ~(L[At(r, u - 1)] < PerSegment)
    BY <1>5, <2>1, SlotConstants DEF CalmRing
  <2>3. ~Cut(f, r)
    BY <1>3, <1>4, <2>2 DEF Cut
  <2>4. QED BY <1>4, <2>3 DEF Keeps
<1> HIDE DEF h, u, L, lens
<1>7. Strung(f, h, u, L) = Strung(f, h, u, lens)
  <2>1. \A n \in 0 .. u - 1 : Piece(f, Before(h, n), L) = Piece(f, Before(h, n), lens)
    BY <1>5 DEF Piece, At, h
  <2>2. u \in Nat
    BY <1>1
  <2>3. QED BY <2>1, <2>2, StrungSame
<1>8. Surviving(f) = Strung(f, h, Keeps(f, r), L)
  BY KeepsIs DEF h, L
<1>9. Slotted(f, r) = Strung(f, h, u, lens)
  BY SlottedIs DEF h, u, lens
<1>10. QED BY <1>2, <1>3, <1>4, <1>5, <1>6, <1>7, <1>8, <1>9 DEF h, u, L, lens

\* Open finds the ring that was, and has nothing to repair.
LEMMA CalmOpen ==
  ASSUME RingInv, CalmFlash(flash, record), Open
  PROVE  CalmRing(flash', ring') /\ flash' = flash /\ pc' = "Idle"
<1>1. flash \in Flash /\ record \in Nat
  BY InvFacts
<1>2. PICK h \in Segments, k \in 0 .. NSegments :
        /\ Run(flash, h, k, record)
        /\ \A n \in 1 .. k - 1 : \A i \in Slots : Valid(flash[Before(h, n)].slots[i])
        /\ k > 0 => \A i \in Slots : flash[h].slots[i] # Torn
  BY DEF CalmFlash
<1> DEFINE r == Found(flash)  L == Lengths(flash)
<1>3. r \in Ring /\ (\A s \in Segments : ~r.clean[s]) /\ r.used = k
  BY <1>1, <1>2, OpenHolds
<1>4. flash' = flash /\ ring' = r /\ pc' = IF NeedsRepair(r) THEN "Repair" ELSE "Idle"
  BY <1>1, <1>3 DEF Open, Flash
<1>5. OnFlash(flash, h, k)
  BY <1>2 DEF Run
<1>6. CASE k = 0
  <2>1. r = NoRing
    BY <1>1, <1>5, <1>6, FoundNone
  <2>2. \A n \in 0 .. NSegments - 1 : ~Live(flash, At(r, n))
    <3> TAKE n \in 0 .. NSegments - 1
    <3>1. At(r, n) \in Segments
      BY <1>3, AtIs
    <3>2. PICK m \in 0 .. NSegments - 1 : At(r, n) = Before(h, m)
      BY <3>1, BeforeAll
    <3>3. QED BY <1>5, <1>6, <3>2 DEF OnFlash
  <2>3. r.used = 0 /\ ~r.sealed
    BY <2>1 DEF NoRing
  <2>4. CalmRing(flash, r)
    BY <2>2, <2>3 DEF CalmRing
  <2>5. ~NeedsRepair(r)
    BY <2>3 DEF NeedsRepair
  <2>6. QED BY <1>4, <2>4, <2>5
<1>7. CASE k # 0
  <2>1. k \in 1 .. NSegments /\ k \in Nat /\ NSegments \in Nat
    BY <1>7, SlotConstants
  <2>2. /\ HeadOf(r) = h /\ r.tail = Before(h, k - 1)
        /\ r.sealed = (L[h] < PerSegment /\ flash[h].slots[L[h] + 1] # Erased)
        /\ \A n \in 0 .. k - 1 : r.lens[Before(h, n)] = L[Before(h, n)]
    BY <1>1, <1>5, <2>1, FoundIs
  <2>3. \A n \in 0 .. k - 1 : n \in 0 .. NSegments - 1 /\ Before(h, n) \in Segments
    <3>1. \A n \in 0 .. k - 1 : n \in 0 .. NSegments - 1 /\ n \in 0 .. NSegments
      BY <2>1
    <3>2. QED BY <3>1, BeforeIs
  <2>4. \A n \in 0 .. k - 1 : \A i \in Slots : Valid(flash[Before(h, n)].slots[i]) <=> i <= L[Before(h, n)]
    <3> TAKE n \in 0 .. k - 1
    <3>1. ValidFirst(flash[Before(h, n)].slots)
      BY <1>2 DEF Run
    <3>2. L[Before(h, n)] = ValidLength(flash[Before(h, n)].slots)
      BY <2>3 DEF Lengths
    <3>3. QED BY <3>1, <3>2, ValidLengthTells
  <2>5. \A n \in 1 .. k - 1 : L[Before(h, n)] = PerSegment
    <3> TAKE n \in 1 .. k - 1
    <3>1. n \in 0 .. k - 1
      BY <2>1
    <3>2. PerSegment \in Slots /\ PerSegment \in Nat
      BY SlotConstants DEF Slots
    <3>3. PerSegment <= L[Before(h, n)]
      BY <1>2, <2>4, <3>1, <3>2
    <3>4. L[Before(h, n)] \in 0 .. PerSegment
      BY <2>3, <3>1, LengthsType DEF LensType
    <3>5. QED BY <3>2, <3>3, <3>4
  <2>6. ~r.sealed
    <3>1. L[h] \in 0 .. PerSegment /\ PerSegment \in Nat
      BY LengthsType, SlotConstants DEF LensType
    <3>2. SUFFICES ASSUME L[h] < PerSegment
                   PROVE  flash[h].slots[L[h] + 1] = Erased
      BY <2>2
    <3>3. PICK i \in Slots : i = L[h] + 1 /\ ~(i <= L[h])
      BY <3>1, <3>2 DEF Slots
    <3>4. 0 \in 0 .. k - 1 /\ Before(h, 0) = h
      BY <2>1, BeforeNone
    <3>5. ~Valid(flash[h].slots[i])
      BY <2>4, <3>3, <3>4
    <3>6. flash[h].slots[i] \in SlotValues /\ flash[h].slots[i] # Torn
      BY <1>1, <1>2, <2>1, FlashType
    <3>7. QED BY <3>3, <3>5, <3>6 DEF SlotValues, Valid
  <2>7. ~NeedsRepair(r)
    <3>1. SUFFICES ASSUME r.used > 1
                   PROVE  ~(r.lens[r.tail] < PerSegment)
      BY DEF NeedsRepair
    <3>2. k - 1 \in 1 .. k - 1 /\ k - 1 \in 0 .. k - 1
      BY <1>3, <2>1, <3>1
    <3>3. r.lens[r.tail] = PerSegment
      BY <2>2, <2>5, <3>2
    <3>4. QED BY <3>3, SlotConstants
  <2>8. \A n : At(r, n) = Before(h, n)
    BY <2>2 DEF At
  <2> HIDE DEF r, L
  <2>9. CalmRing(flash, r)
    <3>1. \A n \in 0 .. r.used - 1 :
            /\ Live(flash, At(r, n))
            /\ \A i \in Slots : Valid(flash[At(r, n)].slots[i]) <=> i <= r.lens[At(r, n)]
      BY <1>3, <1>5, <2>2, <2>4, <2>8 DEF OnFlash
    <3>2. \A n \in 1 .. r.used - 1 : r.lens[At(r, n)] = PerSegment
      <4>1. \A n \in 1 .. k - 1 : n \in 0 .. k - 1
        BY <2>1
      <4>2. QED BY <1>3, <2>2, <2>5, <2>8, <4>1
    <3>3. \A n \in r.used .. NSegments - 1 : ~Live(flash, At(r, n))
      BY <1>3, <1>5, <2>8 DEF OnFlash
    <3>4. QED BY <2>6, <3>1, <3>2, <3>3 DEF CalmRing
  <2>10. QED BY <1>4, <2>7, <2>9
<1>8. QED BY <1>6, <1>7

\* The end of a log without gaps has none.
LEMMA NumberedEnd ==
  ASSUME NEW x \in Seq(SlotValues), NEW b \in Seq(SlotValues), NEW v \in Int, Numbered(Cat(x, b), v)
  PROVE  Numbered(b, v)
<1> DEFINE a == Cat(x, b)
<1>1. /\ Len(a) = Len(x) + Len(b) /\ Len(x) \in Nat /\ Len(b) \in Nat
      /\ \A i \in 1 .. Len(b) : a[Len(x) + i] = b[i]
  BY CatEntries
<1>2. a = [i \in 1 .. Len(a) |-> v - Len(a) + i]
  BY DEF Numbered
<1> HIDE DEF a
<1>3. \A i \in 1 .. Len(b) : b[i] = v - Len(b) + i
  <2> TAKE i \in 1 .. Len(b)
  <2>1. PICK j \in 1 .. Len(a) : j = Len(x) + i
    BY <1>1
  <2>2. a[j] = v - Len(a) + j
    BY <1>2
  <2>3. v - Len(a) + j = v - Len(b) + i
    BY <1>1, <2>1
  <2>4. QED BY <1>1, <2>1, <2>2, <2>3
<1>4. b = [i \in 1 .. Len(b) |-> b[i]]
  OBVIOUS
<1>5. QED BY <1>3, <1>4 DEF Numbered

\* Nor has one with the next record behind it.
LEMMA NumberedMore ==
  ASSUME NEW a \in Seq(SlotValues), NEW v \in Int, Numbered(a, v), NEW z \in SlotValues, z = v + 1
  PROVE  Numbered(Append(a, z), v + 1) /\ Len(Append(a, z)) = Len(a) + 1
<1> DEFINE b == Append(a, z)
<1>1. /\ b \in Seq(SlotValues) /\ Len(b) = Len(a) + 1 /\ Len(a) \in Nat /\ b[Len(a) + 1] = z
      /\ \A i \in 1 .. Len(a) : b[i] = a[i]
  OBVIOUS
<1>2. \A i \in 1 .. Len(a) : a[i] = v - Len(a) + i
  BY DEF Numbered
<1> HIDE DEF b
<1>3. \A i \in 1 .. Len(b) : b[i] = v + 1 - Len(b) + i
  <2> TAKE i \in 1 .. Len(b)
  <2>1. CASE i \in 1 .. Len(a)
    BY <1>1, <1>2, <2>1
  <2>2. CASE i = Len(a) + 1
    BY <1>1, <2>2
  <2>3. QED BY <1>1, <2>1, <2>2
<1>4. b = [i \in 1 .. Len(b) |-> b[i]]
  BY <1>1
<1>5. Numbered(b, v + 1)
  BY <1>3, <1>4 DEF Numbered
<1>6. QED BY <1>1, <1>5 DEF b

\* The drop of the oldest segment takes a segment of records.
LEMMA CalmDrop ==
  ASSUME NEW f \in Flash, NEW r \in Ring, NEW v \in Nat, NEW e, Holds(f, r, v, e), CalmRing(f, r),
         r.used = NSegments, ~HeadOpen(r),
         NEW g \in Flash, \A s \in Segments : s # r.tail => g[s] = f[s],
         g[r.tail].header = Erased, \A i \in Slots : g[r.tail].slots[i] = Erased,
         NEW q \in Ring, q.tail = After(r.tail), q.used = r.used - 1, q.epoch = r.epoch, q.sealed = r.sealed,
         \A s \in Segments : s # r.tail => q.lens[s] = r.lens[s] /\ q.clean[s] = r.clean[s]
  PROVE  /\ CalmRing(g, q)
         /\ Len(Surviving(f)) = NSegments * PerSegment
         /\ \E x \in Seq(SlotValues) : Len(x) = PerSegment /\ Surviving(f) = Cat(x, Surviving(g))
<1> DEFINE h == HeadOf(r)
<1>1. /\ NSegments \in Nat /\ NSegments > 1 /\ PerSegment \in Nat \ {0} /\ h \in Segments
      /\ \A n \in 0 .. NSegments - 1 : At(r, n) \in Segments
      /\ \A n, m \in 0 .. NSegments - 1 : At(r, n) = At(r, m) => n = m
      /\ r.tail = At(r, NSegments - 1)
      /\ At(r, 0) = h
  BY AtIs, TwoSegments, SlotConstants
<1>2. Holds(g, q, v, e) /\ HeadOf(q) = h
  BY <1>1, Dropped
<1>3. \A n : At(q, n) = At(r, n)
  BY <1>2 DEF At
<1>4. \A n \in 0 .. NSegments - 2 : At(r, n) \in Segments /\ At(r, n) # r.tail
  <2> TAKE n \in 0 .. NSegments - 2
  <2>1. n \in 0 .. NSegments - 1 /\ NSegments - 1 \in 0 .. NSegments - 1 /\ n # NSegments - 1
    BY <1>1
  <2>2. QED BY <1>1, <2>1
<1>5. CalmRing(g, q)
  <2>1. \A n \in 0 .. q.used - 1 : n \in 0 .. NSegments - 2 /\ n \in 0 .. r.used - 1
    BY <1>1
  <2>2. \A n \in 0 .. q.used - 1 : g[At(q, n)] = f[At(r, n)] /\ q.lens[At(q, n)] = r.lens[At(r, n)]
    BY <1>3, <1>4, <2>1
  <2>3. \A n \in 1 .. q.used - 1 : n \in 1 .. r.used - 1 /\ n \in 0 .. q.used - 1
    BY <1>1
  <2>4. \A n \in 0 .. q.used - 1 :
          /\ Live(g, At(q, n))
          /\ \A i \in Slots : Valid(g[At(q, n)].slots[i]) <=> i <= q.lens[At(q, n)]
    BY <2>1, <2>2 DEF CalmRing, Live
  <2>5. \A n \in 1 .. q.used - 1 : q.lens[At(q, n)] = PerSegment
    BY <2>2, <2>3 DEF CalmRing
  <2>6. \A n \in q.used .. NSegments - 1 : n = NSegments - 1
    BY <1>1
  <2>7. ~Live(g, r.tail)
    BY LiveFacts
  <2>8. QED BY <1>1, <1>3, <2>4, <2>5, <2>6, <2>7 DEF CalmRing
<1>6. /\ r.lens \in LensType /\ Surviving(f) = Strung(f, h, r.used, r.lens)
  BY CalmSurvives
<1>7. /\ q.lens \in LensType /\ Surviving(g) = Strung(g, h, q.used, q.lens)
  BY <1>2, <1>5, CalmSurvives
<1>8. PICK k \in 0 .. NSegments - 1 : k = NSegments - 1 /\ k = q.used /\ r.used = k + 1
  BY <1>1
<1>9. \A n \in 0 .. r.used - 1 : r.lens[Before(h, n)] = PerSegment
  <2>1. r.lens[h] = PerSegment
    <3>1. r.lens[h] \in 0 .. PerSegment /\ ~r.sealed /\ r.used > 0
      BY <1>1, <1>6 DEF CalmRing, LensType
    <3>2. QED BY <1>1, <3>1 DEF HeadOpen
  <2>2. \A n \in 1 .. r.used - 1 : r.lens[At(r, n)] = PerSegment
    BY DEF CalmRing
  <2>3. \A n \in 0 .. r.used - 1 : r.lens[At(r, n)] = PerSegment
    BY <1>1, <2>1, <2>2
  <2>4. QED BY <2>3 DEF At
<1> HIDE DEF h
<1>10. Len(Surviving(f)) = NSegments * PerSegment
  <2>1. Len(Strung(f, h, r.used, r.lens)) = r.used * PerSegment
    BY <1>1, <1>6, <1>9, StrungLength
  <2>2. QED BY <1>6, <2>1
<1>11. Strung(f, h, k + 1, r.lens) = Cat(Piece(f, Before(h, k), r.lens), Strung(f, h, k, r.lens))
  BY <1>1, <1>6, StrungOldest
<1>12. Strung(g, h, k, q.lens) = Strung(f, h, k, r.lens)
  <2>1. \A n \in 0 .. k - 1 : Piece(g, Before(h, n), q.lens) = Piece(f, Before(h, n), r.lens)
    <3> TAKE n \in 0 .. k - 1
    <3>1. n \in 0 .. NSegments - 2
      BY <1>1, <1>8
    <3>2. g[Before(h, n)] = f[Before(h, n)] /\ q.lens[Before(h, n)] = r.lens[Before(h, n)]
      BY <1>4, <3>1 DEF At, h
    <3>3. QED BY <3>2 DEF Piece
  <2>2. k \in Nat
    BY <1>1
  <2>3. QED BY <2>1, <2>2, StrungSame
<1>13. /\ Piece(f, Before(h, k), r.lens) \in Seq(SlotValues)
       /\ Len(Piece(f, Before(h, k), r.lens)) = PerSegment
  <2>1. Before(h, k) \in Segments /\ k \in 0 .. r.used - 1
    BY <1>1, <1>8 DEF At, h
  <2>2. QED BY <1>6, <1>9, <2>1, PieceIs
<1>14. QED BY <1>5, <1>6, <1>7, <1>8, <1>10, <1>11, <1>12, <1>13

\* A change outside the records of the ring.
LEMMA CalmElsewhere ==
  ASSUME NEW f \in Flash, NEW r \in Ring, NEW v, NEW e, Holds(f, r, v, e), CalmRing(f, r),
         NEW g \in Flash, NEW q \in Ring, NEW w, NEW d, Holds(g, q, w, d),
         HeadOf(q) = HeadOf(r), q.used = r.used, q.lens = r.lens, q.sealed = r.sealed,
         \A n \in 0 .. r.used - 1 : g[At(r, n)] = f[At(r, n)],
         \A n \in r.used .. NSegments - 1 : ~Live(g, At(r, n))
  PROVE  CalmRing(g, q) /\ Surviving(g) = Surviving(f)
<1>1. \A n : At(q, n) = At(r, n)
  BY DEF At
<1>2. CalmRing(g, q)
  <2>1. \A n \in 0 .. q.used - 1 :
          /\ Live(g, At(q, n))
          /\ \A i \in Slots : Valid(g[At(q, n)].slots[i]) <=> i <= q.lens[At(q, n)]
    BY <1>1 DEF CalmRing, Live
  <2>2. QED BY <1>1, <2>1 DEF CalmRing
<1>3. Surviving(f) = Strung(f, HeadOf(r), r.used, r.lens)
  BY CalmSurvives
<1>4. Surviving(g) = Strung(g, HeadOf(r), r.used, r.lens)
  BY <1>2, CalmSurvives
<1>5. Strung(g, HeadOf(r), r.used, r.lens) = Strung(f, HeadOf(r), r.used, r.lens)
  <2>1. \A n \in 0 .. r.used - 1 : Piece(g, Before(HeadOf(r), n), r.lens) = Piece(f, Before(HeadOf(r), n), r.lens)
    BY DEF Piece, At
  <2>2. r.used \in Nat
    BY AtIs
  <2>3. QED BY <2>1, <2>2, StrungSame
<1>6. QED BY <1>2, <1>3, <1>4, <1>5

\* A new segment holds no record yet.
LEMMA CalmStart ==
  ASSUME NEW f \in Flash, NEW r \in Ring, NEW v, NEW e, Holds(f, r, v, e), CalmRing(f, r),
         r.used < NSegments, r.clean[Following(r)], ~HeadOpen(r),
         NEW g \in Flash, \A s \in Segments : s # Following(r) => g[s] = f[s],
         g[Following(r)].header \in Epochs, g[Following(r)].slots = f[Following(r)].slots,
         NEW q \in Ring, q.tail = r.tail, q.used = r.used + 1, ~q.sealed, q.lens[Following(r)] = 0,
         \A s \in Segments : s # Following(r) => q.lens[s] = r.lens[s],
         NEW w, NEW d, Holds(g, q, w, d)
  PROVE  CalmRing(g, q) /\ Surviving(g) = Surviving(f)
<1> DEFINE h == HeadOf(r)  s == Following(r)  k == r.used
<1>1. /\ NSegments \in Nat /\ NSegments > 1 /\ PerSegment \in Nat \ {0} /\ h \in Segments /\ s \in Segments
      /\ s = After(h) /\ s = At(r, NSegments - 1)
      /\ k \in 0 .. NSegments - 1 /\ k \in Nat /\ k \in 0 .. NSegments
      /\ \A n \in 0 .. NSegments - 1 : At(r, n) \in Segments
      /\ \A n \in 0 .. NSegments - 2 : At(r, n) # s
  <2>1. /\ NSegments \in Nat /\ NSegments > 1 /\ PerSegment \in Nat \ {0} /\ h \in Segments /\ s \in Segments
        /\ s = At(r, NSegments - 1) /\ k \in 0 .. NSegments
        /\ \A n \in 0 .. NSegments - 1 : At(r, n) \in Segments
        /\ \A n, m \in 0 .. NSegments - 1 : At(r, n) = At(r, m) => n = m
    BY AtIs, TwoSegments, SlotConstants
  <2>2. \A n \in 0 .. NSegments - 2 : n \in 0 .. NSegments - 1 /\ NSegments - 1 \in 0 .. NSegments - 1 /\ n # NSegments - 1
    BY <2>1
  <2>3. \A n \in 0 .. NSegments - 2 : At(r, n) # s
    BY <2>1, <2>2
  <2>4. k \in 0 .. NSegments - 1 /\ k \in Nat
    BY <2>1
  <2>5. QED BY <2>1, <2>3, <2>4 DEF Following
<1>2. HeadOf(q) = s
  BY <1>1, HeadWithNext
<1>3. At(q, 0) = s /\ \A n \in 0 .. NSegments - 1 : At(q, n + 1) = At(r, n)
  BY <1>1, <1>2, BeforeAfter DEF At
<1>4. \A i \in Slots : f[s].slots[i] = Erased
  <2>1. NSegments - 1 \in k .. NSegments - 1
    BY <1>1
  <2>2. QED BY <1>1, <2>1 DEF Holds, Cleaned
<1>5. q.lens \in LensType /\ r.lens \in LensType
  BY DEF Ring, LensType
<1>6. \A n \in 0 .. k - 1 : n \in 0 .. NSegments - 2 /\ g[At(r, n)] = f[At(r, n)] /\ q.lens[At(r, n)] = r.lens[At(r, n)]
  <2>1. \A n \in 0 .. k - 1 : n \in 0 .. NSegments - 2 /\ n \in 0 .. NSegments - 1
    BY <1>1
  <2>2. QED BY <1>1, <2>1
<1>7. \A n \in 0 .. k - 1 : r.lens[At(r, n)] = PerSegment
  <2>1. k > 0 => r.lens[h] = PerSegment
    <3>1. r.lens[h] \in 0 .. PerSegment /\ ~r.sealed
      BY <1>1, <1>5 DEF CalmRing, LensType
    <3>2. QED BY <1>1, <3>1 DEF HeadOpen
  <2>2. At(r, 0) = h
    BY AtIs
  <2>3. QED BY <1>1, <2>1, <2>2 DEF CalmRing
<1>8. CalmRing(g, q)
  <2>1. \A n \in 0 .. q.used - 1 :
          /\ Live(g, At(q, n))
          /\ \A i \in Slots : Valid(g[At(q, n)].slots[i]) <=> i <= q.lens[At(q, n)]
    <3> TAKE n \in 0 .. q.used - 1
    <3>1. CASE n = 0
      <4>1. \A i \in Slots : ~Valid(g[s].slots[i]) /\ ~(i <= 0)
        BY <1>1, <1>4, SlotFacts DEF Slots
      <4>2. QED BY <1>3, <3>1, <4>1 DEF Live
    <3>2. CASE n # 0
      <4>1. PICK m \in 0 .. k - 1 : n = m + 1
        BY <1>1, <3>2
      <4>2. At(q, n) = At(r, m)
        BY <1>3, <1>1, <4>1
      <4>3. QED BY <1>6, <4>1, <4>2 DEF CalmRing, Live
    <3>3. QED BY <3>1, <3>2
  <2>2. \A n \in 1 .. q.used - 1 : q.lens[At(q, n)] = PerSegment
    <3> TAKE n \in 1 .. q.used - 1
    <3>1. PICK m \in 0 .. k - 1 : n = m + 1
      BY <1>1
    <3>2. At(q, n) = At(r, m)
      BY <1>1, <1>3, <3>1
    <3>3. QED BY <1>6, <1>7, <3>2
  <2>3. \A n \in q.used .. NSegments - 1 : ~Live(g, At(q, n))
    <3> TAKE n \in q.used .. NSegments - 1
    <3>1. PICK m \in k .. NSegments - 2 : n = m + 1
      BY <1>1
    <3>2. m \in 0 .. NSegments - 2 /\ m \in 0 .. NSegments - 1 /\ m \in k .. NSegments - 1
      BY <1>1
    <3>3. At(q, n) = At(r, m) /\ g[At(r, m)] = f[At(r, m)]
      BY <1>1, <1>3, <3>1, <3>2
    <3>4. ~Live(f, At(r, m))
      BY <3>2 DEF CalmRing
    <3>5. QED BY <3>3, <3>4 DEF Live
  <2>4. QED BY <2>1, <2>2, <2>3 DEF CalmRing
<1>9. Surviving(f) = Strung(f, h, k, r.lens)
  BY CalmSurvives
<1>10. Surviving(g) = Strung(g, s, k + 1, q.lens)
  BY <1>2, <1>8, CalmSurvives
<1>11. Strung(g, h, k, q.lens) = Strung(f, h, k, r.lens)
  <2>1. \A n \in 0 .. k - 1 : Piece(g, Before(h, n), q.lens) = Piece(f, Before(h, n), r.lens)
    BY <1>6 DEF Piece, At
  <2>2. QED BY <1>1, <2>1, StrungSame
<1>12. PICK lens \in LensType : lens = q.lens /\ lens[s] = 0
  BY <1>5
<1> HIDE DEF h, s, k
<1>13. Strung(g, s, k + 1, q.lens) = Cat(Strung(g, h, k, q.lens), Piece(g, s, q.lens))
  <2>1. Strung(g, After(h), k + 1, lens) = Cat(Strung(g, h, k, lens), Piece(g, After(h), lens))
    <3>1. h \in Segments /\ k \in 0 .. NSegments - 1
      BY <1>1
    <3>2. QED BY <3>1, StrungNewest, Zenon
  <2>2. QED BY <1>1, <1>12, <2>1
<1>14. Piece(g, s, q.lens) = Nil
  <2>1. Piece(g, s, lens) \in Seq(SlotValues) /\ Len(Piece(g, s, lens)) = 0
    <3>1. Piece(g, s, lens) \in Seq(SlotValues) /\ Len(Piece(g, s, lens)) = lens[s]
      BY <1>1, PieceIs
    <3>2. QED BY <1>12, <3>1
  <2>2. QED BY <1>12, <2>1 DEF Nil
<1>15. Strung(f, h, k, r.lens) \in Seq(SlotValues)
  BY <1>1, <1>5, StrungType
<1>16. QED BY <1>8, <1>9, <1>10, <1>11, <1>13, <1>14, <1>15, CatIs

\* A record goes behind those of the newest segment.
LEMMA CalmWrite ==
  ASSUME NEW f \in Flash, NEW r \in Ring, NEW v, NEW e, Holds(f, r, v, e), CalmRing(f, r), HeadOpen(r),
         NEW i \in Slots, i = r.lens[HeadOf(r)] + 1,
         NEW g \in Flash, \A s \in Segments : s # HeadOf(r) => g[s] = f[s],
         g[HeadOf(r)].header = f[HeadOf(r)].header,
         \A j \in Slots : j # i => g[HeadOf(r)].slots[j] = f[HeadOf(r)].slots[j],
         Valid(g[HeadOf(r)].slots[i]),
         NEW q \in Ring, q.tail = r.tail, q.used = r.used, q.sealed = r.sealed,
         \A s \in Segments : s # HeadOf(r) => q.lens[s] = r.lens[s],
         q.lens[HeadOf(r)] = i
  PROVE  CalmRing(g, q)
<1> DEFINE h == HeadOf(r)
<1>1. /\ NSegments \in Nat /\ PerSegment \in Nat \ {0} /\ h \in Segments /\ r.used \in 1 .. NSegments
      /\ \A n \in 0 .. NSegments - 1 : At(r, n) \in Segments
      /\ \A n, m \in 0 .. NSegments - 1 : At(r, n) = At(r, m) => n = m
      /\ At(r, 0) = h
  <2>1. /\ h \in Segments /\ r.used \in 0 .. NSegments
        /\ \A n \in 0 .. NSegments - 1 : At(r, n) \in Segments
        /\ \A n, m \in 0 .. NSegments - 1 : At(r, n) = At(r, m) => n = m
        /\ At(r, 0) = h
    BY AtIs
  <2>2. r.used > 0
    BY DEF HeadOpen
  <2>3. QED BY <2>1, <2>2, SlotConstants
<1>2. \A n : At(q, n) = At(r, n)
  BY DEF At, HeadOf
<1>3. r.lens[h] \in 0 .. PerSegment
  BY <1>1 DEF Ring
<1>4. \A n \in 1 .. NSegments - 1 : At(r, n) # h /\ At(r, n) \in Segments
  <2>1. \A n \in 1 .. NSegments - 1 : n \in 0 .. NSegments - 1 /\ 0 \in 0 .. NSegments - 1 /\ n # 0
    BY <1>1
  <2>2. QED BY <1>1, <2>1
<1>5. \A n \in 0 .. q.used - 1 :
        /\ Live(g, At(q, n))
        /\ \A j \in Slots : Valid(g[At(q, n)].slots[j]) <=> j <= q.lens[At(q, n)]
  <2> TAKE n \in 0 .. q.used - 1
  <2>1. CASE n = 0
    <3>1. Live(f, h) /\ \A j \in Slots : Valid(f[h].slots[j]) <=> j <= r.lens[h]
      BY <1>1, <2>1 DEF CalmRing
    <3>2. Live(g, h)
      BY <3>1 DEF Live
    <3>3. \A j \in Slots : Valid(g[h].slots[j]) <=> j <= i
      <4> TAKE j \in Slots
      <4>1. CASE j = i
        BY <4>1 DEF Slots
      <4>2. CASE j # i
        <5>1. Valid(g[h].slots[j]) <=> j <= r.lens[h]
          BY <3>1, <4>2
        <5>2. j <= r.lens[h] <=> j <= i
          BY <1>1, <1>3, <4>2 DEF Slots
        <5>3. QED BY <5>1, <5>2
      <4>3. QED BY <4>1, <4>2
    <3>4. QED BY <1>1, <1>2, <2>1, <3>2, <3>3
  <2>2. CASE n # 0
    <3>1. n \in 1 .. NSegments - 1 /\ n \in 0 .. r.used - 1
      BY <1>1, <2>2
    <3>2. g[At(q, n)] = f[At(r, n)] /\ q.lens[At(q, n)] = r.lens[At(r, n)]
      BY <1>2, <1>4, <3>1
    <3>3. QED BY <1>2, <3>1, <3>2 DEF CalmRing, Live
  <2>3. QED BY <2>1, <2>2
<1>6. \A n \in 1 .. q.used - 1 : q.lens[At(q, n)] = PerSegment
  <2> TAKE n \in 1 .. q.used - 1
  <2>1. n \in 1 .. NSegments - 1 /\ n \in 1 .. r.used - 1
    BY <1>1
  <2>2. QED BY <1>2, <1>4, <2>1 DEF CalmRing
<1>7. \A n \in q.used .. NSegments - 1 : ~Live(g, At(q, n))
  <2> TAKE n \in q.used .. NSegments - 1
  <2>1. n \in 1 .. NSegments - 1 /\ n \in r.used .. NSegments - 1
    BY <1>1
  <2>2. ~Live(f, At(r, n)) /\ g[At(q, n)] = f[At(r, n)]
    BY <1>2, <1>4, <2>1 DEF CalmRing
  <2>3. QED BY <1>2, <2>2 DEF Live
<1>8. ~q.sealed
  BY DEF CalmRing
<1>9. QED BY <1>5, <1>6, <1>7, <1>8 DEF CalmRing

\* What the invariants say of a ring that is open.
LEMMA CalmFacts ==
  ASSUME HInv, CalmNow, pc # "Off"
  PROVE  /\ flash \in Flash /\ ring \in Ring /\ record \in Nat /\ Given(pc, record) \in Nat
         /\ Holds(flash, ring, Given(pc, record), Started(pc, record)) /\ AtPc(ring, pc)
         /\ NextSegment = Following(ring)
         /\ CalmRing(flash, ring)
         /\ durable = Surviving(flash) /\ durable \in Seq(SlotValues) /\ Len(durable) \in Nat
         /\ CalmLog(durable, Given(pc, record), pc)
<1>1. /\ flash \in Flash /\ ring \in Ring /\ record \in Nat /\ Given(pc, record) \in Nat
      /\ Holds(flash, ring, Given(pc, record), Started(pc, record)) /\ AtPc(ring, pc)
      /\ NextSegment = Following(ring)
  BY InvFacts DEF HInv
<1>2. durable = Surviving(flash) /\ durable \in Seq(SlotValues)
  BY <1>1, SurvivingType DEF HInv
<1>3. CalmRing(flash, ring) /\ CalmLog(durable, Given(pc, record), pc)
  BY DEF CalmNow
<1>4. Len(durable) \in Nat
  BY <1>2
<1>5. QED BY <1>1, <1>2, <1>3, <1>4

\* Open, as long as nothing goes wrong.
LEMMA CalmOpenStep ==
  ASSUME HInv, CalmNow, Open, durable' = Surviving(flash')
  PROVE  CalmNow'
<1>1. pc = "Off" /\ record' = record /\ durable = Surviving(flash) /\ RingInv
  BY DEF Open, HInv
<1>2. CalmFlash(flash, record) /\ CalmLog(durable, Given(pc, record), pc)
  BY <1>1 DEF CalmNow
<1>3. CalmRing(flash', ring') /\ flash' = flash /\ pc' = "Idle"
  BY <1>1, <1>2, CalmOpen
<1>4. durable' = durable /\ Given(pc', record') = Given(pc, record)
  BY <1>1, <1>3 DEF Given
<1>5. CalmLog(durable', Given(pc', record'), pc')
  <2>1. CalmLog(durable, Given(pc, record), "Idle")
    BY <1>1, <1>2 DEF CalmLog
  <2>2. QED BY <1>3, <1>4, <2>1
<1>6. QED BY <1>3, <1>5 DEF CalmNow

\* Append is called.
LEMMA CalmGiveStep ==
  ASSUME HInv, CalmNow, Give, durable' = Surviving(flash')
  PROVE  CalmNow'
<1>1. /\ pc = "Idle" /\ record' = record + 1 /\ flash' = flash /\ ring' = ring
      /\ pc' \in {"Record", "Drop", "Header", "Erase"}
  BY DEF Give, StartOf
<1>2. /\ record \in Nat /\ CalmRing(flash, ring) /\ durable = Surviving(flash)
      /\ CalmLog(durable, Given(pc, record), pc)
  BY <1>1, CalmFacts
<1>3. durable' = durable /\ Given(pc', record') = Given(pc, record)
  BY <1>1, <1>2 DEF Given
<1>4. CalmLog(durable', Given(pc', record'), pc')
  <2>1. CalmLog(durable, Given(pc, record), pc')
    BY <1>1, <1>2 DEF CalmLog
  <2>2. QED BY <1>3, <2>1
<1>5. CalmRing(flash', ring')
  BY <1>1, <1>2
<1>6. QED BY <1>1, <1>4, <1>5 DEF CalmNow

\* The drop of the oldest segment leaves all but one segment of records.
LEMMA CalmDropStep ==
  ASSUME HInv, CalmNow, Drop, ~Disturbed, durable' = Surviving(flash')
  PROVE  CalmNow'
<1>1. /\ pc = "Drop" /\ record' = record
      /\ flash' = [flash EXCEPT ![ring.tail] = Blank] /\ ring' = TailDropped /\ pc' = StartOf(TailDropped)
  BY DEF Drop, DropTail, LosePower, Disturbed, Acknowledged
<1>2. /\ flash \in Flash /\ ring \in Ring /\ record \in Nat /\ Given(pc, record) \in Nat
      /\ Holds(flash, ring, Given(pc, record), Started(pc, record)) /\ AtPc(ring, pc)
      /\ CalmRing(flash, ring)
      /\ durable = Surviving(flash) /\ durable \in Seq(SlotValues) /\ Len(durable) \in Nat
      /\ CalmLog(durable, Given(pc, record), pc)
  BY <1>1, CalmFacts
<1>3. ring.used = NSegments /\ ~HeadOpen(ring) /\ NSegments \in Nat /\ NSegments > 1 /\ PerSegment \in Nat
  BY <1>1, <1>2, TwoSegments, SlotConstants DEF AtPc
<1>4. ring.tail \in Segments /\ flash[ring.tail] \in Segment
  BY <1>2, FlashType DEF Ring
<1>5. /\ TailDropped \in Ring
      /\ TailDropped.tail = After(ring.tail) /\ TailDropped.used = ring.used - 1
      /\ TailDropped.epoch = ring.epoch /\ TailDropped.sealed = ring.sealed
      /\ TailDropped.lens = [ring.lens EXCEPT ![ring.tail] = 0]
      /\ TailDropped.clean = [ring.clean EXCEPT ![ring.tail] = TRUE]
  BY <1>2, <1>3, DroppedType
<1>6. PICK q \in Ring : q = TailDropped
  BY <1>5
<1>7. /\ q.tail = After(ring.tail) /\ q.used = ring.used - 1 /\ q.epoch = ring.epoch /\ q.sealed = ring.sealed
      /\ \A s \in Segments : s # ring.tail => q.lens[s] = ring.lens[s] /\ q.clean[s] = ring.clean[s]
  BY <1>2, <1>4, <1>5, <1>6 DEF Ring
<1>8. /\ flash' \in Flash /\ \A s \in Segments : s # ring.tail => flash'[s] = flash[s]
      /\ flash'[ring.tail].header = Erased /\ \A i \in Slots : flash'[ring.tail].slots[i] = Erased
  BY <1>1, <1>2, <1>4, BlankIs DEF Flash
<1>9. PICK v \in Nat : v = Given(pc, record)
  BY <1>2
<1>10. PICK e : e = Started(pc, record)
  OBVIOUS
<1>11. /\ CalmRing(flash', q)
       /\ Len(Surviving(flash)) = NSegments * PerSegment
       /\ \E x \in Seq(SlotValues) : Len(x) = PerSegment /\ Surviving(flash) = Cat(x, Surviving(flash'))
  <2>1. Holds(flash, ring, v, e)
    BY <1>2, <1>9, <1>10
  <2>2. QED BY <1>2, <1>3, <1>7, <1>8, <2>1, CalmDrop
<1>12. pc' \in {"Header", "Erase"}
  BY <1>1 DEF StartOf
<1>13. Given(pc', record') = v
  BY <1>1, <1>9, <1>12 DEF Given
<1>14. durable' \in Seq(SlotValues)
  <2>1. Holds(flash', q, v, e)
    <3>1. Holds(flash, ring, v, e)
      BY <1>2, <1>9, <1>10
    <3>2. QED BY <1>2, <1>3, <1>7, <1>8, <3>1, Dropped
  <2>2. QED BY <1>8, <2>1, SurvivingType
<1>15. PICK x \in Seq(SlotValues) : Len(x) = PerSegment /\ durable = Cat(x, durable')
  BY <1>2, <1>11
<1>16. Numbered(durable', v)
  BY <1>2, <1>9, <1>14, <1>15, NumberedEnd DEF CalmLog
<1>17. Len(durable') >= Least
  <2>1. Len(durable) = Len(x) + Len(durable') /\ Len(durable') \in Nat
    BY <1>14, <1>15, CatEntries
  <2>2. Len(durable') = NSegments * PerSegment - PerSegment
    BY <1>2, <1>3, <1>11, <1>15, <2>1
  <2>3. (NSegments - 1) * PerSegment = NSegments * PerSegment - PerSegment
    BY <1>3
  <2>4. QED BY <2>1, <2>2, <2>3 DEF Least
<1>18. CalmLog(durable', v, pc')
  BY <1>12, <1>16, <1>17 DEF CalmLog
<1>19. QED BY <1>1, <1>6, <1>11, <1>12, <1>13, <1>18 DEF CalmNow

\* The operations that leave the log as it is.
LEMMA CalmSameLog ==
  ASSUME HInv, CalmNow, pc # "Off", durable' = durable, Given(pc', record') = Given(pc, record),
         pc' \in {"Header", "Record"}, CalmRing(flash', ring')
  PROVE  CalmNow'
<1>1. CalmLog(durable, Given(pc, record), pc)
  BY DEF CalmNow
<1>2. CalmLog(durable, Given(pc, record), pc')
  BY <1>1 DEF CalmLog
<1>3. CalmLog(durable', Given(pc', record'), pc')
  BY <1>2
<1>4. QED BY <1>3 DEF CalmNow

\* The erase of the next segment.
LEMMA CalmEraseStep ==
  ASSUME HInv, CalmNow, RingInv', EraseSegment, ~Disturbed, durable' = Surviving(flash')
  PROVE  CalmNow'
<1> DEFINE F == Following(ring)
<1>1. /\ pc = "Erase" /\ record' = record
      /\ flash' = [flash EXCEPT ![NextSegment] = Blank]
      /\ ring' = [ring EXCEPT !.clean[NextSegment] = TRUE]
      /\ pc' = "Header"
  BY DEF EraseSegment, LosePower, Disturbed, Acknowledged
<1>2. /\ flash \in Flash /\ ring \in Ring /\ NextSegment = F
      /\ Holds(flash, ring, Given(pc, record), Started(pc, record)) /\ AtPc(ring, pc)
      /\ CalmRing(flash, ring) /\ durable = Surviving(flash)
  BY <1>1, CalmFacts
<1>3. /\ F \in Segments /\ F = At(ring, NSegments - 1) /\ NSegments \in Nat /\ ring.used \in 0 .. NSegments
      /\ \A n \in 0 .. NSegments - 1 : At(ring, n) \in Segments
      /\ \A n, m \in 0 .. NSegments - 1 : At(ring, n) = At(ring, m) => n = m
  BY <1>2, AtIs
<1>4. ring.used < NSegments
  BY <1>1, <1>2 DEF AtPc
<1> HIDE DEF F
<1>5. /\ flash' \in Flash /\ ring' \in Ring
      /\ Holds(flash', ring', Given(pc', record'), Started(pc', record'))
  BY <1>1 DEF RingInv, TypeOK, Flash
<1>6. /\ ring'.tail = ring.tail /\ ring'.used = ring.used
      /\ ring'.sealed = ring.sealed /\ ring'.lens = ring.lens
  BY <1>1, <1>2 DEF Ring
<1>7. flash'[F] = Blank /\ \A s \in Segments : s # F => flash'[s] = flash[s]
  BY <1>1, <1>2, <1>3 DEF Flash
<1>8. ~Live(flash', F)
  BY <1>7, LiveFacts DEF Blank
<1>9. \A n \in 0 .. ring.used - 1 : flash'[At(ring, n)] = flash[At(ring, n)]
  <2> TAKE n \in 0 .. ring.used - 1
  <2>1. n \in 0 .. NSegments - 1 /\ NSegments - 1 \in 0 .. NSegments - 1 /\ n # NSegments - 1
    BY <1>3, <1>4
  <2>2. QED BY <1>3, <1>7, <2>1
<1>10. \A n \in ring.used .. NSegments - 1 : ~Live(flash', At(ring, n))
  <2> TAKE n \in ring.used .. NSegments - 1
  <2>1. n \in 0 .. NSegments - 1
    BY <1>3
  <2>2. ~Live(flash, At(ring, n))
    BY <1>2 DEF CalmRing
  <2>3. CASE At(ring, n) = F
    BY <1>8, <2>3
  <2>4. CASE At(ring, n) # F
    BY <1>3, <1>7, <2>1, <2>2, <2>4 DEF Live
  <2>5. QED BY <2>3, <2>4
<1>11. PICK q \in Ring : q = ring'
  BY <1>5
<1>12. PICK w, d : w = Given(pc', record') /\ d = Started(pc', record')
  OBVIOUS
<1>13. CalmRing(flash', q) /\ Surviving(flash') = Surviving(flash)
  <2>1. /\ Holds(flash', q, w, d) /\ HeadOf(q) = HeadOf(ring) /\ q.used = ring.used
        /\ q.lens = ring.lens /\ q.sealed = ring.sealed
    BY <1>5, <1>6, <1>11, <1>12 DEF HeadOf
  <2>2. QED BY <1>2, <1>5, <1>9, <1>10, <2>1, CalmElsewhere
<1>14. Given(pc', record') = Given(pc, record)
  BY <1>1 DEF Given
<1>15. durable' = durable /\ CalmRing(flash', ring')
  BY <1>2, <1>11, <1>13
<1>16. QED BY <1>1, <1>14, <1>15, CalmSameLog

\* The header of the next segment.
LEMMA CalmStartStep ==
  ASSUME HInv, CalmNow, RingInv', StartSegment, ~Disturbed, durable' = Surviving(flash')
  PROVE  CalmNow'
<1> DEFINE F == Following(ring)
<1>1. /\ pc = "Header" /\ record' = record
      /\ WriteHeader(NextSegment, ring.epoch + 1)
      /\ ring' = [ring EXCEPT !.epoch = ring.epoch + 1, !.used = @ + 1, !.lens[NextSegment] = 0,
                              !.clean[NextSegment] = FALSE, !.sealed = FALSE]
      /\ pc' = "Record"
  BY DEF StartSegment, LosePower, Disturbed, Acknowledged
<1>2. /\ flash \in Flash /\ ring \in Ring /\ NextSegment = F
      /\ Holds(flash, ring, Given(pc, record), Started(pc, record)) /\ AtPc(ring, pc)
      /\ CalmRing(flash, ring) /\ durable = Surviving(flash)
  BY <1>1, CalmFacts
<1>3. F \in Segments /\ flash[F] \in Segment
  BY <1>2, AtIs, FlashType
<1>4. ring.used < NSegments /\ ring.clean[F] /\ ~HeadOpen(ring)
  BY <1>1, <1>2 DEF AtPc
<1> HIDE DEF F
<1>5. /\ flash' \in Flash /\ ring' \in Ring
      /\ Holds(flash', ring', Given(pc', record'), Started(pc', record'))
  BY <1>1 DEF RingInv, TypeOK, Flash
<1>6. /\ ring.lens \in [Segments -> 0 .. PerSegment] /\ ring.clean \in [Segments -> BOOLEAN]
  BY <1>2 DEF Ring
<1>7. /\ ring'.tail = ring.tail /\ ring'.used = ring.used + 1 /\ ~ring'.sealed
      /\ ring'.epoch = ring.epoch + 1
      /\ ring'.lens = [ring.lens EXCEPT ![F] = 0]
  BY <1>1, <1>2 DEF Ring
<1>8. /\ ring'.lens[F] = 0 /\ \A s \in Segments : s # F => ring'.lens[s] = ring.lens[s]
  BY <1>3, <1>6, <1>7
<1>9. /\ \A s \in Segments : s # F => flash'[s] = flash[s]
      /\ flash'[F].header = ring.epoch + 1 /\ flash'[F].slots = flash[F].slots
  <2>1. flash' = [flash EXCEPT ![F].header = ring.epoch + 1]
    BY <1>1, <1>2 DEF WriteHeader
  <2>2. flash'[F] = [flash[F] EXCEPT !.header = ring.epoch + 1] /\ \A s \in Segments : s # F => flash'[s] = flash[s]
    BY <1>2, <1>3, <2>1 DEF Flash
  <2>3. QED BY <1>3, <2>2 DEF Segment
<1>10. flash'[F].header \in Epochs
  <2>1. ring.epoch + 1 \in {0} \cup Epochs /\ ring.epoch \in {0} \cup Epochs
    BY <1>2, <1>5, <1>7 DEF Ring
  <2>2. QED BY <1>9, <2>1, SlotConstants DEF Epochs
<1>11. PICK q \in Ring : q = ring'
  BY <1>5
<1>12. PICK w, d : w = Given(pc', record') /\ d = Started(pc', record')
  OBVIOUS
<1>13. CalmRing(flash', q) /\ Surviving(flash') = Surviving(flash)
  <2>1. /\ q.tail = ring.tail /\ q.used = ring.used + 1 /\ ~q.sealed /\ q.lens[F] = 0
        /\ \A s \in Segments : s # F => q.lens[s] = ring.lens[s]
        /\ Holds(flash', q, w, d)
    BY <1>5, <1>7, <1>8, <1>11, <1>12
  <2>2. QED BY <1>2, <1>4, <1>5, <1>9, <1>10, <2>1, CalmStart DEF F
<1>14. Given(pc', record') = Given(pc, record)
  BY <1>1 DEF Given
<1>15. durable' = durable /\ CalmRing(flash', ring')
  BY <1>2, <1>11, <1>13
<1>16. QED BY <1>1, <1>14, <1>15, CalmSameLog

\* The record itself: after it, there is more than all but one segment.
LEMMA CalmWriteStep ==
  ASSUME HInv, CalmNow, RingInv', WriteRecord, ~Disturbed, durable' = Surviving(flash')
  PROVE  CalmNow'
<1> DEFINE h == HeadOf(ring)  i == ring.lens[h] + 1
<1>1. pc = "Record" /\ record' = record
  BY DEF WriteRecord
<1>2. /\ flash \in Flash /\ ring \in Ring /\ record \in Nat /\ Given(pc, record) \in Nat
      /\ Holds(flash, ring, Given(pc, record), Started(pc, record)) /\ AtPc(ring, pc)
      /\ CalmRing(flash, ring)
      /\ durable = Surviving(flash) /\ durable \in Seq(SlotValues) /\ Len(durable) \in Nat
      /\ CalmLog(durable, Given(pc, record), pc)
  BY <1>1, CalmFacts
<1>3. HeadOpen(ring) /\ record \in Records /\ Given(pc, record) = record - 1
  BY <1>1, <1>2, InvFacts DEF AtPc, Given, HInv
<1>4. h \in Segments /\ flash[h] \in Segment /\ flash[h].slots \in [Slots -> SlotValues]
  BY <1>2, AtIs, FlashType
<1>5. ring.lens[h] \in Nat /\ i \in Int /\ i \in Slots /\ i > ring.lens[h]
  BY <1>2, <1>3, <1>4, SlotConstants DEF Ring, HeadOpen, Slots
<1>6. flash[h].slots[i] = Erased
  <2>1. Filled(flash, ring, Given(pc, record)) /\ ~ring.sealed /\ ring.used > 0
    BY <1>2, <1>3 DEF Holds, HeadOpen
  <2>2. QED BY <1>5, <2>1 DEF Filled
<1>7. /\ WriteSlot(h, i, record)
      /\ ring' = [ring EXCEPT !.lens[h] = @ + 1]
      /\ pc' = "Idle"
  <2>1. record \in SlotLandings(flash[h].slots[i], record)
    BY <1>6 DEF SlotLandings
  <2>2. ~LosePower
    BY <1>1 DEF LosePower, Disturbed
  <2>3. ~(ring' = [ring EXCEPT !.sealed = TRUE] /\ pc' = "Idle")
    <3>1. SUFFICES ASSUME ring' = [ring EXCEPT !.sealed = TRUE], pc' = "Idle"
                   PROVE  FALSE
      OBVIOUS
    <3>2. ring'.lens = ring.lens
      BY <1>2, <3>1 DEF Ring
    <3>3. QED BY <1>1, <3>1, <3>2 DEF Disturbed, Acknowledged
  <2>4. QED BY <2>1, <2>2, <2>3 DEF WriteRecord
<1>8. ring.lens \in [Segments -> 0 .. PerSegment]
  BY <1>2 DEF Ring
<1>9. flash' \in Flash /\ ring' \in Ring
  BY DEF RingInv, TypeOK, Flash
<1>10. /\ ring'.tail = ring.tail /\ ring'.used = ring.used /\ ring'.sealed = ring.sealed
       /\ ring'.epoch = ring.epoch /\ ring'.clean = ring.clean
       /\ ring'.lens = [ring.lens EXCEPT ![h] = @ + 1]
  BY <1>2, <1>7 DEF Ring
<1>11. ring'.lens[h] = i /\ \A s \in Segments : s # h => ring'.lens[s] = ring.lens[s]
  BY <1>4, <1>8, <1>10
<1>12. /\ \A s \in Segments : s # h => flash'[s] = flash[s]
       /\ flash'[h].header = flash[h].header /\ flash'[h].slots[i] = record
       /\ \A j \in Slots : j # i => flash'[h].slots[j] = flash[h].slots[j]
  <2>1. flash' = [flash EXCEPT ![h].slots[i] = record]
    BY <1>7 DEF WriteSlot
  <2> HIDE DEF h, i
  <2>2. flash'[h] = [flash[h] EXCEPT !.slots[i] = record] /\ \A s \in Segments : s # h => flash'[s] = flash[s]
    BY <1>2, <1>4, <2>1 DEF Flash
  <2>3. /\ flash'[h].header = flash[h].header
        /\ flash'[h].slots = [flash[h].slots EXCEPT ![i] = record]
    BY <1>4, <2>2 DEF Segment
  <2>4. QED BY <1>4, <1>5, <2>2, <2>3
<1>13. PICK q \in Ring : q = ring'
  BY <1>9
<1>14. PICK j \in Slots : j = i
  BY <1>5
<1>15. PICK v \in Nat : v = Given(pc, record)
  BY <1>2
<1>16. PICK e : e = Started(pc, record)
  OBVIOUS
<1>17. /\ j = ring.lens[h] + 1 /\ j \in Int
       /\ \A a \in Slots : a # j => flash'[h].slots[a] = flash[h].slots[a]
       /\ flash'[h].slots[j] = record
       /\ q.tail = ring.tail /\ q.used = ring.used /\ q.sealed = ring.sealed
       /\ q.epoch = ring.epoch /\ q.clean = ring.clean
       /\ q.lens[h] = j /\ \A s \in Segments : s # h => q.lens[s] = ring.lens[s]
       /\ Holds(flash, ring, v, e)
  BY <1>2, <1>5, <1>10, <1>11, <1>12, <1>13, <1>14, <1>15, <1>16
<1> HIDE DEF i
<1>18. CalmRing(flash', q)
  <2>1. Valid(flash'[h].slots[j])
    BY <1>3, <1>17 DEF Valid
  <2>2. QED BY <1>2, <1>3, <1>9, <1>12, <1>17, <2>1, CalmWrite
<1>19. Surviving(flash') = Append(Surviving(flash), record)
  <2>1. v < record
    BY <1>2, <1>3, <1>15
  <2>2. QED BY <1>2, <1>3, <1>9, <1>12, <1>17, <2>1, SlotWrittenLog
<1>20. durable' = Append(durable, record)
  BY <1>2, <1>19
<1>21. CalmLog(durable', record, "Idle")
  <2>1. record \in SlotValues /\ v \in Int /\ record = v + 1
    BY <1>2, <1>3, <1>15 DEF SlotValues
  <2>2. Numbered(durable, v)
    BY <1>2, <1>15 DEF CalmLog
  <2>3. Numbered(durable', record) /\ Len(durable') = Len(durable) + 1
    BY <1>2, <1>20, <2>1, <2>2, NumberedMore
  <2>4. Len(durable) = v \/ Len(durable) >= Least
    BY <1>2, <1>15 DEF CalmLog
  <2>5. Least \in Int
    BY SlotConstants DEF Least
  <2>6. Len(durable') = record \/ Len(durable') > Least
    BY <1>2, <2>1, <2>3, <2>4, <2>5
  <2>7. Len(durable') \in Int
    BY <1>2, <2>3
  <2>8. QED BY <2>3, <2>5, <2>6, <2>7 DEF CalmLog
<1>22. CalmRing(flash', ring') /\ Given(pc', record') = record
  BY <1>1, <1>7, <1>13, <1>18 DEF Given
<1>23. QED BY <1>7, <1>21, <1>22 DEF CalmNow

\* A power loss between two Appends.
LEMMA CalmLossStep ==
  ASSUME HInv, CalmNow, PowerLoss, ~Disturbed, durable' = Surviving(flash')
  PROVE  CalmNow'
<1>1. pc = "Idle" /\ pc' = "Off" /\ flash' = flash /\ record' = record
  BY DEF PowerLoss, LosePower, Disturbed
<1>2. /\ flash \in Flash /\ ring \in Ring /\ record \in Nat
      /\ Holds(flash, ring, Given(pc, record), Started(pc, record))
      /\ CalmRing(flash, ring)
      /\ durable = Surviving(flash) /\ CalmLog(durable, Given(pc, record), pc)
  BY <1>1, CalmFacts
<1>3. Given(pc, record) = record /\ Started(pc, record) = record /\ Given(pc', record') = record
  BY <1>1 DEF Given, Started
<1>4. Holds(flash, ring, record, record)
  BY <1>2, <1>3
<1> DEFINE h == HeadOf(ring)  k == ring.used
<1>5. h \in Segments /\ k \in 0 .. NSegments /\ At(ring, 0) = h
  BY <1>2, AtIs
<1>6. ~Ahead(flash, ring) /\ Alive(flash, ring) = k
  BY <1>2, <1>4, CalmSurvives
<1>7. Run(flash, h, k, record)
  <2>1. Run(flash, RunHead(flash, ring), RunSize(flash, ring), record)
    <3>1. record \in Int
      BY <1>2
    <3>2. QED BY <1>2, <1>4, <3>1, RunIs
  <2>2. QED BY <1>6, <2>1 DEF RunHead, RunSize
<1>8. \A n \in 1 .. k - 1 : \A i \in Slots : Valid(flash[Before(h, n)].slots[i])
  <2> TAKE n \in 1 .. k - 1
  <2>1. n \in 0 .. k - 1
    BY <1>5, SlotConstants
  <2>2. ring.lens[At(ring, n)] = PerSegment
    BY <1>2 DEF CalmRing
  <2>3. \A i \in Slots : i <= PerSegment
    BY SlotConstants DEF Slots
  <2>4. \A i \in Slots : Valid(flash[At(ring, n)].slots[i])
    BY <1>2, <2>1, <2>2, <2>3 DEF CalmRing
  <2>5. QED BY <2>4 DEF At
<1>9. k > 0 => \A i \in Slots : flash[h].slots[i] # Torn
  <2>1. SUFFICES ASSUME k > 0, NEW i \in Slots
                 PROVE  flash[h].slots[i] # Torn
    OBVIOUS
  <2>2. 0 \in 0 .. k - 1
    BY <1>5, <2>1, SlotConstants
  <2>3. Valid(flash[h].slots[i]) <=> i <= ring.lens[h]
    BY <1>2, <1>5, <2>2 DEF CalmRing
  <2>4. i > ring.lens[h] => flash[h].slots[i] = Erased
    BY <1>2, <1>4, <2>1 DEF Holds, Filled, CalmRing
  <2>5. i \in Int /\ ring.lens[h] \in Int
    BY <1>2, <1>5, SlotConstants DEF Slots, Ring
  <2>6. QED BY <2>3, <2>4, <2>5, SlotFacts
<1>10. CalmFlash(flash, record)
  BY <1>5, <1>7, <1>8, <1>9 DEF CalmFlash
<1>11. CalmLog(durable', Given(pc', record'), pc')
  <2>1. durable' = durable
    BY <1>1, <1>2
  <2>2. CalmLog(durable, record, "Off")
    BY <1>1, <1>2, <1>3 DEF CalmLog
  <2>3. QED BY <1>1, <1>3, <2>1, <2>2
<1>12. CalmFlash(flash', record')
  BY <1>1, <1>10
<1>13. QED BY <1>1, <1>11, <1>12 DEF CalmNow

\* An erased flash, calm.
LEMMA CalmInit ==
  ASSUME HInit
  PROVE  CalmInv
<1>1. /\ flash = [s \in Segments |-> Blank] /\ pc = "Off" /\ record = 0 /\ durable = <<>>
  BY DEF HInit, Init
<1>2. 0 \in Segments /\ 0 \in 0 .. NSegments
  BY TwoSegments DEF Segments
<1>3. \A s \in Segments : ~Live(flash, s)
  BY <1>1, LiveFacts DEF Blank
<1>4. OnFlash(flash, 0, 0)
  <2>1. \A n \in 0 .. NSegments - 1 : Before(0, n) \in Segments
    <3>1. \A n \in 0 .. NSegments - 1 : n \in 0 .. NSegments
      BY SlotConstants
    <3>2. QED BY <1>2, <3>1, BeforeIs
  <2>2. QED BY <1>3, <2>1 DEF OnFlash
<1>5. Run(flash, 0, 0, record)
  BY <1>4 DEF Run, Ascending, UpTo
<1>6. CalmFlash(flash, record)
  <2>1. \A n \in 1 .. 0 - 1 : \A i \in Slots : Valid(flash[Before(0, n)].slots[i])
    OBVIOUS
  <2>2. QED BY <1>2, <1>5, <2>1 DEF CalmFlash
<1>7. CalmLog(durable, Given(pc, record), pc)
  <2>1. Len(durable) = 0 /\ Given(pc, record) = 0
    BY <1>1 DEF Given
  <2>2. durable = [i \in 1 .. Len(durable) |-> 0 - Len(durable) + i]
    BY <1>1, <2>1
  <2>3. QED BY <2>1, <2>2 DEF CalmLog, Numbered
<1>8. QED BY <1>1, <1>6, <1>7 DEF CalmInv, CalmNow

\* Every step, as long as nothing goes wrong.
LEMMA CalmStep ==
  ASSUME HInv, CalmInv, [HNext]_hvars
  PROVE  CalmInv'
<1>1. CASE HNext
  <2>1. SUFFICES ASSUME calm'
                 PROVE  CalmNow'
    BY DEF CalmInv
  <2>2. CalmNow /\ ~Disturbed /\ durable' = Surviving(flash') /\ RingInv' /\ Next
    BY <1>1, <2>1, RingStepHolds DEF HInv, HNext, CalmInv
  <2>3. ~Repair
    BY <2>2 DEF Repair, CalmNow
  <2>4. QED BY <2>2, <2>3, CalmOpenStep, CalmGiveStep, CalmDropStep, CalmEraseStep, CalmStartStep, CalmWriteStep,
              CalmLossStep DEF Next
<1>2. CASE UNCHANGED hvars
  <2>1. flash' = flash /\ ring' = ring /\ pc' = pc /\ record' = record /\ durable' = durable /\ calm' = calm
    BY <1>2 DEF hvars, vars, history
  <2>2. QED BY <2>1 DEF CalmInv, CalmNow
<1>3. QED BY <1>1, <1>2

\* What a calm ring holds.
LEMMA CalmKeeps ==
  ASSUME HInv, CalmInv
  PROVE  CalmKeepsAll
<1>1. SUFFICES ASSUME calm, pc = "Idle"
               PROVE  /\ Reported = durable
                      /\ durable = [i \in 1 .. Len(durable) |-> record - Len(durable) + i]
                      /\ Len(durable) = record \/ Len(durable) > (NSegments - 1) * PerSegment
  BY DEF CalmKeepsAll
<1>2. CalmNow
  BY <1>1 DEF CalmInv
<1>3. /\ flash \in Flash /\ ring \in Ring
      /\ Holds(flash, ring, Given(pc, record), Started(pc, record))
      /\ CalmRing(flash, ring) /\ durable = Surviving(flash) /\ CalmLog(durable, Given(pc, record), pc)
  BY <1>1, <1>2, CalmFacts
<1>4. Given(pc, record) = record
  BY <1>1 DEF Given
<1>5. Surviving(flash) = Slotted(flash, ring)
  <2>1. PICK v, e : v = Given(pc, record) /\ e = Started(pc, record)
    OBVIOUS
  <2>2. Holds(flash, ring, v, e)
    BY <1>3, <2>1
  <2>3. QED BY <1>3, <2>2, CalmSurvives
<1>6. QED BY <1>1, <1>3, <1>4, <1>5 DEF Reported, CalmLog, Numbered, Least

(* As long as no operation fails or is cut, whatever reboots there are between*)
(* two Appends: the ring reports what would survive, those are the last    *)
(* records without a gap, and never less than all but one segment of them. *)
THEOREM CalmKeepsAllAlways == HSpec => []CalmKeepsAll
<1>1. HInit => CalmInv
  BY CalmInit
<1>2. HInv /\ CalmInv /\ [HNext]_hvars => CalmInv'
  BY CalmStep
<1>3. HInv /\ CalmInv => CalmKeepsAll
  BY CalmKeeps
<1>4. QED BY <1>1, <1>2, <1>3, RingHolds, PTL DEF HSpec

-----------------------------------------------------------------------------
(* The export. *)

(* A client that reads the log while the sampler writes it does nothing to the*)
(* ring: all of the above holds under the export.                          *)
THEOREM ExportLeavesTheRing == SSpec => HSpec
<1>1. SInit => HInit
  BY DEF SInit
<1>2. [SNext]_svars => [HNext]_hvars
  BY DEF SNext, Start, Sent, Broken, Locked, RingStep, svars
<1>3. QED BY <1>1, <1>2, PTL DEF SSpec, HSpec

-----------------------------------------------------------------------------
(* The lookup, the length of a calm log and the next row. *)

\* Where a lookup ends.
LEMMA LowerBoundEnds ==
  ASSUME NEW log \in Seq(Int), NEW seq \in Int
  PROVE  LET r == LowerBound(log, seq)
         IN /\ r \in 0 .. Len(log)
            /\ r # 0 => Valid(log[r]) /\ log[r] < seq
            /\ r # Len(log) => ~(Valid(log[r + 1]) /\ log[r + 1] < seq)
<1> DEFINE holds == [i \in DOMAIN log |-> Valid(log[i]) /\ log[i] < seq]
<1>1. Len(holds) = Len(log) /\ Len(log) \in Nat
  OBVIOUS
<1>2. \A i \in DOMAIN log : holds[i] = (Valid(log[i]) /\ log[i] < seq)
  OBVIOUS
<1> HIDE DEF holds
<1>3. Ends(holds, 0, Len(log), Boundary(holds))
  BY <1>1, BoundaryIs
<1>4. LowerBound(log, seq) = Boundary(holds)
  BY DEF LowerBound, holds
<1> DEFINE r == LowerBound(log, seq)
<1>5. r \in 0 .. Len(log) /\ (r = 0 \/ holds[r]) /\ (r = Len(log) \/ ~holds[r + 1])
  BY <1>1, <1>3, <1>4 DEF Ends
<1> HIDE DEF r
<1>6. (r # 0 => r \in DOMAIN log) /\ (r # Len(log) => r + 1 \in DOMAIN log)
  BY <1>1, <1>5
<1>7. QED BY <1>2, <1>5, <1>6 DEF r

\* The records of a ring whose segments are full but for the newest.
Full(r) == IF r.used = 0 THEN 0 ELSE (r.used - 1) * PerSegment + r.lens[HeadOf(r)]

\* How long the log of a ring is in which all segments behind the head are full.
LEMMA CalmLength ==
  ASSUME NEW f \in Flash, NEW r \in Ring, NEW v, NEW e, Holds(f, r, v, e), CalmRing(f, r)
  PROVE  Len(Surviving(f)) = Full(r)
<1> DEFINE h == HeadOf(r)  lens == r.lens
<1>1. /\ h \in Segments /\ r.used \in 0 .. NSegments /\ NSegments \in Nat /\ NSegments > 1
      /\ \A n \in 0 .. NSegments - 1 : At(r, n) \in Segments
  BY AtIs, TwoSegments
<1>2. lens \in LensType /\ Surviving(f) = Strung(f, h, r.used, lens)
  BY CalmSurvives
<1>3. CASE r.used = 0
  BY <1>2, <1>3, StrungNone DEF Full
<1>4. CASE r.used # 0
  <2>1. PICK k \in 0 .. NSegments - 1 : k = r.used - 1 /\ r.used = k + 1
    BY <1>1, <1>4
  <2>2. PICK s \in Segments : s = Before(h, 1)
    <3>1. 1 \in 0 .. NSegments - 1
      BY <1>1
    <3>2. QED BY <1>1, <3>1 DEF At
  <2>3. After(s) = h
    <3>1. 0 \in 0 .. NSegments - 1 /\ Before(h, 0) = h
      BY <1>1, BeforeNone
    <3>2. After(Before(h, 0 + 1)) = Before(h, 0)
      BY <1>1, <3>1, AfterBefore
    <3>3. QED BY <2>2, <3>1, <3>2
  <2>4. \A n \in 0 .. k - 1 : lens[Before(s, n)] = PerSegment
    <3> TAKE n \in 0 .. k - 1
    <3>1. n \in 0 .. NSegments - 1 /\ n + 1 \in 1 .. r.used - 1
      BY <1>1, <2>1
    <3>2. Before(s, n) = At(r, n + 1)
      BY <2>2, <2>3, <3>1, BeforeAfter DEF At
    <3>3. QED BY <3>1, <3>2 DEF CalmRing
  <2> HIDE DEF h, lens
  <2>5. Strung(f, h, r.used, lens) = Cat(Strung(f, s, k, lens), Piece(f, h, lens))
    BY <1>2, <2>1, <2>3, StrungNewest
  <2>6. k \in 0 .. NSegments
    BY <1>1, <2>1
  <2>7. Len(Strung(f, s, k, lens)) = k * PerSegment /\ Strung(f, s, k, lens) \in Seq(SlotValues)
    BY <1>2, <2>4, <2>6, StrungLength, StrungType
  <2>8. Len(Piece(f, h, lens)) = lens[h] /\ Piece(f, h, lens) \in Seq(SlotValues)
    BY <1>1, <1>2, PieceIs
  <2>9. Len(Surviving(f)) = k * PerSegment + lens[h]
    BY <1>2, <2>5, <2>7, <2>8, CatEntries
  <2>10. QED BY <1>4, <2>1, <2>9 DEF Full, h, lens
<1>5. QED BY <1>3, <1>4

\* The segments of a ring nothing has gone wrong in are full, but for the head.
LEMMA FullIs ==
  ASSUME HInv, CalmNow, pc # "Off"
  PROVE  Len(durable) = Full(ring)
<1>1. /\ flash \in Flash /\ ring \in Ring /\ Holds(flash, ring, Given(pc, record), Started(pc, record))
      /\ CalmRing(flash, ring) /\ durable = Surviving(flash)
  BY CalmFacts
<1>2. PICK v, e : v = Given(pc, record) /\ e = Started(pc, record)
  OBVIOUS
<1>3. Holds(flash, ring, v, e)
  BY <1>1, <1>2
<1>4. QED BY <1>1, <1>3, CalmLength

\* The same of the ring a step ends in.
LEMMA FullThen ==
  ASSUME HInv', CalmNow', pc' # "Off"
  PROVE  Len(durable') = Full(ring')
<1>1. /\ flash' \in Flash /\ ring' \in Ring /\ Holds(flash', ring', Given(pc', record'), Started(pc', record'))
      /\ CalmRing(flash', ring') /\ durable' = Surviving(flash')
  BY DEF HInv, RingInv, TypeOK, Flash, CalmNow
<1>2. PICK f \in Flash, r \in Ring : f = flash' /\ r = ring'
  BY <1>1
<1>3. PICK v, e : v = Given(pc', record') /\ e = Started(pc', record')
  OBVIOUS
<1>4. Holds(f, r, v, e) /\ CalmRing(f, r)
  BY <1>1, <1>2, <1>3
<1>5. Len(Surviving(f)) = Full(r)
  BY <1>4, CalmLength
<1>6. QED BY <1>1, <1>2, <1>5

-----------------------------------------------------------------------------
\* Numbers have a least one.
LEMMA LeastIs ==
  ASSUME NEW T \in SUBSET Nat, T # {}
  PROVE  \E m \in T : \A n \in T : m <= n
<1> DEFINE less == OpToRel(<, Nat)
<1>1. IsWellFoundedOn(less, Nat)
  BY NatLessThanWellFounded
<1>2. \A n, m \in Nat : n < m => <<n, m>> \in less
  BY DEF OpToRel
<1> HIDE DEF less
<1>3. PICK m \in T : \A n \in T : <<n, m>> \notin less
  BY <1>1, WFMin
<1>4. \A n \in T : n \in Nat /\ m \in Nat
  OBVIOUS
<1>5. \A n \in T : ~(n < m)
  BY <1>2, <1>3, <1>4
<1>6. QED BY <1>4, <1>5

\* What the loop of the stream comes to.
LEMMA EmitIs ==
  ASSUME Reported \in Seq(SlotValues), NEW i \in Nat
  PROVE  \/ EmitFrom(i) = Over /\ \A j \in DOMAIN Reported : j > i => ~Valid(Reported[j])
         \/ \E row \in DOMAIN Reported :
              /\ row > i /\ Valid(Reported[row])
              /\ \A j \in DOMAIN Reported : j > i /\ Valid(Reported[j]) => row <= j
              /\ EmitFrom(i) = [phase |-> "sending", i |-> row - 1, seq |-> Reported[row],
                                before |-> Len(Reported), given |-> 0]
<1> DEFINE readable == {j \in DOMAIN Reported : j > i /\ Valid(Reported[j])}
<1>1. readable \subseteq Nat
  BY DOMAIN Reported = 1 .. Len(Reported)
<1>2. CASE readable = {}
  BY <1>2 DEF EmitFrom
<1>3. CASE readable # {}
  <2>1. \E m \in readable : \A j \in readable : m <= j
    <3> HIDE DEF readable
    <3>1. QED BY <1>1, <1>3, LeastIs
  <2>2. Min(readable) \in readable /\ \A j \in readable : Min(readable) <= j
    BY <2>1 DEF Min
  <2> DEFINE row == Min(readable)
  <2>3. EmitFrom(i) = [phase |-> "sending", i |-> row - 1, seq |-> Reported[row],
                       before |-> Len(Reported), given |-> 0]
    BY <1>3 DEF EmitFrom
  <2> HIDE DEF row
  <2>4. QED BY <2>2, <2>3 DEF row
<1>4. QED BY <1>2, <1>3

-----------------------------------------------------------------------------
(* What the operations of a calm ring do to its length. *)

\* What an operation that is done does to the ring and to what it reports.
LEMMA GiveMoves ==
  ASSUME HInv, CalmNow, HInv', CalmNow', Give
  PROVE  /\ pc = "Idle" /\ record' = record + 1 /\ ring' = ring /\ Len(durable') = Len(durable)
         /\ pc' \in {"Record", "Drop", "Erase", "Header"}
         /\ pc' # "Record" => ring.used = 0 \/ ring.lens[HeadOf(ring)] = PerSegment
<1>1. /\ pc = "Idle" /\ record' = record + 1 /\ ring' = ring
      /\ pc' \in {"Record", "Drop", "Header", "Erase"}
  BY DEF Give, StartOf
<1>2. Len(durable') = Len(durable)
  <2>1. flash' = flash /\ durable = Surviving(flash) /\ durable' = Surviving(flash')
    BY DEF Give, HInv
  <2>2. QED BY <2>1
<1>3. ASSUME pc' # "Record", ring.used # 0
      PROVE  ring.lens[HeadOf(ring)] = PerSegment
  <2>1. ~HeadOpen(ring')
    BY <1>1, <1>3 DEF HInv, RingInv, AtPc
  <2>2. ring \in Ring /\ CalmRing(flash, ring)
    BY <1>1, CalmFacts
  <2>3. ring.lens[HeadOf(ring)] \in 0 .. PerSegment /\ ring.used \in Nat /\ PerSegment \in Nat
    BY <2>2, AtIs, SlotConstants DEF Ring
  <2>4. QED BY <1>1, <1>3, <2>1, <2>2, <2>3 DEF HeadOpen, CalmRing
<1>4. QED BY <1>1, <1>2, <1>3

\* A drop that went well takes a full segment off the log.
LEMMA DropMoves ==
  ASSUME HInv, CalmNow, HInv', CalmNow', Drop, ~Disturbed
  PROVE  /\ pc = "Drop" /\ record' = record /\ Len(durable') = Len(durable) - PerSegment
         /\ pc' \in {"Erase", "Header"}
<1>1. /\ pc = "Drop" /\ record' = record /\ ring' = TailDropped /\ pc' = StartOf(TailDropped)
  BY DEF Drop, DropTail, LosePower, Disturbed, Acknowledged
<1>2. pc' \in {"Header", "Erase"}
  BY <1>1 DEF StartOf
<1>3. ring \in Ring /\ CalmRing(flash, ring) /\ AtPc(ring, pc)
  BY <1>1, CalmFacts
<1>4. ring.used = NSegments /\ NSegments \in Nat /\ NSegments > 1 /\ PerSegment \in Nat
  BY <1>1, <1>3, TwoSegments, SlotConstants DEF AtPc
<1>5. /\ ring' \in Ring /\ ring'.tail = After(ring.tail) /\ ring'.used = ring.used - 1
      /\ ring'.lens = [ring.lens EXCEPT ![ring.tail] = 0]
  BY <1>1, <1>3, <1>4, DroppedType
<1>6. HeadOf(ring') = HeadOf(ring)
  <2>1. PICK q \in Ring : q = ring'
    BY <1>5
  <2>2. QED BY <1>3, <1>4, <1>5, <2>1, HeadWithoutTail
<1>7. /\ HeadOf(ring) \in Segments /\ HeadOf(ring) # ring.tail
      /\ ring.lens \in [Segments -> 0 .. PerSegment]
  <2>1. /\ At(ring, 0) = HeadOf(ring) /\ ring.tail = At(ring, ring.used - 1) /\ HeadOf(ring) \in Segments
        /\ \A n, m \in 0 .. NSegments - 1 : At(ring, n) = At(ring, m) => n = m
    BY <1>3, <1>4, AtIs
  <2>2. 0 \in 0 .. NSegments - 1 /\ ring.used - 1 \in 0 .. NSegments - 1 /\ ring.used - 1 # 0
    BY <1>4
  <2>3. QED BY <1>3, <2>1, <2>2 DEF Ring
<1>8. PICK l \in 0 .. PerSegment : l = ring.lens[HeadOf(ring)] /\ l = ring'.lens[HeadOf(ring')]
  BY <1>5, <1>6, <1>7
<1>9. Full(ring) = (NSegments - 1) * PerSegment + l /\ Full(ring') = (NSegments - 2) * PerSegment + l
  BY <1>4, <1>5, <1>8 DEF Full
<1>10. (NSegments - 1) * PerSegment = (NSegments - 2) * PerSegment + PerSegment
  BY <1>4
<1>11. (NSegments - 1) * PerSegment \in Int /\ (NSegments - 2) * PerSegment \in Int
  BY <1>4
<1>12. Len(durable) = Full(ring) /\ Len(durable') = Full(ring')
  <2>1. pc # "Off" /\ pc' # "Off"
    BY <1>1, <1>2
  <2>2. QED BY <2>1, FullIs, FullThen
<1>13. QED BY <1>1, <1>2, <1>4, <1>9, <1>10, <1>11, <1>12

\* An erase that went well leaves the log as long as it was.
LEMMA EraseMoves ==
  ASSUME HInv, CalmNow, HInv', CalmNow', EraseSegment, ~Disturbed
  PROVE  pc = "Erase" /\ record' = record /\ pc' = "Header" /\ Len(durable') = Len(durable)
<1>1. /\ pc = "Erase" /\ record' = record
      /\ ring' = [ring EXCEPT !.clean[NextSegment] = TRUE]
      /\ pc' = "Header"
  BY DEF EraseSegment, LosePower, Disturbed, Acknowledged
<1>2. ring \in Ring
  BY <1>1, CalmFacts
<1>3. ring'.tail = ring.tail /\ ring'.used = ring.used /\ ring'.lens = ring.lens
  BY <1>1, <1>2 DEF Ring
<1>4. Full(ring') = Full(ring)
  BY <1>3 DEF Full, HeadOf
<1>5. Len(durable) = Full(ring) /\ Len(durable') = Full(ring')
  <2>1. pc # "Off" /\ pc' # "Off"
    BY <1>1
  <2>2. QED BY <2>1, FullIs, FullThen
<1>6. QED BY <1>1, <1>4, <1>5

\* A new head that was started is empty, and leaves the log as long as it was.
LEMMA StartMoves ==
  ASSUME HInv, CalmNow, HInv', CalmNow', StartSegment, ~Disturbed
  PROVE  /\ pc = "Header" /\ record' = record /\ pc' = "Record" /\ Len(durable') = Len(durable)
         /\ ring'.used > 0 /\ ring'.lens[HeadOf(ring')] = 0
<1>1. /\ pc = "Header" /\ record' = record
      /\ ring' = [ring EXCEPT !.epoch = ring.epoch + 1, !.used = @ + 1, !.lens[NextSegment] = 0,
                              !.clean[NextSegment] = FALSE, !.sealed = FALSE]
      /\ pc' = "Record"
  BY DEF StartSegment, LosePower, Disturbed, Acknowledged
<1>2. ring \in Ring /\ CalmRing(flash, ring) /\ AtPc(ring, pc) /\ NextSegment = Following(ring)
  BY <1>1, CalmFacts
<1>3. ring.used < NSegments /\ ring.used \in Nat /\ ~HeadOpen(ring) /\ PerSegment \in Nat
  BY <1>1, <1>2, SlotConstants DEF AtPc, Ring
<1>4. ring' \in Ring
  BY DEF HInv, RingInv, TypeOK
<1>5. /\ ring'.tail = ring.tail /\ ring'.used = ring.used + 1
      /\ ring'.lens = [ring.lens EXCEPT ![Following(ring)] = 0]
  BY <1>1, <1>2 DEF Ring
<1>6. HeadOf(ring') = Following(ring) /\ Following(ring) \in Segments
  <2>1. PICK q \in Ring : q = ring'
    BY <1>4
  <2>2. HeadOf(q) = After(HeadOf(ring))
    BY <1>2, <1>3, <1>5, <2>1, HeadWithNext
  <2>3. QED BY <1>2, <2>1, <2>2, AtIs DEF Following
<1>7. ring'.lens[HeadOf(ring')] = 0
  BY <1>2, <1>5, <1>6 DEF Ring
<1>8. Full(ring') = Full(ring)
  <2>1. Full(ring') = ring.used * PerSegment
    BY <1>3, <1>5, <1>7 DEF Full
  <2>2. CASE ring.used = 0
    BY <1>3, <2>1, <2>2 DEF Full
  <2>3. CASE ring.used # 0
    <3>1. ring.lens[HeadOf(ring)] \in 0 .. PerSegment
      BY <1>2, AtIs DEF Ring
    <3>2. ring.lens[HeadOf(ring)] = PerSegment
      BY <1>2, <1>3, <2>3, <3>1 DEF HeadOpen, CalmRing
    <3>3. Full(ring) = (ring.used - 1) * PerSegment + PerSegment
      BY <2>3, <3>2 DEF Full
    <3>4. (ring.used - 1) * PerSegment + PerSegment = ring.used * PerSegment
      BY <1>3
    <3>5. QED BY <2>1, <3>3, <3>4
  <2>4. QED BY <2>2, <2>3
<1>9. Len(durable) = Full(ring) /\ Len(durable') = Full(ring')
  <2>1. pc # "Off" /\ pc' # "Off"
    BY <1>1
  <2>2. QED BY <2>1, FullIs, FullThen
<1>10. QED BY <1>1, <1>3, <1>5, <1>7, <1>8, <1>9

\* A record that was written makes the log, and its head segment, longer by one.
LEMMA WriteMoves ==
  ASSUME HInv, CalmNow, HInv', CalmNow', WriteRecord, ~Disturbed
  PROVE  /\ pc = "Record" /\ record' = record /\ pc' = "Idle" /\ Len(durable') = Len(durable) + 1
         /\ ring.used > 0 /\ ring'.used = ring.used
         /\ ring'.lens[HeadOf(ring')] = ring.lens[HeadOf(ring)] + 1
         /\ ring.lens[HeadOf(ring)] \in Nat
<1> DEFINE h == HeadOf(ring)
<1>1. pc = "Record" /\ record' = record
  BY DEF WriteRecord
<1>2. ring \in Ring /\ AtPc(ring, pc)
  BY <1>1, CalmFacts
<1>3. ring.used \in Nat /\ ring.used > 0
  BY <1>1, <1>2 DEF AtPc, HeadOpen, Ring
<1>4. h \in Segments /\ ring.lens \in [Segments -> 0 .. PerSegment] /\ PerSegment \in Nat
  BY <1>2, AtIs, SlotConstants DEF Ring
<1>5. ring' = [ring EXCEPT !.lens[h] = @ + 1] /\ pc' = "Idle"
  <2>1. ~LosePower
    BY <1>1 DEF LosePower, Disturbed
  <2>2. ~(ring' = [ring EXCEPT !.sealed = TRUE] /\ pc' = "Idle")
    <3>1. SUFFICES ASSUME ring' = [ring EXCEPT !.sealed = TRUE], pc' = "Idle"
                   PROVE  FALSE
      OBVIOUS
    <3>2. ring'.lens = ring.lens
      BY <1>2, <3>1 DEF Ring
    <3>3. QED BY <1>1, <3>1, <3>2 DEF Disturbed, Acknowledged
  <2>3. QED BY <2>1, <2>2 DEF WriteRecord
<1> HIDE DEF h
<1>6. ring'.tail = ring.tail /\ ring'.used = ring.used /\ ring'.lens = [ring.lens EXCEPT ![h] = @ + 1]
  BY <1>2, <1>5 DEF Ring
<1>7. HeadOf(ring') = h
  BY <1>6 DEF HeadOf, h
<1>8. PICK l \in Nat : l = ring.lens[h] /\ ring'.lens[HeadOf(ring')] = l + 1
  BY <1>4, <1>6, <1>7
<1>9. (ring.used - 1) * PerSegment \in Int
  BY <1>3, <1>4
<1>10. /\ Full(ring) = (ring.used - 1) * PerSegment + l
       /\ Full(ring') = (ring.used - 1) * PerSegment + (l + 1)
  BY <1>3, <1>6, <1>8 DEF Full, h
<1>11. Len(durable) = Full(ring) /\ Len(durable') = Full(ring')
  <2>1. pc # "Off" /\ pc' # "Off"
    BY <1>1, <1>5
  <2>2. QED BY <2>1, FullIs, FullThen
<1>12. Len(durable') = Len(durable) + 1
  BY <1>8, <1>9, <1>10, <1>11
<1>13. QED BY <1>1, <1>3, <1>5, <1>6, <1>8, <1>12 DEF h

-----------------------------------------------------------------------------
(* The place of a stream in a calm ring. *)

\* What the stream keeps in its locals.
StreamOk ==
  stream \in [phase: {"waiting", "sending", "over"}, i: Nat, seq: {0} \cup Records, before: Nat,
              given: 0 .. AppendsPerRow]

\* The records of this row's time that are on the log.
Arrived == IF pc = "Idle" THEN stream.given ELSE stream.given - 1

\* Where the stream stands in a ring nothing has gone wrong in: at its place, or a segment behind.
InPlace ==
  /\ pc \in {"Idle", "Drop", "Erase", "Header", "Record"}
  /\ pc # "Idle" => stream.given > 0
  /\ stream.i < stream.before
  /\ stream.seq = Given(pc, record) - Arrived - stream.before + stream.i + 1
  /\ \/ Len(durable) = stream.before + Arrived
     \/ /\ Len(durable) = stream.before + Arrived - PerSegment /\ pc # "Drop"
        /\ pc \in {"Idle", "Record"} => ring.used > 0 /\ ring.lens[HeadOf(ring)] <= Arrived

PlaceInv == StreamOk /\ (calm /\ stream.phase = "sending" => InPlace)

\* A log nothing has gone wrong with.
LEMMA CalmReported ==
  ASSUME HInv, CalmInv, calm, pc = "Idle"
  PROVE  /\ Reported = durable /\ Reported \in Seq(SlotValues) /\ Len(Reported) \in Nat
         /\ DOMAIN Reported = 1 .. Len(Reported)
         /\ record \in Nat /\ Given(pc, record) = record
         /\ \A j \in DOMAIN Reported : Reported[j] = record - Len(Reported) + j /\ Valid(Reported[j])
<1>1. CalmNow
  BY DEF CalmInv
<1>2. /\ flash \in Flash /\ ring \in Ring /\ record \in Nat
      /\ Holds(flash, ring, Given(pc, record), Started(pc, record)) /\ CalmRing(flash, ring)
      /\ durable = Surviving(flash)
  BY <1>1, CalmFacts
<1>3. /\ Reported = durable
      /\ durable = [i \in 1 .. Len(durable) |-> record - Len(durable) + i]
  BY CalmKeeps DEF CalmKeepsAll
<1>4. Reported \in Seq(SlotValues) /\ DOMAIN Reported = 1 .. Len(Reported)
  BY ReportedOrder
<1> DEFINE h == HeadOf(ring)  k == ring.used
<1>5. /\ h \in Segments /\ k \in 0 .. NSegments /\ ring.lens \in LensType
      /\ Reported = Strung(flash, h, k, ring.lens)
  <2>1. ring.lens \in LensType
    BY <1>2 DEF Ring, LensType
  <2>2. QED BY <1>2, <2>1, AtIs, SlottedIs DEF Reported
<1>6. \A j \in 1 .. Len(Reported) : Valid(Reported[j])
  <2> TAKE j \in 1 .. Len(Reported)
  <2> HIDE DEF h, k
  <2>1. PICK n \in 0 .. k - 1 : \E i \in 1 .. ring.lens[Before(h, n)] : Reported[j] = flash[Before(h, n)].slots[i]
    BY <1>2, <1>5, StrungPlaces DEF StrungFrom
  <2>2. PICK i \in 1 .. ring.lens[Before(h, n)] : Reported[j] = flash[Before(h, n)].slots[i]
    BY <2>1
  <2>3. Before(h, n) \in Segments
    <3>1. n \in 0 .. NSegments - 1
      BY <1>5, SlotConstants
    <3>2. QED BY <1>2, <3>1, AtIs DEF At, h
  <2>4. ring.lens[Before(h, n)] \in 0 .. PerSegment /\ PerSegment \in Nat
    BY <1>5, <2>3, SlotConstants DEF LensType
  <2>5. i \in Slots /\ i <= ring.lens[Before(h, n)]
    BY <2>4 DEF Slots
  <2>6. Valid(flash[Before(h, n)].slots[i])
    BY <1>2, <2>5 DEF CalmRing, At, h, k
  <2>7. QED BY <2>2, <2>6
<1>7. Given(pc, record) = record
  BY DEF Given
<1>8. Len(Reported) \in Nat
  BY <1>4
<1>9. \A j \in 1 .. Len(Reported) : Reported[j] = record - Len(Reported) + j
  BY <1>3
<1>10. QED BY <1>2, <1>3, <1>4, <1>6, <1>7, <1>8, <1>9

\* A row that is taken up is at its place.
LEMMA EmitPlace ==
  ASSUME HInv, CalmInv, pc = "Idle", NEW i \in Nat, stream' = EmitFrom(i), UNCHANGED hvars
  PROVE  PlaceInv'
<1>1. /\ Reported \in Seq(SlotValues) /\ DOMAIN Reported = 1 .. Len(Reported) /\ Len(Reported) \in Nat
  BY ReportedOrder
<1>2. /\ pc' = pc /\ record' = record /\ durable' = durable /\ calm' = calm /\ ring' = ring
  BY DEF hvars, vars, history
<1>3. AppendsPerRow \in Nat
  BY StreamConstants
<1>4. CASE stream' = Over
  BY <1>3, <1>4 DEF PlaceInv, StreamOk, Over, NoRow
<1>5. CASE \E row \in DOMAIN Reported :
             /\ row > i /\ Valid(Reported[row])
             /\ stream' = [phase |-> "sending", i |-> row - 1, seq |-> Reported[row],
                           before |-> Len(Reported), given |-> 0]
  <2>1. PICK row \in 1 .. Len(Reported) :
          /\ row > i /\ Valid(Reported[row])
          /\ stream' = [phase |-> "sending", i |-> row - 1, seq |-> Reported[row],
                        before |-> Len(Reported), given |-> 0]
    BY <1>1, <1>5
  <2>2. /\ stream'.i = row - 1 /\ stream'.seq = Reported[row] /\ stream'.before = Len(Reported)
        /\ stream'.given = 0 /\ row - 1 \in Nat
    BY <1>1, <2>1
  <2>3. StreamOk'
    BY <1>1, <1>3, <2>1, <2>2 DEF StreamOk, Valid
  <2>4. ASSUME calm
        PROVE  InPlace'
    <3>1. /\ Reported = durable /\ record \in Nat /\ Given(pc, record) = record
          /\ Reported[row] = record - Len(Reported) + row
      BY <1>1, <2>4, CalmReported
    <3>2. Arrived' = 0
      BY <1>2, <2>2 DEF Arrived
    <3>3. Given(pc', record') = record
      BY <1>2, <3>1
    <3>4. stream'.seq = record - 0 - stream'.before + stream'.i + 1
      BY <1>1, <2>2, <3>1
    <3>5. stream'.i < stream'.before
      BY <1>1, <2>1, <2>2
    <3>6. Len(durable') = stream'.before + 0
      BY <1>1, <1>2, <2>2, <3>1
    <3>7. QED BY <1>2, <3>2, <3>3, <3>4, <3>5, <3>6 DEF InPlace
  <2>5. QED BY <1>2, <2>3, <2>4 DEF PlaceInv
<1>6. QED BY <1>1, <1>4, <1>5, EmitIs

\* Where the stream takes its next row from.
LEMMA NextIndexIs ==
  ASSUME HInv, StreamOk, pc = "Idle"
  PROVE  NextIndex \in Nat
<1>1. stream.seq + 1 \in Int /\ stream.i + 1 \in Nat
  BY SlotConstants DEF StreamOk, Records
<1>2. Reported \in Seq(Int) /\ Len(Reported) \in Nat
  BY ReportedOrder
<1>3. LowerBound(Reported, stream.seq + 1) \in 0 .. Len(Reported)
  BY <1>1, <1>2, LowerBoundEnds
<1>4. QED BY <1>1, <1>2, <1>3 DEF NextIndex

\* Where a stream starts is an index of the log.
LEMMA StartIndexIs ==
  ASSUME HInv, pc = "Idle", NEW seq \in Records
  PROVE  LowerBound(Reported, seq) \in Nat
<1>1. Reported \in Seq(Int) /\ Len(Reported) \in Nat
  BY ReportedOrder
<1>2. LowerBound(Reported, seq) \in 0 .. Len(Reported)
  BY <1>1, LowerBoundIs
<1>3. QED BY <1>1, <1>2

\* The ring moves on under a row.
LEMMA RingPlace ==
  ASSUME AppendsPerRow < PerSegment,
         HInv, CalmInv, HInv', CalmInv', PlaceInv, RingStep
  PROVE  PlaceInv'
<1>1. /\ AppendsPerRow \in Nat /\ PerSegment \in Nat /\ StreamOk
  BY StreamConstants, SlotConstants DEF PlaceInv
<1>2. StreamOk'
  <2>1. CASE stream' = Over
    BY <1>1, <2>1 DEF StreamOk, Over, NoRow
  <2>2. CASE UNCHANGED stream
    BY <1>1, <2>2 DEF StreamOk
  <2>3. CASE stream.given < AppendsPerRow /\ stream' = [stream EXCEPT !.given = @ + 1]
    BY <1>1, <2>3 DEF StreamOk
  <2>4. QED BY <2>1, <2>2, <2>3 DEF RingStep
<1>3. SUFFICES ASSUME calm', stream'.phase = "sending"
               PROVE  InPlace'
  BY <1>2 DEF PlaceInv
<1>4. calm /\ ~Disturbed /\ Next /\ CalmNow /\ CalmNow'
  BY <1>3 DEF RingStep, HNext, CalmInv
<1>5. /\ stream.phase = "sending" /\ pc' # "Off"
      /\ \/ /\ record' # record /\ stream.given < AppendsPerRow
            /\ stream' = [stream EXCEPT !.given = @ + 1]
         \/ record' = record /\ UNCHANGED stream
  <2>1. stream' # Over
    BY <1>3 DEF Over, NoRow
  <2>2. QED BY <1>3, <2>1 DEF RingStep
<1>6. InPlace /\ pc # "Off" /\ pc # "Repair"
  BY <1>4, <1>5 DEF PlaceInv, InPlace
<1>7. /\ stream.given \in Nat /\ stream.i \in Nat /\ stream.before \in Nat /\ stream.seq \in Int
      /\ record \in Nat /\ Len(durable) \in Nat
  <2>1. record \in Nat /\ Len(durable) \in Nat
    BY <1>4, <1>6, CalmFacts
  <2>2. QED BY <1>1, <2>1, SlotConstants DEF StreamOk, Records
<1>8. CASE Give
  <2>1. /\ pc = "Idle" /\ record' = record + 1 /\ ring' = ring /\ Len(durable') = Len(durable)
        /\ pc' \in {"Record", "Drop", "Erase", "Header"}
        /\ pc' # "Record" => ring.used = 0 \/ ring.lens[HeadOf(ring)] = PerSegment
    BY <1>4, <1>8, GiveMoves
  <2>2. stream.given < AppendsPerRow /\ stream' = [stream EXCEPT !.given = @ + 1]
    BY <1>5, <1>7, <2>1
  <2>3. /\ stream'.given = stream.given + 1 /\ stream'.i = stream.i /\ stream'.before = stream.before
        /\ stream'.seq = stream.seq
    BY <1>1, <2>2 DEF StreamOk
  <2>4. /\ Arrived = stream.given /\ Arrived' = stream.given
        /\ Given(pc, record) = record /\ Given(pc', record') = record
    BY <1>7, <2>1, <2>3 DEF Arrived, Given
  <2>5. /\ stream.i < stream.before /\ stream.seq = record - stream.given - stream.before + stream.i + 1
        /\ \/ Len(durable) = stream.before + stream.given
           \/ /\ Len(durable) = stream.before + stream.given - PerSegment
              /\ ring.used > 0 /\ ring.lens[HeadOf(ring)] <= stream.given
    BY <1>6, <2>1, <2>4 DEF InPlace
  <2>6. CASE Len(durable) = stream.before + stream.given
    BY <1>7, <2>1, <2>3, <2>4, <2>5, <2>6 DEF InPlace
  <2>7. CASE /\ Len(durable) = stream.before + stream.given - PerSegment
             /\ ring.used > 0 /\ ring.lens[HeadOf(ring)] <= stream.given
    <3>1. pc' = "Record"
      <4>1. stream.given < PerSegment
        BY <1>1, <1>7, <2>2
      <4>2. ring.used # 0 /\ ring.lens[HeadOf(ring)] # PerSegment
        BY <1>1, <1>7, <2>7, <4>1
      <4>3. QED BY <2>1, <4>2
    <3>2. QED BY <1>7, <2>1, <2>3, <2>4, <2>5, <2>7, <3>1 DEF InPlace
  <2>8. QED BY <2>5, <2>6, <2>7
<1>9. ASSUME ~Give
      PROVE  record' = record /\ UNCHANGED stream
  BY <1>4, <1>5, <1>9 DEF Next, Open, Repair, Drop, EraseSegment, StartSegment, WriteRecord, PowerLoss
<1>10. CASE Drop
  <2>1. pc = "Drop" /\ Len(durable') = Len(durable) - PerSegment /\ pc' \in {"Erase", "Header"} /\ record' = record
    BY <1>4, <1>10, DropMoves
  <2>2. UNCHANGED stream
    BY <1>9, <2>1 DEF Give
  <2>3. Arrived' = Arrived /\ Given(pc', record') = Given(pc, record)
    BY <2>1, <2>2 DEF Arrived, Given
  <2>4. Len(durable) = stream.before + Arrived
    BY <1>6, <2>1 DEF InPlace
  <2>5. Len(durable') = stream.before + Arrived - PerSegment
    <3>1. PICK n \in Nat, b \in Nat, a \in Int, p \in Nat :
            n = Len(durable) /\ b = stream.before /\ a = Arrived /\ p = PerSegment
      BY <1>1, <1>7 DEF Arrived
    <3>2. Len(durable') = n - p /\ n = b + a
      BY <2>1, <2>4, <3>1
    <3>3. Len(durable') = b + a - p
      BY <3>1, <3>2
    <3>4. QED BY <3>1, <3>3
  <2>6. /\ pc' # "Drop" /\ pc' \notin {"Idle", "Record"} /\ stream.given > 0 /\ stream.i < stream.before
        /\ stream.seq = Given(pc, record) - Arrived - stream.before + stream.i + 1
    BY <1>6, <2>1 DEF InPlace
  <2>7. QED BY <2>1, <2>2, <2>3, <2>5, <2>6 DEF InPlace
<1>11. CASE EraseSegment
  <2>1. pc = "Erase" /\ record' = record /\ pc' = "Header" /\ Len(durable') = Len(durable)
    BY <1>4, <1>11, EraseMoves
  <2>2. UNCHANGED stream
    BY <1>9, <2>1 DEF Give
  <2>3. Arrived' = Arrived /\ Given(pc', record') = Given(pc, record)
    BY <2>1, <2>2 DEF Arrived, Given
  <2>4. QED BY <1>6, <2>1, <2>2, <2>3 DEF InPlace
<1>12. CASE StartSegment
  <2>1. /\ pc = "Header" /\ record' = record /\ pc' = "Record" /\ Len(durable') = Len(durable)
        /\ ring'.used > 0 /\ ring'.lens[HeadOf(ring')] = 0
    BY <1>4, <1>12, StartMoves
  <2>2. UNCHANGED stream
    BY <1>9, <2>1 DEF Give
  <2>3. Arrived' = Arrived /\ Given(pc', record') = Given(pc, record) /\ Arrived >= 0 /\ stream.given > 0
    BY <1>6, <1>7, <2>1, <2>2 DEF Arrived, Given, InPlace
  <2>4. QED BY <1>6, <2>1, <2>2, <2>3 DEF InPlace
<1>13. CASE WriteRecord
  <2>1. /\ pc = "Record" /\ record' = record /\ pc' = "Idle" /\ Len(durable') = Len(durable) + 1
        /\ ring.used > 0 /\ ring'.used = ring.used
        /\ ring'.lens[HeadOf(ring')] = ring.lens[HeadOf(ring)] + 1
        /\ ring.lens[HeadOf(ring)] \in Nat
    BY <1>4, <1>13, WriteMoves
  <2>2. UNCHANGED stream
    BY <1>9, <2>1 DEF Give
  <2>3. PICK a \in Int : Arrived = a /\ Arrived' = a + 1
    BY <1>7, <2>1, <2>2 DEF Arrived
  <2>4. Given(pc', record') = record /\ Given(pc, record) = record - 1
    BY <2>1 DEF Given
  <2>5. /\ stream.i < stream.before
        /\ stream.seq = record - 1 - a - stream.before + stream.i + 1
        /\ \/ Len(durable) = stream.before + a
           \/ Len(durable) = stream.before + a - PerSegment /\ ring.lens[HeadOf(ring)] <= a
    BY <1>6, <2>1, <2>3, <2>4 DEF InPlace
  <2>6. stream.seq = record - (a + 1) - stream.before + stream.i + 1
    BY <1>7, <2>5
  <2>7. \/ Len(durable') = stream.before + (a + 1)
        \/ /\ Len(durable') = stream.before + (a + 1) - PerSegment
           /\ ring'.used > 0 /\ ring'.lens[HeadOf(ring')] <= a + 1
    <3>1. PICK b \in Nat, n \in Nat, l \in Nat, p \in Nat :
            b = stream.before /\ n = Len(durable) /\ l = ring.lens[HeadOf(ring)] /\ p = PerSegment
      BY <1>1, <1>7, <2>1
    <3>2. n = b + a \/ (n = b + a - p /\ l <= a)
      BY <2>5, <3>1
    <3>3. n + 1 = b + (a + 1) \/ (n + 1 = b + (a + 1) - p /\ l + 1 <= a + 1)
      BY <3>2
    <3>4. Len(durable') = n + 1 /\ ring'.lens[HeadOf(ring')] = l + 1 /\ ring'.used > 0
      BY <2>1, <3>1
    <3>5. QED BY <3>1, <3>3, <3>4
  <2>8. QED BY <2>1, <2>2, <2>3, <2>4, <2>5, <2>6, <2>7 DEF InPlace
<1>14. QED
  <2>1. ~Open /\ ~Repair /\ ~PowerLoss
    BY <1>5, <1>6 DEF Open, Repair, PowerLoss, LosePower
  <2>2. QED BY <1>4, <1>8, <1>10, <1>11, <1>12, <1>13, <2>1 DEF Next

\* The stream takes its next row from its place.
LEMMA CalmSent ==
  ASSUME AppendsPerRow < PerSegment, HInv, CalmInv, PlaceInv, calm, Sent
  PROVE  Forward /\ Skipped = {}
<1> DEFINE R == Reported
<1>1. pc = "Idle" /\ stream.phase = "sending" /\ stream' = EmitFrom(NextIndex)
  BY DEF Sent, Locked
<1>2. /\ R = durable /\ R \in Seq(SlotValues) /\ Len(R) \in Nat /\ DOMAIN R = 1 .. Len(R)
      /\ record \in Nat /\ Given(pc, record) = record
      /\ \A j \in DOMAIN R : R[j] = record - Len(R) + j /\ Valid(R[j])
  BY <1>1, CalmReported
<1>3. /\ stream.given \in Nat /\ stream.i \in Nat /\ stream.before \in Nat /\ stream.seq \in Int
      /\ stream.given < PerSegment /\ PerSegment \in Nat
  BY StreamConstants, SlotConstants DEF PlaceInv, StreamOk, Records
<1>4. InPlace /\ Arrived = stream.given
  BY <1>1 DEF PlaceInv, Arrived
<1>5. /\ stream.i < stream.before
      /\ stream.seq = record - stream.given - stream.before + stream.i + 1
      /\ Len(R) = stream.before + stream.given \/ Len(R) = stream.before + stream.given - PerSegment
  BY <1>2, <1>4 DEF InPlace
<1>6. NextIndex \in Nat
  BY <1>1, NextIndexIs DEF PlaceInv
\* Behind the index are the newer records, and they only.
<1>7. \A j \in DOMAIN R : j > NextIndex <=> stream.seq < R[j]
  <2>1. PICK g \in Nat, i \in Nat, b \in Nat, q \in Int, p \in Nat, c \in Nat, l \in Nat :
          /\ g = stream.given /\ i = stream.i /\ b = stream.before /\ q = stream.seq /\ p = PerSegment
          /\ c = record /\ l = Len(R)
    BY <1>2, <1>3
  <2>2. /\ i < b /\ q = c - g - b + i + 1 /\ g < p
        /\ l = b + g \/ l = b + g - p
    BY <1>3, <1>5, <2>1
  <2>3. \A j \in DOMAIN R : j \in 1 .. l /\ R[j] = c - l + j /\ Valid(R[j])
    BY <1>2, <2>1
  <2>4. NextIndex = IF l < b THEN LowerBound(R, q + 1) ELSE i + 1
    BY <2>1 DEF NextIndex
  <2>5. R \in Seq(Int)
    BY <1>1, ReportedOrder
  <2>6. DOMAIN R = 1 .. l
    BY <1>2, <2>1
  <2> HIDE DEF R
  <2>7. CASE l = b + g
    <3>1. NextIndex = i + 1
      BY <2>4, <2>7
    <3>2. \A j \in DOMAIN R : j > i + 1 <=> q < R[j]
      BY <2>2, <2>3, <2>7
    <3>3. QED BY <2>1, <3>1, <3>2
  <2>8. CASE l = b + g - p
    <3>1. NextIndex = LowerBound(R, q + 1)
      BY <2>2, <2>4, <2>8
    <3>2. PICK n \in 0 .. l :
            /\ n = NextIndex
            /\ n # 0 => R[n] < q + 1
            /\ n # l => ~(Valid(R[n + 1]) /\ R[n + 1] < q + 1)
      <4>1. PICK t \in Int : t = q + 1
        OBVIOUS
      <4>2. /\ LowerBound(R, t) \in 0 .. Len(R)
            /\ LowerBound(R, t) # 0 => R[LowerBound(R, t)] < t
            /\ LowerBound(R, t) # Len(R) => ~(Valid(R[LowerBound(R, t) + 1]) /\ R[LowerBound(R, t) + 1] < t)
        BY <2>5, LowerBoundEnds
      <4>3. QED BY <2>1, <3>1, <4>1, <4>2
    <3>3. n # 0 => n \in DOMAIN R
      BY <2>6
    <3>4. n # l => n + 1 \in DOMAIN R
      BY <2>6
    <3>5. n # 0 => c - l + n < q + 1
      BY <2>3, <3>2, <3>3
    <3>6. n # l => ~(c - l + (n + 1) < q + 1)
      BY <2>3, <3>2, <3>4
    <3>7. ASSUME NEW j \in 1 .. l
          PROVE  j > n <=> q < c - l + j
      BY <3>5, <3>6
    <3>8. \A j \in DOMAIN R : j > n <=> q < R[j]
      BY <2>3, <3>7
    <3>9. QED BY <2>1, <3>2, <3>8
  <2>9. QED BY <2>2, <2>7, <2>8
<1>8. CASE EmitFrom(NextIndex) = Over /\ \A j \in DOMAIN R : j > NextIndex => ~Valid(R[j])
  <2>1. Forward
    BY <1>1, <1>8 DEF Forward, Over, NoRow
  <2>2. \A j \in DOMAIN R : ~(stream.seq < R[j])
    BY <1>2, <1>7, <1>8
  <2>3. \A x \in Range(R) : \E j \in DOMAIN R : x = R[j]
    BY DEF Range
  <2>4. \A x \in Range(R) : ~(x > stream.seq)
    BY <1>2, <1>3, <2>2, <2>3
  <2>5. QED BY <2>1, <2>4 DEF Skipped
<1>9. CASE \E row \in DOMAIN R :
             /\ row > NextIndex /\ Valid(R[row])
             /\ \A j \in DOMAIN R : j > NextIndex /\ Valid(R[j]) => row <= j
             /\ EmitFrom(NextIndex) = [phase |-> "sending", i |-> row - 1, seq |-> R[row],
                                       before |-> Len(R), given |-> 0]
  <2>1. PICK row \in DOMAIN R :
             /\ row > NextIndex /\ Valid(R[row])
             /\ \A j \in DOMAIN R : j > NextIndex /\ Valid(R[j]) => row <= j
             /\ EmitFrom(NextIndex) = [phase |-> "sending", i |-> row - 1, seq |-> R[row],
                                       before |-> Len(R), given |-> 0]
    BY <1>9
  <2>2. stream'.phase = "sending" /\ stream'.seq = R[row]
    BY <1>1, <2>1
  <2>3. Forward
    BY <1>7, <2>1, <2>2 DEF Forward
  <2>4. \A j \in DOMAIN R : stream.seq < R[j] => ~(R[j] < R[row])
    <3> TAKE j \in DOMAIN R
    <3>1. stream.seq < R[j] => row <= j
      BY <1>2, <1>7, <2>1
    <3>2. R[j] = record - Len(R) + j /\ R[row] = record - Len(R) + row /\ j \in Int /\ row \in Int
      BY <1>2
    <3>3. QED BY <1>2, <3>1, <3>2
  <2>5. \A x \in Range(R) : \E j \in DOMAIN R : x = R[j]
    BY DEF Range
  <2>6. \A x \in Range(R) : x > stream.seq => ~(x < R[row])
    BY <1>2, <1>3, <2>4, <2>5
  <2>7. QED BY <2>2, <2>3, <2>6 DEF Skipped
<1>10. QED BY <1>2, <1>6, <1>8, <1>9, EmitIs

\* Every step of the stream and of the ring.
LEMMA PlaceStep ==
  ASSUME AppendsPerRow < PerSegment,
         HInv, CalmInv, HInv', CalmInv', PlaceInv, [SNext]_svars
  PROVE  PlaceInv'
<1>1. CASE Start
  <2>1. pc = "Idle" /\ UNCHANGED hvars
    BY <1>1 DEF Start, Locked
  <2>2. PICK since \in Records : stream' = EmitFrom(LowerBound(Reported, since))
    BY <1>1 DEF Start
  <2>3. LowerBound(Reported, since) \in Nat
    BY <2>1, StartIndexIs
  <2>4. QED BY <2>1, <2>2, <2>3, EmitPlace
<1>2. CASE Sent
  <2>1. pc = "Idle" /\ UNCHANGED hvars /\ stream' = EmitFrom(NextIndex)
    BY <1>2 DEF Sent, Locked
  <2>2. NextIndex \in Nat
    BY <2>1, NextIndexIs DEF PlaceInv
  <2>3. QED BY <2>1, <2>2, EmitPlace
<1>3. CASE Broken
  BY <1>3, StreamConstants DEF Broken, PlaceInv, StreamOk, Over, NoRow
<1>4. CASE RingStep
  BY <1>4, RingPlace
<1>5. CASE UNCHANGED svars
  BY <1>5 DEF svars, hvars, vars, history, PlaceInv, StreamOk, InPlace, Arrived
<1>6. QED BY <1>1, <1>2, <1>3, <1>4, <1>5 DEF SNext

(* While nothing goes wrong in the ring, and fewer records than a segment    *)
(* holds join it while a row is on its way, an export sends every record that*)
(* is on flash, once and in order, however many segments are dropped under it. *)
THEOREM ExportSkipsNothingAlways ==
  ASSUME AppendsPerRow < PerSegment
  PROVE  SSpec => ExportSkipsNothing
<1>1. SInit => PlaceInv
  BY StreamConstants DEF SInit, NoRow, PlaceInv, StreamOk
<1>2. HInv /\ CalmInv /\ HInv' /\ CalmInv' /\ PlaceInv /\ [SNext]_svars => PlaceInv'
  BY PlaceStep
<1>3. HInv /\ CalmInv /\ PlaceInv /\ [SNext]_svars => [Sent /\ calm => Forward /\ Skipped = {}]_svars
  BY CalmSent
<1>4. HInit => CalmInv
  BY CalmInit
<1>5. HInv /\ CalmInv /\ [HNext]_hvars => CalmInv'
  BY CalmStep
<1>6. QED BY <1>1, <1>2, <1>3, <1>4, <1>5, RingHolds, ExportLeavesTheRing, PTL
         DEF SSpec, HSpec, ExportSkipsNothing

-----------------------------------------------------------------------------
(* The log of a ring an operation has changed. *)

\* The log of a ring whose records are where they were.
LEMMA SlottedSame ==
  ASSUME NEW f \in Flash, NEW r \in Ring, NEW g \in Flash, NEW q \in Ring,
         HeadOf(q) = HeadOf(r), q.used = r.used,
         \A n \in 0 .. r.used - 1 :
           /\ q.lens[At(r, n)] = r.lens[At(r, n)]
           /\ \A i \in Slots : i <= r.lens[At(r, n)] => g[At(r, n)].slots[i] = f[At(r, n)].slots[i]
  PROVE  Slotted(g, q) = Slotted(f, r)
<1> DEFINE h == HeadOf(r)  k == r.used
<1>1. /\ h \in Segments /\ k \in 0 .. NSegments /\ k \in Nat /\ NSegments \in Nat
      /\ \A n \in 0 .. NSegments - 1 : At(r, n) \in Segments
  BY AtIs
<1>2. r.lens \in LensType /\ q.lens \in LensType
  BY DEF Ring, LensType
<1>3. \A n \in 0 .. k - 1 : Piece(g, Before(h, n), q.lens) = Piece(f, Before(h, n), r.lens)
  <2> TAKE n \in 0 .. k - 1
  <2>1. PICK s \in Segments : s = At(r, n) /\ s = Before(h, n)
    <3>1. n \in 0 .. NSegments - 1
      BY <1>1
    <3>2. QED BY <1>1, <3>1 DEF At
  <2>2. PICK l \in 0 .. PerSegment : l = r.lens[s] /\ q.lens[s] = l
    BY <1>2, <2>1 DEF LensType
  <2>3. \A i \in 1 .. l : i \in Slots /\ i <= l
    BY SlotConstants DEF Slots
  <2>4. \A i \in 1 .. r.lens[s] : g[s].slots[i] = f[s].slots[i]
    BY <2>1, <2>2, <2>3
  <2>5. QED BY <1>2, <2>1, <2>2, <2>4, PieceSame
<1> HIDE DEF h, k
<1>4. Strung(g, h, k, q.lens) = Strung(f, h, k, r.lens)
  BY <1>1, <1>3, StrungSame
<1>5. Slotted(f, r) = Strung(f, h, k, r.lens) /\ Slotted(g, q) = Strung(g, h, k, q.lens)
  BY SlottedIs DEF h, k
<1>6. QED BY <1>4, <1>5

\* A segment that is started has no records.
LEMMA SlottedStarted ==
  ASSUME NEW f \in Flash, NEW r \in Ring, r.used < NSegments,
         NEW g \in Flash, \A s \in Segments : g[s].slots = f[s].slots,
         NEW q \in Ring, q.tail = r.tail, q.used = r.used + 1, q.lens[Following(r)] = 0,
         \A s \in Segments : s # Following(r) => q.lens[s] = r.lens[s]
  PROVE  Slotted(g, q) = Slotted(f, r)
<1> DEFINE h == HeadOf(r)  s == Following(r)  k == r.used
<1>1. /\ NSegments \in Nat /\ NSegments > 1 /\ h \in Segments /\ s \in Segments
      /\ s = After(h) /\ s = At(r, NSegments - 1)
      /\ k \in 0 .. NSegments - 1 /\ k \in Nat /\ k \in 0 .. NSegments
      /\ \A n \in 0 .. NSegments - 1 : At(r, n) \in Segments
      /\ \A n, m \in 0 .. NSegments - 1 : At(r, n) = At(r, m) => n = m
  BY AtIs, TwoSegments DEF Following
<1>2. HeadOf(q) = s
  BY <1>1, HeadWithNext
<1>3. q.lens \in LensType /\ r.lens \in LensType
  BY DEF Ring, LensType
<1>4. \A n \in 0 .. k - 1 : At(r, n) \in Segments /\ At(r, n) # s
  <2> TAKE n \in 0 .. k - 1
  <2>1. n \in 0 .. NSegments - 1 /\ NSegments - 1 \in 0 .. NSegments - 1 /\ n # NSegments - 1
    BY <1>1
  <2>2. QED BY <1>1, <2>1
<1>5. Strung(g, h, k, q.lens) = Strung(f, h, k, r.lens)
  <2>1. \A n \in 0 .. k - 1 : Piece(g, Before(h, n), q.lens) = Piece(f, Before(h, n), r.lens)
    <3> TAKE n \in 0 .. k - 1
    <3>1. At(r, n) = Before(h, n)
      BY DEF At
    <3> HIDE DEF h, s, k
    <3>2. g[Before(h, n)].slots = f[Before(h, n)].slots /\ q.lens[Before(h, n)] = r.lens[Before(h, n)]
      BY <1>4, <3>1 DEF s, k
    <3>3. QED BY <3>2 DEF Piece
  <2> HIDE DEF h, k
  <2>2. QED BY <1>1, <2>1, StrungSame
<1>6. PICK lens \in LensType : lens = q.lens /\ lens[s] = 0
  BY <1>3
<1>7. /\ Slotted(f, r) = Strung(f, h, k, r.lens)
      /\ Slotted(g, q) = Strung(g, s, k + 1, q.lens)
  <2>1. Slotted(g, q) = Strung(g, HeadOf(q), q.used, q.lens)
    BY SlottedIs
  <2>2. QED BY <1>2, <2>1, SlottedIs
<1> HIDE DEF h, s, k
<1>8. Strung(g, s, k + 1, q.lens) = Cat(Strung(g, h, k, q.lens), Piece(g, s, q.lens))
  <2>1. Strung(g, After(h), k + 1, lens) = Cat(Strung(g, h, k, lens), Piece(g, After(h), lens))
    <3>1. h \in Segments /\ k \in 0 .. NSegments - 1
      BY <1>1
    <3>2. QED BY <3>1, StrungNewest, Zenon
  <2>2. QED BY <1>1, <1>6, <2>1
<1>9. Piece(g, s, q.lens) = Nil
  <2>1. Piece(g, s, lens) \in Seq(SlotValues) /\ Len(Piece(g, s, lens)) = 0
    <3>1. Piece(g, s, lens) \in Seq(SlotValues) /\ Len(Piece(g, s, lens)) = lens[s]
      BY <1>1, PieceIs
    <3>2. QED BY <1>6, <3>1
  <2>2. QED BY <1>6, <2>1 DEF Nil
<1>10. Strung(f, h, k, r.lens) \in Seq(SlotValues)
  BY <1>1, <1>3, StrungType
<1>11. QED BY <1>5, <1>7, <1>8, <1>9, <1>10, CatIs

\* A record that is written joins the log.
LEMMA SlottedMore ==
  ASSUME NEW f \in Flash, NEW r \in Ring, r.used > 0,
         NEW i \in Slots, i = r.lens[HeadOf(r)] + 1, NEW new \in SlotValues,
         NEW g \in Flash, \A s \in Segments : s # HeadOf(r) => g[s] = f[s],
         \A j \in Slots : j # i => g[HeadOf(r)].slots[j] = f[HeadOf(r)].slots[j],
         g[HeadOf(r)].slots[i] = new,
         NEW q \in Ring, q.tail = r.tail, q.used = r.used,
         \A s \in Segments : s # HeadOf(r) => q.lens[s] = r.lens[s],
         q.lens[HeadOf(r)] = i
  PROVE  Slotted(g, q) = Append(Slotted(f, r), new)
<1> DEFINE h == HeadOf(r)  u == r.used  b == Before(h, 1)  L == r.lens  M == q.lens
<1>1. /\ h \in Segments /\ u \in 1 .. NSegments /\ NSegments \in Nat /\ NSegments > 1
      /\ \A n \in 0 .. NSegments - 1 : At(r, n) \in Segments
      /\ \A n, m \in 0 .. NSegments - 1 : At(r, n) = At(r, m) => n = m
      /\ At(r, 0) = h
  BY AtIs, TwoSegments
<1>2. HeadOf(q) = h
  BY DEF HeadOf
<1>3. L \in LensType /\ M \in LensType
  BY DEF Ring, LensType
<1>4. i \in Nat /\ i >= 1 /\ L[h] = i - 1 /\ M[h] = i
  <2>1. L[h] \in Nat
    BY <1>1, <1>3, SlotConstants DEF LensType
  <2>2. QED BY <2>1, SlotConstants DEF Slots
<1>5. b \in Segments /\ After(b) = h /\ \A n \in 0 .. NSegments - 1 : Before(h, n + 1) = Before(b, n)
  <2>1. 1 \in 0 .. NSegments /\ 0 \in 0 .. NSegments - 1
    BY <1>1
  <2>2. b \in Segments
    BY <1>1, <2>1, BeforeIs
  <2>3. After(Before(h, 0 + 1)) = Before(h, 0)
    BY <1>1, <2>1, AfterBefore
  <2>4. After(b) = h
    BY <1>1, <2>3, BeforeNone
  <2>5. \A n \in 0 .. NSegments - 1 : Before(After(b), n + 1) = Before(b, n)
    BY <2>2, BeforeAfter
  <2>6. QED BY <2>2, <2>4, <2>5
<1>6. PICK k \in 0 .. NSegments - 1 : u = k + 1 /\ k \in Nat /\ k \in 0 .. NSegments
  BY <1>1
<1>7. Slotted(f, r) = Strung(f, h, k + 1, L) /\ Slotted(g, q) = Strung(g, h, k + 1, M)
  <2>1. Slotted(f, r) = Strung(f, HeadOf(r), r.used, r.lens) /\ Slotted(g, q) = Strung(g, HeadOf(q), q.used, q.lens)
    BY SlottedIs
  <2>2. QED BY <1>2, <1>6, <2>1
<1>8. \A n \in 0 .. k - 1 : Piece(g, Before(b, n), M) = Piece(f, Before(b, n), L)
  <2> TAKE n \in 0 .. k - 1
  <2>1. n \in 0 .. NSegments - 1 /\ n + 1 \in 0 .. NSegments - 1 /\ 0 \in 0 .. NSegments - 1 /\ n + 1 # 0
    BY <1>1, <1>6
  <2>2. Before(b, n) = At(r, n + 1)
    BY <1>5, <2>1 DEF At
  <2>3. At(r, n + 1) # h /\ At(r, n + 1) \in Segments
    BY <1>1, <2>1
  <2>4. g[Before(b, n)] = f[Before(b, n)] /\ M[Before(b, n)] = L[Before(b, n)]
    BY <2>2, <2>3
  <2>5. QED BY <2>4 DEF Piece
<1>9. \A n \in 1 .. i - 1 : n \in Slots /\ n # i
  BY <1>4, SlotConstants DEF Slots
<1>10. \A n \in 1 .. i - 1 : g[h].slots[n] = f[h].slots[n]
  BY <1>9
<1>11. g[h].slots[i] = new
  OBVIOUS
<1> HIDE DEF h, u, b, L, M
<1>12. Strung(g, b, k, M) = Strung(f, b, k, L)
  BY <1>6, <1>8, StrungSame
<1>13. /\ Strung(f, h, k + 1, L) = Cat(Strung(f, b, k, L), Piece(f, h, L))
       /\ Strung(g, h, k + 1, M) = Cat(Strung(g, b, k, M), Piece(g, h, M))
  BY <1>3, <1>5, StrungNewest
<1>14. /\ Piece(f, h, L) \in Seq(SlotValues) /\ Len(Piece(f, h, L)) = L[h]
       /\ \A n \in 1 .. L[h] : Piece(f, h, L)[n] = f[h].slots[n]
       /\ Piece(g, h, M) \in Seq(SlotValues) /\ Len(Piece(g, h, M)) = M[h]
       /\ \A n \in 1 .. M[h] : Piece(g, h, M)[n] = g[h].slots[n]
  BY <1>1, <1>3, PieceIs
<1> DEFINE pf == Piece(f, h, L)  pg == Piece(g, h, M)
<1> HIDE DEF pf, pg
<1>15. /\ pf \in Seq(SlotValues) /\ Len(pf) = i - 1
       /\ pg \in Seq(SlotValues) /\ Len(pg) = i
       /\ \A n \in 1 .. i - 1 : pf[n] = f[h].slots[n]
       /\ \A n \in 1 .. i : pg[n] = g[h].slots[n]
  BY <1>4, <1>14, Zenon DEF pf, pg
<1>16. pg = Append(pf, new)
  <2>1. /\ Append(pf, new) \in Seq(SlotValues) /\ Len(Append(pf, new)) = i /\ Append(pf, new)[i] = new
        /\ \A n \in 1 .. i - 1 : Append(pf, new)[n] = pf[n]
    BY <1>4, <1>15
  <2>2. \A n \in 1 .. i : pg[n] = Append(pf, new)[n]
    <3> TAKE n \in 1 .. i
    <3>1. CASE n = i
      BY <1>4, <1>11, <1>15, <2>1, <3>1
    <3>2. CASE n # i
      <4>1. n \in 1 .. i - 1
        BY <1>4, <3>2
      <4>2. QED BY <1>10, <1>15, <2>1, <4>1
    <3>3. QED BY <3>1, <3>2
  <2>3. PICK z : z = Append(pf, new)
    OBVIOUS
  <2>4. z \in Seq(SlotValues) /\ Len(z) = i /\ \A n \in 1 .. i : pg[n] = z[n]
    BY <2>1, <2>2, <2>3
  <2>5. pg \in Seq(SlotValues) /\ Len(pg) = Len(z) /\ \A n \in 1 .. Len(pg) : pg[n] = z[n]
    BY <1>15, <2>4
  <2>6. pg = z
    BY <2>4, <2>5
  <2>7. QED BY <2>3, <2>6
<1>17. Strung(f, b, k, L) \in Seq(SlotValues)
  BY <1>3, <1>5, <1>6, StrungType
<1>18. Cat(Strung(f, b, k, L), Append(pf, new)) = Append(Cat(Strung(f, b, k, L), pf), new)
  BY <1>15, <1>17, CatAppend
<1>19. QED BY <1>7, <1>12, <1>13, <1>16, <1>18 DEF pf, pg

\* The drop of the tail takes its records; the others are readable.
LEMMA SlottedLess ==
  ASSUME NEW f \in Flash, NEW r \in Ring, NEW v, NEW e, Holds(f, r, v, e), r.used > 1,
         NEW g \in Flash, \A s \in Segments : s # r.tail => g[s] = f[s],
         NEW q \in Ring, q.tail = After(r.tail), q.used = r.used - 1,
         \A s \in Segments : s # r.tail => q.lens[s] = r.lens[s]
  PROVE  /\ \E x \in Seq(SlotValues) : Slotted(f, r) = Cat(x, Slotted(g, q))
         /\ \A a \in 1 .. Len(Slotted(g, q)) : Valid(Slotted(g, q)[a])
<1> DEFINE h == HeadOf(r)
<1>1. /\ h \in Segments /\ r.used \in 0 .. NSegments /\ NSegments \in Nat
      /\ \A n \in 0 .. NSegments - 1 : At(r, n) \in Segments
      /\ \A n, m \in 0 .. NSegments - 1 : At(r, n) = At(r, m) => n = m
      /\ r.tail = At(r, r.used - 1)
  BY AtIs
<1>2. HeadOf(q) = h
  BY HeadWithoutTail
<1>3. r.lens \in LensType /\ q.lens \in LensType
  BY DEF Ring, LensType
<1>4. PICK k \in 0 .. NSegments - 1 : k = q.used /\ r.used = k + 1 /\ k \in Nat /\ k \in 0 .. NSegments
  BY <1>1
<1>5. \A n \in 0 .. k - 1 : /\ Before(h, n) = At(r, n) /\ Before(h, n) \in Segments
                            /\ g[Before(h, n)] = f[Before(h, n)] /\ q.lens[Before(h, n)] = r.lens[Before(h, n)]
  <2> TAKE n \in 0 .. k - 1
  <2>1. n \in 0 .. NSegments - 1 /\ r.used - 1 \in 0 .. NSegments - 1 /\ n # r.used - 1
    BY <1>1, <1>4
  <2>2. At(r, n) \in Segments /\ At(r, n) # r.tail /\ At(r, n) = Before(h, n)
    BY <1>1, <2>1 DEF At
  <2>3. QED BY <2>2
<1>6. Before(h, k) = At(r, k) /\ Before(h, k) \in Segments
  BY <1>1, <1>4 DEF At
<1>7. Slotted(f, r) = Strung(f, h, k + 1, r.lens) /\ Slotted(g, q) = Strung(g, h, k, q.lens)
  <2>1. Slotted(f, r) = Strung(f, HeadOf(r), r.used, r.lens) /\ Slotted(g, q) = Strung(g, HeadOf(q), q.used, q.lens)
    BY SlottedIs
  <2>2. QED BY <1>2, <1>4, <2>1
<1> HIDE DEF h
<1>8. Strung(f, h, k + 1, r.lens) = Cat(Piece(f, Before(h, k), r.lens), Strung(f, h, k, r.lens))
  BY <1>1, <1>3, StrungOldest
<1>9. Strung(g, h, k, q.lens) = Strung(f, h, k, r.lens)
  <2>1. \A n \in 0 .. k - 1 : Piece(g, Before(h, n), q.lens) = Piece(f, Before(h, n), r.lens)
    BY <1>5 DEF Piece
  <2>2. QED BY <1>4, <2>1, StrungSame
<1>10. Piece(f, Before(h, k), r.lens) \in Seq(SlotValues)
  BY <1>3, <1>6, PieceIs
<1>11. \A a \in 1 .. Len(Strung(f, h, k, r.lens)) : Valid(Strung(f, h, k, r.lens)[a])
  <2> TAKE a \in 1 .. Len(Strung(f, h, k, r.lens))
  <2>1. PICK n \in 0 .. k - 1 : \E i \in 1 .. r.lens[Before(h, n)] :
               Strung(f, h, k, r.lens)[a] = f[Before(h, n)].slots[i]
    <3>1. StrungFrom(f, h, k, r.lens)
      BY <1>1, <1>3, <1>4, StrungPlaces
    <3>2. QED BY <3>1 DEF StrungFrom
  <2>2. PICK i \in 1 .. r.lens[Before(h, n)] : Strung(f, h, k, r.lens)[a] = f[Before(h, n)].slots[i]
    BY <2>1
  <2>3. r.lens[Before(h, n)] \in 0 .. PerSegment /\ PerSegment \in Nat
    BY <1>3, <1>5, SlotConstants DEF LensType
  <2>4. i \in Slots /\ i <= r.lens[Before(h, n)]
    BY <2>3 DEF Slots
  <2>5. n \in 0 .. r.used - 1 /\ n < r.used - 1
    BY <1>1, <1>4
  <2>6. Valid(f[At(r, n)].slots[i])
    BY <1>5, <2>4, <2>5 DEF Holds, Filled
  <2>7. QED BY <1>5, <2>2, <2>6
<1>12. QED BY <1>7, <1>8, <1>9, <1>10, <1>11

\* A drop that fails leaves the records of the tail, or entries that cannot be read.
LEMMA SlottedWorn ==
  ASSUME NEW f \in Flash, NEW r \in Ring, r.used > 1,
         NEW g \in Flash, \A s \in Segments : s # r.tail => g[s] = f[s],
         Worn(f[r.tail], g[r.tail])
  PROVE  /\ Len(Slotted(g, r)) = Len(Slotted(f, r))
         /\ \A a \in 1 .. Len(Slotted(f, r)) : Slotted(g, r)[a] = Slotted(f, r)[a] \/ ~Valid(Slotted(g, r)[a])
<1> DEFINE h == HeadOf(r)
<1>1. /\ h \in Segments /\ r.used \in 0 .. NSegments /\ NSegments \in Nat
      /\ \A n \in 0 .. NSegments - 1 : At(r, n) \in Segments
      /\ \A n, m \in 0 .. NSegments - 1 : At(r, n) = At(r, m) => n = m
      /\ r.tail = At(r, r.used - 1)
  BY AtIs
<1>2. r.lens \in LensType
  BY DEF Ring, LensType
<1>3. PICK k \in 0 .. NSegments - 1 : r.used = k + 1 /\ k \in Nat /\ k \in 0 .. NSegments
  BY <1>1
<1>4. \A n \in 0 .. k - 1 : g[Before(h, n)] = f[Before(h, n)]
  <2> TAKE n \in 0 .. k - 1
  <2>1. n \in 0 .. NSegments - 1 /\ r.used - 1 \in 0 .. NSegments - 1 /\ n # r.used - 1
    BY <1>1, <1>3
  <2>2. At(r, n) \in Segments /\ At(r, n) # r.tail /\ At(r, n) = Before(h, n)
    BY <1>1, <2>1 DEF At
  <2>3. QED BY <2>2
<1>5. Before(h, k) = r.tail /\ r.tail \in Segments
  BY <1>1, <1>3 DEF At
<1>6. Slotted(f, r) = Strung(f, h, k + 1, r.lens) /\ Slotted(g, r) = Strung(g, h, k + 1, r.lens)
  <2>1. Slotted(f, r) = Strung(f, HeadOf(r), r.used, r.lens) /\ Slotted(g, r) = Strung(g, HeadOf(r), r.used, r.lens)
    BY SlottedIs
  <2>2. QED BY <1>3, <2>1
<1> HIDE DEF h
<1>7. /\ Strung(f, h, k + 1, r.lens) = Cat(Piece(f, r.tail, r.lens), Strung(f, h, k, r.lens))
      /\ Strung(g, h, k + 1, r.lens) = Cat(Piece(g, r.tail, r.lens), Strung(g, h, k, r.lens))
  BY <1>1, <1>2, <1>5, StrungOldest
<1>8. Strung(g, h, k, r.lens) = Strung(f, h, k, r.lens)
  <2>1. \A n \in 0 .. k - 1 : Piece(g, Before(h, n), r.lens) = Piece(f, Before(h, n), r.lens)
    BY <1>4 DEF Piece
  <2>2. QED BY <1>3, <2>1, StrungSame
<1>9. PICK rest \in Seq(SlotValues) : rest = Strung(f, h, k, r.lens)
  BY <1>1, <1>2, <1>3, StrungType
<1>10. PICK pf \in Seq(SlotValues), pg \in Seq(SlotValues), l \in 0 .. PerSegment :
         /\ pf = Piece(f, r.tail, r.lens) /\ pg = Piece(g, r.tail, r.lens) /\ l = r.lens[r.tail]
         /\ Len(pf) = l /\ Len(pg) = l
         /\ \A i \in 1 .. l : pf[i] = f[r.tail].slots[i] /\ pg[i] = g[r.tail].slots[i]
  <2>1. /\ Piece(f, r.tail, r.lens) \in Seq(SlotValues) /\ Len(Piece(f, r.tail, r.lens)) = r.lens[r.tail]
        /\ \A i \in 1 .. r.lens[r.tail] : Piece(f, r.tail, r.lens)[i] = f[r.tail].slots[i]
    BY <1>2, <1>5, PieceIs
  <2>2. /\ Piece(g, r.tail, r.lens) \in Seq(SlotValues) /\ Len(Piece(g, r.tail, r.lens)) = r.lens[r.tail]
        /\ \A i \in 1 .. r.lens[r.tail] : Piece(g, r.tail, r.lens)[i] = g[r.tail].slots[i]
    BY <1>2, <1>5, PieceIs
  <2>3. r.lens[r.tail] \in 0 .. PerSegment
    BY <1>2, <1>5 DEF LensType
  <2>4. QED BY <2>1, <2>2, <2>3
<1>11. \A i \in 1 .. l : pg[i] = pf[i] \/ ~Valid(pg[i])
  <2> TAKE i \in 1 .. l
  <2>1. i \in Slots
    BY SlotConstants DEF Slots
  <2>2. g[r.tail].slots[i] \in {Erased, Torn, f[r.tail].slots[i]}
    BY <2>1 DEF Worn
  <2>3. QED BY <1>10, <2>2, SlotFacts
<1>12. Slotted(f, r) = Cat(pf, rest) /\ Slotted(g, r) = Cat(pg, rest)
  BY <1>6, <1>7, <1>8, <1>9, <1>10
<1>13. /\ Len(Cat(pf, rest)) = Len(pf) + Len(rest)
       /\ \A i \in 1 .. Len(pf) : Cat(pf, rest)[i] = pf[i]
       /\ \A i \in 1 .. Len(rest) : Cat(pf, rest)[Len(pf) + i] = rest[i]
  BY CatEntries
<1>14. /\ Len(Cat(pg, rest)) = Len(pg) + Len(rest)
       /\ \A i \in 1 .. Len(pg) : Cat(pg, rest)[i] = pg[i]
       /\ \A i \in 1 .. Len(rest) : Cat(pg, rest)[Len(pg) + i] = rest[i]
  BY CatEntries
<1>15. PICK m \in Nat : m = Len(rest)
  BY <1>9
<1>16. \A a \in 1 .. l + m : Cat(pg, rest)[a] = Cat(pf, rest)[a] \/ ~Valid(Cat(pg, rest)[a])
  <2> TAKE a \in 1 .. l + m
  <2>1. CASE a <= l
    <3>1. a \in 1 .. l
      BY <2>1
    <3>2. QED BY <1>10, <1>11, <1>13, <1>14, <3>1
  <2>2. CASE ~(a <= l)
    <3>1. PICK i \in 1 .. m : a = l + i
      BY <2>2
    <3>2. QED BY <1>10, <1>13, <1>14, <1>15, <3>1
  <2>3. QED BY <2>1, <2>2
<1>17. QED BY <1>10, <1>12, <1>13, <1>14, <1>15, <1>16

-----------------------------------------------------------------------------
(* What an operation leaves of the entries a stream reads. *)

\* What becomes of the entries a stream reads while an Append is under way.
Stays == Reported' = Reported /\ pc' # "Drop"
Grows == Reported' = Append(Reported, record) /\ pc' # "Drop"
Shrinks ==
  /\ \E x \in Seq(SlotValues) : Reported = Cat(x, Reported')
  /\ Reported' \in Seq(SlotValues) /\ \A a \in 1 .. Len(Reported') : Valid(Reported'[a])
  /\ pc = "Drop" /\ pc' # "Drop"
Wears ==
  /\ Len(Reported') = Len(Reported)
  /\ \A a \in 1 .. Len(Reported) : Reported'[a] = Reported[a] \/ ~Valid(Reported'[a])
  /\ pc = "Drop" /\ pc' # "Drop"

\* A drop takes the oldest entries off the log, and leaves the others readable; or it wears the log.
LEMMA DropReported ==
  ASSUME HInv, HInv', Drop, pc' # "Off"
  PROVE  Shrinks \/ Wears
<1>1. /\ flash \in Flash /\ ring \in Ring /\ Holds(flash, ring, Given(pc, record), Started(pc, record))
      /\ AtPc(ring, pc) /\ pc = "Drop"
  BY InvFacts DEF HInv, Drop
<1>2. ring.used = NSegments /\ NSegments > 1 /\ ring.used > 1 /\ ring.used > 0
  BY <1>1, TwoSegments DEF AtPc
<1>3. ring.tail \in Segments /\ flash[ring.tail] \in Segment
  BY <1>1, FlashType DEF Ring
<1>4. flash' \in Flash /\ ring' \in Ring
  BY DEF HInv, RingInv, TypeOK, Flash
<1>5. CASE flash' = [flash EXCEPT ![ring.tail] = Blank] /\ ring' = TailDropped /\ pc' = StartOf(TailDropped)
  <2>1. /\ ring'.tail = After(ring.tail) /\ ring'.used = ring.used - 1
        /\ ring'.lens = [ring.lens EXCEPT ![ring.tail] = 0]
    BY <1>1, <1>2, <1>5, DroppedType
  <2>2. \A s \in Segments : s # ring.tail => flash'[s] = flash[s] /\ ring'.lens[s] = ring.lens[s]
    BY <1>1, <1>5, <2>1 DEF Flash, Ring
  <2>3. PICK g \in Flash, q \in Ring : g = flash' /\ q = ring'
    BY <1>4
  <2>4. PICK v, e : v = Given(pc, record) /\ e = Started(pc, record)
    OBVIOUS
  <2>5. /\ \E x \in Seq(SlotValues) : Slotted(flash, ring) = Cat(x, Slotted(g, q))
        /\ \A a \in 1 .. Len(Slotted(g, q)) : Valid(Slotted(g, q)[a])
    <3>1. /\ \A s \in Segments : s # ring.tail => g[s] = flash[s]
          /\ q.tail = After(ring.tail) /\ q.used = ring.used - 1
          /\ \A s \in Segments : s # ring.tail => q.lens[s] = ring.lens[s]
          /\ Holds(flash, ring, v, e)
      BY <1>1, <2>1, <2>2, <2>3, <2>4
    <3>2. QED BY <1>1, <1>2, <3>1, SlottedLess
  <2>6. Slotted(g, q) \in Seq(SlotValues)
    <3>1. q.lens \in LensType /\ HeadOf(q) \in Segments /\ q.used \in 0 .. NSegments
      BY AtIs DEF Ring, LensType
    <3>2. QED BY <3>1, SlottedIs, StrungType
  <2>7. Reported = Slotted(flash, ring) /\ Reported' = Slotted(g, q)
    BY <2>3 DEF Reported
  <2>8. pc' # "Drop"
    BY <1>5 DEF StartOf
  <2>9. QED BY <1>1, <2>5, <2>6, <2>7, <2>8 DEF Shrinks
<1>6. CASE /\ \E landed \in EraseLandings(flash[ring.tail]) : flash' = [flash EXCEPT ![ring.tail] = landed]
           /\ UNCHANGED ring /\ pc' = "Idle"
  <2>1. PICK landed \in EraseLandings(flash[ring.tail]) : flash' = [flash EXCEPT ![ring.tail] = landed]
    BY <1>6
  <2>2. Worn(flash[ring.tail], landed)
    BY <1>3, EraseIs
  <2>3. flash'[ring.tail] = landed /\ \A s \in Segments : s # ring.tail => flash'[s] = flash[s]
    BY <1>1, <1>3, <2>1 DEF Flash
  <2>4. PICK g \in Flash : g = flash'
    BY <1>4
  <2>5. /\ Len(Slotted(g, ring)) = Len(Slotted(flash, ring))
        /\ \A a \in 1 .. Len(Slotted(flash, ring)) :
             Slotted(g, ring)[a] = Slotted(flash, ring)[a] \/ ~Valid(Slotted(g, ring)[a])
    BY <1>1, <1>2, <2>2, <2>3, <2>4, SlottedWorn
  <2>6. Reported = Slotted(flash, ring) /\ Reported' = Slotted(g, ring)
    BY <1>6, <2>4 DEF Reported
  <2>7. QED BY <1>1, <1>6, <2>5, <2>6 DEF Wears
<1>7. QED BY <1>5, <1>6 DEF Drop, DropTail, LosePower

\* An erase, failed or not, leaves the entries a stream reads.
LEMMA EraseReported ==
  ASSUME HInv, HInv', EraseSegment, pc' # "Off"
  PROVE  Stays
<1>1. /\ flash \in Flash /\ ring \in Ring /\ AtPc(ring, pc) /\ pc = "Erase" /\ NextSegment = Following(ring)
  BY InvFacts DEF HInv, EraseSegment
<1>2. ring.used < NSegments /\ pc' # "Drop"
  BY <1>1 DEF AtPc, EraseSegment, LosePower
<1>3. flash' \in Flash /\ ring' \in Ring
  BY DEF HInv, RingInv, TypeOK, Flash
<1>4. \E landed : flash' = [flash EXCEPT ![Following(ring)] = landed]
  BY <1>1 DEF EraseSegment
<1>5. ring'.tail = ring.tail /\ ring'.used = ring.used /\ ring'.lens = ring.lens
  BY <1>1 DEF EraseSegment, LosePower, Ring
<1>6. /\ Following(ring) \in Segments /\ Following(ring) = At(ring, NSegments - 1)
      /\ \A n \in 0 .. NSegments - 1 : At(ring, n) \in Segments
      /\ \A n, m \in 0 .. NSegments - 1 : At(ring, n) = At(ring, m) => n = m
      /\ ring.used \in 0 .. NSegments /\ NSegments \in Nat
  BY <1>1, AtIs
<1>7. \A s \in Segments : s # Following(ring) => flash'[s] = flash[s]
  BY <1>1, <1>4, <1>6 DEF Flash
<1>8. \A n \in 0 .. ring.used - 1 : flash'[At(ring, n)] = flash[At(ring, n)]
  <2> TAKE n \in 0 .. ring.used - 1
  <2>1. n \in 0 .. NSegments - 1 /\ NSegments - 1 \in 0 .. NSegments - 1 /\ n # NSegments - 1
    BY <1>2, <1>6
  <2>2. QED BY <1>6, <1>7, <2>1
<1>9. PICK g \in Flash, q \in Ring : g = flash' /\ q = ring'
  BY <1>3
<1>10. Slotted(g, q) = Slotted(flash, ring)
  <2>1. HeadOf(q) = HeadOf(ring)
    BY <1>5, <1>9 DEF HeadOf
  <2>2. QED BY <1>1, <1>5, <1>8, <1>9, <2>1, SlottedSame
<1>11. QED BY <1>2, <1>9, <1>10 DEF Reported, Stays

\* A new head, failed or not, leaves the entries a stream reads.
LEMMA StartReported ==
  ASSUME HInv, HInv', StartSegment, pc' # "Off"
  PROVE  Stays
<1> DEFINE F == Following(ring)
<1>1. /\ flash \in Flash /\ ring \in Ring /\ AtPc(ring, pc) /\ pc = "Header" /\ NextSegment = F
  BY InvFacts DEF HInv, StartSegment
<1>2. ring.used < NSegments /\ pc' # "Drop"
  BY <1>1 DEF AtPc, StartSegment, LosePower
<1>3. flash' \in Flash /\ ring' \in Ring
  BY DEF HInv, RingInv, TypeOK, Flash
<1>4. F \in Segments /\ flash[F] \in Segment
  BY <1>1, AtIs, FlashType
<1>5. \E landed : flash' = [flash EXCEPT ![F].header = landed]
  BY <1>1 DEF StartSegment, WriteHeader
<1> HIDE DEF F
<1>6. \A s \in Segments : flash'[s].slots = flash[s].slots
  BY <1>1, <1>4, <1>5 DEF Flash, Segment
<1>7. PICK g \in Flash, q \in Ring : g = flash' /\ q = ring'
  BY <1>3
<1>8. CASE UNCHANGED ring
  <2>1. Slotted(g, ring) = Slotted(flash, ring)
    <3>1. \A n \in 0 .. ring.used - 1 : At(ring, n) \in Segments
      <4>1. \A n \in 0 .. NSegments - 1 : At(ring, n) \in Segments
        BY <1>1, AtIs
      <4>2. \A n \in 0 .. ring.used - 1 : n \in 0 .. NSegments - 1
        BY <1>1, <1>2, AtIs
      <4>3. QED BY <4>1, <4>2
    <3>2. \A n \in 0 .. ring.used - 1 : g[At(ring, n)].slots = flash[At(ring, n)].slots
      BY <1>6, <1>7, <3>1
    <3>3. QED BY <1>1, <3>2, SlottedSame
  <2>2. QED BY <1>2, <1>7, <1>8, <2>1 DEF Reported, Stays
<1>9. CASE ring' = [ring EXCEPT !.epoch = ring.epoch + 1, !.used = @ + 1, !.lens[F] = 0,
                                !.clean[F] = FALSE, !.sealed = FALSE]
  <2>1. /\ ring'.tail = ring.tail /\ ring'.used = ring.used + 1
        /\ ring'.lens = [ring.lens EXCEPT ![F] = 0]
    BY <1>1, <1>9 DEF Ring
  <2>2. ring'.lens[F] = 0 /\ \A s \in Segments : s # F => ring'.lens[s] = ring.lens[s]
    BY <1>1, <1>4, <2>1 DEF Ring
  <2>3. Slotted(g, q) = Slotted(flash, ring)
    BY <1>1, <1>2, <1>6, <1>7, <2>1, <2>2, SlottedStarted DEF F
  <2>4. QED BY <1>2, <1>7, <2>3 DEF Reported, Stays
<1>10. QED BY <1>1, <1>8, <1>9 DEF StartSegment, LosePower

\* A write adds its record to the entries a stream reads, or it leaves them.
LEMMA WriteReported ==
  ASSUME HInv, HInv', WriteRecord, pc' # "Off"
  PROVE  Stays \/ Grows
<1> DEFINE h == HeadOf(ring)  i == ring.lens[h] + 1
<1>1. /\ flash \in Flash /\ ring \in Ring /\ AtPc(ring, pc) /\ pc = "Record"
      /\ Holds(flash, ring, Given(pc, record), Started(pc, record)) /\ record \in Records
  BY InvFacts DEF HInv, WriteRecord
<1>2. HeadOpen(ring) /\ ring.used > 0 /\ pc' # "Drop"
  BY <1>1 DEF AtPc, HeadOpen, WriteRecord, LosePower
<1>3. flash' \in Flash /\ ring' \in Ring
  BY DEF HInv, RingInv, TypeOK, Flash
<1>4. h \in Segments /\ flash[h] \in Segment /\ flash[h].slots \in [Slots -> SlotValues]
  BY <1>1, AtIs, FlashType
<1>5. ring.lens[h] \in Nat /\ i \in Int /\ i \in Slots /\ i > ring.lens[h]
  BY <1>1, <1>2, <1>4, SlotConstants DEF Ring, HeadOpen, Slots
<1>6. flash[h].slots[i] = Erased
  <2>1. Filled(flash, ring, Given(pc, record)) /\ ~ring.sealed /\ ring.used > 0
    BY <1>1, <1>2 DEF Holds, HeadOpen
  <2>2. QED BY <1>5, <2>1 DEF Filled
<1>7. \E landed : flash' = [flash EXCEPT ![h].slots[i] = landed]
  BY DEF WriteRecord, WriteSlot
<1>8. /\ \A s \in Segments : s # h => flash'[s] = flash[s]
      /\ \A j \in Slots : j # i => flash'[h].slots[j] = flash[h].slots[j]
  <2>1. PICK landed : flash' = [flash EXCEPT ![h].slots[i] = landed]
    BY <1>7
  <2> HIDE DEF h, i
  <2>2. flash'[h] = [flash[h] EXCEPT !.slots[i] = landed] /\ \A s \in Segments : s # h => flash'[s] = flash[s]
    BY <1>1, <1>4, <2>1 DEF Flash
  <2>3. flash'[h].slots = [flash[h].slots EXCEPT ![i] = landed]
    BY <1>4, <2>2 DEF Segment
  <2>4. QED BY <1>4, <1>5, <2>2, <2>3
<1>9. PICK g \in Flash, q \in Ring : g = flash' /\ q = ring'
  BY <1>3
<1>10. CASE ring' = [ring EXCEPT !.sealed = TRUE]
  <2>1. ring'.tail = ring.tail /\ ring'.used = ring.used /\ ring'.lens = ring.lens
    BY <1>1, <1>10 DEF Ring
  <2>2. HeadOf(q) = HeadOf(ring)
    BY <1>9, <2>1 DEF HeadOf
  <2>3. /\ \A n \in 0 .. NSegments - 1 : At(ring, n) \in Segments
        /\ ring.used \in 0 .. NSegments /\ NSegments \in Nat
    BY <1>1, AtIs
  <2>4. \A n \in 0 .. ring.used - 1 :
          /\ q.lens[At(ring, n)] = ring.lens[At(ring, n)]
          /\ \A j \in Slots : j <= ring.lens[At(ring, n)] => g[At(ring, n)].slots[j] = flash[At(ring, n)].slots[j]
    <3> TAKE n \in 0 .. ring.used - 1
    <3>1. At(ring, n) \in Segments
      <4>1. n \in 0 .. NSegments - 1
        BY <2>3
      <4>2. QED BY <2>3, <4>1
    <3>2. \A j \in Slots : j <= ring.lens[h] => j # i
      BY <1>5 DEF Slots
    <3> HIDE DEF h, i
    <3>3. QED BY <1>8, <1>9, <2>1, <3>1, <3>2
  <2>5. Slotted(g, q) = Slotted(flash, ring)
    BY <1>1, <1>9, <2>1, <2>2, <2>4, SlottedSame
  <2>6. QED BY <1>2, <1>9, <2>5 DEF Reported, Stays
<1>11. CASE /\ WriteSlot(h, i, IF record \in SlotLandings(flash[h].slots[i], record) THEN record ELSE Torn)
            /\ ring' = [ring EXCEPT !.lens[h] = @ + 1]
  <2>1. record \in SlotLandings(flash[h].slots[i], record)
    BY <1>6 DEF SlotLandings
  <2>2. flash' = [flash EXCEPT ![h].slots[i] = record]
    BY <1>11, <2>1 DEF WriteSlot
  <2>3. flash'[h].slots[i] = record
    <3> HIDE DEF h, i
    <3>1. flash'[h] = [flash[h] EXCEPT !.slots[i] = record]
      BY <1>1, <1>4, <2>2 DEF Flash
    <3>2. flash'[h].slots = [flash[h].slots EXCEPT ![i] = record]
      BY <1>4, <3>1 DEF Segment
    <3>3. QED BY <1>4, <1>5, <3>2
  <2>4. ring'.tail = ring.tail /\ ring'.used = ring.used /\ ring'.lens = [ring.lens EXCEPT ![h] = @ + 1]
    BY <1>1, <1>11 DEF Ring
  <2>5. ring'.lens[h] = i /\ \A s \in Segments : s # h => ring'.lens[s] = ring.lens[s]
    BY <1>1, <1>4, <2>4 DEF Ring
  <2>6. record \in SlotValues
    BY <1>1 DEF SlotValues
  <2>7. PICK j \in Slots : j = i
    BY <1>5
  <2>8. /\ j = ring.lens[h] + 1 /\ g[h].slots[j] = record /\ q.lens[h] = j
        /\ \A a \in Slots : a # j => g[h].slots[a] = flash[h].slots[a]
        /\ \A s \in Segments : s # h => g[s] = flash[s] /\ q.lens[s] = ring.lens[s]
        /\ q.tail = ring.tail /\ q.used = ring.used
    BY <1>8, <1>9, <2>3, <2>4, <2>5, <2>7
  <2> HIDE DEF i
  <2>9. Slotted(g, q) = Append(Slotted(flash, ring), record)
    BY <1>1, <1>2, <2>6, <2>8, SlottedMore
  <2>10. QED BY <1>2, <1>9, <2>9 DEF Reported, Grows
<1>12. QED BY <1>1, <1>10, <1>11 DEF WriteRecord, LosePower

-----------------------------------------------------------------------------
(* The rows of a stream are in order. *)

\* What is behind the row of the stream is newer, wherever the ring has got to with the one
\* record that may join it; and a log that has become shorter can be searched.
Level ==
  /\ pc \notin {"Off", "Repair"}
  /\ stream.given = 0 => pc = "Idle" /\ Len(Reported) = stream.before /\ stream.seq <= record
  /\ stream.given > 0 => stream.seq < record
  /\ pc = "Drop" => Len(Reported) = stream.before
  /\ \A j \in DOMAIN Reported : j > stream.i + 1 /\ Valid(Reported[j]) => stream.seq < Reported[j]
  /\ Len(Reported) < stream.before => \A j \in DOMAIN Reported : Valid(Reported[j])

LevelInv == StreamOk /\ (stream.phase = "sending" => Level)

\* What is reported is a sequence of what slots can hold.
LEMMA ReportedType ==
  ASSUME HInv, pc # "Off"
  PROVE  /\ Reported \in Seq(SlotValues) /\ Len(Reported) \in Nat /\ DOMAIN Reported = 1 .. Len(Reported)
         /\ \A j \in DOMAIN Reported : Reported[j] \in Int
<1>1. /\ flash \in Flash /\ ring \in Ring /\ Holds(flash, ring, Given(pc, record), Started(pc, record))
  BY InvFacts DEF HInv
<1>2. PICK v, e : v = Given(pc, record) /\ e = Started(pc, record)
  OBVIOUS
<1>3. Slotted(flash, ring) \in Seq(SlotValues)
  BY <1>1, <1>2, ReportedIs
<1>4. Reported \in Seq(SlotValues)
  BY <1>3 DEF Reported
<1> HIDE DEF Reported
<1>5. \A j \in DOMAIN Reported : Reported[j] \in SlotValues
  BY <1>4
<1>6. QED BY <1>4, <1>5, SlotFacts

\* The same of the state a step ends in.
LEMMA ReportedThen ==
  ASSUME HInv', pc' # "Off"
  PROVE  DOMAIN Reported' = 1 .. Len(Reported')
<1>1. flash' \in Flash /\ ring' \in Ring /\ Holds(flash', ring', Given(pc', record'), Started(pc', record'))
  BY DEF HInv, RingInv, TypeOK, Flash
<1>2. PICK f \in Flash, r \in Ring : f = flash' /\ r = ring'
  BY <1>1
<1>3. PICK v, e : v = Given(pc', record') /\ e = Started(pc', record')
  OBVIOUS
<1>4. Holds(f, r, v, e)
  BY <1>1, <1>2, <1>3
<1>5. Slotted(f, r) \in Seq(SlotValues)
  BY <1>4, ReportedIs
<1>6. Reported' = Slotted(f, r)
  BY <1>2 DEF Reported
<1>7. PICK z \in Seq(SlotValues) : z = Slotted(f, r)
  BY <1>5
<1>8. DOMAIN z = 1 .. Len(z)
  OBVIOUS
<1>9. QED BY <1>6, <1>7, <1>8

\* No record that the idle ring reports is newer than the last.
LEMMA ReportedUpTo ==
  ASSUME HInv, pc = "Idle"
  PROVE  \A j \in DOMAIN Reported : Reported[j] <= record
<1>1. /\ flash \in Flash /\ ring \in Ring /\ Holds(flash, ring, record, Started(pc, record)) /\ record \in Nat
  BY InvFacts DEF HInv, Given
<1> DEFINE h == HeadOf(ring)  k == ring.used
<1>2. /\ h \in Segments /\ k \in 0 .. NSegments /\ ring.lens \in LensType
      /\ Reported = Strung(flash, h, k, ring.lens) /\ DOMAIN Reported = 1 .. Len(Reported)
      /\ \A n \in 0 .. NSegments - 1 : At(ring, n) \in Segments
  <2>1. ring.lens \in LensType
    BY <1>1 DEF Ring, LensType
  <2>2. DOMAIN Reported = 1 .. Len(Reported)
    BY ReportedType
  <2>3. QED BY <1>1, <2>1, <2>2, AtIs, SlottedIs DEF Reported
<1>3. UpTo(flash, h, k, record)
  BY <1>1 DEF Holds, Filled
<1> HIDE DEF h, k
<1>4. SUFFICES ASSUME NEW j \in 1 .. Len(Reported)
               PROVE  Reported[j] <= record
  BY <1>2
<1>5. PICK n \in 0 .. k - 1 : \E i \in 1 .. ring.lens[Before(h, n)] : Reported[j] = flash[Before(h, n)].slots[i]
  BY <1>1, <1>2, StrungPlaces DEF StrungFrom
<1>6. PICK i \in 1 .. ring.lens[Before(h, n)] : Reported[j] = flash[Before(h, n)].slots[i]
  BY <1>5
<1>7. Before(h, n) \in Segments
  <2>1. n \in 0 .. NSegments - 1
    BY <1>2, SlotConstants
  <2>2. QED BY <1>2, <2>1 DEF At, h
<1>8. i \in Slots
  <2>1. ring.lens[Before(h, n)] \in 0 .. PerSegment
    BY <1>2, <1>7 DEF LensType
  <2>2. QED BY <2>1, SlotConstants DEF Slots
<1>9. QED BY <1>3, <1>6, <1>8 DEF UpTo

\* A row that is taken up.
LEMMA EmitLevel ==
  ASSUME HInv, pc = "Idle", NEW i \in Nat, stream' = EmitFrom(i), UNCHANGED hvars
  PROVE  LevelInv'
<1>1. /\ Reported \in Seq(SlotValues) /\ DOMAIN Reported = 1 .. Len(Reported) /\ Len(Reported) \in Nat
      /\ \A a, b \in DOMAIN Reported :
           a < b /\ Valid(Reported[a]) /\ Valid(Reported[b]) => Reported[a] < Reported[b]
  BY ReportedOrder
<1>2. pc' = pc /\ record' = record /\ Reported' = Reported
  BY DEF hvars, vars, Reported
<1>3. AppendsPerRow \in Nat
  BY StreamConstants
<1>4. CASE stream' = Over
  BY <1>3, <1>4 DEF LevelInv, StreamOk, Over, NoRow
<1>5. CASE \E row \in DOMAIN Reported :
             /\ row > i /\ Valid(Reported[row])
             /\ stream' = [phase |-> "sending", i |-> row - 1, seq |-> Reported[row],
                           before |-> Len(Reported), given |-> 0]
  <2>1. PICK row \in DOMAIN Reported :
          /\ row > i /\ Valid(Reported[row])
          /\ stream' = [phase |-> "sending", i |-> row - 1, seq |-> Reported[row],
                        before |-> Len(Reported), given |-> 0]
    BY <1>5
  <2>2. /\ stream'.i = row - 1 /\ stream'.seq = Reported[row] /\ stream'.before = Len(Reported)
        /\ stream'.given = 0 /\ row - 1 \in Nat /\ row \in Nat
    BY <1>1, <2>1
  <2>3. StreamOk'
    BY <1>1, <1>3, <2>1, <2>2 DEF StreamOk, Valid
  <2>4. Reported[row] <= record
    BY ReportedUpTo
  <2>5. \A j \in DOMAIN Reported : j > stream'.i + 1 /\ Valid(Reported[j]) => stream'.seq < Reported[j]
    <3> TAKE j \in DOMAIN Reported
    <3>1. j > stream'.i + 1 => row < j
      BY <1>1, <2>2
    <3>2. QED BY <1>1, <2>1, <2>2, <3>1
  <2>6. Level'
    BY <1>1, <1>2, <2>2, <2>4, <2>5 DEF Level
  <2>7. QED BY <2>3, <2>6 DEF LevelInv
<1>6. QED BY <1>1, <1>4, <1>5, EmitIs

\* The next row is a newer record.
LEMMA LevelSent ==
  ASSUME HInv, LevelInv, Sent
  PROVE  Forward
<1> DEFINE R == Reported
<1>1. pc = "Idle" /\ stream.phase = "sending" /\ stream' = EmitFrom(NextIndex)
  BY DEF Sent, Locked
<1>2. Level /\ StreamOk
  BY <1>1 DEF LevelInv
<1>3. /\ R \in Seq(SlotValues) /\ R \in Seq(Int) /\ DOMAIN R = 1 .. Len(R) /\ Len(R) \in Nat
      /\ \A a, b \in DOMAIN R : a < b /\ Valid(R[a]) /\ Valid(R[b]) => R[a] < R[b]
  BY <1>1, ReportedOrder
<1>4. \A j \in DOMAIN R : R[j] \in Int
  BY <1>1, ReportedType
<1>5. stream.i \in Nat /\ stream.seq \in Int /\ stream.before \in Nat
  BY <1>2, SlotConstants DEF StreamOk, Records
<1>6. NextIndex \in Nat
  BY <1>1, <1>2, NextIndexIs
<1>7. \A j \in DOMAIN R : j > NextIndex /\ Valid(R[j]) => stream.seq < R[j]
  <2>1. CASE ~(Len(R) < stream.before)
    <3>1. NextIndex = stream.i + 1
      BY <2>1 DEF NextIndex
    <3>2. QED BY <1>2, <3>1 DEF Level
  <2>2. CASE Len(R) < stream.before
    <3>1. NextIndex = LowerBound(R, stream.seq + 1) /\ \A j \in DOMAIN R : Valid(R[j])
      BY <1>2, <2>2 DEF NextIndex, Level
    <3> HIDE DEF R
    <3>2. PICK t \in Int : t = stream.seq + 1
      BY <1>5
    <3>3. PICK n \in Nat : n = NextIndex
      BY <1>6
    <3>4. n \in 0 .. Len(R) /\ (n # Len(R) => ~(Valid(R[n + 1]) /\ R[n + 1] < t))
      <4>1. /\ LowerBound(R, t) \in 0 .. Len(R)
            /\ LowerBound(R, t) # Len(R) => ~(Valid(R[LowerBound(R, t) + 1]) /\ R[LowerBound(R, t) + 1] < t)
        BY <1>3, LowerBoundEnds
      <4>2. n = LowerBound(R, t)
        BY <3>1, <3>2, <3>3
      <4>3. QED BY <4>1, <4>2
    <3>5. SUFFICES ASSUME NEW j \in DOMAIN R, j > n
                   PROVE  stream.seq < R[j]
      BY <3>3
    <3>6. j \in 1 .. Len(R) /\ n + 1 \in DOMAIN R /\ n # Len(R)
      <4>1. PICK l \in Nat : l = Len(R) /\ DOMAIN R = 1 .. l
        BY <1>3
      <4>2. j \in 1 .. l /\ n \in 0 .. l
        BY <3>4, <3>5, <4>1
      <4>3. n + 1 \in 1 .. l /\ n # l
        BY <3>5, <4>2
      <4>4. QED BY <4>1, <4>2, <4>3
    <3>7. R[n + 1] \in Int /\ R[j] \in Int
      BY <1>4, <3>6
    <3>8. ~(R[n + 1] < t)
      BY <3>1, <3>4, <3>6
    <3>9. n + 1 = j \/ R[n + 1] < R[j]
      <4>1. n + 1 = j \/ n + 1 < j
        BY <3>5, <3>6
      <4>2. QED BY <1>3, <3>1, <3>6, <4>1
    <3>10. QED BY <1>5, <3>2, <3>7, <3>8, <3>9
  <2>3. QED BY <2>1, <2>2
<1>8. CASE EmitFrom(NextIndex) = Over
  BY <1>1, <1>8 DEF Forward, Over, NoRow
<1>9. CASE \E row \in DOMAIN R :
             /\ row > NextIndex /\ Valid(R[row])
             /\ EmitFrom(NextIndex) = [phase |-> "sending", i |-> row - 1, seq |-> R[row],
                                       before |-> Len(R), given |-> 0]
  <2>1. PICK row \in DOMAIN R :
             /\ row > NextIndex /\ Valid(R[row])
             /\ EmitFrom(NextIndex) = [phase |-> "sending", i |-> row - 1, seq |-> R[row],
                                       before |-> Len(R), given |-> 0]
    BY <1>9
  <2>2. stream'.seq = R[row]
    BY <1>1, <2>1
  <2>3. QED BY <1>7, <2>1, <2>2 DEF Forward
<1>10. QED BY <1>3, <1>6, <1>8, <1>9, EmitIs

\* The ring moves on under a row.
LEMMA RingLevel ==
  ASSUME AppendsPerRow <= 1, HInv, HInv', LevelInv, RingStep
  PROVE  LevelInv'
<1>1. AppendsPerRow \in Nat /\ StreamOk
  BY StreamConstants DEF LevelInv
<1>2. StreamOk'
  <2>1. CASE stream' = Over
    BY <1>1, <2>1 DEF StreamOk, Over, NoRow
  <2>2. CASE UNCHANGED stream
    BY <1>1, <2>2 DEF StreamOk
  <2>3. CASE stream.given < AppendsPerRow /\ stream' = [stream EXCEPT !.given = @ + 1]
    BY <1>1, <2>3 DEF StreamOk
  <2>4. QED BY <2>1, <2>2, <2>3 DEF RingStep
<1>3. SUFFICES ASSUME stream'.phase = "sending"
               PROVE  Level'
  BY <1>2 DEF LevelInv
<1>4. Next
  BY DEF RingStep, HNext
<1>5. /\ stream.phase = "sending" /\ pc' # "Off"
      /\ \/ /\ record' # record /\ stream.given < AppendsPerRow
            /\ stream' = [stream EXCEPT !.given = @ + 1]
         \/ record' = record /\ UNCHANGED stream
  <2>1. stream' # Over
    BY <1>3 DEF Over, NoRow
  <2>2. QED BY <1>3, <2>1 DEF RingStep
<1>6. Level /\ pc # "Off" /\ pc # "Repair"
  BY <1>5 DEF LevelInv, Level
<1>7. /\ stream.given \in Nat /\ stream.given <= 1 /\ stream.i \in Nat /\ stream.before \in Nat /\ stream.seq \in Int
      /\ record \in Nat
      /\ Reported \in Seq(SlotValues) /\ Len(Reported) \in Nat /\ DOMAIN Reported = 1 .. Len(Reported)
      /\ \A j \in DOMAIN Reported : Reported[j] \in Int
  <2>1. record \in Nat
    BY InvFacts DEF HInv
  <2>2. QED BY <1>1, <1>6, <2>1, ReportedType, SlotConstants DEF StreamOk, Records
<1>8. CASE Give
  <2>1. pc = "Idle" /\ record' = record + 1 /\ Reported' = Reported /\ pc' \notin {"Off", "Repair"}
    BY <1>5, <1>8 DEF Give, Reported, StartOf
  <2>2. stream.given = 0 /\ stream' = [stream EXCEPT !.given = @ + 1]
    BY <1>1, <1>5, <1>7, <2>1
  <2>3. stream'.given = 1 /\ stream'.i = stream.i /\ stream'.before = stream.before /\ stream'.seq = stream.seq
    BY <1>1, <2>2 DEF StreamOk
  <2>4. stream.seq < record + 1 /\ Len(Reported) = stream.before
    BY <1>6, <1>7, <2>2 DEF Level
  <2> HIDE DEF Reported
  <2>5. QED BY <1>6, <2>1, <2>3, <2>4 DEF Level
<1>9. CASE ~Give
  <2>1. record' = record /\ UNCHANGED stream /\ pc \in {"Drop", "Erase", "Header", "Record"}
    <3>1. record' = record /\ pc \in {"Drop", "Erase", "Header", "Record"}
      BY <1>4, <1>5, <1>6, <1>9
         DEF Next, Open, Repair, Drop, EraseSegment, StartSegment, WriteRecord, PowerLoss, LosePower
    <3>2. QED BY <1>5, <3>1
  <2>2. stream.given > 0 /\ stream.seq < record
    BY <1>6, <1>7, <2>1 DEF Level
  <2>3. pc' # "Repair"
    BY <1>4, <1>5, <2>1 DEF Next, Open, Repair, Give, Drop, DropTail, EraseSegment, StartSegment, WriteRecord, PowerLoss,
                     LosePower, StartOf
  <2>4. Stays \/ Grows \/ Shrinks \/ Wears
    BY <1>4, <1>5, <1>6, <1>9, DropReported, EraseReported, StartReported, WriteReported
       DEF Next, Open, Repair, PowerLoss, LosePower
  <2>5. record \in Records
    BY <2>1, InvFacts DEF HInv
  <2> SUFFICES /\ pc' # "Drop"
               /\ \A j \in DOMAIN Reported' : j > stream.i + 1 /\ Valid(Reported'[j]) => stream.seq < Reported'[j]
               /\ Len(Reported') < stream.before => \A j \in DOMAIN Reported' : Valid(Reported'[j])
    BY <1>5, <1>7, <2>1, <2>2, <2>3 DEF Level
  <2> HIDE DEF Reported
  <2>6. /\ \A j \in DOMAIN Reported : j > stream.i + 1 /\ Valid(Reported[j]) => stream.seq < Reported[j]
        /\ Len(Reported) < stream.before => \A j \in DOMAIN Reported : Valid(Reported[j])
        /\ pc = "Drop" => Len(Reported) = stream.before
    BY <1>6 DEF Level
  <2>7. CASE Stays
    BY <2>6, <2>7 DEF Stays
  <2>8. CASE Grows
    <3>1. record \in SlotValues /\ Valid(record)
      BY <2>5 DEF SlotValues, Valid
    <3>2. /\ Len(Reported') = Len(Reported) + 1 /\ DOMAIN Reported' = 1 .. Len(Reported) + 1
          /\ \A j \in 1 .. Len(Reported) : Reported'[j] = Reported[j]
          /\ Reported'[Len(Reported) + 1] = record
      BY <1>7, <2>8, <3>1 DEF Grows
    <3>3. \A j \in DOMAIN Reported' : j \in DOMAIN Reported \/ j = Len(Reported) + 1
      BY <1>7, <3>2
    <3>4. \A j \in DOMAIN Reported' : j > stream.i + 1 /\ Valid(Reported'[j]) => stream.seq < Reported'[j]
      BY <1>7, <2>2, <2>6, <3>2, <3>3
    <3>5. Len(Reported') < stream.before => \A j \in DOMAIN Reported' : Valid(Reported'[j])
      <4>1. Len(Reported') < stream.before => Len(Reported) < stream.before
        BY <1>7, <3>2
      <4>2. QED BY <1>7, <2>6, <3>1, <3>2, <3>3, <4>1
    <3>6. QED BY <2>8, <3>4, <3>5 DEF Grows
  <2>9. CASE Shrinks
    <3>1. PICK x \in Seq(SlotValues) : Reported = Cat(x, Reported')
      BY <2>9 DEF Shrinks
    <3>2. /\ Reported' \in Seq(SlotValues) /\ \A a \in 1 .. Len(Reported') : Valid(Reported'[a])
          /\ pc' # "Drop"
      BY <2>9 DEF Shrinks
    <3>3. /\ Len(Reported) = Len(x) + Len(Reported') /\ Len(x) \in Nat /\ Len(Reported') \in Nat
          /\ \A a \in 1 .. Len(Reported') : Reported[Len(x) + a] = Reported'[a]
          /\ DOMAIN Reported' = 1 .. Len(Reported')
      <4>1. ASSUME NEW b \in Seq(SlotValues)
            PROVE  /\ Len(Cat(x, b)) = Len(x) + Len(b) /\ Len(x) \in Nat /\ Len(b) \in Nat
                   /\ \A a \in 1 .. Len(b) : Cat(x, b)[Len(x) + a] = b[a]
                   /\ DOMAIN b = 1 .. Len(b)
        BY CatEntries
      <4>2. QED BY <3>1, <3>2, <4>1, Zenon
    <3>4. \A j \in 1 .. Len(Reported') : j > stream.i + 1 => stream.seq < Reported'[j]
      <4> TAKE j \in 1 .. Len(Reported')
      <4>1. PICK m \in DOMAIN Reported : m = Len(x) + j
        BY <1>7, <3>3
      <4>2. Reported[m] = Reported'[j] /\ Valid(Reported'[j]) /\ (j > stream.i + 1 => m > stream.i + 1)
        BY <1>7, <3>2, <3>3, <4>1
      <4>3. QED BY <2>6, <4>2
    <3>5. QED BY <3>2, <3>3, <3>4
  <2>10. CASE Wears
    <3>1. /\ Len(Reported') = Len(Reported) /\ pc = "Drop" /\ pc' # "Drop"
          /\ \A a \in 1 .. Len(Reported) : Reported'[a] = Reported[a] \/ ~Valid(Reported'[a])
      BY <2>10 DEF Wears
    <3>2. ~(Len(Reported') < stream.before)
      BY <1>7, <2>6, <3>1
    <3>3. DOMAIN Reported' = 1 .. Len(Reported)
      BY <1>5, <3>1, ReportedThen
    <3>4. QED BY <1>7, <2>6, <3>1, <3>2, <3>3
  <2>11. QED BY <2>4, <2>7, <2>8, <2>9, <2>10
<1>10. QED BY <1>8, <1>9

\* Every step of the stream and of the ring.
LEMMA LevelStep ==
  ASSUME AppendsPerRow <= 1, HInv, HInv', LevelInv, [SNext]_svars
  PROVE  LevelInv'
<1>1. CASE Start
  <2>1. pc = "Idle" /\ UNCHANGED hvars
    BY <1>1 DEF Start, Locked
  <2>2. PICK since \in Records : stream' = EmitFrom(LowerBound(Reported, since))
    BY <1>1 DEF Start
  <2>3. LowerBound(Reported, since) \in Nat
    BY <2>1, StartIndexIs
  <2>4. QED BY <2>1, <2>2, <2>3, EmitLevel
<1>2. CASE Sent
  <2>1. pc = "Idle" /\ UNCHANGED hvars /\ stream' = EmitFrom(NextIndex)
    BY <1>2 DEF Sent, Locked
  <2>2. NextIndex \in Nat
    BY <2>1, NextIndexIs DEF LevelInv
  <2>3. QED BY <2>1, <2>2, EmitLevel
<1>3. CASE Broken
  BY <1>3, StreamConstants DEF Broken, LevelInv, StreamOk, Over, NoRow
<1>4. CASE RingStep
  BY <1>4, RingLevel
<1>5. CASE UNCHANGED svars
  BY <1>5 DEF svars, hvars, vars, history, LevelInv, StreamOk, Level, Reported
<1>6. QED BY <1>1, <1>2, <1>3, <1>4, <1>5 DEF SNext

(* Whatever fails or is cut: when at most one record joins the ring while a   *)
(* row is on its way, an export sends no row twice and none after a newer one. *)
THEOREM ExportInOrderAlways ==
  ASSUME AppendsPerRow <= 1
  PROVE  SSpec => ExportInOrder
<1>1. SInit => LevelInv
  BY StreamConstants DEF SInit, NoRow, LevelInv, StreamOk
<1>2. HInv /\ HInv' /\ LevelInv /\ [SNext]_svars => LevelInv'
  BY LevelStep
<1>3. HInv /\ LevelInv /\ [SNext]_svars => [Sent => Forward]_svars
  BY LevelSent
<1>4. QED BY <1>1, <1>2, <1>3, RingHolds, ExportLeavesTheRing, PTL DEF SSpec, ExportInOrder

(* Both together: no row twice, none out of order, and in a calm ring none     *)
(* left out.                                                               *)
THEOREM ExportStaysInPlace ==
  ASSUME AppendsPerRow <= 1, AppendsPerRow < PerSegment
  PROVE  SSpec => ExportKeepsItsPlace
BY ExportInOrderAlways, ExportSkipsNothingAlways DEF ExportKeepsItsPlace
=============================================================================
