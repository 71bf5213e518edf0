----------------------------- MODULE RingProofs -----------------------------
(***************************************************************************)
(* Lemmas about the operators of module Ring, for a ring of any size n,    *)
(* and the arithmetic that the other proofs share: remainders, wrapping    *)
(* clocks, and the least and the greatest number of a set.                 *)
(***************************************************************************)
EXTENDS Ring, SequenceTheorems, NaturalsInduction, WellFoundedInduction, TLAPS

(* Rings. *)

\* The successor of an index is an index and wraps exactly at the end of the ring.
LEMMA SuccWraps ==
  ASSUME NEW n \in Nat, n > 1, NEW x \in Indices(n)
  PROVE  /\ Succ(n, x) \in Indices(n)
         /\ Succ(n, x) = IF x + 1 = n THEN 0 ELSE x + 1
BY DEF Indices, Succ

\* Counting the slots between the indices: never all n of them, and none only
\* when the indices meet; stepping a distance over the used slots meets the head.
LEMMA UsedProperties ==
  ASSUME NEW n \in Nat, n > 1, NEW head \in Indices(n), NEW tail \in Indices(n)
  PROVE  /\ ring_used(n, head, tail) \in 0 .. n - 1
         /\ ring_used(n, head, tail) = 0 <=> head = tail
         /\ Slot(n, tail, ring_used(n, head, tail)) = head
BY DEF Indices, ring_used, Slot

\* The number of used slots is a number.
LEMMA UsedIsInt ==
  ASSUME NEW n \in Nat, n > 1, NEW head \in Indices(n), NEW tail \in Indices(n)
  PROVE  ring_used(n, head, tail) \in Int
BY UsedProperties

\* Slots are indices, neighbours are successors, and n slots in a row differ.
LEMMA SlotProperties ==
  ASSUME NEW n \in Nat, n > 1, NEW x \in Indices(n)
  PROVE  /\ \A k \in 0 .. n - 1 : Slot(n, x, k) \in Indices(n)
         /\ Slot(n, x, 0) = x
         /\ \A k \in 0 .. n - 1 : Slot(n, x, k + 1) = Succ(n, Slot(n, x, k))
         /\ \A k \in 0 .. n - 1 : Slot(n, Succ(n, x), k) = Slot(n, x, k + 1)
         /\ \A k, l \in 0 .. n - 1 : Slot(n, x, k) = Slot(n, x, l) => k = l
<1> USE DEF Indices
<1>1. Succ(n, x) = IF x + 1 = n THEN 0 ELSE x + 1
  BY SuccWraps
<1>2. ASSUME NEW k \in 0 .. n - 1
      PROVE  /\ Slot(n, x, k) \in 0 .. n - 1
             /\ Slot(n, x, k + 1) = Succ(n, Slot(n, x, k))
             /\ Slot(n, Succ(n, x), k) = Slot(n, x, k + 1)
  <2>1. Slot(n, x, k) \in 0 .. n - 1
    BY DEF Slot
  <2>2. Succ(n, Slot(n, x, k)) =
          IF Slot(n, x, k) + 1 = n THEN 0 ELSE Slot(n, x, k) + 1
    BY <2>1, SuccWraps
  <2>3. Slot(n, x, k + 1) = Succ(n, Slot(n, x, k))
    BY <2>1, <2>2 DEF Slot
  <2>4. Slot(n, Succ(n, x), k) = Slot(n, x, k + 1)
    BY <1>1 DEF Slot
  <2> QED
    BY <2>1, <2>3, <2>4
<1>3. ASSUME NEW k \in 0 .. n - 1, NEW l \in 0 .. n - 1, Slot(n, x, k) = Slot(n, x, l)
      PROVE  k = l
  BY <1>3 DEF Slot
<1>4. Slot(n, x, 0) = x
  BY DEF Slot
<1> QED
  BY <1>2, <1>3, <1>4

\* The used slots and the free ones are disjoint: going on from the head, and
\* staying below n slots in all, never reaches a slot that holds an item.
LEMMA FreeSlotIsNotUsed ==
  ASSUME NEW n \in Nat, n > 1, NEW head \in Indices(n), NEW tail \in Indices(n),
         NEW k \in 1 .. ring_used(n, head, tail), NEW l \in Nat,
         ring_used(n, head, tail) + l < n
  PROVE  Slot(n, head, l) # Slot(n, tail, k - 1)
BY DEF Indices, ring_used, Slot

\* The contents are a sequence of items of the ring.
LEMMA ContentsType ==
  ASSUME NEW n \in Nat, n > 1, NEW head \in Indices(n), NEW tail \in Indices(n),
         NEW S, NEW ring \in [Indices(n) -> S]
  PROVE  /\ Contents(n, ring, head, tail) \in Seq(S)
         /\ Len(Contents(n, ring, head, tail)) = ring_used(n, head, tail)
         /\ \A k \in 1 .. ring_used(n, head, tail) :
              Contents(n, ring, head, tail)[k] = ring[Slot(n, tail, k - 1)]
<1> USE DEF Indices
<1> DEFINE used == ring_used(n, head, tail)
           c == Contents(n, ring, head, tail)
<1>1. used \in Nat /\ used \in 0 .. n - 1
  BY UsedProperties
<1>2. \A k \in 1 .. used : ring[Slot(n, tail, k - 1)] \in S
  <2> TAKE k \in 1 .. used
  <2>1. k - 1 \in 0 .. n - 1
    BY <1>1
  <2>2. Slot(n, tail, k - 1) \in 0 .. n - 1
    BY <2>1, SlotProperties
  <2> QED
    BY <2>2
<1>3. c \in [1 .. used -> S]
  BY <1>2 DEF Contents
<1>4. c \in Seq(S) /\ Len(c) = used
  BY <1>1, <1>3
<1> QED
  BY <1>4 DEF Contents

\* Moving the tail takes the oldest item off.
LEMMA ContentsTail ==
  ASSUME NEW n \in Nat, n > 1, NEW head \in Indices(n), NEW tail \in Indices(n),
         NEW S, NEW ring \in [Indices(n) -> S], head # tail
  PROVE  /\ Contents(n, ring, head, tail) # << >>
         /\ Head(Contents(n, ring, head, tail)) = ring[tail]
         /\ Contents(n, ring, head, Succ(n, tail)) =
              Tail(Contents(n, ring, head, tail))
<1> USE DEF Indices
<1> DEFINE used == ring_used(n, head, tail)
           c == Contents(n, ring, head, tail)
           t == Succ(n, tail)
           d == Contents(n, ring, head, t)
<1>1. t \in 0 .. n - 1 /\ t = IF tail + 1 = n THEN 0 ELSE tail + 1
  BY SuccWraps
<1>2. used \in 1 .. n - 1
  BY UsedProperties
<1>3. ring_used(n, head, t) = used - 1
  BY <1>1 DEF ring_used
<1>4. c \in Seq(S) /\ Len(c) = used /\ \A k \in 1 .. used : c[k] = ring[Slot(n, tail, k - 1)]
  BY ContentsType
<1>5. d \in Seq(S) /\ Len(d) = used - 1 /\ \A k \in 1 .. used - 1 : d[k] = ring[Slot(n, t, k - 1)]
  <2>1. /\ d \in Seq(S) /\ Len(d) = ring_used(n, head, t)
        /\ \A k \in 1 .. ring_used(n, head, t) : d[k] = ring[Slot(n, t, k - 1)]
    <3> HIDE DEF t
    <3> QED
      BY ContentsType, <1>1
  <2> QED
    BY <1>3, <2>1
<1>6. c # << >> /\ Head(c) = ring[tail]
  <2>1. Slot(n, tail, 0) = tail
    BY DEF Slot
  <2>2. Len(c) > 0 /\ c[1] = ring[Slot(n, tail, 0)]
    BY <1>2, <1>4
  <2> QED
    BY <1>4, <2>1, <2>2
<1>7. Tail(c) \in Seq(S) /\ Len(Tail(c)) = used - 1
      /\ \A k \in 1 .. used - 1 : Tail(c)[k] = c[k + 1]
  BY <1>4, <1>6, HeadTailProperties
<1>8. ASSUME NEW k \in 1 .. used - 1
      PROVE  d[k] = Tail(c)[k]
  <2>1. Slot(n, t, k - 1) = Slot(n, tail, k)
    BY <1>1, <1>2 DEF Slot
  <2>2. k + 1 \in 1 .. used
    BY <1>2
  <2>3. c[k + 1] = ring[Slot(n, tail, k)]
    <3>1. (k + 1) - 1 = k
      BY <1>2
    <3>2. c[k + 1] = ring[Slot(n, tail, (k + 1) - 1)]
      <4> HIDE DEF c, used
      <4> QED
        BY <1>4, <2>2
    <3> QED
      BY <3>1, <3>2
  <2> QED
    BY <1>5, <1>7, <2>1, <2>3
<1>9. d = Tail(c)
  BY <1>2, <1>5, <1>7, <1>8, SeqEqual
<1> QED
  BY <1>6, <1>9

\* Changing one free slot leaves the contents alone.
LEMMA ContentsOfFreeWrite ==
  ASSUME NEW n \in Nat, n > 1, NEW head \in Indices(n), NEW tail \in Indices(n),
         NEW ring, NEW written, NEW l \in Nat,
         ring_used(n, head, tail) + l < n,
         \A x \in Indices(n) : x # Slot(n, head, l) => written[x] = ring[x]
  PROVE  Contents(n, written, head, tail) = Contents(n, ring, head, tail)
<1> USE DEF Indices
<1> DEFINE used == ring_used(n, head, tail)
<1>0. used \in 0 .. n - 1
  BY UsedProperties, Zenon
<1>1. ASSUME NEW k \in 1 .. used
      PROVE  written[Slot(n, tail, k - 1)] = ring[Slot(n, tail, k - 1)]
  <2>1. Slot(n, head, l) # Slot(n, tail, k - 1)
    BY FreeSlotIsNotUsed
  <2>2. k - 1 \in 0 .. n - 1
    BY <1>0
  <2>3. Slot(n, tail, k - 1) \in 0 .. n - 1
    BY <2>2, SlotProperties
  <2> QED
    BY <2>1, <2>3
<1> QED
  BY <1>1 DEF Contents

\* Moving the head over slots that hold a frame appends the frame.
LEMMA ContentsAppend ==
  ASSUME NEW n \in Nat, n > 1, NEW head \in Indices(n), NEW tail \in Indices(n),
         NEW S, NEW ring \in [Indices(n) -> S], NEW frame \in Seq(S),
         ring_used(n, head, tail) + Len(frame) < n,
         \A k \in 1 .. Len(frame) : ring[Slot(n, head, k - 1)] = frame[k]
  PROVE  Contents(n, ring, Slot(n, head, Len(frame)), tail) =
           Contents(n, ring, head, tail) \o frame
<1> USE DEF Indices
<1> DEFINE used == ring_used(n, head, tail)
           len == Len(frame)
           h == Slot(n, head, len)
           c == Contents(n, ring, head, tail)
           d == Contents(n, ring, h, tail)
<1>0. len \in Nat /\ len \in 0 .. n - 1 /\ used \in 0 .. n - 1
  <2>1. used \in 0 .. n - 1
    BY UsedProperties, Zenon
  <2>2. len \in Nat
    BY LenProperties
  <2> QED
    BY <2>1, <2>2
<1>1. h \in 0 .. n - 1
  BY <1>0, SlotProperties
<1>2. ring_used(n, h, tail) = used + len
  BY <1>0 DEF ring_used, Slot
<1>3. c \in Seq(S) /\ Len(c) = used /\ \A k \in 1 .. used : c[k] = ring[Slot(n, tail, k - 1)]
  BY ContentsType
<1>4. d \in Seq(S) /\ Len(d) = used + len
      /\ \A k \in 1 .. used + len : d[k] = ring[Slot(n, tail, k - 1)]
  BY <1>1, <1>2, ContentsType
<1>5. c \o frame \in Seq(S) /\ Len(c \o frame) = used + len
      /\ \A k \in 1 .. used + len :
           (c \o frame)[k] = IF k <= used THEN c[k] ELSE frame[k - used]
  <2> HIDE DEF c, used
  <2> QED
    BY <1>3, ConcatProperties
<1>6. ASSUME NEW k \in 1 .. used + len
      PROVE  d[k] = (c \o frame)[k]
  <2>0. k \in Int /\ used \in Int
    BY <1>0
  <2>1. CASE k <= used
    <3>1. k \in 1 .. used
      BY <2>1, <1>0
    <3> QED
      BY <2>1, <3>1, <1>3, <1>4, <1>5
  <2>2. CASE k > used
    <3>1. k - used \in 1 .. len
      BY <2>2, <1>0
    <3>2. Slot(n, tail, k - 1) = Slot(n, head, k - used - 1)
      BY <2>2, <1>0 DEF Slot, ring_used
    <3>3. ring[Slot(n, head, k - used - 1)] = frame[k - used]
      BY <3>1
    <3> QED
      <4>1. d[k] = frame[k - used]
        BY <3>2, <3>3, <1>4
      <4>2. (c \o frame)[k] = frame[k - used]
        <5>1. ~(k <= used)
          BY <2>0, <2>2
        <5> HIDE DEF c, used
        <5> QED
          BY <5>1, <1>5
      <4> QED
        BY <4>1, <4>2
  <2>3. k <= used \/ k > used
    BY <2>0
  <2> HIDE DEF used
  <2> QED
    BY <2>1, <2>2, <2>3
<1> QED
  BY <1>4, <1>5, <1>6, SeqEqual
-----------------------------------------------------------------------------
(* Remainders and clocks. *)

\* Division with remainder.
LEMMA Remainder ==
  ASSUME NEW c \in Nat, c > 0, NEW a \in Int
  PROVE  /\ a % c \in 0 .. c - 1
         /\ a % c \in Int /\ a \div c \in Int
         /\ a = c * (a \div c) + (a % c)
OBVIOUS

\* A remainder determines itself.
LEMMA RemainderIsUnique ==
  ASSUME NEW c \in Nat, c > 0, NEW q \in Int, NEW r \in Int, 0 <= r, r < c
  PROVE  (c * q + r) % c = r
OBVIOUS

\* The difference of two clock values is the time between them, in the two cases
\* the clock meets: no wrap counted, or one too many.
LEMMA ClockDifference ==
  ASSUME NEW c \in Nat, c > 0, NEW a \in Int, NEW b \in Int
  PROVE  /\ 0 <= a - b /\ a - b < c => ((a % c) - (b % c)) % c = a - b
         /\ -c <= a - b /\ a - b < 0 => ((a % c) - (b % c)) % c = a - b + c
<1>1. /\ a % c \in Int /\ b % c \in Int /\ a \div c \in Int /\ b \div c \in Int
      /\ a = c * (a \div c) + (a % c) /\ b = c * (b \div c) + (b % c)
  BY Remainder
<1> DEFINE wraps == (b \div c) - (a \div c)
           more == wraps - 1
<1>2. wraps \in Int /\ more \in Int
  BY <1>1
<1>3. c * wraps = c * (b \div c) - c * (a \div c) /\ c * more = c * wraps - c
  BY <1>1
<1>4. (a % c) - (b % c) = c * wraps + (a - b) /\ (a % c) - (b % c) = c * more + (a - b + c)
  BY <1>1, <1>3
<1> HIDE DEF wraps, more
<1>5. ASSUME 0 <= a - b, a - b < c PROVE (c * wraps + (a - b)) % c = a - b
  <2>1. PICK r \in 0 .. c - 1 : r = a - b
    BY <1>5
  <2>2. (c * wraps + r) % c = r
    BY <1>2, RemainderIsUnique
  <2> QED
    BY <2>1, <2>2
<1>6. ASSUME -c <= a - b, a - b < 0 PROVE (c * more + (a - b + c)) % c = a - b + c
  <2>1. PICK r \in 0 .. c - 1 : r = a - b + c
    BY <1>6
  <2>2. (c * more + r) % c = r
    BY <1>2, RemainderIsUnique
  <2> QED
    BY <2>1, <2>2
<1> QED
  BY <1>4, <1>5, <1>6

-----------------------------------------------------------------------------
(* Least and greatest numbers. *)

\* A set of numbers has a least one, by the well-foundedness of <.
LEMMA LeastElement ==
  ASSUME NEW T \in SUBSET Nat, T # {}
  PROVE  \E n \in T : \A m \in T : n <= m
<1> DEFINE R == {ss \in Nat \X Nat : ss[1] < ss[2]}
<1>1. IsWellFoundedOn(R, Nat)
  BY NatLessThanWellFounded DEF OpToRel
<1>2. PICK n \in T : \A y \in T : ~(<<y, n>> \in R)
  BY <1>1, WFMin
<1>3. \A m \in T : n <= m
  <2> TAKE m \in T
  <2>1. m \in Nat /\ n \in Nat /\ ~(<<m, n>> \in R)
    BY <1>2
  <2>2. <<m, n>> \in Nat \X Nat /\ <<m, n>>[1] = m /\ <<m, n>>[2] = n
    BY <2>1
  <2>3. m < n => <<m, n>> \in R
    BY <2>2, Zenon
  <2> QED
    BY <2>1, <2>3
<1> QED
  BY <1>3

\* A set of numbers below a bound has a greatest one: the least of its bounds.
LEMMA GreatestElement ==
  ASSUME NEW T \in SUBSET Nat, T # {}, NEW b \in Nat, \A m \in T : m <= b
  PROVE  \E n \in T : \A m \in T : m <= n
<1> DEFINE B == {x \in Nat : \A m \in T : m <= x}
<1>1. PICK x \in B : \A y \in B : x <= y
  <2>1. b \in B
    OBVIOUS
  <2> HIDE DEF B
  <2> QED
    BY <2>1, LeastElement, B \subseteq Nat DEF B
<1>2. CASE x \in T
  BY <1>1, <1>2
<1>3. CASE x \notin T
  <2>1. PICK t \in T : TRUE
    OBVIOUS
  <2>2. x > 0 /\ x - 1 \in Nat
    BY <1>1, <1>3, <2>1
  <2>3. \A m \in T : m <= x - 1
    BY <1>1, <1>3, <2>2
  <2>4. x - 1 \in B
    BY <2>2, <2>3
  <2> QED
    BY <1>1, <2>2, <2>4
<1> QED
  BY <1>2, <1>3

\* A set of numbers that has 0 and with every number the next has them all.
LEMMA Induction ==
  ASSUME NEW T \in SUBSET Nat, 0 \in T, \A n \in T : n + 1 \in T
  PROVE  T = Nat
<1>1. SUFFICES ASSUME Nat \ T # {} PROVE FALSE
  OBVIOUS
<1>2. PICK n \in Nat \ T : \A m \in Nat \ T : n <= m
  BY <1>1, LeastElement
<1>3. n # 0 /\ n - 1 \in Nat /\ ~(n <= n - 1)
  BY <1>2
<1>4. n - 1 \in T
  BY <1>2, <1>3
<1> QED
  BY <1>2, <1>3, <1>4
=============================================================================
