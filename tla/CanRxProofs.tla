----------------------------- MODULE CanRxProofs -----------------------------
(***************************************************************************)
(* Proofs about the CAN receive path, for a ring, a clock and delays of    *)
(* any size the assumption allows: its inductive invariant, the honesty of *)
(* the time stamps, and that the ring implements the bounded queue of      *)
(* module ByteQueue.                                                       *)
(***************************************************************************)
EXTENDS CanRx, RingProofs

Quiet == {"flags", "recover", "poll"}

\* How many more frames this poll may pop.
left == RX_BUDGET - count - (IF pc = "handle" THEN 1 ELSE 0)

\* The frame being popped is there, and its copy is true.
PopIsOldest ==
  /\ pc \in {"read", "advance"} => can_tail # can_head
  /\ pc = "advance" => slot = can_rx[can_tail]

\* The extended clock is what the time was when it was last read.
ClockIsExact ==
  /\ now_us = polled
  /\ polled <= clock_extended_us /\ clock_extended_us <= time
  /\ time - polled <= LOOP_MAX
  /\ clock_last_us = clock_extended_us % CLOCK

\* No frame is older than the poll before this one, and one that this poll will
\* not reach came after the poll began.
FramesAreRecent ==
  /\ left >= 0
  /\ pc \in {"read", "advance"} => left > 0
  /\ pc \in Quiet => count = 0
  /\ \A k \in 1 .. Len(Waiting) :
       /\ Waiting[k].at <= time /\ Waiting[k].at >= polled - LOOP_MAX
       /\ pc \in Quiet \/ k > left => Waiting[k].at >= polled
  /\ pc = "handle" => received.at <= time /\ received.at >= polled - LOOP_MAX

IInv == TypeOK /\ PopIsOldest /\ ClockIsExact /\ FramesAreRecent

-----------------------------------------------------------------------------
(* The clock. *)

\* Reading the clock makes the extended clock equal to the time: no wrap is missed.
LEMMA MonotonicIsExact ==
  ASSUME IInv, monotonic_us
  PROVE  clock_extended_us' = time /\ clock_last_us' = time % CLOCK
<1> USE CanRxAssumption
<1>1. /\ time \in Int /\ clock_extended_us \in Int /\ CLOCK \in Nat /\ CLOCK > 0
      /\ 0 <= time - clock_extended_us /\ time - clock_extended_us < CLOCK
      /\ clock_last_us = clock_extended_us % CLOCK
  BY DEF IInv, TypeOK, ClockIsExact
<1>2. ((time % CLOCK) - (clock_extended_us % CLOCK)) % CLOCK = time - clock_extended_us
  BY ONLY <1>1, ClockDifference
<1>3. clock_extended_us' = clock_extended_us + (time - clock_extended_us)
  BY <1>1, <1>2 DEF monotonic_us, platform_micros
<1> QED
  BY <1>1, <1>3 DEF monotonic_us, platform_micros

-----------------------------------------------------------------------------
(* The queue. *)

\* What waits is a sequence of slots and leaves one slot of the ring free.
LEMMA WaitingType ==
  ASSUME TypeOK
  PROVE  /\ Waiting \in Seq(can_slot_t)
         /\ Len(Waiting) = ring_used(CAN_RING_SIZE, can_head, can_tail)
         /\ Len(Waiting) \in 0 .. CAN_RING_SIZE - 1
<1> USE CanRxAssumption DEF TypeOK
<1> DEFINE n == CAN_RING_SIZE
<1>1. /\ n \in Nat /\ n > 1 /\ can_rx \in [Indices(n) -> can_slot_t]
      /\ can_head \in Indices(n) /\ can_tail \in Indices(n)
  OBVIOUS
<1>2. /\ Waiting \in Seq(can_slot_t)
      /\ Len(Waiting) = ring_used(n, can_head, can_tail)
  BY ONLY <1>1, ContentsType DEF Waiting
<1>3. ring_used(n, can_head, can_tail) \in 0 .. n - 1
  BY ONLY <1>1, UsedProperties, Zenon
<1> QED
  BY <1>2, <1>3

\* Moving the tail takes the oldest frame off.
LEMMA TailTakesHead ==
  ASSUME TypeOK, can_tail # can_head, can_tail' = Succ(CAN_RING_SIZE, can_tail),
         UNCHANGED <<can_rx, can_head>>
  PROVE  /\ Waiting # << >> /\ Head(Waiting) = can_rx[can_tail]
         /\ Waiting' = Tail(Waiting)
<1> USE CanRxAssumption DEF TypeOK
<1> DEFINE n == CAN_RING_SIZE
<1>1. /\ n \in Nat /\ n > 1 /\ can_rx \in [Indices(n) -> can_slot_t]
      /\ can_head \in Indices(n) /\ can_tail \in Indices(n) /\ can_head # can_tail
  OBVIOUS
<1>2. /\ Waiting # << >> /\ Head(Waiting) = can_rx[can_tail]
      /\ Contents(n, can_rx, can_head, Succ(n, can_tail)) = Tail(Waiting)
  BY ONLY <1>1, ContentsTail, Zenon DEF Waiting
<1> QED
  BY <1>2 DEF Waiting

\* The slot the handler stores a frame in, with the time.
Stamped(frame) == [frame |-> frame, at |-> time]

\* A data frame is appended to the queue, or finds it full and leaves it alone.
LEMMA StoredAppends ==
  ASSUME TypeOK, NEW frame \in Frames, Stored(frame), UNCHANGED can_tail
  PROVE  \/ /\ Waiting' = Waiting \o <<Stamped(frame)>>
            /\ Len(Waiting) + 1 <= CAN_RING_SIZE - 1
            /\ can_head' # can_tail
            /\ can_head # can_tail => can_rx'[can_tail] = can_rx[can_tail]
            /\ UNCHANGED <<can_overflow, lost>>
         \/ /\ Len(Waiting) = CAN_RING_SIZE - 1 /\ can_overflow' = TRUE /\ lost' = TRUE
            /\ UNCHANGED <<can_rx, can_head, Waiting>>
<1> USE CanRxAssumption DEF TypeOK
<1> DEFINE n == CAN_RING_SIZE
           h == Succ(n, can_head)
           used == ring_used(n, can_head, can_tail)
           item == Stamped(frame)
<1>1. /\ n \in Nat /\ n > 1 /\ can_rx \in [Indices(n) -> can_slot_t]
      /\ can_head \in Indices(n) /\ can_tail \in Indices(n)
  OBVIOUS
<1>2. h \in Indices(n) /\ h = IF can_head + 1 = n THEN 0 ELSE can_head + 1
  BY <1>1, SuccWraps
<1>3. Len(Waiting) = used /\ used \in 0 .. n - 1
  BY WaitingType
<1>4. item \in can_slot_t
  BY DEF Stamped, can_slot_t
<1>5. CASE h = can_tail
  <2>1. UNCHANGED <<can_rx, can_head>> /\ can_overflow' = TRUE /\ lost' = TRUE
    BY <1>5 DEF Stored
  <2>2. used = n - 1
    BY <1>1, <1>2, <1>5 DEF ring_used, Indices
  <2> QED
    BY <1>3, <2>1, <2>2 DEF Waiting
<1>6. CASE h # can_tail
  <2>1. /\ can_rx' = [can_rx EXCEPT ![can_head] = item]
        /\ can_head' = h /\ UNCHANGED <<can_overflow, lost>>
    BY <1>6 DEF Stored, Stamped
  <2>2. used + 1 < n
    BY <1>1, <1>2, <1>6 DEF ring_used, Indices
  <2>3. Slot(n, can_head, 0) = can_head /\ Slot(n, can_head, 1) = h
    BY <1>1, <1>2 DEF Slot, Indices
  <2>4. Contents(n, can_rx', can_head, can_tail) = Waiting
    <3>1. used + 0 < n
      BY <1>3, <2>2
    <3>2. \A x \in Indices(n) : x # Slot(n, can_head, 0) => can_rx'[x] = can_rx[x]
      BY <1>1, <2>1, <2>3
    <3> QED
      BY ONLY <1>1, <3>1, <3>2, ContentsOfFreeWrite DEF Waiting
  <2>5. Contents(n, can_rx', h, can_tail) =
          Contents(n, can_rx', can_head, can_tail) \o <<item>>
    <3>1. can_rx' \in [Indices(n) -> can_slot_t] /\ can_rx'[can_head] = item
      BY <1>1, <1>4, <2>1
    <3>2. ASSUME NEW r \in [Indices(n) -> can_slot_t], NEW f \in Seq(can_slot_t),
                 ring_used(n, can_head, can_tail) + Len(f) < n,
                 \A k \in 1 .. Len(f) : r[Slot(n, can_head, k - 1)] = f[k]
          PROVE  Contents(n, r, Slot(n, can_head, Len(f)), can_tail) =
                   Contents(n, r, can_head, can_tail) \o f
      BY ONLY <1>1, <3>2, ContentsAppend
    <3> DEFINE f == <<item>>
    <3>3. f \in Seq(can_slot_t) /\ Len(f) = 1 /\ f[1] = item
      BY <1>4
    <3>4. \A k \in 1 .. Len(f) : can_rx'[Slot(n, can_head, k - 1)] = f[k]
      <4>1. ASSUME NEW k \in 1 .. Len(f) PROVE k = 1
        BY <3>3, <4>1
      <4> QED
        BY <2>3, <3>1, <3>3, <4>1
    <3>5. used + Len(f) < n
      BY <2>2, <3>3
    <3>6. Contents(n, can_rx', Slot(n, can_head, Len(f)), can_tail) =
            Contents(n, can_rx', can_head, can_tail) \o f
      <4> HIDE DEF f
      <4> QED
        BY ONLY <3>1, <3>2, <3>3, <3>4, <3>5
    <3> QED
      BY <2>3, <3>3, <3>6
  <2>6. Waiting' = Waiting \o <<item>>
    BY <2>1, <2>4, <2>5 DEF Waiting
  <2>7. can_head # can_tail => can_rx'[can_tail] = can_rx[can_tail]
    BY <1>1, <2>1
  <2> QED
    BY <1>3, <1>6, <2>1, <2>2, <2>6, <2>7
<1> QED
  BY <1>5, <1>6

-----------------------------------------------------------------------------
(* The invariant. *)

\* Every frame that waits has a stamp, which is a number.
LEMMA StampType ==
  ASSUME TypeOK
  PROVE  /\ \A k \in 1 .. Len(Waiting) : Waiting[k] \in can_slot_t /\ Waiting[k].at \in 0 .. TIME_MAX
         /\ received.at \in 0 .. TIME_MAX
<1>1. Waiting \in Seq(can_slot_t)
  BY WaitingType
<1>2. \A k \in 1 .. Len(Waiting) : Waiting[k] \in can_slot_t
  BY <1>1, ElementOfSeq
<1>3. \A s \in can_slot_t : s.at \in 0 .. TIME_MAX
  BY DEF can_slot_t
<1> QED
  BY <1>2, <1>3 DEF TypeOK

\* The ring starts empty, the clocks at 0 and the loop at its top.
LEMMA InitInvariant == Init => IInv
<1> SUFFICES ASSUME Init PROVE IInv
  OBVIOUS
<1> USE CanRxAssumption
<1>1. [frame |-> "other", at |-> 0] \in can_slot_t
  BY DEF can_slot_t, Frames
<1>2. TypeOK
  <2>1. 0 \in Indices(CAN_RING_SIZE) /\ 0 \in 0 .. RX_BUDGET /\ 0 \in 0 .. TIME_MAX
    BY DEF Indices
  <2>2. can_rx \in [Indices(CAN_RING_SIZE) -> can_slot_t]
    BY <1>1 DEF Init
  <2>3. 0 \in 0 .. CLOCK - 1
    OBVIOUS
  <2> QED
    BY <1>1, <2>1, <2>2, <2>3 DEF Init, TypeOK
<1>3. Len(Waiting) = 0
  BY <1>2, WaitingType DEF Init, ring_used
<1>4. 0 = 0 % CLOCK
  OBVIOUS
<1> QED
  BY <1>2, <1>3, <1>4 DEF Init, IInv, PopIsOldest, ClockIsExact, FramesAreRecent, Quiet, left

\* The steps of the loop that touch neither the ring nor the clock.
LEMMA LoopInvariant ==
  ASSUME IInv, TakeFlags \/ PopTest \/ PopRead
  PROVE  IInv'
<1> USE CanRxAssumption DEF IInv
<1>1. UNCHANGED Waiting
  BY DEF TakeFlags, PopTest, PopRead, ring, Waiting
<1>2. Len(Waiting) \in Nat /\ Len(Waiting) = ring_used(CAN_RING_SIZE, can_head, can_tail)
  BY WaitingType
<1>3. \A k \in 1 .. Len(Waiting) : Waiting[k].at \in Int
  BY StampType
<1>4. TypeOK'
  <2>1. CASE TakeFlags
    BY <2>1 DEF TypeOK, TakeFlags, ring, clock, poll
  <2>2. CASE PopTest
    <3>1. count' \in 0 .. RX_BUDGET
      BY <2>2 DEF TypeOK, PopTest
    <3> QED
      BY <2>2, <3>1 DEF TypeOK, PopTest, ring, clock, flags
  <2>3. CASE PopRead
    <3>1. slot' \in can_slot_t
      BY <2>3 DEF TypeOK, PopRead
    <3> QED
      BY <2>3, <3>1 DEF TypeOK, PopRead, ring, clock, flags
  <2> QED
    BY <2>1, <2>2, <2>3
<1>5. PopIsOldest'
  BY DEF PopIsOldest, TakeFlags, PopTest, PopRead, ring
<1>6. ClockIsExact'
  BY DEF ClockIsExact, TakeFlags, PopTest, PopRead, clock, poll
<1>7. FramesAreRecent'
  <2>1. CASE TakeFlags \/ PopRead
    BY <1>1, <2>1 DEF FramesAreRecent, TakeFlags, PopRead, ring, poll, Quiet, left
  <2>2. CASE PopTest
    <3>1. CASE count < RX_BUDGET /\ can_tail # can_head
      BY <1>1, <2>2, <3>1 DEF FramesAreRecent, PopTest, ring, Quiet, left, TypeOK
    <3>2. CASE ~(count < RX_BUDGET)
      BY <1>1, <2>2, <3>2 DEF FramesAreRecent, PopTest, ring, Quiet, left, TypeOK
    <3>3. CASE can_tail = can_head
      <4>1. Len(Waiting) = 0
        BY <1>2, <3>3 DEF ring_used, TypeOK, Indices
      <4> QED
        BY <1>1, <2>2, <3>3, <4>1 DEF FramesAreRecent, PopTest, ring, Quiet, left, TypeOK
    <3> QED
      BY <3>1, <3>2, <3>3
  <2> QED
    BY <2>1, <2>2
<1> QED
  BY <1>4, <1>5, <1>6, <1>7

\* Reinitialising empties the ring.
LEMMA RecoverInvariant ==
  ASSUME IInv, Recover
  PROVE  IInv' /\ (Discard \/ UNCHANGED Waiting)
<1> USE CanRxAssumption DEF IInv
<1>1. /\ pc = "recover" /\ pc' = "poll"
      /\ UNCHANGED <<time, clock, poll, lost>>
  BY DEF Recover
<1>2. CASE UNCHANGED <<ring, flags>>
  <2>1. UNCHANGED Waiting
    BY <1>2 DEF ring, Waiting
  <2> QED
    BY <1>1, <1>2, <2>1 DEF TypeOK, PopIsOldest, ClockIsExact, FramesAreRecent, ring, flags, clock, poll, Quiet, left
<1>3. CASE platform_can_reinit
  <2>1. TypeOK'
    <3>1. 0 \in Indices(CAN_RING_SIZE)
      BY DEF Indices
    <3> QED
      BY <1>1, <1>3, <3>1 DEF platform_can_reinit, TypeOK, clock, poll
  <2>2. Waiting' = << >>
    <3>1. ring_used(CAN_RING_SIZE, 0, 0) = 0
      BY DEF ring_used
    <3> QED
      BY <1>3, <3>1 DEF platform_can_reinit, Waiting, Contents
  <2>3. Len(Waiting') = 0
    BY <2>2
  <2>4. Discard
    BY <1>1, <2>2 DEF Discard, poll
  <2> QED
    BY <1>1, <1>3, <2>1, <2>3, <2>4
    DEF TypeOK, PopIsOldest, ClockIsExact, FramesAreRecent, clock, poll, Quiet, left
<1> QED
  BY <1>1, <1>2, <1>3 DEF Recover

\* A poll begins: all that waits came since the last one, and it can take it all.
LEMMA PollInvariant == ASSUME IInv, PollBegins PROVE IInv'
<1> USE CanRxAssumption DEF IInv
<1>1. /\ pc = "poll" /\ pc' = "pop" /\ now_us' = clock_extended_us' /\ polled' = time
      /\ UNCHANGED <<time, can_rx, can_head, can_tail, can_overflow, can_activity,
                     rxOverflow, count, slot, received, lost>>
  BY DEF PollBegins, ring, flags
<1>2. clock_extended_us' = time /\ clock_last_us' = time % CLOCK
  BY MonotonicIsExact DEF PollBegins
<1>3. time \in 0 .. TIME_MAX /\ time % CLOCK \in 0 .. CLOCK - 1
  <2>1. time \in 0 .. TIME_MAX
    BY DEF TypeOK
  <2> QED
    BY <2>1, Remainder
<1>4. TypeOK'
  BY <1>1, <1>2, <1>3 DEF TypeOK
<1>5. PopIsOldest' /\ ClockIsExact'
  BY <1>1, <1>2, <1>3 DEF PopIsOldest, ClockIsExact
<1>6. FramesAreRecent'
  <2>1. UNCHANGED Waiting /\ Len(Waiting) \in 0 .. CAN_RING_SIZE - 1
    BY <1>1, WaitingType DEF Waiting
  <2>2. count = 0 /\ left' = RX_BUDGET
    BY <1>1 DEF FramesAreRecent, Quiet, left
  <2>3. ASSUME NEW k \in 1 .. Len(Waiting)
        PROVE  /\ Waiting[k].at <= time /\ Waiting[k].at >= time - LOOP_MAX
               /\ ~(k > left')
    <3>1. Waiting[k].at \in Int
      BY StampType
    <3>2. Waiting[k].at <= time /\ Waiting[k].at >= polled
      BY <1>1 DEF FramesAreRecent, Quiet
    <3>3. polled \in Int /\ time - polled <= LOOP_MAX
      BY DEF TypeOK, ClockIsExact
    <3> QED
      BY <1>3, <2>1, <2>2, <3>1, <3>2, <3>3
  <2> QED
    BY <1>1, <2>1, <2>2, <2>3 DEF FramesAreRecent, Quiet
<1> QED
  BY <1>4, <1>5, <1>6

\* A pop shifts the queue by one, and one fewer frame is left to this poll.
LEMMA AdvanceInvariant ==
  ASSUME IInv, PopAdvance
  PROVE  IInv' /\ RxQueue!Take
<1> USE CanRxAssumption DEF IInv
<1>1. /\ pc = "advance" /\ pc' = "handle" /\ received' = slot
      /\ slot' = [frame |-> "other", at |-> 0]
      /\ can_tail' = Succ(CAN_RING_SIZE, can_tail)
      /\ UNCHANGED <<time, can_rx, can_head, can_overflow, can_activity, rxOverflow,
                     clock_last_us, clock_extended_us, now_us, count, polled, lost>>
  BY DEF PopAdvance, flags, clock
<1>2. can_tail # can_head /\ slot = can_rx[can_tail]
  BY <1>1 DEF PopIsOldest
<1>3. Waiting # << >> /\ Head(Waiting) = slot /\ Waiting' = Tail(Waiting)
  BY <1>1, <1>2, TailTakesHead
<1>4. TypeOK'
  <2>1. Succ(CAN_RING_SIZE, can_tail) \in Indices(CAN_RING_SIZE)
    BY SuccWraps DEF TypeOK
  <2>2. [frame |-> "other", at |-> 0] \in can_slot_t
    BY DEF can_slot_t, Frames
  <2> QED
    BY <1>1, <2>1, <2>2 DEF TypeOK
<1>5. PopIsOldest' /\ ClockIsExact'
  BY <1>1 DEF PopIsOldest, ClockIsExact
<1>6. FramesAreRecent'
  <2>1. /\ Waiting \in Seq(can_slot_t) /\ Len(Waiting) \in Nat /\ Len(Waiting) > 0
    BY <1>3, WaitingType, EmptySeq
  <2>2. /\ Len(Waiting') = Len(Waiting) - 1
        /\ \A k \in 1 .. Len(Waiting') : Waiting'[k] = Waiting[k + 1]
    BY <1>3, <2>1, HeadTailProperties
  <2>3. received' = Waiting[1]
    BY <1>1, <1>3, <2>1, HeadTailProperties
  <2>4. left' = left - 1 /\ left > 0 /\ left \in Int
    BY <1>1 DEF FramesAreRecent, left, TypeOK
  <2>5. ASSUME NEW k \in 1 .. Len(Waiting')
        PROVE  /\ Waiting'[k].at <= time /\ Waiting'[k].at >= polled - LOOP_MAX
               /\ k > left' => Waiting'[k].at >= polled
    <3>1. k + 1 \in 1 .. Len(Waiting) /\ (k > left' => k + 1 > left)
      BY <2>1, <2>2, <2>4
    <3>2. Waiting'[k] = Waiting[k + 1]
      BY <2>2
    <3>3. /\ Waiting[k + 1].at <= time /\ Waiting[k + 1].at >= polled - LOOP_MAX
          /\ k + 1 > left => Waiting[k + 1].at >= polled
      BY <3>1 DEF FramesAreRecent
    <3> QED
      BY <3>1, <3>2, <3>3
  <2>6. received'.at <= time /\ received'.at >= polled - LOOP_MAX
    <3>1. 1 \in 1 .. Len(Waiting)
      BY <2>1
    <3> QED
      BY <2>3, <3>1 DEF FramesAreRecent
  <2>7. left' >= 0
    BY <2>4
  <2> QED
    BY <1>1, <2>5, <2>6, <2>7 DEF FramesAreRecent, Quiet
<1>7. RxQueue!Take
  BY <1>1, <1>3 DEF RxQueue!Take
<1> QED
  BY <1>4, <1>5, <1>6, <1>7

\* Handling a frame reads the clock or leaves it alone.
LEMMA HandleInvariant == ASSUME IInv, HandleFrame PROVE IInv'
<1> USE CanRxAssumption DEF IInv
<1>1. /\ pc = "handle" /\ pc' = "pop" /\ count' = count + 1
      /\ UNCHANGED <<time, can_rx, can_head, can_tail, can_overflow, can_activity,
                     rxOverflow, now_us, slot, received, polled, lost>>
  BY DEF HandleFrame, ring, flags
<1>2. count \in 0 .. RX_BUDGET /\ left' = left /\ left >= 0 /\ count + 1 \in 0 .. RX_BUDGET
  BY <1>1 DEF FramesAreRecent, left, TypeOK
<1>3. /\ polled \in Int /\ time \in Int /\ time \in Nat
      /\ clock_last_us' \in 0 .. CLOCK - 1 /\ clock_extended_us' \in Nat
      /\ polled <= clock_extended_us' /\ clock_extended_us' <= time
      /\ clock_last_us' = clock_extended_us' % CLOCK
  <2>0. polled \in Int /\ time \in Nat /\ polled <= time
    BY DEF TypeOK, ClockIsExact
  <2>1. CASE received.frame = "request"
    <3>1. clock_extended_us' = time /\ clock_last_us' = time % CLOCK
      BY <2>1, MonotonicIsExact DEF HandleFrame
    <3>2. time % CLOCK \in 0 .. CLOCK - 1
      BY <2>0, Remainder
    <3> QED
      BY <2>0, <3>1, <3>2
  <2>2. CASE received.frame # "request"
    BY <2>0, <2>2 DEF HandleFrame, clock, TypeOK, ClockIsExact
  <2> QED
    BY <2>1, <2>2
<1>4. TypeOK'
  BY <1>1, <1>2, <1>3 DEF TypeOK
<1>5. PopIsOldest' /\ ClockIsExact'
  BY <1>1, <1>3 DEF PopIsOldest, ClockIsExact
<1>6. FramesAreRecent'
  <2>1. UNCHANGED Waiting
    BY <1>1 DEF Waiting
  <2>2. ASSUME NEW k \in 1 .. Len(Waiting)
        PROVE  /\ Waiting[k].at <= time /\ Waiting[k].at >= polled - LOOP_MAX
               /\ k > left => Waiting[k].at >= polled
    BY DEF FramesAreRecent
  <2> QED
    BY <1>1, <1>2, <2>1, <2>2 DEF FramesAreRecent, Quiet
<1> QED
  BY <1>4, <1>5, <1>6

\* The handler appends a frame that is as old as the step, or leaves the ring alone.
LEMMA HandlerInvariant ==
  ASSUME IInv, CAN1_RX0_IRQHandler
  PROVE  IInv' /\ [RxQueue!Next]_RxQueue!vars
<1> USE CanRxAssumption DEF IInv
<1>1. /\ can_activity' = TRUE
      /\ UNCHANGED <<pc, time, can_tail, rxOverflow, clock_last_us, clock_extended_us,
                     now_us, count, slot, received, polled>>
  BY DEF CAN1_RX0_IRQHandler, clock, poll
<1>2. left' = left
  BY <1>1 DEF left
<1>3. CASE Foreign
  <2>1. can_overflow' = TRUE /\ UNCHANGED <<can_rx, can_head, lost, Waiting>>
    BY <1>1, <1>3 DEF Foreign, Waiting
  <2> QED
    BY <1>1, <1>2, <2>1
    DEF TypeOK, PopIsOldest, ClockIsExact, FramesAreRecent, Quiet, RxQueue!vars, Waiting
<1>4. ASSUME NEW frame \in Frames, Stored(frame)
      PROVE  IInv' /\ [RxQueue!Next]_RxQueue!vars
  <2> DEFINE item == Stamped(frame)
  <2>1. /\ Waiting \in Seq(can_slot_t) /\ Len(Waiting) \in Nat
    BY WaitingType
  <2>2. item \in can_slot_t /\ item.at = time /\ <<item>> \in {<<x>> : x \in can_slot_t}
    BY DEF Stamped, can_slot_t, TypeOK
  <2>3. Len(<<item>>) = 1
    OBVIOUS
  <2>4. CASE Waiting' = Waiting \o <<item>>
    <3>1. /\ Len(Waiting) + 1 <= CAN_RING_SIZE - 1 /\ can_head' # can_tail
          /\ can_head # can_tail => can_rx'[can_tail] = can_rx[can_tail]
          /\ UNCHANGED <<can_overflow, lost>>
      <4>1. Waiting' # Waiting
        BY <2>1, <2>4, ConcatProperties
      <4> QED
        BY <1>1, <1>4, <4>1, StoredAppends
    <3>2. /\ Len(Waiting') = Len(Waiting) + 1
          /\ \A k \in 1 .. Len(Waiting) : Waiting'[k] = Waiting[k]
          /\ Waiting'[Len(Waiting) + 1] = item
      <4>1. Waiting' = Append(Waiting, item)
        BY <2>1, <2>2, <2>4
      <4> QED
        BY <2>1, <2>2, <4>1, AppendProperties
    <3>3. TypeOK'
      <4>1. can_head' \in Indices(CAN_RING_SIZE)
        BY <1>4, SuccWraps DEF Stored, TypeOK
      <4>2. can_rx' \in [Indices(CAN_RING_SIZE) -> can_slot_t]
        BY <1>4, <2>2 DEF Stored, TypeOK, Stamped
      <4> QED
        BY <1>1, <3>1, <4>1, <4>2 DEF TypeOK
    <3>4. PopIsOldest' /\ ClockIsExact'
      BY <1>1, <3>1 DEF PopIsOldest, ClockIsExact
    <3>5. FramesAreRecent'
      <4>1. ASSUME NEW k \in 1 .. Len(Waiting')
            PROVE  /\ Waiting'[k].at <= time /\ Waiting'[k].at >= polled - LOOP_MAX
                   /\ pc \in Quiet \/ k > left => Waiting'[k].at >= polled
        <5>1. CASE k \in 1 .. Len(Waiting)
          BY <3>2, <5>1 DEF FramesAreRecent
        <5>2. CASE k = Len(Waiting) + 1
          <6>1. Waiting'[k].at = time
            BY <2>2, <3>2, <5>2
          <6>2. time \in Nat /\ polled \in Nat /\ polled <= time
            BY DEF TypeOK, ClockIsExact
          <6> QED
            BY <6>1, <6>2
        <5> QED
          BY <2>1, <3>2, <5>1, <5>2
      <4> QED
        BY <1>1, <1>2, <4>1 DEF FramesAreRecent
    <3>6. RxQueue!Put(<<item>>)
      BY <1>1, <2>3, <2>4, <3>1 DEF RxQueue!Put
    <3> QED
      BY <2>2, <3>3, <3>4, <3>5, <3>6 DEF RxQueue!Next
  <2>5. CASE Waiting' # Waiting \o <<item>>
    <3>1. /\ Len(Waiting) = CAN_RING_SIZE - 1 /\ can_overflow' = TRUE /\ lost' = TRUE
          /\ UNCHANGED <<can_rx, can_head, Waiting>>
      BY <1>1, <1>4, <2>5, StoredAppends
    <3>2. RxQueue!Refuse(<<item>>)
      BY <1>1, <2>3, <3>1 DEF RxQueue!Refuse
    <3>3. IInv'
      BY <1>1, <1>2, <3>1 DEF TypeOK, PopIsOldest, ClockIsExact, FramesAreRecent
    <3> QED
      BY <2>2, <3>2, <3>3 DEF RxQueue!Next
  <2> QED
    BY <2>4, <2>5
<1> QED
  BY <1>3, <1>4 DEF CAN1_RX0_IRQHandler

\* Time passes; a poll is never further back than LOOP_MAX.
LEMMA TickInvariant == ASSUME IInv, Tick PROVE IInv'
<1> USE CanRxAssumption DEF IInv
<1>1. /\ time < TIME_MAX /\ time - polled < LOOP_MAX /\ time' = time + 1
      /\ UNCHANGED <<pc, can_rx, can_head, can_tail, can_overflow, can_activity,
                     rxOverflow, clock_last_us, clock_extended_us, now_us, count,
                     slot, received, polled, lost>>
  BY DEF Tick, ring, flags, clock, poll
<1>2. time' \in 0 .. TIME_MAX
  BY <1>1 DEF TypeOK
<1>3. TypeOK'
  BY <1>1, <1>2 DEF TypeOK
<1>4. PopIsOldest' /\ ClockIsExact'
  BY <1>1 DEF PopIsOldest, ClockIsExact, TypeOK
<1>5. FramesAreRecent'
  <2>1. UNCHANGED Waiting /\ left' = left
    BY <1>1 DEF Waiting, left
  <2>2. time \in Int /\ received.at \in Int
    BY StampType DEF TypeOK
  <2>3. ASSUME NEW k \in 1 .. Len(Waiting) PROVE Waiting[k].at <= time + 1
    <3>1. Waiting[k].at \in Int
      BY StampType
    <3>2. Waiting[k].at <= time
      BY DEF FramesAreRecent
    <3> QED
      BY <2>2, <3>1, <3>2
  <2>4. pc = "handle" => received.at <= time + 1
    BY <2>2 DEF FramesAreRecent
  <2> QED
    BY <1>1, <2>1, <2>3, <2>4 DEF FramesAreRecent
<1> QED
  BY <1>3, <1>4, <1>5

\* Every step preserves the invariant.
LEMMA NextInvariant == IInv /\ [Next]_vars => IInv'
<1> SUFFICES ASSUME IInv, [Next]_vars PROVE IInv'
  OBVIOUS
<1>1. CASE UNCHANGED vars
  <2>1. UNCHANGED <<Waiting, left>>
    BY <1>1 DEF vars, ring, poll, Waiting, left
  <2> QED
    BY <1>1, <2>1 DEF vars, ring, flags, clock, poll, IInv, TypeOK, PopIsOldest, ClockIsExact,
      FramesAreRecent
<1> QED
  BY <1>1, LoopInvariant, RecoverInvariant, PollInvariant, AdvanceInvariant,
    HandleInvariant, HandlerInvariant, TickInvariant DEF Next, Main

-----------------------------------------------------------------------------
(* What the ring and the stamps promise. *)

\* Every step is a step of the queue, leaves it alone, or discards all of it.
LEMMA RxStep == IInv /\ [Next]_vars => [RxQueue!Next \/ Discard]_RxQueue!vars
<1> SUFFICES ASSUME IInv, [Next]_vars PROVE [RxQueue!Next \/ Discard]_RxQueue!vars
  OBVIOUS
<1>1. CASE TakeFlags \/ PollBegins \/ PopTest \/ PopRead \/ HandleFrame \/ Tick
  <2>1. UNCHANGED <<ring, received, lost>>
    BY <1>1 DEF TakeFlags, PollBegins, PopTest, PopRead, HandleFrame, Tick, poll
  <2> QED
    BY <2>1 DEF ring, Waiting, RxQueue!vars
<1>2. CASE Recover
  <2>1. UNCHANGED <<received, lost>>
    BY <1>2 DEF Recover, poll
  <2> QED
    BY <1>2, <2>1, RecoverInvariant DEF RxQueue!vars
<1>3. CASE PopAdvance
  BY <1>3, AdvanceInvariant DEF RxQueue!Next
<1>4. CASE CAN1_RX0_IRQHandler
  BY <1>4, HandlerInvariant
<1>5. CASE UNCHANGED vars
  BY <1>5 DEF vars, ring, poll, Waiting, RxQueue!vars
<1> QED
  BY <1>1, <1>2, <1>3, <1>4, <1>5 DEF Next, Main

\* A frame's age, worked out modulo the clock, is its age or - when it came after
\* the clock was last read - more than a poll can be old.
LEMMA StampBounds ==
  ASSUME IInv, pc = "handle"
  PROVE  LET stamp == extend_rx_timestamp(received.at % CLOCK, now_us)
         IN  /\ stamp <= received.at
             /\ received.at <= clock_extended_us =>
                  received.at - stamp <= clock_extended_us - now_us
<1> USE CanRxAssumption
<1> DEFINE e == clock_extended_us
           p == now_us
           r == received.at
           age == (clock_last_us - (r % CLOCK)) % CLOCK
<1>1. e \in Nat /\ p \in Nat /\ r \in Nat /\ p <= e /\ r <= time /\ time - p <= LOOP_MAX
      /\ r >= p - LOOP_MAX /\ e <= time /\ time \in Nat
  BY StampType DEF IInv, TypeOK, ClockIsExact, FramesAreRecent
<1>2. age = ((e % CLOCK) - (r % CLOCK)) % CLOCK
  BY DEF IInv, ClockIsExact
<1>3. /\ 0 <= e - r /\ e - r < CLOCK => age = e - r
      /\ -CLOCK <= e - r /\ e - r < 0 => age = e - r + CLOCK
  <2>1. CLOCK \in Nat /\ CLOCK > 0 /\ e \in Int /\ r \in Int
    BY <1>1
  <2>2. \A a, b \in Int :
          /\ 0 <= a - b /\ a - b < CLOCK => ((a % CLOCK) - (b % CLOCK)) % CLOCK = a - b
          /\ -CLOCK <= a - b /\ a - b < 0 =>
               ((a % CLOCK) - (b % CLOCK)) % CLOCK = a - b + CLOCK
    BY ONLY <2>1, ClockDifference
  <2> HIDE DEF e, r
  <2> QED
    BY ONLY <1>2, <2>1, <2>2
<1>4. CASE r <= e
  <2>1. 0 <= e - r /\ e - r < CLOCK
    BY <1>1, <1>4
  <2>2. age = e - r
    BY <1>3, <2>1
  <2>3. extend_rx_timestamp(r % CLOCK, p) = IF e - r <= p THEN p - (e - r) ELSE 0
    BY <2>2 DEF extend_rx_timestamp
  <2> QED
    BY <1>1, <1>4, <2>3
<1>5. CASE r > e
  <2>1. -CLOCK <= e - r /\ e - r < 0
    BY <1>1, <1>5
  <2>2. age = e - r + CLOCK
    BY <1>3, <2>1
  <2>3. extend_rx_timestamp(r % CLOCK, p) =
          IF e - r + CLOCK <= p THEN p - (e - r + CLOCK) ELSE 0
    BY <2>2 DEF extend_rx_timestamp
  <2> QED
    BY <1>1, <1>5, <2>3
<1> QED
  BY <1>1, <1>4, <1>5

-----------------------------------------------------------------------------
(* The theorems. *)

\* The inductive invariant holds of every behaviour of the receive path
\* (platform.c:154-155,180, dronecan.c:22-23,66-67).
THEOREM Invariant == Spec => []IInv
<1>1. Init => IInv
  BY InitInvariant
<1>2. IInv /\ [Next]_vars => IInv'
  BY NextInvariant
<1> QED
  BY <1>1, <1>2, PTL DEF Spec

\* The ring's indices stay in the ring, and a poll within its budget
\* (platform.c:154,180, dronecan.c:67).
THEOREM TypeCorrect == Spec => []TypeOK
<1>1. IInv => TypeOK
  BY DEF IInv
<1> QED
  BY <1>1, Invariant, PTL

\* The extended clock misses no wrap of the 32-bit clock, no frame is given a stamp
\* later than it came, and the stamp of one that came before the clock was last read
\* is early by at most what the answers of this poll have taken; of one that came
\* after it, which is stamped a turn early, nothing more is said (dronecan.c:22-23,
\* 66-67).  This holds as long as one poll follows another within less than half a
\* turn of the clock.
THEOREM StampHonest == Spec => []StampIsHonest
<1>1. IInv => StampIsHonest
  BY StampBounds DEF IInv, ClockIsExact, StampIsHonest
<1> QED
  BY <1>1, Invariant, PTL

\* A frame lost to a full ring is in the health word or on its way there
\* (platform.c:128,155,180, main.c:64).
THEOREM OverflowReported == Spec => []OverflowIsReported
<1>1. Init => OverflowIsReported
  BY DEF Init, OverflowIsReported
<1>2. OverflowIsReported /\ [Next]_vars => OverflowIsReported'
  BY DEF OverflowIsReported, Next, Main, vars, TakeFlags, Recover, platform_can_reinit, PollBegins,
    PopTest, PopRead, PopAdvance, HandleFrame, CAN1_RX0_IRQHandler, Foreign, Stored, Tick, flags
<1> QED
  BY <1>1, <1>2, PTL DEF Spec

\* Frames come out in the order they came in, once each, and are lost only when the
\* ring is full or the controller is reinitialised (platform.c:154-155,180), for
\* rings of any size.
THEOREM RxRefinement == Spec => RxImplementsQueue
<1>1. Init => RxQueue!Init
  <2>1. Init => Waiting = << >>
    BY DEF Init, Waiting, Contents, ring_used
  <2> QED
    BY <2>1 DEF Init, RxQueue!Init
<1>2. IInv /\ [Next]_vars => [RxQueue!Next \/ Discard]_RxQueue!vars
  BY RxStep
<1> QED
  BY <1>1, <1>2, Invariant, PTL DEF Spec, RxImplementsQueue
=============================================================================
