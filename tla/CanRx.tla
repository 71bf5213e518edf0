-------------------------------- MODULE CanRx --------------------------------
(***************************************************************************)
(* The CAN receive path: the FIFO interrupt handler, the receive ring, the *)
(* two flags and the time stamps (platform.c:43-46,128,154-157,178-181),   *)
(* with the statements of the loop and of dronecan_poll that use them      *)
(* (main.c:63-67, dronecan.c:22-23,49,66-67).  The loop is cut at every    *)
(* access to memory the handler also touches; the handler, which nothing   *)
(* preempts, takes a frame from the hardware FIFO in one step.             *)
(*                                                                         *)
(* What a frame means is left to CanTx.  Here it matters that a request is *)
(* answered, and that answering reads the clock again.                     *)
(***************************************************************************)
EXTENDS Ring, Sequences

CONSTANTS
  CAN_RING_SIZE,   \* CAN_RX_QUEUE_SIZE
  RX_BUDGET,       \* DRONECAN_RX_BUDGET_FRAMES
  CLOCK,           \* values of the microsecond clock, for 2^32
  LOOP_MAX,        \* the longest time from one poll to the next
  TIME_MAX         \* bound: the time at which a behaviour stops the clock

ASSUME CanRxAssumption ==
  /\ CAN_RING_SIZE \in Nat \ {0, 1}
  /\ RX_BUDGET \in Nat /\ RX_BUDGET >= CAN_RING_SIZE - 1   \* a poll takes all it finds
  /\ LOOP_MAX \in Nat /\ CLOCK \in Nat /\ CLOCK > 2 * LOOP_MAX
  /\ TIME_MAX \in Nat

\* Data frames with an extended identifier; all others are foreign.
Frames == {"request", "other"}

\* A slot holds a frame and when it came.  The code keeps "at" as the clock
\* showed it, at % CLOCK.
can_slot_t == [frame : Frames, at : 0 .. TIME_MAX]

VARIABLES
  pc,                  \* the statement of the loop that runs next
  time,                \* true time since dronecan_init, in microseconds
  can_rx, can_head, can_tail,
  can_overflow, can_activity,
  rxOverflow,          \* HEALTH_CAN_RX_OVERFLOW
  clock_last_us, clock_extended_us,   \* dronecan.c:19-20
  now_us, count,       \* locals of dronecan_poll
  slot,                \* the copy platform_can_rx_pop is making
  received,            \* what it returned last
  polled,              \* history: when now_us was read
  lost                 \* history: a data frame found the ring full

ring  == <<can_rx, can_head, can_tail>>
flags == <<can_overflow, can_activity, rxOverflow>>
clock == <<clock_last_us, clock_extended_us>>
poll  == <<now_us, count, slot, received, polled>>
vars  == <<pc, time, ring, flags, clock, poll, lost>>

platform_micros == time % CLOCK

-----------------------------------------------------------------------------
(* The extended clock. *)

\* Mutant: the 32-bit difference is taken for a signed one.
monotonic_us_Signed ==
  LET step == (platform_micros - clock_last_us) % CLOCK
  IN  /\ clock_extended_us' = clock_extended_us + (IF step < CLOCK \div 2 THEN step ELSE 0)
      /\ clock_last_us' = platform_micros

monotonic_us ==
  /\ clock_extended_us' = clock_extended_us + ((platform_micros - clock_last_us) % CLOCK)
  /\ clock_last_us' = platform_micros

\* Mutant: a stamp above the clock's last value is taken for a new frame.
extend_rx_timestamp_NoWrap(raw, now) ==
  LET age == IF raw <= clock_last_us THEN clock_last_us - raw ELSE 0
  IN  IF age <= now THEN now - age ELSE 0

extend_rx_timestamp(raw, now) ==
  LET age == (clock_last_us - raw) % CLOCK
  IN  IF age <= now THEN now - age ELSE 0

-----------------------------------------------------------------------------
(* The main loop. *)

Init ==
  /\ pc = "flags" /\ time = 0
  /\ can_rx = [i \in Indices(CAN_RING_SIZE) |-> [frame |-> "other", at |-> 0]]
  /\ can_head = 0 /\ can_tail = 0
  /\ can_overflow = FALSE /\ can_activity = FALSE /\ rxOverflow = FALSE
  /\ clock_last_us = 0 /\ clock_extended_us = 0
  /\ now_us = 0 /\ count = 0 /\ polled = 0
  /\ slot = [frame |-> "other", at |-> 0] /\ received = slot
  /\ lost = FALSE

\* main.c:63-64.  take_flag masks interrupts between its read and its write, and
\* nothing ever clears the health bit.  A frame that comes between the two takes
\* differs from one before or after both only in what the activity LED shows.
TakeFlags ==
  /\ pc = "flags" /\ pc' = "recover"
  /\ can_activity' = FALSE
  /\ rxOverflow' = (rxOverflow \/ can_overflow) /\ can_overflow' = FALSE
  /\ UNCHANGED <<time, ring, clock, poll, lost>>

\* Mutant: the overflow flag is reset along with the other.
platform_can_reinit_ForgetsOverflow ==
  /\ can_head' = 0 /\ can_tail' = 0
  /\ can_activity' = FALSE /\ can_overflow' = FALSE
  /\ UNCHANGED <<can_rx, rxOverflow>>

\* platform.c:155; the receive interrupt is disabled in the meantime.
platform_can_reinit ==
  /\ can_head' = 0 /\ can_tail' = 0
  /\ can_activity' = FALSE
  /\ UNCHANGED <<can_rx, can_overflow, rxOverflow>>

\* main.c:66; whether bus-off has lasted long enough is left to CanTx.
Recover ==
  /\ pc = "recover" /\ pc' = "poll"
  /\ platform_can_reinit \/ UNCHANGED <<ring, flags>>
  /\ UNCHANGED <<time, clock, poll, lost>>

\* dronecan.c:66.
PollBegins ==
  /\ pc = "poll" /\ pc' = "pop"
  /\ monotonic_us
  /\ now_us' = clock_extended_us' /\ polled' = time
  /\ UNCHANGED <<time, ring, flags, count, slot, received, lost>>

\* dronecan.c:67 with the first test of platform_can_rx_pop; leaving the loop
\* leads through the rest of the iteration back to main.c:63.
PopTest ==
  /\ pc = "pop"
  /\ IF count < RX_BUDGET /\ can_tail # can_head
       THEN pc' = "read" /\ UNCHANGED count
       ELSE pc' = "flags" /\ count' = 0
  /\ UNCHANGED <<time, ring, flags, clock, now_us, slot, received, polled, lost>>

\* The copy of the slot is one step: a handler that wrote to it half-way would
\* still be seen, as the copy would not be the oldest frame when the tail moves.
PopRead ==
  /\ pc = "read" /\ pc' = "advance"
  /\ slot' = can_rx[can_tail]
  /\ UNCHANGED <<time, ring, flags, clock, now_us, count, received, polled, lost>>

PopAdvance ==
  /\ pc = "advance" /\ pc' = "handle"
  /\ can_tail' = Succ(CAN_RING_SIZE, can_tail)
  /\ received' = slot
  /\ slot' = [frame |-> "other", at |-> 0]   \* a dead local
  /\ UNCHANGED <<time, can_rx, can_head, flags, clock, now_us, count, polled, lost>>

\* dronecan.c:67,49: the frame is handed to libcanard with its stamp, and the
\* answer to a request is given a deadline on a clock read anew.
HandleFrame ==
  /\ pc = "handle" /\ pc' = "pop"
  /\ count' = count + 1
  /\ IF received.frame = "request" THEN monotonic_us ELSE UNCHANGED clock
  /\ UNCHANGED <<time, ring, flags, now_us, slot, received, polled, lost>>

Main == TakeFlags \/ Recover \/ PollBegins
        \/ PopTest \/ PopRead \/ PopAdvance \/ HandleFrame

-----------------------------------------------------------------------------
(* The interrupt handler and time. *)

\* Mutant: the slot before the tail is used as well.
Stored_NoFullTest(frame) ==
  /\ can_rx' = [can_rx EXCEPT ![can_head] = [frame |-> frame, at |-> time]]
  /\ can_head' = Succ(CAN_RING_SIZE, can_head)
  /\ UNCHANGED <<can_overflow, lost>>

\* platform.c:180 for a data frame: stored with the time, or dropped.
Stored(frame) ==
  IF Succ(CAN_RING_SIZE, can_head) # can_tail
    THEN /\ can_rx' = [can_rx EXCEPT ![can_head] = [frame |-> frame, at |-> time]]
         /\ can_head' = Succ(CAN_RING_SIZE, can_head)
         /\ UNCHANGED <<can_overflow, lost>>
    ELSE /\ can_overflow' = TRUE /\ lost' = TRUE
         /\ UNCHANGED <<can_rx, can_head>>

\* platform.c:180 for a foreign frame: standard, remote or over-long.
Foreign ==
  /\ can_overflow' = TRUE
  /\ UNCHANGED <<can_rx, can_head, lost>>

\* One frame; the handler's loop over the FIFO is this step again and again.
CAN1_RX0_IRQHandler ==
  /\ can_activity' = TRUE
  /\ Foreign \/ \E frame \in Frames : Stored(frame)
  /\ UNCHANGED <<pc, time, can_tail, rxOverflow, clock, poll>>

Tick ==
  /\ time < TIME_MAX /\ time - polled < LOOP_MAX
  /\ time' = time + 1
  /\ UNCHANGED <<pc, ring, flags, clock, poll, lost>>

Next == Main \/ CAN1_RX0_IRQHandler \/ Tick

Spec == Init /\ [][Next]_vars

-----------------------------------------------------------------------------
TypeOK ==
  /\ pc \in {"flags", "recover", "poll", "pop", "read", "advance", "handle"}
  /\ time \in 0 .. TIME_MAX
  /\ can_rx \in [Indices(CAN_RING_SIZE) -> can_slot_t]
  /\ can_head \in Indices(CAN_RING_SIZE) /\ can_tail \in Indices(CAN_RING_SIZE)
  /\ can_overflow \in BOOLEAN /\ can_activity \in BOOLEAN /\ rxOverflow \in BOOLEAN
  /\ clock_last_us \in 0 .. CLOCK - 1 /\ clock_extended_us \in Nat
  /\ now_us \in Nat /\ polled \in 0 .. TIME_MAX /\ count \in 0 .. RX_BUDGET
  /\ slot \in can_slot_t /\ received \in can_slot_t
  /\ lost \in BOOLEAN

\* What the ring holds, oldest frame first.
Waiting == Contents(CAN_RING_SIZE, can_rx, can_head, can_tail)

RxQueue == INSTANCE ByteQueue WITH
  Capacity <- CAN_RING_SIZE - 1,
  Frames   <- {<<s>> : s \in can_slot_t},
  queue    <- Waiting,
  taken    <- received,
  refused  <- lost

\* What reinitialising does to the queue: all of it goes, between two pops.
Discard ==
  /\ pc = "recover" /\ pc' = "poll"
  /\ Waiting' = <<>>
  /\ UNCHANGED <<received, lost>>

\* platform.c:154,155,180: frames come out in the order they came in, each at most
\* once and with its own time stamp; one is lost only when the ring is full or,
\* with everything else in it, when the controller is reinitialised.
RxImplementsQueue == RxQueue!Init /\ [][RxQueue!Next \/ Discard]_RxQueue!vars

\* dronecan.c:22-23: the extended clock misses no wrap; the stamp libcanard gets
\* is never later than the frame (so never in the future), and for a frame that
\* came before the clock was last read it is early by no more than the answers
\* given in this poll have taken.
StampIsHonest ==
  /\ now_us = polled
  /\ pc = "handle" =>
       LET stamp == extend_rx_timestamp(received.at % CLOCK, now_us)
       IN  /\ stamp <= received.at
           /\ received.at <= clock_extended_us =>
                received.at - stamp <= clock_extended_us - now_us

\* platform.c:128,155,180, main.c:64: a frame that found the ring full is reported,
\* whenever the handler runs between the take, the reinitialisation and the poll.
OverflowIsReported == lost => can_overflow \/ rxOverflow
=============================================================================
