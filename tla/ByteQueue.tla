------------------------------ MODULE ByteQueue ------------------------------
(***************************************************************************)
(* What a ring between an interrupt handler and the main loop promises: a  *)
(* bounded first-in first-out queue.  A producer hands over a whole frame, *)
(* a sequence of items, or nothing, and is refused only when the frame     *)
(* does not fit; the consumer takes the items one at a time in order.  An  *)
(* item is a byte of the UART, or a received CAN frame with its stamp.     *)
(***************************************************************************)
EXTENDS Integers, Sequences

CONSTANTS
  Capacity,   \* how many items the queue can hold
  Frames      \* the item sequences a producer may offer

VARIABLES
  queue,      \* the items accepted and not yet taken
  taken,      \* the item taken last
  refused     \* some frame has been refused

vars == <<queue, taken, refused>>

Init ==
  /\ queue = << >>
  /\ refused = FALSE

Put(frame) ==
  /\ Len(queue) + Len(frame) <= Capacity
  /\ queue' = queue \o frame
  /\ UNCHANGED <<taken, refused>>

Refuse(frame) ==
  /\ Len(queue) + Len(frame) > Capacity
  /\ refused' = TRUE
  /\ UNCHANGED <<queue, taken>>

Take ==
  /\ queue # << >>
  /\ taken' = Head(queue)
  /\ queue' = Tail(queue)
  /\ UNCHANGED refused

Next ==
  \/ \E frame \in Frames : Put(frame) \/ Refuse(frame)
  \/ Take

Spec == Init /\ [][Next]_vars
=============================================================================
