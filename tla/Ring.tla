-------------------------------- MODULE Ring --------------------------------
(***************************************************************************)
(* Index arithmetic of the firmware's single-producer single-consumer      *)
(* rings (include/flowcan/ring.h and the "(i+1U)%SIZE" of platform.c).     *)
(* A ring of a given capacity holds at most capacity - 1 items: the slot   *)
(* before the tail stays free, so that head = tail always means "empty".   *)
(***************************************************************************)
EXTENDS Integers

\* The indices of a ring.
Indices(capacity) == 0 .. capacity - 1

ring_used(capacity, head, tail) ==
  IF head >= tail THEN head - tail ELSE capacity - (tail - head)

\* Mutant: the slot that tells "full" from "empty" is given away.
ring_can_write_OffByOne(capacity, head, tail, length) ==
  /\ capacity > 1
  /\ head < capacity
  /\ tail < capacity
  /\ length <= capacity - ring_used(capacity, head, tail)

ring_can_write(capacity, head, tail, length) ==
  /\ capacity > 1
  /\ head < capacity
  /\ tail < capacity
  /\ length <= capacity - 1 - ring_used(capacity, head, tail)

\* Mutant: an index that does not wrap.
Succ_NoWrap(capacity, i) == i + 1

\* The successor of an index, written (i+1U)%SIZE at every place of platform.c.
Succ(capacity, i) == (i + 1) % capacity

\* The slot k places after slot i, for 0 <= k <= capacity.
Slot(capacity, i, k) == IF i + k < capacity THEN i + k ELSE i + k - capacity

\* What a ring holds, oldest item first: the slots from tail up to head.
Contents(capacity, ring, head, tail) ==
  [k \in 1 .. ring_used(capacity, head, tail) |->
     ring[Slot(capacity, tail, k - 1)]]
=============================================================================
