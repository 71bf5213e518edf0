------------------------------ MODULE WrapTime ------------------------------
(***************************************************************************)
(* The firmware's clocks are 32-bit counters that wrap, compared through   *)
(* their signed difference (include/flowcan/time_utils.h).  Here a clock   *)
(* has CLOCK values, CLOCK standing for 2^32.  Every use of a time in the  *)
(* code is a difference of two times or the sum of a time and a duration,  *)
(* so a model may keep each time relative to the present instant: the      *)
(* present is 0, and when one tick passes every time moves back by one.    *)
(***************************************************************************)
EXTENDS Integers

CONSTANT CLOCK    \* values of a clock

Time == 0 .. CLOCK - 1

time_reached_u32(now, deadline) == (now - deadline) % CLOCK < CLOCK \div 2

\* Mutant: the sum is wider than the clock.
Plus_Wider(time, ticks) == time + ticks

Plus(time, ticks) == (time + ticks) % CLOCK

\* A time, seen one tick later.
Aged(time) == (time - 1) % CLOCK

\* How long ago a time was.
Age(time) == (0 - time) % CLOCK
=============================================================================
