--------------------------- MODULE MainLoopProofs ---------------------------
(***************************************************************************)
(* Proofs about the main loop on its millisecond clock, for a clock, an    *)
(* iteration, a period, a hold and a gap of any size the assumption        *)
(* allows: the releases of a task stay on their grid, a pulse ends when    *)
(* its hold is over, and the status LED shows what lasts.                  *)
(***************************************************************************)
EXTENDS MainLoop, RingProofs

(* Times, as differences of clock values. *)

\* The time since the loop read the clock, and from then to the task's release.
Lag == (millis - now) % CLOCK
Ahead == (deadline - now) % CLOCK

\* The time to the end of the lamp's gap; one that is over looks like the time to
\* the next time the clock reads the same.
Gap == (next - millis) % CLOCK

-----------------------------------------------------------------------------
(* The inductive invariant. *)

LagInv == Lag <= LOOP_MAX

\* The next release is the first one after the loop read the clock, on the grid.
GridInv ==
  /\ Ahead \in 1 .. PERIOD
  /\ (Ahead - Lag + phase) % PERIOD = 0

\* A hold that will end ends HOLD after the pulse; a lit LED has been looked at with
\* every reading of the clock but the last.
PulseInv ==
  /\ led => (endsAtZero <=> off_at = 0)
  /\ led /\ off_at # 0 =>
       /\ off_at = (millis - sincePulse + HOLD) % CLOCK
       /\ Lag <= sincePulse
       /\ sincePulse < HOLD + Lag + (IF pc = "leds" THEN LOOP_MAX ELSE 0)
  /\ ~led => sincePulse >= HOLD

\* The health bits are what the sensors and the bus make of them.
HealthInv ==
  pc = "leds" \/ last # "none" =>
    health = (IF pmw = "faulted" THEN {"PMW_FAULT"} ELSE {})
             \cup (IF tof THEN {} ELSE {"TOF_FAULT"})
             \cup (IF bus_off THEN {"CAN_BUS_OFF"} ELSE {})

\* The colour last sent is one for the present state.
Settled == last \in Shades(select_pattern(~tof \/ pmw # "serving"))

\* Between transfers the lamp shows the colour last sent; during one, its gap has
\* just begun.
LampInv ==
  /\ ws_busy => last # "none"
  /\ ~ws_busy => lamp = last \/ last = "none"
  /\ ws_busy => Gap <= LAMP_GAP \/ Gap >= CLOCK + LAMP_GAP - LOOP_MAX
  /\ ws_busy /\ ~Settled => wrongFor = 0

\* The lamp is wrong for no longer than its gap has lasted, an iteration to see the
\* end of it and an iteration to act.
Waiting ==
  /\ Gap <= LAMP_GAP => wrongFor + Gap <= LAMP_GAP
  /\ Gap > LAMP_GAP =>
       /\ wrongFor + Gap <= LAMP_GAP + CLOCK
       /\ pc = "top" => \/ Gap + Lag >= CLOCK + 1 - LOOP_MAX
                        \/ wrongFor = 0 /\ Lag = 0 /\ Gap = (CLOCK \div 2) + 1
       /\ pc = "leds" => \/ Gap + Lag >= CLOCK + 1 - 2 * LOOP_MAX
                         \/ wrongFor <= Lag
  /\ wrongFor < LAMP_GAP + Lag + (IF pc = "leds" THEN LOOP_MAX ELSE 0)

\* All the LED's: it waits while the colour sent last is not for the present state.
LampPart ==
  /\ HealthInv /\ LampInv
  /\ ~Settled /\ ~LeftBehind => Waiting
  /\ LampIsTruthful

IInv == TypeOK /\ LagInv /\ GridInv /\ PulseInv /\ LampPart
-----------------------------------------------------------------------------
(* The arithmetic of the clock. *)

\* The constants, one by one.
LEMMA Sizes ==
  /\ CLOCK \in Nat /\ CLOCK > 0 /\ CLOCK \in Int
  /\ LOOP_MAX \in Nat \ {0} /\ PERIOD \in Nat \ {0} /\ HOLD \in Nat \ {0} /\ LAMP_GAP \in Nat \ {0}
  /\ 2 * PERIOD + 2 * LOOP_MAX < CLOCK
  /\ 2 * HOLD + 2 * LOOP_MAX < CLOCK
  /\ 2 * LAMP_GAP + 2 * LOOP_MAX < CLOCK
  /\ 4 * LOOP_MAX < CLOCK
  /\ CLOCK \div 2 \in Nat
  /\ 2 * (CLOCK \div 2) <= CLOCK /\ CLOCK <= 2 * (CLOCK \div 2) + 1
BY MainLoopAssumption DEF MainLoopAssumption

\* A value that is less than one wrap out of range comes back into it.
LEMMA Wraps ==
  ASSUME NEW a \in Int, -CLOCK <= a, a < 2 * CLOCK
  PROVE  /\ a % CLOCK \in Time
         /\ a < 0 => a % CLOCK = a + CLOCK
         /\ 0 <= a /\ a < CLOCK => a % CLOCK = a
         /\ CLOCK <= a => a % CLOCK = a - CLOCK
<1>1. CLOCK \in Nat /\ CLOCK > 0
  BY Sizes
<1>2. \A q \in Int, r \in Int : 0 <= r /\ r < CLOCK => (CLOCK * q + r) % CLOCK = r
  BY <1>1, RemainderIsUnique
<1>3. a < 0 => a % CLOCK = a + CLOCK
  <2>1. CLOCK * (-1) + (a + CLOCK) = a /\ a + CLOCK \in Int
    BY <1>1
  <2> QED
    BY <1>1, <1>2, <2>1
<1>4. 0 <= a /\ a < CLOCK => a % CLOCK = a
  <2>1. CLOCK * 0 + a = a
    BY <1>1
  <2> QED
    BY <1>1, <1>2, <2>1
<1>5. CLOCK <= a => a % CLOCK = a - CLOCK
  <2>1. CLOCK * 1 + (a - CLOCK) = a /\ a - CLOCK \in Int
    BY <1>1
  <2> QED
    BY <1>1, <1>2, <2>1
<1>6. a % CLOCK \in Time
  BY <1>1, <1>3, <1>4, <1>5 DEF Time
<1> QED
  BY <1>3, <1>4, <1>5, <1>6

\* The time from one value of the clock to another.
LEMMA Between ==
  ASSUME NEW x \in Time, NEW y \in Time
  PROVE  /\ (x - y) % CLOCK \in Time
         /\ x >= y => (x - y) % CLOCK = x - y
         /\ x < y => (x - y) % CLOCK = x - y + CLOCK
<1>1. x \in Int /\ y \in Int /\ x - y \in Int /\ -CLOCK <= x - y /\ x - y < CLOCK
  BY Sizes DEF Time
<1>2. \A a \in Int : -CLOCK <= a /\ a < 2 * CLOCK =>
        /\ a % CLOCK \in Time
        /\ a < 0 => a % CLOCK = a + CLOCK
        /\ 0 <= a /\ a < CLOCK => a % CLOCK = a
  BY Wraps
<1>3. -CLOCK <= x - y /\ x - y < 2 * CLOCK
  BY <1>1, Sizes
<1> QED
  BY <1>1, <1>2, <1>3

\* A value of the clock some ticks later.
LEMMA Later ==
  ASSUME NEW x \in Time, NEW d \in 0 .. CLOCK
  PROVE  /\ Plus(x, d) \in Time
         /\ x + d < CLOCK => Plus(x, d) = x + d
         /\ x + d >= CLOCK => Plus(x, d) = x + d - CLOCK
<1>1. x \in Int /\ d \in Int /\ x + d \in Int /\ 0 <= x + d /\ x + d < 2 * CLOCK /\ -CLOCK <= x + d
  BY Sizes DEF Time
<1>2. \A a \in Int : -CLOCK <= a /\ a < 2 * CLOCK =>
        /\ a % CLOCK \in Time
        /\ 0 <= a /\ a < CLOCK => a % CLOCK = a
        /\ CLOCK <= a => a % CLOCK = a - CLOCK
  BY Wraps
<1> DEFINE e == x + d
<1>3. e \in Int /\ 0 <= e /\ e < 2 * CLOCK /\ -CLOCK <= e
  BY <1>1
<1>4. Plus(x, d) = e % CLOCK
  BY DEF Plus
<1> HIDE DEF e
<1>5. /\ e % CLOCK \in Time
      /\ 0 <= e /\ e < CLOCK => e % CLOCK = e
      /\ CLOCK <= e => e % CLOCK = e - CLOCK
  BY <1>2, <1>3
<1>6. CLOCK \in Int
  BY Sizes
<1> QED
  BY <1>1, <1>3, <1>4, <1>5, <1>6 DEF e

\* Adding a remainder is adding the number, as far as remainders go.
LEMMA RemainderOfSum ==
  ASSUME NEW c \in Nat, c > 0, NEW a \in Int, NEW b \in Int
  PROVE  (a + (b % c)) % c = (a + b) % c
<1> DEFINE q == b \div c
           r == b % c
           s == (a + r) \div c
           t == (a + r) % c
<1>1. /\ r \in Int /\ q \in Int /\ b = c * q + r
  BY Remainder
<1>2. a + r \in Int
  BY <1>1
<1>3. t \in 0 .. c - 1 /\ t \in Int /\ s \in Int /\ a + r = c * s + t
  <2> HIDE DEF r
  <2>1. \A m \in Int : /\ m % c \in 0 .. c - 1 /\ m % c \in Int /\ m \div c \in Int
                       /\ m = c * (m \div c) + (m % c)
    BY Remainder
  <2> QED
    BY <1>2, <2>1
<1> HIDE DEF q, r, s, t
<1>4. c * (s + q) = c * s + c * q
  BY <1>1, <1>3
<1>5. a + b = c * (s + q) + t
  <2>1. c * s \in Int /\ c * q \in Int
    BY <1>1, <1>3
  <2> QED
    BY <1>1, <1>3, <1>4, <2>1
<1>6. (c * (s + q) + t) % c = t
  <2>1. s + q \in Int /\ 0 <= t /\ t < c
    BY <1>1, <1>3
  <2> QED
    BY <1>3, <2>1, RemainderIsUnique
<1> QED
  BY <1>5, <1>6 DEF r, t

\* Whole multiples leave the remainder alone.
LEMMA RemainderOfMultiple ==
  ASSUME NEW c \in Nat, c > 0, NEW a \in Int, NEW k \in Int
  PROVE  (a + k * c) % c = a % c
<1>1. a % c \in 0 .. c - 1 /\ a % c \in Int /\ a \div c \in Int /\ a = c * (a \div c) + (a % c)
  BY Remainder
<1> DEFINE q == a \div c
           r == a % c
<1>2. /\ q \in Int /\ r \in Int /\ a = c * q + r /\ 0 <= r /\ r < c
  BY <1>1
<1> HIDE DEF q, r
<1>3. a + k * c = c * (q + k) + r
  <2>1. c * (q + k) = c * q + c * k /\ k * c = c * k /\ c * q \in Int /\ c * k \in Int
    BY <1>2
  <2> QED
    BY <1>2, <2>1
<1>4. (c * (q + k) + r) % c = r
  BY <1>2, q + k \in Int, RemainderIsUnique
<1> QED
  BY <1>3, <1>4 DEF r
\* Every sum of clock values is a clock value.
LEMMA PlusType ==
  ASSUME NEW x \in Int, NEW d \in Int
  PROVE  Plus(x, d) \in Time
<1>1. x + d \in Int /\ CLOCK \in Nat /\ CLOCK > 0
  BY Sizes
<1>2. \A a \in Int : a % CLOCK \in 0 .. CLOCK - 1
  BY <1>1, Remainder
<1> QED
  BY <1>1, <1>2 DEF Plus, Time

\* Clock values are integers.
LEMMA TimeIsInt ==
  ASSUME NEW x \in Time
  PROVE  x \in Int /\ 0 <= x /\ x < CLOCK
BY Sizes DEF Time

-----------------------------------------------------------------------------
(* Types. *)

\* The bounds of the two history clocks are numbers, larger than what they wait for.
LEMMA Bounds ==
  /\ SINCE_MAX \in Nat /\ SINCE_MAX >= HOLD
  /\ WRONG_MAX \in Nat /\ WRONG_MAX > 0
BY Sizes DEF SINCE_MAX, WRONG_MAX

\* The initial values.
LEMMA TypeAtStart ==
  ASSUME Init
  PROVE  TypeOK
<1>1. 0 \in Time /\ PERIOD \in Time /\ 0 \in 0 .. PERIOD - 1
  BY Sizes DEF Time
<1>2. SINCE_MAX \in 0 .. SINCE_MAX /\ 0 \in 0 .. WRONG_MAX
  BY Bounds
<1> QED
  BY <1>1, <1>2 DEF Init, TypeOK, Sensor, Bits, Colours

\* The colours of the patterns.
LEMMA ShadesType ==
  ASSUME NEW init \in BOOLEAN
  PROVE  Shades(select_pattern(init)) \subseteq Colours
<1>1. select_pattern(init) \in Patterns
  BY DEF select_pattern, Patterns, Colours
<1> QED
  BY <1>1 DEF Shades, Patterns, Colours

\* What the loop does keeps the types.
LEMMA TypeOfWork ==
  ASSUME TypeOK, Work
  PROVE  TypeOK'
<1> USE DEF TypeOK
<1>1. pc' \in {"top", "leds"} /\ millis' \in Time /\ now' \in Time /\ phase' \in 0 .. PERIOD - 1
  BY DEF Work
<1>2. deadline' \in Time
  <2>1. CASE UNCHANGED deadline
    BY <2>1
  <2>2. ASSUME NEW k \in 1 .. CLOCK, deadline' = Plus(deadline, k * PERIOD)
        PROVE  deadline' \in Time
    <3>1. deadline \in Int /\ k * PERIOD \in Int
      BY Sizes DEF Time
    <3> QED
      BY <3>1, <2>2, PlusType
  <2>3. periodic_task_due
    BY DEF Work
  <2> QED
    BY <2>1, <2>2, <2>3 DEF periodic_task_due
<1>3. led' \in BOOLEAN /\ off_at' \in Time /\ endsAtZero' \in BOOLEAN /\ sincePulse' \in 0 .. SINCE_MAX
  <2>1. CASE UNCHANGED pulse
    BY <2>1 DEF pulse
  <2>2. CASE activity_pulse
    <3>1. now' \in Int /\ HOLD \in Int
      BY <1>1, Sizes DEF Time
    <3>2. Plus(now', HOLD) \in Time
      BY <3>1, PlusType
    <3>3. led' \in BOOLEAN /\ off_at' \in Time /\ sincePulse' \in 0 .. SINCE_MAX
      BY <3>2, <2>2, Bounds DEF activity_pulse
    <3>4. endsAtZero' \in BOOLEAN
      BY <2>2 DEF activity_pulse
    <3> QED
      BY <3>3, <3>4
  <2> QED
    BY <2>1, <2>2 DEF Work
<1>4. pmw' \in Sensor /\ tof' \in BOOLEAN /\ bus_off' \in BOOLEAN
  BY DEF Work, Pmw, Sensor
<1>5. health' \subseteq Bits
  BY DEF Work, Health, Bits
<1>6. lamp' \in Colours /\ last' \in Colours \cup {"none"} /\ next' \in Time /\ ws_busy' \in BOOLEAN
  BY DEF Work, drive
<1>7. wrongFor' \in 0 .. WRONG_MAX
  BY Bounds DEF Work
<1> QED
  BY <1>1, <1>2, <1>3, <1>4, <1>5, <1>6, <1>7

\* The LEDs keep the types.
LEMMA TypeOfLeds ==
  ASSUME TypeOK, Leds
  PROVE  TypeOK'
<1> USE DEF TypeOK
<1>1. /\ pc' \in {"top", "leds"} /\ millis' \in Time /\ now' \in Time /\ phase' \in 0 .. PERIOD - 1
      /\ deadline' \in Time /\ lamp' \in Colours /\ wrongFor' \in 0 .. WRONG_MAX
      /\ pmw' \in Sensor /\ tof' \in BOOLEAN /\ bus_off' \in BOOLEAN /\ health' \subseteq Bits
  BY DEF Leds, task, world
<1>2. led' \in BOOLEAN /\ off_at' \in Time /\ endsAtZero' \in BOOLEAN /\ sincePulse' \in 0 .. SINCE_MAX
  <2>1. 0 \in Time
    BY Sizes DEF Time
  <2> QED
    BY <2>1 DEF Leds, activity_step
<1>3. last' \in Colours \cup {"none"} /\ next' \in Time /\ ws_busy' \in BOOLEAN
  <2>1. CASE UNCHANGED drive
    BY <2>1 DEF drive
  <2>2. ASSUME NEW colour \in Shades(select_pattern(~tof \/ pmw # "serving")),
               platform_ws2812_start, last' = colour, next' = Plus(now, LAMP_GAP)
        PROVE  last' \in Colours \cup {"none"} /\ next' \in Time /\ ws_busy' \in BOOLEAN
    <3>1. now \in Int /\ LAMP_GAP \in Int
      BY Sizes DEF Time
    <3>2. Plus(now, LAMP_GAP) \in Time
      BY <3>1, PlusType
    <3>3. (~tof \/ pmw # "serving") \in BOOLEAN
      OBVIOUS
    <3>4. colour \in Colours
      BY <3>3, ShadesType
    <3>5. ws_busy' = TRUE
      BY <2>2 DEF platform_ws2812_start
    <3> QED
      BY <2>2, <3>2, <3>4, <3>5
  <2> QED
    BY <2>1, <2>2 DEF Leds, status_led_step
<1> QED
  BY <1>1, <1>2, <1>3

\* A tick keeps the types.
LEMMA TypeOfTick ==
  ASSUME TypeOK, SysTick_Handler
  PROVE  TypeOK'
<1> USE DEF TypeOK
<1>1. /\ pc' \in {"top", "leds"} /\ now' \in Time
      /\ deadline' \in Time /\ lamp' \in Colours
      /\ led' \in BOOLEAN /\ off_at' \in Time /\ endsAtZero' \in BOOLEAN
      /\ pmw' \in Sensor /\ tof' \in BOOLEAN /\ bus_off' \in BOOLEAN /\ health' \subseteq Bits
      /\ last' \in Colours \cup {"none"} /\ next' \in Time /\ ws_busy' \in BOOLEAN
  BY DEF SysTick_Handler, task, world, drive
<1>2. millis' \in Time
  <2>1. millis \in Int /\ 1 \in Int
    BY TimeIsInt
  <2> QED
    BY <2>1, PlusType DEF SysTick_Handler
<1>3. phase' \in 0 .. PERIOD - 1
  <2>1. PERIOD \in Nat /\ PERIOD > 0 /\ phase + 1 \in Int
    BY Sizes
  <2>2. \A a \in Int : a % PERIOD \in 0 .. PERIOD - 1
    BY <2>1, Remainder
  <2> QED
    BY <2>1, <2>2 DEF SysTick_Handler
<1>4. sincePulse' \in 0 .. SINCE_MAX
  BY Bounds DEF SysTick_Handler
<1>5. wrongFor' \in 0 .. WRONG_MAX
  BY Bounds DEF SysTick_Handler
<1> QED
  BY <1>1, <1>2, <1>3, <1>4, <1>5

\* Every step keeps the types.
LEMMA TypeKept ==
  ASSUME TypeOK, LampInv, [Next]_vars
  PROVE  TypeOK'
<1>1. CASE DMA1_Channel2_IRQHandler
  <2> USE <1>1 DEF DMA1_Channel2_IRQHandler, TypeOK
  <2>1. /\ pc' \in {"top", "leds"} /\ millis' \in Time /\ now' \in Time /\ phase' \in 0 .. PERIOD - 1
        /\ deadline' \in Time /\ wrongFor' \in 0 .. WRONG_MAX
        /\ pmw' \in Sensor /\ tof' \in BOOLEAN /\ bus_off' \in BOOLEAN /\ health' \subseteq Bits
        /\ led' \in BOOLEAN /\ off_at' \in Time /\ endsAtZero' \in BOOLEAN /\ sincePulse' \in 0 .. SINCE_MAX
        /\ last' \in Colours \cup {"none"} /\ next' \in Time /\ ws_busy' \in BOOLEAN
    BY DEF task, pulse, world
  <2>2. lamp' \in Colours
    BY DEF LampInv
  <2> QED
    BY <2>1, <2>2
<1>2. CASE Restart
  <2>1. 0 \in Time /\ PERIOD \in Time /\ 0 \in 0 .. PERIOD - 1
    BY Sizes DEF Time
  <2>2. SINCE_MAX \in 0 .. SINCE_MAX /\ 0 \in 0 .. WRONG_MAX
    BY Bounds
  <2> QED
    BY <1>2, <2>1, <2>2 DEF Restart, TypeOK, Sensor, Bits
<1>3. CASE UNCHANGED vars
  BY <1>3 DEF vars, task, pulse, world, drive, TypeOK
<1> QED
  BY <1>1, <1>2, <1>3, TypeOfWork, TypeOfLeds, TypeOfTick DEF Next
-----------------------------------------------------------------------------
(* What the steps do to the three measures. *)

\* The measures are times.
LEMMA Measures ==
  ASSUME TypeOK
  PROVE  /\ Lag \in Time /\ Ahead \in Time /\ Gap \in Time
         /\ Lag \in Nat /\ Ahead \in Nat /\ Gap \in Nat
         /\ Lag < CLOCK /\ Ahead < CLOCK /\ Gap < CLOCK
<1>1. millis \in Time /\ now \in Time /\ deadline \in Time /\ next \in Time
  BY DEF TypeOK
<1>2. Lag \in Time /\ Ahead \in Time /\ Gap \in Time
  BY <1>1, Between DEF Lag, Ahead, Gap
<1> QED
  BY <1>2, Sizes DEF Time

\* The loop reads the clock.
LEMMA MeasuresOfWork ==
  ASSUME TypeOK, Work
  PROVE  Lag' = 0 /\ Gap' = Gap
<1>1. millis \in Time /\ millis' = millis /\ now' = millis /\ next' = next
  BY DEF TypeOK, Work, drive
<1>2. (millis - millis) % CLOCK = 0
  <2>1. millis \in Int
    BY <1>1, TimeIsInt
  <2> QED
    BY <1>1, <2>1, Between
<1> QED
  BY <1>1, <1>2 DEF Lag, Gap

\* A tick passes.
LEMMA MeasuresOfTick ==
  ASSUME TypeOK, SysTick_Handler
  PROVE  /\ Lag < LOOP_MAX /\ Lag' = Lag + 1 /\ Ahead' = Ahead
         /\ Gap = 0 => Gap' = CLOCK - 1
         /\ Gap > 0 => Gap' = Gap - 1
<1>1. /\ millis \in Time /\ now \in Time /\ next \in Time /\ 1 \in 0 .. CLOCK
      /\ now' = now /\ next' = next /\ deadline' = deadline
      /\ millis' = Plus(millis, 1) /\ Lag < LOOP_MAX
  BY Sizes DEF TypeOK, SysTick_Handler, drive, task, Lag
<1>2. /\ millis' \in Time
      /\ millis + 1 < CLOCK => millis' = millis + 1
      /\ millis + 1 >= CLOCK => millis' = millis + 1 - CLOCK
  BY <1>1, Later
<1>3. /\ millis \in Int /\ now \in Int /\ next \in Int /\ millis' \in Int
      /\ 0 <= millis /\ millis < CLOCK /\ 0 <= now /\ now < CLOCK /\ 0 <= next /\ next < CLOCK
      /\ 0 <= millis' /\ millis' < CLOCK
  BY <1>1, <1>2, TimeIsInt
<1>4. /\ Lag \in Time
      /\ millis >= now => Lag = millis - now
      /\ millis < now => Lag = millis - now + CLOCK
  BY <1>1, Between DEF Lag
<1>5. /\ Lag' \in Time
      /\ millis' >= now => Lag' = millis' - now
      /\ millis' < now => Lag' = millis' - now + CLOCK
  BY <1>1, <1>2, Between DEF Lag
<1>6. /\ Gap \in Time
      /\ next >= millis => Gap = next - millis
      /\ next < millis => Gap = next - millis + CLOCK
  BY <1>1, Between DEF Gap
<1>7. /\ Gap' \in Time
      /\ next >= millis' => Gap' = next - millis'
      /\ next < millis' => Gap' = next - millis' + CLOCK
  BY <1>1, <1>2, Between DEF Gap
<1>8. Ahead' = Ahead
  BY <1>1 DEF Ahead
<1>9. Lag' = Lag + 1
  BY <1>1, <1>2, <1>3, <1>4, <1>5, Sizes
<1>10. (Gap = 0 => Gap' = CLOCK - 1) /\ (Gap > 0 => Gap' = Gap - 1)
  <2> DEFINE g == Gap
             h == Gap'
  <2>1. g \in Int
    BY Measures
  <2>2. /\ next >= millis => g = next - millis
        /\ next < millis => g = next - millis + CLOCK
        /\ next >= millis' => h = next - millis'
        /\ next < millis' => h = next - millis' + CLOCK
    BY <1>6, <1>7
  <2> HIDE DEF g, h
  <2>3. (g = 0 => h = CLOCK - 1) /\ (g > 0 => h = g - 1)
    BY <1>2, <1>3, <2>1, <2>2, Sizes
  <2> QED
    BY <2>3 DEF g, h
<1> QED
  BY <1>1, <1>8, <1>9, <1>10

-----------------------------------------------------------------------------
(* The scheduler. *)

\* The time from the present to the release, less the wraps: a release that is due
\* is not far behind, one that is not is at most a period away.
LEMMA ReleaseIsDue ==
  ASSUME TypeOK, LagInv, Ahead \in 1 .. PERIOD
  PROVE  /\ time_reached_u32(millis, deadline) <=> Ahead <= Lag
         /\ Ahead >= Lag => (deadline - millis) % CLOCK = Ahead - Lag
         /\ Ahead < Lag => (deadline - millis) % CLOCK = Ahead - Lag + CLOCK
<1>1. millis \in Time /\ now \in Time /\ deadline \in Time
  BY DEF TypeOK
<1>2. /\ millis \in Int /\ now \in Int /\ deadline \in Int
      /\ 0 <= millis /\ millis < CLOCK /\ 0 <= now /\ now < CLOCK /\ 0 <= deadline /\ deadline < CLOCK
  BY <1>1, TimeIsInt
<1>3. /\ Lag \in Nat
      /\ millis >= now => Lag = millis - now
      /\ millis < now => Lag = millis - now + CLOCK
  BY <1>1, Between, Measures DEF Lag
<1>4. /\ Ahead \in Nat
      /\ deadline >= now => Ahead = deadline - now
      /\ deadline < now => Ahead = deadline - now + CLOCK
  BY <1>1, Between, Measures DEF Ahead
<1>5. /\ millis >= deadline => (millis - deadline) % CLOCK = millis - deadline
      /\ millis < deadline => (millis - deadline) % CLOCK = millis - deadline + CLOCK
      /\ deadline >= millis => (deadline - millis) % CLOCK = deadline - millis
      /\ deadline < millis => (deadline - millis) % CLOCK = deadline - millis + CLOCK
  BY <1>1, Between
<1>6. Lag <= LOOP_MAX /\ Ahead <= PERIOD /\ Ahead > 0
  BY <1>4, Sizes DEF LagInv
<1> DEFINE back == (millis - deadline) % CLOCK
           forth == (deadline - millis) % CLOCK
<1>7. /\ Ahead <= Lag => back = Lag - Ahead
      /\ Ahead > Lag => back = Lag - Ahead + CLOCK
      /\ Ahead >= Lag => forth = Ahead - Lag
      /\ Ahead < Lag => forth = Ahead - Lag + CLOCK
  BY <1>2, <1>3, <1>4, <1>5, <1>6, Sizes
<1> HIDE DEF back, forth
<1>8. back < CLOCK \div 2 <=> Ahead <= Lag
  BY <1>3, <1>4, <1>6, <1>7, Sizes
<1>9. time_reached_u32(millis, deadline) <=> back < CLOCK \div 2
  BY DEF time_reached_u32, back
<1> QED
  BY <1>7, <1>8, <1>9 DEF forth

\* The k-th release from the last, as long as it is not more than a period away.
LEMMA LaterRelease ==
  ASSUME TypeOK, LagInv, Ahead \in 1 .. PERIOD, NEW k \in Nat,
         Ahead <= Lag, Ahead - Lag + k * PERIOD <= PERIOD
  PROVE  /\ Plus(deadline, k * PERIOD) \in Time
         /\ time_reached_u32(millis, Plus(deadline, k * PERIOD)) <=> Ahead - Lag + k * PERIOD <= 0
         /\ Ahead - Lag + k * PERIOD > 0 =>
              (Plus(deadline, k * PERIOD) - millis) % CLOCK = Ahead - Lag + k * PERIOD
<1> DEFINE e == k * PERIOD
           d == Plus(deadline, k * PERIOD)
<1>1. /\ millis \in Time /\ now \in Time /\ deadline \in Time
  BY DEF TypeOK
<1>2. /\ millis \in Int /\ now \in Int /\ deadline \in Int
      /\ 0 <= millis /\ millis < CLOCK /\ 0 <= now /\ now < CLOCK /\ 0 <= deadline /\ deadline < CLOCK
  BY <1>1, TimeIsInt
<1>3. /\ Lag \in Nat
      /\ millis >= now => Lag = millis - now
      /\ millis < now => Lag = millis - now + CLOCK
  BY <1>1, Between, Measures DEF Lag
<1>4. /\ Ahead \in Nat
      /\ deadline >= now => Ahead = deadline - now
      /\ deadline < now => Ahead = deadline - now + CLOCK
  BY <1>1, Between, Measures DEF Ahead
<1>5. Lag <= LOOP_MAX /\ Ahead <= PERIOD /\ Ahead > 0
  BY <1>4, Sizes DEF LagInv
<1>6. e \in Nat
  BY Sizes
<1>7. Ahead <= Lag /\ Ahead - Lag + e <= PERIOD
  OBVIOUS
<1> HIDE DEF e
<1>8. e \in 0 .. CLOCK
  BY <1>3, <1>4, <1>5, <1>6, <1>7, Sizes
<1>9. /\ Plus(deadline, e) \in Time
      /\ deadline + e < CLOCK => Plus(deadline, e) = deadline + e
      /\ deadline + e >= CLOCK => Plus(deadline, e) = deadline + e - CLOCK
  BY <1>1, <1>8, Later
<1>10. d = Plus(deadline, e)
  BY DEF e
<1> HIDE DEF d
<1>11. d \in Int /\ 0 <= d /\ d < CLOCK /\ d \in Time
  BY <1>9, <1>10, TimeIsInt
<1> DEFINE back == (millis - d) % CLOCK
           forth == (d - millis) % CLOCK
<1>12. /\ millis >= d => back = millis - d
       /\ millis < d => back = millis - d + CLOCK
       /\ d >= millis => forth = d - millis
       /\ d < millis => forth = d - millis + CLOCK
  BY <1>1, <1>11, Between
<1> HIDE DEF back, forth
<1> DEFINE s == Ahead - Lag + e
<1>13. /\ s <= 0 => back = -s
       /\ s > 0 => back = CLOCK - s /\ forth = s
  BY <1>2, <1>3, <1>4, <1>5, <1>6, <1>7, <1>9, <1>10, <1>11, <1>12, Sizes
<1>14. s \in Int /\ s <= PERIOD /\ s > -CLOCK /\ s > 0 - LOOP_MAX
  BY <1>3, <1>4, <1>5, <1>6, <1>7, Sizes
<1> HIDE DEF s
<1>15. back < CLOCK \div 2 <=> s <= 0
  BY <1>13, <1>14, Sizes
<1>16. time_reached_u32(millis, d) <=> back < CLOCK \div 2
  BY DEF time_reached_u32, back
<1> QED
  BY <1>9, <1>10, <1>13, <1>15, <1>16 DEF s, e, d, forth
\* The skipped periods: a whole number of them brings the release to its first time
\* to come.
LEMMA FirstToCome ==
  ASSUME NEW p \in Nat, p > 0, NEW s \in Int, s <= 0
  PROVE  \E k \in Nat : k > 0 /\ s + k * p \in 1 .. p
<1>1. \A a \in Int : /\ a % p \in 0 .. p - 1 /\ a % p \in Int /\ a \div p \in Int
                     /\ a = p * (a \div p) + (a % p)
  BY Remainder
<1> DEFINE q == (-s) \div p
           r == (-s) % p
<1>2. r \in 0 .. p - 1 /\ r \in Int /\ q \in Int /\ -s = p * q + r
  BY <1>1
<1> HIDE DEF q, r
<1>3. q >= 0
  BY <1>2
<1>4. (q + 1) * p = p * q + p /\ p * q \in Int
  BY <1>2
<1>5. s + (q + 1) * p = p - r
  BY <1>2, <1>4
<1>6. q + 1 \in Nat /\ q + 1 > 0
  BY <1>2, <1>3
<1>7. s + (q + 1) * p \in 1 .. p
  BY <1>2, <1>5
<1> DEFINE k == q + 1
<1>8. k \in Nat /\ k > 0 /\ s + k * p \in 1 .. p
  BY <1>6, <1>7
<1> HIDE DEF k
<1> QED
  BY <1>8

\* Multiples of a period grow with the number of periods.
LEMMA MorePeriods ==
  ASSUME NEW p \in Nat, NEW i \in Nat, NEW j \in Nat, i < j
  PROVE  i * p + p <= j * p
<1>1. j * p = i * p + (j - i) * p
  OBVIOUS
<1>2. (j - i) * p = p + (j - i - 1) * p
  OBVIOUS
<1>3. (j - i - 1) * p >= 0
  OBVIOUS
<1> QED
  BY <1>1, <1>2, <1>3

\* When the loop asks the scheduler, the release moves to its first time to come.
LEMMA GridOfWork ==
  ASSUME TypeOK, LagInv, GridInv, Work
  PROVE  GridInv'
<1> DEFINE s == Ahead - Lag
<1>1. /\ Ahead \in 1 .. PERIOD /\ (s + phase) % PERIOD = 0 /\ Lag \in Nat /\ Ahead \in Nat
      /\ phase \in Int /\ s \in Int
      /\ PERIOD \in Nat /\ PERIOD > 0 /\ LOOP_MAX \in Nat /\ Lag <= LOOP_MAX
  BY Measures, Sizes DEF GridInv, LagInv, TypeOK
<1>2. now' = millis /\ millis' = millis /\ phase' = phase /\ Lag' = 0
  BY MeasuresOfWork DEF Work
<1>3. SUFFICES \E k \in Nat : Ahead' = s + k * PERIOD /\ Ahead' \in 1 .. PERIOD
  <2>1. PICK k \in Nat : Ahead' = s + k * PERIOD /\ Ahead' \in 1 .. PERIOD
    BY <1>3
  <2>2. k * PERIOD \in Int /\ (s + phase) + k * PERIOD = s + k * PERIOD + phase /\ s + phase \in Int
    BY <1>1
  <2>3. ((s + phase) + k * PERIOD) % PERIOD = (s + phase) % PERIOD
    <3>1. PERIOD \in Nat /\ PERIOD > 0
      BY <1>1
    <3>2. \A a, i \in Int : (a + i * PERIOD) % PERIOD = a % PERIOD
      BY <3>1, RemainderOfMultiple, Zenon
    <3> QED
      BY <2>1, <2>2, <3>2
  <2>4. Ahead' - Lag' + phase' = (s + phase) + k * PERIOD
    BY <1>1, <1>2, <2>1, <2>2
  <2> QED
    BY <1>1, <2>1, <2>3, <2>4 DEF GridInv
<1>4. Ahead' = (deadline' - millis) % CLOCK
  BY <1>2 DEF Ahead
<1>5. periodic_task_due
  BY DEF Work
<1>6. CASE ~time_reached_u32(millis, deadline)
  <2>1. UNCHANGED deadline
    BY <1>2, <1>5, <1>6 DEF periodic_task_due
  <2>2. Ahead > Lag
    BY <1>1, <1>6, ReleaseIsDue
  <2>3. Ahead' = s
    BY <1>1, <1>4, <2>1, <2>2, ReleaseIsDue
  <2>4. s = s + 0 * PERIOD /\ 0 \in Nat /\ s \in 1 .. PERIOD
    BY <1>1, <2>2
  <2> HIDE DEF s
  <2> QED
    BY <2>3, <2>4
<1>7. CASE time_reached_u32(millis, deadline)
  <2>1. Ahead <= Lag /\ s <= 0
    <3>1. Ahead <= Lag
      BY <1>1, <1>7, ReleaseIsDue
    <3> QED
      BY <3>1, <1>1
  <2>2. PICK k \in 1 .. CLOCK :
           /\ deadline' = Plus(deadline, k * PERIOD)
           /\ ~time_reached_u32(millis, deadline')
           /\ \A j \in 1 .. k - 1 : time_reached_u32(millis, Plus(deadline, j * PERIOD))
    BY <1>2, <1>5, <1>7 DEF periodic_task_due
  <2>3. PICK n \in Nat : n > 0 /\ s + n * PERIOD \in 1 .. PERIOD
    <3> HIDE DEF s
    <3> QED
      BY <1>1, <2>1, FirstToCome
  <2>4. k \in Nat /\ k > 0
    BY Sizes
  <2> DEFINE Soon(i) == s + i * PERIOD <= PERIOD
  <2>5. \A i \in Nat : Soon(i) =>
          /\ time_reached_u32(millis, Plus(deadline, i * PERIOD)) <=> s + i * PERIOD <= 0
          /\ s + i * PERIOD > 0 => (Plus(deadline, i * PERIOD) - millis) % CLOCK = s + i * PERIOD
    BY <1>1, <2>1, LaterRelease
  <2>6. /\ k * PERIOD \in Int /\ n * PERIOD \in Int
        /\ k < n => k * PERIOD + PERIOD <= n * PERIOD
    BY <1>1, <2>4, MorePeriods
  <2>7. ~(k < n)
    <3>1. SUFFICES ASSUME k < n PROVE FALSE
      OBVIOUS
    <3>2. s + k * PERIOD <= 0
      BY <1>1, <2>3, <2>6, <3>1
    <3>3. Soon(k)
      BY <1>1, <2>6, <3>2
    <3> HIDE DEF Soon, s
    <3>4. time_reached_u32(millis, Plus(deadline, k * PERIOD))
      BY <2>4, <2>5, <3>2, <3>3
    <3> QED
      BY <2>2, <3>4
  <2>8. /\ Soon(n) /\ s + n * PERIOD > 0 /\ s + n * PERIOD \in 1 .. PERIOD
    BY <1>1, <2>3
  <2>9. ~(n < k)
    <3>1. SUFFICES ASSUME n < k PROVE FALSE
      OBVIOUS
    <3>2. n \in 1 .. k - 1
      BY <2>3, <2>4, <3>1
    <3>3. time_reached_u32(millis, Plus(deadline, n * PERIOD))
      BY <2>2, <3>2
    <3>4. ~(s + n * PERIOD <= 0)
      BY <1>1, <2>6, <2>8
    <3> HIDE DEF Soon, s
    <3> QED
      BY <2>3, <2>5, <2>8, <3>3, <3>4
  <2>10. k = n
    BY <2>3, <2>4, <2>7, <2>9
  <2>11. (Plus(deadline, n * PERIOD) - millis) % CLOCK = s + n * PERIOD
    <3> HIDE DEF Soon, s
    <3> QED
      BY <2>3, <2>5, <2>8
  <2>12. Ahead' = s + n * PERIOD
    BY <1>4, <2>2, <2>10, <2>11
  <2> HIDE DEF s
  <2> QED
    BY <2>3, <2>12
<1> QED
  BY <1>6, <1>7

\* A tick brings the release nearer and the phase forward.
LEMMA GridOfTick ==
  ASSUME TypeOK, GridInv, SysTick_Handler
  PROVE  GridInv'
<1>1. /\ Lag \in Nat /\ Ahead \in Nat /\ phase \in Int /\ PERIOD \in Nat /\ PERIOD > 0
      /\ Ahead \in 1 .. PERIOD /\ (Ahead - Lag + phase) % PERIOD = 0
  BY Measures, Sizes DEF GridInv, TypeOK
<1>2. Lag' = Lag + 1 /\ Ahead' = Ahead /\ phase' = (phase + 1) % PERIOD
  BY MeasuresOfTick DEF SysTick_Handler
<1> DEFINE a == Ahead - (Lag + 1)
           b == phase + 1
<1>3. a \in Int /\ b \in Int /\ a + b = Ahead - Lag + phase
  BY <1>1
<1>4. (a + (b % PERIOD)) % PERIOD = (a + b) % PERIOD
  <2> HIDE DEF a, b
  <2> QED
    BY <1>1, <1>3, RemainderOfSum
<1>5. Ahead' - Lag' + phase' = a + (b % PERIOD)
  BY <1>2
<1> QED
  BY <1>1, <1>2, <1>3, <1>4, <1>5 DEF GridInv

\* Seen from the present, the release is on the grid.
LEMMA GridShows ==
  ASSUME TypeOK, LagInv, GridInv
  PROVE  GridIsKept
<1>1. /\ Lag \in Nat /\ Ahead \in Nat /\ Ahead \in 1 .. PERIOD /\ Ahead <= PERIOD /\ Lag <= LOOP_MAX
      /\ (Ahead - Lag + phase) % PERIOD = 0
  BY Measures, Sizes DEF LagInv, GridInv
<1> DEFINE ahead == (deadline - millis) % CLOCK
           signed == IF ahead < CLOCK \div 2 THEN ahead ELSE ahead - CLOCK
<1>2. /\ Ahead >= Lag => ahead = Ahead - Lag
      /\ Ahead < Lag => ahead = Ahead - Lag + CLOCK
  BY <1>1, ReleaseIsDue
<1> HIDE DEF ahead
<1>3. signed = Ahead - Lag
  BY <1>1, <1>2, Sizes
<1> HIDE DEF signed
<1>4. (signed + phase) % PERIOD = 0
  BY <1>1, <1>3
<1> QED
  BY <1>1, <1>4 DEF GridIsKept, Ahead, ahead, signed
-----------------------------------------------------------------------------
(* The activity LEDs. *)

\* The loop pulses the LED, or has looked at it.
LEMMA PulseOfWork ==
  ASSUME TypeOK, LagInv, PulseInv, Work, TypeOK'
  PROVE  PulseInv'
<1>1. Lag' = 0 /\ millis' = millis /\ now' = millis /\ pc = "top" /\ pc' = "leds"
  BY MeasuresOfWork DEF Work
<1>2. /\ millis \in Int /\ HOLD \in Nat /\ HOLD > 0 /\ LOOP_MAX \in Nat /\ LOOP_MAX > 0
      /\ sincePulse \in Nat /\ Lag \in Nat /\ Lag <= LOOP_MAX
  BY Sizes, TimeIsInt, Bounds, Measures DEF TypeOK, LagInv
<1>3. CASE UNCHANGED pulse
  <2>1. led' = led /\ off_at' = off_at /\ endsAtZero' = endsAtZero /\ sincePulse' = sincePulse
    BY <1>3 DEF pulse
  <2>2. led /\ off_at # 0 => sincePulse < HOLD + Lag
    <3>1. led /\ off_at # 0 => sincePulse < HOLD + Lag + 0
      BY <1>1 DEF PulseInv
    <3> QED
      BY <1>2, <3>1
  <2>3. led /\ off_at # 0 => 0 <= sincePulse /\ sincePulse < HOLD + 0 + LOOP_MAX
    BY <1>2, <2>2
  <2> QED
    BY <1>1, <2>1, <2>3 DEF PulseInv
<1>4. CASE activity_pulse
  <2>1. /\ led' = TRUE /\ off_at' = Plus(millis, HOLD) /\ (endsAtZero' <=> off_at' = 0)
        /\ sincePulse' = 0
    BY <1>1, <1>4 DEF activity_pulse
  <2>2. millis - 0 + HOLD = millis + HOLD /\ 0 < HOLD + 0 + LOOP_MAX
    BY <1>2
  <2>3. off_at' = (millis' - sincePulse' + HOLD) % CLOCK
    BY <1>1, <2>1, <2>2 DEF Plus
  <2> QED
    BY <1>1, <2>1, <2>2, <2>3 DEF PulseInv
<1> QED
  BY <1>3, <1>4 DEF Work

\* The hold is over for the loop when it was over at the loop's reading of the clock.
LEMMA HoldIsOver ==
  ASSUME TypeOK, LagInv, PulseInv, led, off_at # 0
  PROVE  time_reached_u32(now, off_at) <=> sincePulse - Lag >= HOLD
<1>1. /\ millis \in Time /\ now \in Time /\ off_at \in Time /\ sincePulse \in 0 .. SINCE_MAX
  BY DEF TypeOK
<1>2. /\ millis \in Int /\ now \in Int /\ off_at \in Int
      /\ 0 <= millis /\ millis < CLOCK /\ 0 <= now /\ now < CLOCK /\ 0 <= off_at /\ off_at < CLOCK
      /\ sincePulse \in Nat
  BY <1>1, TimeIsInt, Bounds
<1>3. /\ Lag \in Nat
      /\ millis >= now => Lag = millis - now
      /\ millis < now => Lag = millis - now + CLOCK
  BY <1>1, Between, Measures DEF Lag
<1> DEFINE e == millis - sincePulse + HOLD
           extra == IF pc = "leds" THEN LOOP_MAX ELSE 0
<1>4. /\ off_at = e % CLOCK /\ Lag <= sincePulse /\ sincePulse < HOLD + Lag + extra
      /\ Lag <= LOOP_MAX
  BY DEF PulseInv, LagInv
<1>5. extra \in Nat /\ extra <= LOOP_MAX
  BY Sizes
<1> HIDE DEF extra
<1>6. e \in Int /\ -CLOCK <= e /\ e < 2 * CLOCK
  BY <1>2, <1>3, <1>4, <1>5, Sizes
<1>7. /\ e < 0 => off_at = e + CLOCK
      /\ 0 <= e /\ e < CLOCK => off_at = e
      /\ CLOCK <= e => off_at = e - CLOCK
  <2> HIDE DEF e
  <2> QED
    BY <1>4, <1>6, Wraps
<1> DEFINE back == (now - off_at) % CLOCK
           s == sincePulse - Lag - HOLD
<1>8. /\ now >= off_at => back = now - off_at
      /\ now < off_at => back = now - off_at + CLOCK
  BY <1>1, Between
<1> HIDE DEF back
<1>9. s \in Int /\ s >= -HOLD /\ s < LOOP_MAX
  BY <1>2, <1>3, <1>4, <1>5, Sizes
<1>10. (s >= 0 => back = s) /\ (s < 0 => back = s + CLOCK)
  BY <1>2, <1>3, <1>4, <1>5, <1>6, <1>7, <1>8, <1>9, Sizes
<1>11. s >= 0 <=> sincePulse - Lag >= HOLD
  BY <1>2, <1>3, Sizes
<1> HIDE DEF s
<1>12. back < CLOCK \div 2 <=> s >= 0
  BY <1>9, <1>10, Sizes
<1> QED
  BY <1>11, <1>12 DEF time_reached_u32, back

\* The loop looks at the LED: it goes out when its hold is over.
LEMMA PulseOfLeds ==
  ASSUME TypeOK, LagInv, PulseInv, Leds
  PROVE  PulseInv'
<1>1. /\ Lag' = Lag /\ pc' = "top" /\ millis' = millis
      /\ endsAtZero' = endsAtZero /\ sincePulse' = sincePulse
  BY DEF Leds, activity_step, Lag
<1>2. sincePulse \in Nat /\ Lag \in Nat /\ HOLD \in Nat
  BY Sizes, Bounds, Measures DEF TypeOK
<1>3. CASE off_at # 0 /\ time_reached_u32(now, off_at)
  <2>1. led' = FALSE
    BY <1>3 DEF Leds, activity_step
  <2>2. sincePulse >= HOLD
    <3>1. CASE led
      BY <1>2, <1>3, <3>1, HoldIsOver
    <3>2. CASE ~led
      BY <3>2 DEF PulseInv
    <3> QED
      BY <3>1, <3>2
  <2> QED
    BY <1>1, <2>1, <2>2 DEF PulseInv
<1>4. CASE ~(off_at # 0 /\ time_reached_u32(now, off_at))
  <2>1. led' = led /\ off_at' = off_at
    BY <1>4 DEF Leds, activity_step
  <2>2. led /\ off_at # 0 => sincePulse < HOLD + Lag + 0
    BY <1>2, <1>4, HoldIsOver
  <2> QED
    BY <1>1, <2>1, <2>2 DEF PulseInv
<1> QED
  BY <1>3, <1>4

\* A lit LED whose hold will end is younger than the bound of its history clock.
LEMMA PulseIsYoung ==
  ASSUME TypeOK, PulseInv, led, off_at # 0, Lag < LOOP_MAX
  PROVE  sincePulse < SINCE_MAX
<1> DEFINE extra == IF pc = "leds" THEN LOOP_MAX ELSE 0
<1>1. sincePulse < HOLD + Lag + extra
  BY DEF PulseInv
<1>2. extra \in Nat /\ extra <= LOOP_MAX
  BY Sizes
<1>3. sincePulse \in Nat /\ Lag \in Nat
  BY Bounds, Measures DEF TypeOK
<1> HIDE DEF extra
<1> QED
  BY <1>1, <1>2, <1>3, Sizes DEF SINCE_MAX

\* A tick passes.
LEMMA PulseOfTick ==
  ASSUME TypeOK, LagInv, PulseInv, SysTick_Handler
  PROVE  PulseInv'
<1>1. /\ Lag < LOOP_MAX /\ Lag' = Lag + 1 /\ pc' = pc
      /\ led' = led /\ off_at' = off_at /\ endsAtZero' = endsAtZero
      /\ millis' = Plus(millis, 1)
      /\ sincePulse' = IF sincePulse = SINCE_MAX \/ (~led /\ sincePulse >= HOLD)
                         THEN SINCE_MAX ELSE sincePulse + 1
  BY MeasuresOfTick DEF SysTick_Handler
<1>2. sincePulse \in Nat /\ Lag \in Nat /\ HOLD \in Nat /\ millis \in Time /\ 1 \in 0 .. CLOCK
  BY Sizes, Bounds, Measures DEF TypeOK
<1>3. ~led' => sincePulse' >= HOLD
  BY <1>1, <1>2, Bounds DEF PulseInv
<1>4. ASSUME led', off_at' # 0
      PROVE  /\ off_at' = (millis' - sincePulse' + HOLD) % CLOCK
             /\ Lag' <= sincePulse'
             /\ sincePulse' < HOLD + Lag' + (IF pc' = "leds" THEN LOOP_MAX ELSE 0)
  <2> DEFINE extra == IF pc = "leds" THEN LOOP_MAX ELSE 0
             e == millis - sincePulse + HOLD
  <2>1. off_at = e % CLOCK /\ Lag <= sincePulse /\ sincePulse < HOLD + Lag + extra
    BY <1>1, <1>4 DEF PulseInv
  <2>2. extra \in Nat /\ extra <= LOOP_MAX
    BY Sizes
  <2>3. sincePulse' = sincePulse + 1
    <3>1. led /\ off_at # 0 /\ Lag < LOOP_MAX
      BY <1>1, <1>4
    <3>2. sincePulse < SINCE_MAX
      BY <3>1, PulseIsYoung
    <3>3. sincePulse # SINCE_MAX
      BY <1>2, <3>2, Bounds
    <3> QED
      BY <1>1, <3>1, <3>3
  <2>4. /\ millis' \in Time
        /\ millis + 1 < CLOCK => millis' = millis + 1
        /\ millis + 1 >= CLOCK => millis' = millis + 1 - CLOCK
    BY <1>1, <1>2, Later
  <2>5. /\ millis \in Int /\ 0 <= millis /\ millis < CLOCK
        /\ millis' \in Int /\ 0 <= millis' /\ millis' < CLOCK
    BY <1>2, <2>4, TimeIsInt
  <2> HIDE DEF extra
  <2> DEFINE f == millis' - sincePulse' + HOLD
  <2>6. f = e \/ f = e - CLOCK
    <3>1. CASE millis + 1 < CLOCK
      <4>1. millis' = millis + 1
        BY <2>4, <3>1
      <4> QED
        BY <1>2, <2>3, <2>5, <4>1
    <3>2. CASE millis + 1 >= CLOCK
      <4>1. millis' = millis + 1 - CLOCK
        BY <2>4, <3>2
      <4> QED
        BY <1>2, <2>3, <2>5, <4>1, Sizes
    <3>3. millis + 1 < CLOCK \/ millis + 1 >= CLOCK
      BY <2>5, Sizes
    <3> QED
      BY <3>1, <3>2, <3>3
  <2>7. e \in Int /\ CLOCK \in Nat /\ CLOCK > 0
    BY <1>2, <2>5, Sizes
  <2>8. (e + (-1) * CLOCK) % CLOCK = e % CLOCK
    <3> HIDE DEF e
    <3>1. \A a, i \in Int : (a + i * CLOCK) % CLOCK = a % CLOCK
      BY <2>7, RemainderOfMultiple, Zenon
    <3> QED
      BY <2>7, <3>1
  <2>9. e - CLOCK = e + (-1) * CLOCK
    BY <2>7
  <2>10. f % CLOCK = e % CLOCK
    <3> HIDE DEF e, f
    <3> QED
      BY <2>6, <2>8, <2>9
  <2>11. Lag' <= sincePulse' /\ sincePulse' < HOLD + Lag' + extra
    BY <1>1, <1>2, <2>1, <2>2, <2>3, Sizes
  <2> QED
    BY <1>1, <2>1, <2>10, <2>11 DEF extra
<1>5. led' => (endsAtZero' <=> off_at' = 0)
  BY <1>1 DEF PulseInv
<1> QED
  BY <1>3, <1>4, <1>5 DEF PulseInv

\* What the history says of a pulse.
LEMMA PulseShows ==
  ASSUME TypeOK, LagInv, PulseInv
  PROVE  PulseEnds
<1>1. ASSUME sincePulse = SINCE_MAX, led PROVE endsAtZero
  <2>1. SUFFICES ASSUME off_at # 0 PROVE FALSE
    BY <1>1 DEF PulseInv
  <2> DEFINE extra == IF pc = "leds" THEN LOOP_MAX ELSE 0
  <2>2. sincePulse < HOLD + Lag + extra
    BY <1>1, <2>1 DEF PulseInv
  <2>3. extra \in Nat /\ extra <= LOOP_MAX
    BY Sizes
  <2>4. sincePulse \in Nat /\ Lag \in Nat /\ Lag <= LOOP_MAX
    BY Bounds, Measures DEF TypeOK, LagInv
  <2> HIDE DEF extra
  <2> QED
    BY <1>1, <2>2, <2>3, <2>4, Sizes DEF SINCE_MAX
<1> QED
  BY <1>1 DEF PulseEnds, PulseInv
-----------------------------------------------------------------------------
(* The status LED. *)

\* A lamp that shows the colour for the present state tells the truth about it.
LEMMA SettledIsTruthful ==
  ASSUME TypeOK, HealthInv, LampInv, Settled, ~ws_busy
  PROVE  Truthful
<1> DEFINE init == ~tof \/ pmw # "serving"
           pattern == select_pattern(init)
<1>1. last \in Shades(pattern)
  BY DEF Settled
<1>2. last # "none"
  <2>1. Shades(pattern) \subseteq Colours
    BY ShadesType
  <2> QED
    BY <1>1, <2>1 DEF Colours
<1>3. lamp \in Shades(pattern)
  BY <1>1, <1>2 DEF LampInv
<1>4. health = (IF pmw = "faulted" THEN {"PMW_FAULT"} ELSE {})
               \cup (IF tof THEN {} ELSE {"TOF_FAULT"})
               \cup (IF bus_off THEN {"CAN_BUS_OFF"} ELSE {})
  BY <1>2 DEF HealthInv
<1>5. pmw \in {"starting", "serving", "faulted"} /\ tof \in BOOLEAN /\ bus_off \in BOOLEAN
  BY DEF TypeOK, Sensor
<1>6. /\ pattern \in {"blue", "green"} => lamp = pattern
      /\ pattern = "fast red" => lamp \in {"red", "off"}
      /\ pattern \notin {"blue", "green", "fast red"} => lamp \in {pattern, "off"}
  BY <1>3 DEF Shades
<1>7. CASE bus_off
  <2>1. pattern = "purple"
    BY <1>4, <1>7 DEF select_pattern
  <2> QED
    BY <1>6, <1>7, <2>1 DEF Truthful
<1>8. CASE ~bus_off /\ pmw = "faulted" /\ ~tof
  <2>1. health = {"PMW_FAULT", "TOF_FAULT"}
    BY <1>4, <1>8
  <2>2. pattern = "fast red"
    BY <2>1 DEF select_pattern
  <2> QED
    BY <1>6, <1>8, <2>2 DEF Truthful
<1>9. CASE ~bus_off /\ pmw = "faulted" /\ tof
  <2>1. health = {"PMW_FAULT"}
    BY <1>4, <1>9
  <2>2. pattern = "red"
    BY <2>1 DEF select_pattern
  <2> QED
    BY <1>6, <1>9, <2>2 DEF Truthful
<1>10. CASE ~bus_off /\ pmw # "faulted" /\ ~tof
  <2>1. health = {"TOF_FAULT"}
    BY <1>4, <1>10
  <2>2. pattern = "yellow"
    BY <2>1 DEF select_pattern
  <2> QED
    BY <1>6, <1>10, <2>2 DEF Truthful
<1>11. CASE ~bus_off /\ pmw = "starting" /\ tof
  <2>1. health = {} /\ init
    BY <1>4, <1>11
  <2>2. pattern = "blue"
    BY <2>1 DEF select_pattern
  <2> QED
    BY <1>6, <1>11, <2>2 DEF Truthful
<1>12. CASE ~bus_off /\ pmw = "serving" /\ tof
  <2>1. health = {} /\ ~init
    BY <1>4, <1>12
  <2>2. pattern = "green"
    BY <2>1 DEF select_pattern
  <2> QED
    BY <1>6, <1>12, <2>2 DEF Truthful
<1> QED
  BY <1>5, <1>7, <1>8, <1>9, <1>10, <1>11, <1>12

\* What the lamp part of the invariant says, without the divisions.
LEMMA Measured ==
  ASSUME TypeOK
  PROVE  /\ LeftBehind <=> Gap > LAMP_GAP /\ Gap <= CLOCK \div 2
         /\ wrongFor \in Nat
<1>1. Gap \in Nat /\ LAMP_GAP \in Nat /\ CLOCK \div 2 \in Nat
  BY Measures, Sizes
<1>2. LeftBehind <=> Gap \in LAMP_GAP + 1 .. CLOCK \div 2
  BY DEF LeftBehind, Gap
<1>3. wrongFor \in Nat
  BY Bounds DEF TypeOK
<1> QED
  BY <1>1, <1>2, <1>3

\* The colour last sent stays settled as long as what it depends on lasts.
LEMMA SettledLasts ==
  ASSUME UNCHANGED <<last, health, tof, pmw>>
  PROVE  Settled' <=> Settled
BY DEF Settled, Shades, select_pattern

\* Nothing is settled before the first colour.
LEMMA NothingSent ==
  ASSUME last = "none"
  PROVE  ~Settled
<1>1. Shades(select_pattern(~tof \/ pmw # "serving")) \subseteq Colours
  BY ShadesType
<1> QED
  BY <1>1 DEF Settled, Colours

\* The loop looks at the sensors and the bus: a change starts the count anew.
LEMMA LampOfWork ==
  ASSUME TypeOK, LagInv, LampPart, Work, TypeOK'
  PROVE  LampPart'
<1>1. /\ Lag' = 0 /\ Gap' = Gap /\ pc = "top" /\ pc' = "leds"
      /\ lamp' = lamp /\ last' = last /\ next' = next /\ ws_busy' = ws_busy /\ millis' = millis
  BY MeasuresOfWork DEF Work, drive
<1>2. HealthInv'
  BY DEF Work, Health, HealthInv
<1>3. LeftBehind' <=> LeftBehind
  BY <1>1 DEF LeftBehind
<1>4. wrongFor' = 0 \/ wrongFor' = wrongFor
  BY DEF Work
<1>5. ~Settled' => wrongFor' = 0 \/ (wrongFor' = wrongFor /\ ~Settled)
  <2>1. CASE UNCHANGED <<pmw, tof, bus_off>>
    <3>1. last # "none" => health' = health
      BY <1>1, <1>2, <2>1 DEF LampPart, HealthInv
    <3>2. last # "none" => (Settled' <=> Settled)
      BY <1>1, <2>1, <3>1, SettledLasts
    <3> QED
      BY <1>4, <3>2, NothingSent
  <2>2. CASE ~UNCHANGED <<pmw, tof, bus_off>>
    BY <2>2 DEF Work
  <2> QED
    BY <2>1, <2>2
<1>6. LampInv'
  BY <1>1, <1>5 DEF LampPart, LampInv
<1>7. LampIsTruthful'
  BY <1>4, Bounds DEF LampPart, LampIsTruthful, WRONG_MAX
<1>8. ASSUME ~Settled', ~LeftBehind' PROVE Waiting'
  <2>1. /\ Gap \in Nat /\ Lag \in Nat /\ wrongFor \in Nat /\ Gap < CLOCK /\ Lag <= LOOP_MAX
        /\ CLOCK \in Nat /\ LAMP_GAP \in Nat /\ LOOP_MAX \in Nat
        /\ LAMP_GAP > 0 /\ LOOP_MAX > 0
    BY Measures, Measured, Sizes DEF LagInv
  <2>2. CASE wrongFor' = 0
    BY <1>1, <2>1, <2>2 DEF Waiting
  <2>3. CASE wrongFor' = wrongFor /\ ~Settled
    <3>1. Waiting
      BY <1>3, <1>8, <2>3 DEF LampPart
    <3>2. Gap <= LAMP_GAP => wrongFor + Gap <= LAMP_GAP
      BY <3>1 DEF Waiting
    <3>3. Gap > LAMP_GAP =>
            /\ wrongFor + Gap <= LAMP_GAP + CLOCK
            /\ Gap + Lag >= CLOCK + 1 - LOOP_MAX \/ wrongFor = 0
      BY <1>1, <3>1 DEF Waiting
    <3>4. wrongFor < LAMP_GAP + Lag + 0
      BY <1>1, <3>1 DEF Waiting
    <3>5. Gap' <= LAMP_GAP => wrongFor' + Gap' <= LAMP_GAP
      BY <1>1, <2>3, <3>2
    <3>6. Gap' > LAMP_GAP =>
            /\ wrongFor' + Gap' <= LAMP_GAP + CLOCK
            /\ Gap' + Lag' >= CLOCK + 1 - 2 * LOOP_MAX \/ wrongFor' <= Lag'
      BY <1>1, <2>1, <2>3, <3>3
    <3>7. wrongFor' < LAMP_GAP + Lag' + LOOP_MAX
      BY <1>1, <2>1, <2>3, <3>4
    <3> QED
      BY <1>1, <3>5, <3>6, <3>7 DEF Waiting
  <2> QED
    BY <1>5, <1>8, <2>2, <2>3
<1> QED
  BY <1>2, <1>6, <1>7, <1>8 DEF LampPart

\* The end of the gap, as the loop sees it.
LEMMA GapIsOver ==
  ASSUME TypeOK, LagInv
  PROVE  /\ Gap + Lag = 0 => time_reached_u32(now, next)
         /\ Gap + Lag = CLOCK => time_reached_u32(now, next)
         /\ Gap + Lag > CLOCK - (CLOCK \div 2) /\ Gap + Lag < CLOCK => time_reached_u32(now, next)
<1>1. /\ millis \in Time /\ now \in Time /\ next \in Time
  BY DEF TypeOK
<1>2. /\ millis \in Int /\ now \in Int /\ next \in Int
      /\ 0 <= millis /\ millis < CLOCK /\ 0 <= now /\ now < CLOCK /\ 0 <= next /\ next < CLOCK
  BY <1>1, TimeIsInt
<1> DEFINE a == Lag
           b == Gap
           back == (now - next) % CLOCK
<1>3. /\ a \in Nat /\ b \in Nat /\ a <= LOOP_MAX /\ b < CLOCK
      /\ millis >= now => a = millis - now
      /\ millis < now => a = millis - now + CLOCK
      /\ next >= millis => b = next - millis
      /\ next < millis => b = next - millis + CLOCK
      /\ now >= next => back = now - next
      /\ now < next => back = now - next + CLOCK
  BY <1>1, Between, Measures DEF Lag, Gap, LagInv
<1>4. time_reached_u32(now, next) <=> back < CLOCK \div 2
  BY DEF time_reached_u32
<1> HIDE DEF a, b, back
<1>5. /\ a + b = 0 => back = 0
      /\ a + b > 0 /\ a + b <= CLOCK => back = CLOCK - (a + b)
  BY <1>2, <1>3, Sizes
<1>6. CLOCK \div 2 > 0
  BY Sizes
<1>7. /\ b + a = 0 => back < CLOCK \div 2
      /\ b + a = CLOCK => back < CLOCK \div 2
      /\ b + a > CLOCK - (CLOCK \div 2) /\ b + a < CLOCK => back < CLOCK \div 2
  BY <1>3, <1>5, <1>6, Sizes
<1> QED
  BY <1>4, <1>7 DEF a, b

\* A transfer begins: the gap is counted from the loop's reading of the clock.
LEMMA GapOfSending ==
  ASSUME TypeOK, LagInv, next' = Plus(now, LAMP_GAP), millis' = millis
  PROVE  Gap' <= LAMP_GAP \/ Gap' >= CLOCK + LAMP_GAP - LOOP_MAX
<1>1. /\ millis \in Time /\ now \in Time /\ LAMP_GAP \in 0 .. CLOCK
  BY Sizes DEF TypeOK
<1> DEFINE n == Plus(now, LAMP_GAP)
           a == Lag
           b == (n - millis) % CLOCK
<1>2. /\ n \in Time
      /\ now + LAMP_GAP < CLOCK => n = now + LAMP_GAP
      /\ now + LAMP_GAP >= CLOCK => n = now + LAMP_GAP - CLOCK
  BY <1>1, Later
<1> HIDE DEF n
<1>3. /\ millis \in Int /\ now \in Int /\ n \in Int
      /\ 0 <= millis /\ millis < CLOCK /\ 0 <= now /\ now < CLOCK /\ 0 <= n /\ n < CLOCK
  BY <1>1, <1>2, TimeIsInt
<1>4. /\ a \in Nat /\ a <= LOOP_MAX
      /\ millis >= now => a = millis - now
      /\ millis < now => a = millis - now + CLOCK
      /\ n >= millis => b = n - millis
      /\ n < millis => b = n - millis + CLOCK
  BY <1>1, <1>2, Between, Measures DEF Lag, LagInv
<1> HIDE DEF a, b
<1>5. b <= LAMP_GAP \/ b >= CLOCK + LAMP_GAP - LOOP_MAX
  BY <1>2, <1>3, <1>4, Sizes
<1>6. Gap' = b
  BY DEF Gap, b, n
<1> QED
  BY <1>5, <1>6

\* Between transfers the loop waits only for the end of the gap.
LEMMA WaitingOfLeds ==
  ASSUME TypeOK, LagInv, LampInv, Waiting, pc = "leds", ~Settled, ~LeftBehind,
         ws_busy \/ ~time_reached_u32(now, next)
  PROVE  /\ Gap <= LAMP_GAP => wrongFor + Gap <= LAMP_GAP
         /\ Gap > LAMP_GAP =>
              /\ wrongFor + Gap <= LAMP_GAP + CLOCK
              /\ \/ Gap + Lag >= CLOCK + 1 - LOOP_MAX
                 \/ wrongFor = 0 /\ Lag = 0 /\ Gap = (CLOCK \div 2) + 1
         /\ wrongFor < LAMP_GAP + Lag
<1> DEFINE a == Lag
           b == Gap
           h == CLOCK \div 2
<1>1. /\ a \in Nat /\ b \in Nat /\ a <= LOOP_MAX /\ b < CLOCK /\ wrongFor \in Nat
      /\ b <= LAMP_GAP \/ b > h
  BY Measures, Measured, Sizes DEF LagInv
<1>2. /\ b <= LAMP_GAP => wrongFor + b <= LAMP_GAP
      /\ b > LAMP_GAP => /\ wrongFor + b <= LAMP_GAP + CLOCK
                         /\ b + a >= CLOCK + 1 - 2 * LOOP_MAX \/ wrongFor <= a
  BY DEF Waiting
<1>3. ws_busy => wrongFor = 0 /\ (b <= LAMP_GAP \/ b >= CLOCK + LAMP_GAP - LOOP_MAX)
  BY DEF LampInv
<1>4. ~ws_busy => /\ b + a # 0 /\ b + a # CLOCK
                  /\ ~(b + a > CLOCK - h /\ b + a < CLOCK)
  <2>1. /\ b + a = 0 => time_reached_u32(now, next)
        /\ b + a = CLOCK => time_reached_u32(now, next)
        /\ b + a > CLOCK - h /\ b + a < CLOCK => time_reached_u32(now, next)
    BY GapIsOver
  <2> HIDE DEF a, b, h
  <2> QED
    BY <2>1
<1>5. h \in Nat /\ 2 * h <= CLOCK /\ CLOCK <= 2 * h + 1
  BY Sizes
<1> DEFINE Result ==
             /\ b <= LAMP_GAP => wrongFor + b <= LAMP_GAP
             /\ b > LAMP_GAP =>
                  /\ wrongFor + b <= LAMP_GAP + CLOCK
                  /\ \/ b + a >= CLOCK + 1 - LOOP_MAX
                     \/ wrongFor = 0 /\ a = 0 /\ b = h + 1
             /\ wrongFor < LAMP_GAP + a
<1> SUFFICES Result
  BY Zenon
<1> HIDE DEF a, b, h
<1>6. CASE ws_busy
  BY <1>1, <1>2, <1>3, <1>5, <1>6, Sizes
<1>7. CASE ~ws_busy /\ b <= LAMP_GAP
  BY <1>1, <1>2, <1>4, <1>5, <1>7, Sizes
<1>8. CASE ~ws_busy /\ b > LAMP_GAP
  <2>1. b > h
    BY <1>1, <1>5, <1>8, Sizes
  <2>2. b + a > CLOCK \/ (b + a <= CLOCK - h)
    BY <1>1, <1>4, <1>5, <1>8, Sizes
  <2>3. CASE b + a > CLOCK
    BY <1>1, <1>2, <1>5, <1>8, <2>3, Sizes
  <2>4. CASE b + a <= CLOCK - h
    <3>1. a = 0 /\ b = h + 1
      BY <1>1, <1>5, <2>1, <2>4, Sizes
    <3>2. wrongFor = 0
      BY <1>1, <1>2, <1>5, <1>8, <3>1, Sizes
    <3>3. b > LAMP_GAP /\ wrongFor + b <= LAMP_GAP + CLOCK
      BY <1>2, <1>8
    <3> QED
      BY <3>1, <3>2, <3>3, Sizes
  <2> QED
    BY <2>2, <2>3, <2>4
<1>9. b <= LAMP_GAP \/ b > LAMP_GAP
  BY <1>1, Sizes
<1> HIDE DEF Result
<1> QED
  BY <1>6, <1>7, <1>8, <1>9

\* The loop sends a colour that is for the present state, or waits.
LEMMA LampOfLeds ==
  ASSUME TypeOK, LagInv, LampPart, Leds
  PROVE  LampPart'
<1>1. /\ Lag' = Lag /\ pc = "leds" /\ pc' = "top" /\ wrongFor' = wrongFor
      /\ millis' = millis /\ now' = now /\ lamp' = lamp
      /\ pmw' = pmw /\ tof' = tof /\ bus_off' = bus_off /\ health' = health
  BY DEF Leds, world, Lag
<1>2. HealthInv'
  BY <1>1 DEF LampPart, HealthInv
<1>3. LampIsTruthful'
  BY <1>1 DEF LampPart, LampIsTruthful, WRONG_MAX
<1>4. PICK colour \in Shades(select_pattern(~tof \/ pmw # "serving")) :
        IF colour # last /\ time_reached_u32(now, next) /\ ~ws_busy
          THEN platform_ws2812_start /\ last' = colour /\ next' = Plus(now, LAMP_GAP)
          ELSE UNCHANGED drive
  BY DEF Leds, status_led_step
<1>5. CASE colour # last /\ time_reached_u32(now, next) /\ ~ws_busy
  <2>1. last' = colour /\ next' = Plus(now, LAMP_GAP) /\ ws_busy' = TRUE
    BY <1>4, <1>5 DEF platform_ws2812_start
  <2>2. Settled'
    BY <1>1, <1>4, <2>1 DEF Settled, Shades, select_pattern
  <2>3. Gap' <= LAMP_GAP \/ Gap' >= CLOCK + LAMP_GAP - LOOP_MAX
    BY <1>1, <2>1, GapOfSending
  <2>4. last' # "none"
    <3>1. Shades(select_pattern(~tof \/ pmw # "serving")) \subseteq Colours
      BY ShadesType
    <3> QED
      BY <1>4, <2>1, <3>1 DEF Colours
  <2>5. LampInv'
    BY <2>1, <2>2, <2>3, <2>4 DEF LampInv
  <2> QED
    BY <1>2, <1>3, <2>2, <2>5 DEF LampPart
<1>6. CASE ~(colour # last /\ time_reached_u32(now, next) /\ ~ws_busy)
  <2>1. last' = last /\ next' = next /\ ws_busy' = ws_busy
    BY <1>4, <1>6 DEF drive
  <2>2. Gap' = Gap /\ (LeftBehind' <=> LeftBehind) /\ (Settled' <=> Settled)
    <3>1. Settled' <=> Settled
      BY <1>1, <2>1, SettledLasts
    <3> QED
      BY <1>1, <2>1, <3>1 DEF Gap, LeftBehind
  <2>3. LampInv'
    BY <1>1, <2>1, <2>2 DEF LampPart, LampInv
  <2>4. ASSUME ~Settled', ~LeftBehind' PROVE Waiting'
    <3>1. ~Settled /\ ~LeftBehind /\ Waiting /\ LampInv
      BY <2>2, <2>4 DEF LampPart
    <3>2. colour # last
      BY <1>4, <3>1 DEF Settled
    <3>3. ws_busy \/ ~time_reached_u32(now, next)
      BY <1>6, <3>2
    <3>4. /\ Gap <= LAMP_GAP => wrongFor + Gap <= LAMP_GAP
          /\ Gap > LAMP_GAP =>
               /\ wrongFor + Gap <= LAMP_GAP + CLOCK
               /\ \/ Gap + Lag >= CLOCK + 1 - LOOP_MAX
                  \/ wrongFor = 0 /\ Lag = 0 /\ Gap = (CLOCK \div 2) + 1
          /\ wrongFor < LAMP_GAP + Lag
      BY <1>1, <3>1, <3>3, WaitingOfLeds
    <3>5. Lag \in Nat /\ LAMP_GAP \in Nat /\ LAMP_GAP + Lag + 0 = LAMP_GAP + Lag
      BY Measures, Sizes
    <3>6. wrongFor' < LAMP_GAP + Lag' + (IF pc' = "leds" THEN LOOP_MAX ELSE 0)
      BY <1>1, <3>4, <3>5
    <3> QED
      BY <1>1, <2>2, <3>4, <3>6 DEF Waiting
  <2> QED
    BY <1>2, <1>3, <2>3, <2>4 DEF LampPart
<1> QED
  BY <1>5, <1>6

\* The transfer ends: the lamp shows the colour.
LEMMA LampOfDma ==
  ASSUME LampPart, DMA1_Channel2_IRQHandler
  PROVE  LampPart'
<1>1. /\ pc' = pc /\ millis' = millis /\ now' = now /\ next' = next /\ last' = last
      /\ pmw' = pmw /\ tof' = tof /\ bus_off' = bus_off /\ health' = health
      /\ wrongFor' = wrongFor /\ lamp' = last /\ ws_busy' = FALSE
  BY DEF DMA1_Channel2_IRQHandler, world
<1>2. Lag' = Lag /\ Gap' = Gap /\ (LeftBehind' <=> LeftBehind)
  BY <1>1 DEF Lag, Gap, LeftBehind
<1>3. Settled' <=> Settled
  BY <1>1, SettledLasts
<1>4. HealthInv'
  BY <1>1 DEF LampPart, HealthInv
<1>5. LampInv'
  BY <1>1 DEF LampInv
<1>6. Waiting' <=> Waiting
  BY <1>1, <1>2 DEF Waiting
<1>7. LampIsTruthful'
  BY <1>1 DEF LampPart, LampIsTruthful, WRONG_MAX
<1> QED
  BY <1>2, <1>3, <1>4, <1>5, <1>6, <1>7 DEF LampPart

\* While the lamp is wrong and waits for its gap, each tick brings the end of the gap
\* nearer.
LEMMA WaitingOfTick ==
  ASSUME TypeOK, LagInv, SysTick_Handler, TypeOK',
         ~LeftBehind', ~LeftBehind => Waiting,
         wrongFor' = 0 \/ (~LeftBehind /\ wrongFor' <= wrongFor + 1)
  PROVE  Waiting'
<1> DEFINE a == Lag
           b == Gap
           c == Gap'
           v == wrongFor'
           h == CLOCK \div 2
           extra == IF pc = "leds" THEN LOOP_MAX ELSE 0
<1>1. /\ a \in Nat /\ b \in Nat /\ b < CLOCK /\ wrongFor \in Nat
  BY Measures, Measured
<1>2. c \in Nat /\ v \in Nat
  <2>1. Gap \in Nat /\ CLOCK \in Nat /\ CLOCK > 0
    BY Measures, Sizes
  <2>2. c \in Nat
    BY <2>1, MeasuresOfTick
  <2>3. v \in Nat
    BY Bounds DEF TypeOK
  <2> QED
    BY <2>2, <2>3
<1>3. h \in Nat /\ 2 * h <= CLOCK /\ CLOCK <= 2 * h + 1
  BY Sizes
<1>4. /\ a < LOOP_MAX /\ Lag' = a + 1 /\ pc' = pc
      /\ b = 0 => c = CLOCK - 1
      /\ b > 0 => c = b - 1
  BY MeasuresOfTick DEF SysTick_Handler
<1>5. LeftBehind <=> b > LAMP_GAP /\ b <= h
  BY Measured
<1>6. ~(c > LAMP_GAP /\ c <= h)
  <2>1. LeftBehind' <=> Gap' \in LAMP_GAP + 1 .. CLOCK \div 2
    BY DEF LeftBehind, Gap
  <2>2. ~(c \in LAMP_GAP + 1 .. h)
    BY <2>1
  <2> HIDE DEF c, h
  <2> QED
    BY <1>2, <1>3, <2>2, Sizes
<1>7. pc \in {"top", "leds"}
  BY DEF TypeOK
<1>8. ~LeftBehind =>
        /\ b <= LAMP_GAP => wrongFor + b <= LAMP_GAP
        /\ b > LAMP_GAP =>
             /\ wrongFor + b <= LAMP_GAP + CLOCK
             /\ pc = "top" => b + a >= CLOCK + 1 - LOOP_MAX \/ (wrongFor = 0 /\ a = 0 /\ b = h + 1)
             /\ pc = "leds" => b + a >= CLOCK + 1 - 2 * LOOP_MAX \/ wrongFor <= a
        /\ wrongFor < LAMP_GAP + a + extra
  BY DEF Waiting
<1>9. v = 0 \/ (~LeftBehind /\ v <= wrongFor + 1)
  OBVIOUS
<1>10. extra \in Nat
  BY Sizes
<1> HIDE DEF a, b, c, v, h, extra
<1>11. c <= LAMP_GAP => v + c <= LAMP_GAP
  BY <1>1, <1>2, <1>3, <1>4, <1>5, <1>8, <1>9, Sizes
<1>12. c > LAMP_GAP => v + c <= LAMP_GAP + CLOCK
  BY <1>1, <1>2, <1>3, <1>4, <1>5, <1>8, <1>9, Sizes
<1>13. c > LAMP_GAP /\ pc = "top" => c + (a + 1) >= CLOCK + 1 - LOOP_MAX
  BY <1>1, <1>2, <1>3, <1>4, <1>5, <1>6, <1>8, Sizes
<1>14. c > LAMP_GAP /\ pc = "leds" => c + (a + 1) >= CLOCK + 1 - 2 * LOOP_MAX \/ v <= a + 1
  BY <1>1, <1>2, <1>3, <1>4, <1>5, <1>6, <1>8, <1>9, Sizes
<1>15. v < LAMP_GAP + (a + 1) + extra
  BY <1>1, <1>2, <1>8, <1>9, <1>10, Sizes
<1> QED
  BY <1>4, <1>11, <1>12, <1>13, <1>14, <1>15 DEF Waiting, c, v, extra

\* A tick passes: the count goes on only while a colour waits for its gap.
LEMMA LampOfTick ==
  ASSUME TypeOK, LagInv, LampPart, SysTick_Handler, TypeOK'
  PROVE  LampPart'
<1>1. /\ pc' = pc /\ now' = now /\ next' = next /\ last' = last /\ lamp' = lamp
      /\ pmw' = pmw /\ tof' = tof /\ bus_off' = bus_off /\ health' = health
      /\ ws_busy = FALSE /\ ws_busy' = FALSE
      /\ wrongFor' = IF Truthful \/ LeftBehind THEN 0
                     ELSE IF wrongFor < WRONG_MAX THEN wrongFor + 1 ELSE wrongFor
  BY DEF SysTick_Handler, world, drive, TypeOK
<1>2. Settled' <=> Settled
  BY <1>1, SettledLasts
<1>3. HealthInv'
  BY <1>1 DEF LampPart, HealthInv
<1>4. LampInv'
  BY <1>1 DEF LampPart, LampInv
<1>5. wrongFor \in Nat
  BY Measured
<1>6. wrongFor' = 0 \/ (~LeftBehind /\ ~Settled /\ wrongFor' <= wrongFor + 1)
  <2>1. Settled => Truthful
    BY <1>1, SettledIsTruthful DEF LampPart
  <2> QED
    BY <1>1, <1>5, <2>1
<1>7. ASSUME ~Settled', ~LeftBehind' PROVE Waiting'
  BY <1>2, <1>6, <1>7, WaitingOfTick DEF LampPart
<1>8. LampIsTruthful'
  <2>1. CASE wrongFor' = 0
    BY <2>1, Bounds DEF LampIsTruthful, WRONG_MAX
  <2>2. CASE ~LeftBehind /\ ~Settled /\ wrongFor' <= wrongFor + 1
    <3> DEFINE extra == IF pc = "leds" THEN LOOP_MAX ELSE 0
    <3>1. wrongFor < LAMP_GAP + Lag + extra
      BY <2>2 DEF LampPart, Waiting
    <3>2. Lag \in Nat /\ Lag < LOOP_MAX
      BY Measures, MeasuresOfTick
    <3>3. extra \in Nat /\ extra <= LOOP_MAX
      BY Sizes
    <3>4. wrongFor' \in Nat
      BY Bounds DEF TypeOK
    <3> HIDE DEF extra
    <3>5. wrongFor' < LAMP_GAP + 2 * LOOP_MAX
      BY <1>5, <2>2, <3>1, <3>2, <3>3, <3>4, Sizes
    <3> QED
      BY <3>5 DEF LampIsTruthful, WRONG_MAX
  <2> QED
    BY <1>6, <2>1, <2>2
<1> QED
  BY <1>3, <1>4, <1>7, <1>8 DEF LampPart

-----------------------------------------------------------------------------
(* The invariant. *)

\* The clock reads 0 and everything has its initial value.
LEMMA AtZero ==
  ASSUME millis = 0, now = 0, deadline = PERIOD, phase = 0, led = FALSE, sincePulse = SINCE_MAX,
         pc = "top", last = "none", next = 0, ws_busy = FALSE, wrongFor = 0
  PROVE  LagInv /\ GridInv /\ PulseInv /\ LampPart
<1>1. 0 \in Time /\ PERIOD \in Time /\ PERIOD \in Int /\ PERIOD >= 0 /\ 0 >= 0 /\ 0 - 0 = 0
  BY Sizes DEF Time
<1>2. (0 - 0) % CLOCK = 0
  BY <1>1, Between
<1>3. (PERIOD - 0) % CLOCK = PERIOD
  <2>1. (PERIOD - 0) % CLOCK = PERIOD - 0
    BY <1>1, Between
  <2> QED
    BY <1>1, <2>1
<1>4. Lag = 0 /\ Gap = 0 /\ Ahead = PERIOD
  BY <1>2, <1>3 DEF Lag, Gap, Ahead
<1>5. LagInv
  BY <1>4, Sizes DEF LagInv
<1>6. GridInv
  <2>1. PERIOD \in Nat /\ PERIOD > 0 /\ PERIOD = PERIOD * 1 + 0
    BY Sizes
  <2>2. (PERIOD * 1 + 0) % PERIOD = 0
    BY <2>1, RemainderIsUnique
  <2>3. Ahead - Lag + phase = PERIOD * 1 + 0
    BY <1>4, <2>1
  <2>4. Ahead \in 1 .. PERIOD
    BY <1>4, <2>1
  <2> QED
    BY <2>2, <2>3, <2>4 DEF GridInv
<1>7. PulseInv
  BY Bounds DEF PulseInv
<1>8. HealthInv /\ LampInv
  BY DEF HealthInv, LampInv
<1>9. Waiting
  BY <1>4, Sizes DEF Waiting
<1>10. LampIsTruthful
  BY Bounds DEF LampIsTruthful
<1> QED
  BY <1>5, <1>6, <1>7, <1>8, <1>9, <1>10 DEF LampPart

\* main.c:16-29: the initial state.
LEMMA InvariantAtStart ==
  ASSUME Init
  PROVE  IInv
<1>1. LagInv /\ GridInv /\ PulseInv /\ LampPart
  BY AtZero DEF Init
<1> QED
  BY <1>1, TypeAtStart DEF IInv

\* Every step keeps the invariant.
LEMMA Inductive ==
  ASSUME IInv, [Next]_vars
  PROVE  IInv'
<1>1. TypeOK /\ LagInv /\ GridInv /\ PulseInv /\ LampPart
  BY DEF IInv
<1>2. TypeOK'
  BY <1>1, TypeKept DEF LampPart
<1>3. CASE Work
  <2>1. LagInv'
    BY <1>1, <1>3, MeasuresOfWork, Sizes DEF LagInv
  <2> QED
    BY <1>1, <1>2, <1>3, <2>1, GridOfWork, PulseOfWork, LampOfWork DEF IInv
<1>4. CASE Leds
  <2>1. LagInv' /\ GridInv'
    BY <1>1, <1>4 DEF Leds, LagInv, GridInv, Lag, Ahead, task
  <2> QED
    BY <1>1, <1>2, <1>4, <2>1, PulseOfLeds, LampOfLeds DEF IInv
<1>5. CASE DMA1_Channel2_IRQHandler
  <2>1. LagInv' /\ GridInv'
    BY <1>1, <1>5 DEF DMA1_Channel2_IRQHandler, LagInv, GridInv, Lag, Ahead, task
  <2>2. PulseInv'
    BY <1>1, <1>5 DEF DMA1_Channel2_IRQHandler, PulseInv, Lag, pulse
  <2> QED
    BY <1>1, <1>2, <1>5, <2>1, <2>2, LampOfDma DEF IInv
<1>6. CASE SysTick_Handler
  <2>1. LagInv'
    <3>1. Lag \in Nat
      BY <1>1, Measures
    <3> QED
      BY <1>1, <1>6, <3>1, MeasuresOfTick, Sizes DEF LagInv
  <2> QED
    BY <1>1, <1>2, <1>6, <2>1, GridOfTick, PulseOfTick, LampOfTick DEF IInv
<1>7. CASE Restart
  <2>1. (LagInv /\ GridInv /\ PulseInv /\ LampPart)'
    <3>1. /\ millis' = 0 /\ now' = 0 /\ deadline' = PERIOD /\ phase' = 0 /\ led' = FALSE
          /\ sincePulse' = SINCE_MAX /\ pc' = "top" /\ last' = "none" /\ next' = 0
          /\ ws_busy' = FALSE /\ wrongFor' = 0
      BY <1>7 DEF Restart
    <3>2. (/\ millis = 0 /\ now = 0 /\ deadline = PERIOD /\ phase = 0 /\ led = FALSE
           /\ sincePulse = SINCE_MAX /\ pc = "top" /\ last = "none" /\ next = 0
           /\ ws_busy = FALSE /\ wrongFor = 0)'
      BY <3>1 DEF SINCE_MAX
    <3> QED
      BY <3>2, AtZero, PTL
  <2> QED
    BY <1>2, <2>1 DEF IInv
<1>8. CASE UNCHANGED vars
  <2>1. LagInv' /\ GridInv' /\ PulseInv'
    BY <1>1, <1>8 DEF vars, task, pulse, LagInv, GridInv, PulseInv, Lag, Ahead
  <2>2. /\ pc' = pc /\ now' = now /\ millis' = millis /\ next' = next /\ last' = last /\ lamp' = lamp
        /\ pmw' = pmw /\ tof' = tof /\ bus_off' = bus_off /\ health' = health
        /\ ws_busy' = ws_busy /\ wrongFor' = wrongFor
    BY <1>8 DEF vars, world, drive
  <2>3. Lag' = Lag /\ Gap' = Gap /\ (LeftBehind' <=> LeftBehind)
    BY <2>2 DEF Lag, Gap, LeftBehind
  <2>4. Settled' <=> Settled
    BY <2>2, SettledLasts
  <2>5. HealthInv' /\ LampInv'
    BY <1>1, <2>2, <2>3, <2>4 DEF LampPart, HealthInv, LampInv
  <2>6. Waiting' <=> Waiting
    BY <2>2, <2>3 DEF Waiting
  <2>7. LampIsTruthful'
    BY <1>1, <2>2 DEF LampPart, LampIsTruthful, WRONG_MAX
  <2>8. LampPart'
    BY <1>1, <2>3, <2>4, <2>5, <2>6, <2>7 DEF LampPart
  <2> QED
    BY <1>2, <2>1, <2>8 DEF IInv
<1> QED
  BY <1>3, <1>4, <1>5, <1>6, <1>7, <1>8 DEF Next

\* main.c:16-70: every reachable state of the loop, its LEDs and its clock has the
\* invariant.
THEOREM Invariant == Spec => []IInv
<1>1. Init => IInv
  BY InvariantAtStart
<1>2. IInv /\ [Next]_vars => IInv'
  BY Inductive
<1> QED
  BY <1>1, <1>2, PTL DEF Spec

\* main.c:16-70: every variable of the loop has its type.
THEOREM TypeCorrect == Spec => []TypeOK
<1>1. IInv => TypeOK
  BY DEF IInv
<1> QED
  BY <1>1, Invariant, PTL

\* scheduler.c:4: the releases of a task stay a period apart, counted from its
\* initialisation, wherever the clock wraps and however late the loop comes; once
\* asked, the scheduler names the first release to come.
THEOREM OnGrid == Spec => []GridIsKept
<1>1. IInv => GridIsKept
  BY GridShows DEF IInv
<1> QED
  BY <1>1, Invariant, PTL

\* activity.c:6-7: no pulse ends before its hold, and none lasts two iterations
\* longer, but for the one whose hold ends where the clock reads 0.
THEOREM PulsesEnd == Spec => []PulseEnds
<1>1. IInv => PulseEnds
  BY PulseShows DEF IInv
<1> QED
  BY <1>1, Invariant, PTL

\* status_led.c:25, main.c:35-41,65,69: what lasts is shown at most a gap and two
\* iterations late, unless one colour has kept the gap behind for half the clock.
THEOREM Truthfully == Spec => []LampIsTruthful
<1>1. IInv => LampIsTruthful
  BY DEF IInv, LampPart
<1> QED
  BY <1>1, Invariant, PTL
=============================================================================
