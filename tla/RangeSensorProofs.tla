------------------------- MODULE RangeSensorProofs -------------------------
(***************************************************************************)
(* Proofs about the range sensor for any clock width, any waits, any       *)
(* configuration table and any measurements.                               *)
(***************************************************************************)
EXTENDS RangeSensor, TLAPS

\* What the driver and the chip keep among themselves.
DriverInv ==
  /\ deadline \in Time /\ timeout \in Time
  /\ state \in States /\ init_index \in 0 .. CONFIG_LENGTH - 1
  /\ range \in Samples /\ result \in Samples
  /\ tof_irq \in BOOLEAN /\ connected \in BOOLEAN /\ xshut \in BOOLEAN
  /\ intact \in BOOLEAN /\ ranging \in BOOLEAN /\ ready \in BOOLEAN
  /\ wait \in 0 .. SAMPLE
  /\ range.status \in Distance => state = "RUNNING"
  /\ ChipIsOffInFault

\* What the loop adds: a sample is read, stored and waited for only by a driver
\* that runs, and the health bits follow the driver before anything is published.
LoopInv ==
  /\ pc \in {"top", "take", "step", "read", "clear", "expire", "health", "publish"}
  /\ now \in Time
  /\ irq_pending \in BOOLEAN /\ tofFault \in BOOLEAN
  /\ r \in Samples
  /\ pc \in {"read", "clear", "expire"} => state = "RUNNING"
  /\ pc = "publish" => (tofFault <=> state # "RUNNING")

IInv == DriverInv /\ LoopInv

\* Clock arithmetic stays on the clock.
LEMMA TimeIsClosed ==
  /\ 0 \in Time
  /\ \A t \in Time : Aged(t) \in Time
  /\ \A t \in Time, d \in 1 .. CLOCK - 1 : Plus(t, d) \in Time
BY RangeAssumption DEF Time, Aged, Plus

\* Every wait of the driver is a time ahead.
LEMMA Waits ==
  \A t \in Time : /\ Plus(t, WAKE) \in Time /\ Plus(t, POLL) \in Time
                  /\ Plus(t, TOF_BOOT_TIMEOUT) \in Time
                  /\ Plus(t, SAMPLE_TIMEOUT) \in Time /\ Plus(t, SENSOR_RETRY) \in Time
<1>1. {WAKE, POLL, TOF_BOOT_TIMEOUT, SAMPLE_TIMEOUT, SENSOR_RETRY} \subseteq 1 .. CLOCK - 1
  BY RangeAssumption
<1> QED
  BY <1>1, TimeIsClosed

\* A fault and the absence of a result are samples, and neither is a distance.
LEMMA NoDistance ==
  /\ NoResult \in Samples
  /\ [status |-> "FAULT", age |-> 0] \in Samples
  /\ NoResult.status \notin Distance
  /\ [status |-> "FAULT", age |-> 0].status \notin Distance
BY RangeAssumption DEF NoResult, Samples, Distance

\* A sample that grows older stays a sample of the same status.
LEMMA OlderIsSample ==
  ASSUME NEW sample \in Samples
  PROVE  Older(sample) \in Samples /\ Older(sample).status = sample.status
<1>1. CASE sample.status \notin Distance \/ sample.age = AGE_MAX
  BY <1>1 DEF Older
<1>2. CASE ~(sample.status \notin Distance \/ sample.age = AGE_MAX)
  <2>1. sample.age + 1 \in 0 .. AGE_MAX
    BY <1>2, RangeAssumption DEF Samples
  <2> QED
    BY <1>2, <2>1 DEF Older, Samples
<1> QED
  BY <1>1, <1>2

\* The two halves of the invariant are its properties and one fact more.
LEMMA Parts ==
  IInv <=> /\ TypeOK /\ DistanceIsHealthy /\ ChipIsOffInFault
           /\ pc \in {"read", "clear", "expire"} => state = "RUNNING"
BY DEF IInv, DriverInv, LoopInv, TypeOK, DistanceIsHealthy

\* The driver waits with the chip off, no sample and no fault.
LEMMA InitInvariant == Init => IInv
<1> SUFFICES ASSUME Init PROVE IInv
  OBVIOUS
<1>1. deadline \in Time /\ timeout \in Time /\ now \in Time
  BY RangeAssumption DEF Init, Time
<1>2. init_index \in 0 .. CONFIG_LENGTH - 1 /\ wait \in 0 .. SAMPLE
  BY RangeAssumption DEF Init
<1>3. range \in Samples /\ result \in Samples /\ r \in Samples /\ range.status \notin Distance
  BY NoDistance DEF Init, NoResult
<1>4. DriverInv
  BY <1>1, <1>2, <1>3 DEF Init, DriverInv, States, ChipIsOffInFault
<1>5. LoopInv
  BY <1>1, <1>3 DEF Init, LoopInv
<1> QED
  BY <1>4, <1>5 DEF IInv

\* A fault switches the chip off and takes the distance away.
LEMMA FaultInvariant ==
  ASSUME IInv, enter_fault
  PROVE  DriverInv' /\ state' = "RETRY_WAIT"
<1>1. deadline' \in Time
  BY Waits DEF enter_fault, IInv, LoopInv
<1>2. range' \in Samples /\ range'.status \notin Distance
  BY NoDistance DEF enter_fault
<1>3. ~ranging' /\ ~ready' /\ ~xshut' /\ wait' \in 0 .. SAMPLE /\ result' \in Samples
  BY NoDistance, RangeAssumption DEF enter_fault, ChipForgets
<1>4. /\ state' = "RETRY_WAIT"
      /\ UNCHANGED <<timeout, init_index, tof_irq, connected, intact>>
      /\ ranging' = FALSE /\ ready' = FALSE /\ xshut' = FALSE
  BY DEF enter_fault, ChipForgets
<1> QED
  BY <1>1, <1>2, <1>3, <1>4 DEF DriverInv, IInv, ChipIsOffInFault, States

\* Starting to range leaves the chip measuring or not, within its period.
LEMMA StartRangingTypes ==
  ASSUME StartRanging, intact \in BOOLEAN
  PROVE  ranging' \in BOOLEAN /\ wait' \in 0 .. SAMPLE
<1>1. ranging' = intact \/ ranging' = TRUE
  BY DEF StartRanging
<1>2. ranging' \in BOOLEAN
  BY <1>1
<1>3. wait' = SAMPLE \/ wait' = 0
  BY DEF StartRanging
<1>4. wait' \in 0 .. SAMPLE
  BY <1>3, RangeAssumption
<1> QED
  BY <1>2, <1>4

\* Clearing data-ready keeps the line and the latched interrupt in their types.
LEMMA DataReadyTypes ==
  ASSUME NEW new \in BOOLEAN, DataReady(new), tof_irq \in BOOLEAN
  PROVE  ready' \in BOOLEAN /\ tof_irq' \in BOOLEAN
<1>1. CASE tof_irq \/ (ready = ACTIVE_HIGH /\ new = ~ACTIVE_HIGH)
  <2>1. tof_irq' = TRUE
    BY <1>1 DEF DataReady
  <2> QED
    BY <2>1 DEF DataReady
<1>2. CASE ~(tof_irq \/ (ready = ACTIVE_HIGH /\ new = ~ACTIVE_HIGH))
  <2>1. tof_irq' = FALSE
    BY <1>2 DEF DataReady
  <2> QED
    BY <2>1 DEF DataReady
<1> QED
  BY <1>1, <1>2

\* The bring-up: the chip ranges only switched on, connected and past its table.
LEMMA BringUpInvariant ==
  ASSUME IInv, BringUpDue, BringUp
  PROVE  DriverInv'
<1> USE DEF IInv
<1>1. state # "RUNNING" /\ range.status \notin Distance
  BY DEF BringUpDue, DriverInv
<1>2. now \in Time
  BY DEF LoopInv
<1>3. CASE enter_fault
  BY <1>3, FaultInvariant
<1>4. CASE SwitchOn
  <2>1. deadline' \in Time /\ init_index' \in 0 .. CONFIG_LENGTH - 1
    BY <1>2, <1>4, Waits, RangeAssumption DEF SwitchOn
  <2>2. ~ranging
    BY <1>4 DEF SwitchOn, DriverInv, ChipIsOffInFault
  <2> QED
    BY <1>1, <1>4, <2>1, <2>2 DEF SwitchOn, DriverInv, ChipIsOffInFault, States
<1>5. CASE Configure /\ ~enter_fault
  <2>1. CASE /\ init_index < CONFIG_LENGTH - 1 /\ init_index' = init_index + 1
             /\ UNCHANGED <<state, deadline, timeout, range, tof_irq, chip>>
    <3>1. init_index' \in 0 .. CONFIG_LENGTH - 1
      BY <2>1, RangeAssumption DEF DriverInv
    <3> QED
      BY <2>1, <3>1 DEF DriverInv, ChipIsOffInFault, chip
  <2>2. CASE /\ connected /\ StartRanging /\ state' = "CALIBRATING"
             /\ timeout' = Plus(now, TOF_BOOT_TIMEOUT) /\ deadline' = Plus(now, POLL)
             /\ UNCHANGED <<init_index, range, tof_irq, connected, xshut, intact,
                            ready, result>>
    <3>1. timeout' \in Time /\ deadline' \in Time
      BY <1>2, <2>2, Waits
    <3>2. ranging' \in BOOLEAN /\ wait' \in 0 .. SAMPLE
      BY <2>2, StartRangingTypes DEF DriverInv
    <3>3. xshut
      BY <1>5 DEF Configure, DriverInv, ChipIsOffInFault
    <3> QED
      BY <1>1, <2>2, <3>1, <3>2, <3>3 DEF DriverInv, ChipIsOffInFault, States
  <2> QED
    BY <1>5, <2>1, <2>2 DEF Configure
<1>6. CASE Calibrate /\ ~enter_fault
  <2>1. CASE /\ connected /\ DataReady(FALSE) /\ StartRanging /\ state' = "RUNNING"
             /\ timeout' = Plus(now, SAMPLE_TIMEOUT)
             /\ UNCHANGED <<deadline, init_index, range, connected, xshut, intact, result>>
    <3>1. timeout' \in Time
      BY <1>2, <2>1, Waits
    <3>2. ranging' \in BOOLEAN /\ wait' \in 0 .. SAMPLE
      BY <2>1, StartRangingTypes DEF DriverInv
    <3>3. ready' \in BOOLEAN /\ tof_irq' \in BOOLEAN
      BY <2>1, DataReadyTypes DEF DriverInv
    <3>4. xshut
      BY <1>6 DEF Calibrate, DriverInv, ChipIsOffInFault
    <3> QED
      BY <2>1, <3>1, <3>2, <3>3, <3>4 DEF DriverInv, ChipIsOffInFault, States
  <2>2. CASE /\ deadline' = Plus(now, POLL)
             /\ UNCHANGED <<state, timeout, init_index, range, tof_irq, chip>>
    <3>1. deadline' \in Time
      BY <1>2, <2>2, Waits
    <3> QED
      BY <2>2, <3>1 DEF DriverInv, ChipIsOffInFault, chip
  <2> QED
    BY <1>6, <2>1, <2>2 DEF Calibrate
<1> QED
  BY <1>3, <1>4, <1>5, <1>6 DEF BringUp

\* What the loop does not write it keeps.
LEMMA LoopKeeps ==
  ASSUME IInv, UNCHANGED <<now, irq_pending, tofFault, r>>,
         pc' \in {"top", "take", "step", "read", "clear", "expire", "health"},
         pc' \in {"read", "clear", "expire"} => state' = "RUNNING"
  PROVE  LoopInv'
BY DEF IInv, LoopInv

\* The driver reads a sample, or waits for one, only where it runs.
LEMMA StepInvariant == IInv /\ Step => IInv'
<1> SUFFICES ASSUME IInv, Step PROVE IInv'
  OBVIOUS
<1>1. DriverInv'
  <2>1. CASE BringUpDue
    BY <2>1, BringUpInvariant DEF Step
  <2>2. CASE ~BringUpDue
    BY <2>2 DEF Step, IInv, DriverInv, ChipIsOffInFault, chip
  <2> QED
    BY <2>1, <2>2
<1>2. /\ pc' \in {"read", "expire", "health"}
      /\ pc' \in {"read", "expire"} => state' = "RUNNING"
  BY DEF Step
<1>3. LoopInv'
  BY <1>2, LoopKeeps DEF Step
<1> QED
  BY <1>1, <1>3 DEF IInv

\* A driver that cannot read its sample gives up.
LEMMA GetResultInvariant == IInv /\ GetResult => IInv'
<1> SUFFICES ASSUME IInv, GetResult PROVE IInv'
  OBVIOUS
<1>1. CASE enter_fault /\ pc' = "health" /\ UNCHANGED r
  BY <1>1, FaultInvariant DEF GetResult, IInv, LoopInv
<1>2. CASE /\ r' = result /\ pc' = "clear"
           /\ UNCHANGED <<state, deadline, timeout, init_index, range, tof_irq, chip>>
  BY <1>2 DEF GetResult, IInv, DriverInv, LoopInv, ChipIsOffInFault, chip
<1> QED
  BY <1>1, <1>2 DEF GetResult

\* A sample is stored by a driver that runs, whatever it says.
LEMMA ClearInterruptInvariant == IInv /\ ClearInterrupt => IInv'
<1> SUFFICES ASSUME IInv, ClearInterrupt PROVE IInv'
  OBVIOUS
<1>1. r' \in Samples
  BY NoDistance DEF ClearInterrupt
<1>2. CASE enter_fault /\ pc' = "health"
  BY <1>1, <1>2, FaultInvariant DEF ClearInterrupt, IInv, LoopInv
<1>3. CASE /\ DataReady(FALSE) /\ range' = r
           /\ timeout' = Plus(now, SAMPLE_TIMEOUT) /\ pc' = "expire"
           /\ UNCHANGED <<state, deadline, init_index, connected, xshut, intact,
                          ranging, wait, result>>
  <2>1. timeout' \in Time
    BY <1>3, Waits DEF IInv, LoopInv
  <2>2. ready' \in BOOLEAN /\ tof_irq' \in BOOLEAN
    BY <1>3, DataReadyTypes DEF IInv, DriverInv
  <2>3. state = "RUNNING"
    BY DEF ClearInterrupt, IInv, LoopInv
  <2>4. DriverInv'
    BY <1>3, <2>1, <2>2, <2>3 DEF IInv, DriverInv, LoopInv, ChipIsOffInFault
  <2>5. LoopInv'
    BY <1>1, <1>3, <2>3 DEF ClearInterrupt, IInv, LoopInv
  <2> QED
    BY <2>4, <2>5 DEF IInv
<1> QED
  BY <1>2, <1>3 DEF ClearInterrupt

\* A measurement ends only in a chip that ranges, and stays a sample.
LEMMA MeasurementInvariant == IInv /\ MeasurementEnds => IInv'
<1> SUFFICES ASSUME IInv, MeasurementEnds PROVE IInv'
  OBVIOUS
<1>1. result' \in Samples
  BY RangeAssumption DEF MeasurementEnds, Samples
<1>2. ready' \in BOOLEAN /\ tof_irq' \in BOOLEAN
  BY DataReadyTypes DEF MeasurementEnds, IInv, DriverInv
<1>3. wait' \in 0 .. SAMPLE
  BY RangeAssumption DEF MeasurementEnds
<1>4. UNCHANGED <<pc, now, state, deadline, timeout, init_index, irq_pending, range,
                  tofFault, connected, xshut, intact, ranging, r>>
  BY DEF MeasurementEnds, loop, tof
<1>5. DriverInv'
  BY <1>1, <1>2, <1>3, <1>4 DEF IInv, DriverInv, ChipIsOffInFault
<1> QED
  BY <1>4, <1>5 DEF IInv, LoopInv

\* Losing its power stops the chip, in any state of the driver.
LEMMA DisconnectInvariant == IInv /\ Disconnect => IInv'
<1> SUFFICES ASSUME IInv, Disconnect PROVE IInv'
  OBVIOUS
<1>1. /\ connected' = FALSE /\ intact' = FALSE /\ ranging' = FALSE /\ ready' = FALSE
      /\ result' \in Samples /\ wait' \in 0 .. SAMPLE
  BY NoDistance, RangeAssumption DEF Disconnect, ChipForgets
<1>2. tof_irq' \in BOOLEAN
  BY DEF Disconnect, IInv, DriverInv
<1>3. UNCHANGED <<pc, now, state, deadline, timeout, init_index, irq_pending, range,
                  tofFault, xshut, r>>
  BY DEF Disconnect, loop, tof
<1>4. DriverInv'
  BY <1>1, <1>2, <1>3 DEF IInv, DriverInv, ChipIsOffInFault
<1> QED
  BY <1>3, <1>4 DEF IInv, LoopInv

\* Time ages every sample and moves every deadline, and nothing else.
LEMMA TickInvariant == IInv /\ Tick => IInv'
<1> SUFFICES ASSUME IInv, Tick PROVE IInv'
  OBVIOUS
<1>1. now' \in Time /\ deadline' \in Time /\ timeout' \in Time
  BY TimeIsClosed DEF Tick, IInv, DriverInv, LoopInv
<1>2. wait' \in 0 .. SAMPLE
  BY RangeAssumption DEF Tick, IInv, DriverInv
<1>3. /\ range' \in Samples /\ range'.status = range.status
      /\ result' \in Samples /\ r' \in Samples
  BY OlderIsSample DEF Tick, IInv, DriverInv, LoopInv
<1>4. UNCHANGED <<pc, state, init_index, irq_pending, tofFault, tof_irq, connected,
                  xshut, intact, ranging, ready>>
  BY DEF Tick
<1>5. DriverInv'
  BY <1>1, <1>2, <1>3, <1>4 DEF IInv, DriverInv, ChipIsOffInFault
<1> QED
  BY <1>1, <1>3, <1>4, <1>5 DEF IInv, LoopInv

\* Every step preserves the invariant.
LEMMA NextInvariant == IInv /\ [Next]_vars => IInv'
<1> SUFFICES ASSUME IInv, [Next]_vars PROVE IInv'
  OBVIOUS
<1>1. CASE ReadClock
  BY <1>1, TimeIsClosed DEF ReadClock, IInv, DriverInv, LoopInv, ChipIsOffInFault, tof, chip
<1>2. CASE TakeIrq
  <2>1. irq_pending' \in BOOLEAN
    BY <1>2, Zenon DEF TakeIrq, IInv, LoopInv, DriverInv
  <2>2. DriverInv'
    BY <1>2 DEF TakeIrq, IInv, DriverInv, ChipIsOffInFault, chip
  <2>3. LoopInv'
    BY <1>2, <2>1 DEF TakeIrq, IInv, LoopInv
  <2> QED
    BY <2>2, <2>3 DEF IInv
<1>3. CASE Step
  BY <1>3, StepInvariant
<1>4. CASE GetResult
  BY <1>4, GetResultInvariant
<1>5. CASE ClearInterrupt
  BY <1>5, ClearInterruptInvariant
<1>6. CASE Expire
  <2>1. CASE enter_fault
    BY <1>6, <2>1, FaultInvariant, LoopKeeps DEF Expire, IInv
  <2>2. CASE UNCHANGED <<state, deadline, timeout, init_index, range, tof_irq, chip>>
    BY <1>6, <2>2 DEF Expire, IInv, DriverInv, LoopInv, ChipIsOffInFault, chip
  <2> QED
    BY <1>6, <2>1, <2>2 DEF Expire
<1>7. CASE Report
  BY <1>7 DEF Report, IInv, DriverInv, LoopInv, ChipIsOffInFault, tof, chip
<1>8. CASE Rest
  BY <1>8 DEF Rest, IInv, DriverInv, LoopInv, ChipIsOffInFault, tof, chip
<1>9. CASE MeasurementEnds
  BY <1>9, MeasurementInvariant
<1>10. CASE Disconnect
  BY <1>10, DisconnectInvariant
<1>11. CASE Reconnect
  BY <1>11 DEF Reconnect, IInv, DriverInv, LoopInv, ChipIsOffInFault, loop, tof
<1>12. CASE Tick
  BY <1>12, TickInvariant
<1>13. CASE UNCHANGED vars
  BY <1>13 DEF vars, IInv, DriverInv, LoopInv, ChipIsOffInFault, loop, tof, chip
<1> QED
  BY <1>1, <1>2, <1>3, <1>4, <1>5, <1>6, <1>7, <1>8, <1>9, <1>10, <1>11, <1>12, <1>13
  DEF Next, Main

\* The inductive invariant holds of every behaviour of the sensor and its loop.
THEOREM Invariant == Spec => []IInv
<1>1. Init => IInv
  BY InitInvariant
<1>2. IInv /\ [Next]_vars => IInv'
  BY NextInvariant
<1> QED
  BY <1>1, <1>2, PTL DEF Spec

\* Times stay on the clock and the table is never read past its end
\* (vl53l1x.c:40-51).
THEOREM TypeCorrect == Spec => []TypeOK
<1>1. IInv => TypeOK
  BY Parts
<1> QED
  BY <1>1, Invariant, PTL

\* A distance comes only from a driver that runs, and what is published agrees
\* with the health bits (main.c:39,51-58).
THEOREM HealthIsHonest == Spec => []DistanceIsHealthy
<1>1. IInv => DistanceIsHealthy
  BY Parts
<1> QED
  BY <1>1, Invariant, PTL

\* A driver that waits or has given up holds its chip off (vl53l1x.c:32-35,66).
THEOREM ChipHeldOff == Spec => []ChipIsOffInFault
<1>1. IInv => ChipIsOffInFault
  BY Parts
<1> QED
  BY <1>1, Invariant, PTL

-----------------------------------------------------------------------------
(* Ages: how long the driver has waited, and how old its samples are by then. *)

\* How long ago a wait of a given length that ends at end was started.
Waited(end, length) == (length - end) % CLOCK

\* Since the iteration that last looked at the calibration, and since the one
\* that last cleared the interrupt.
Polled == Waited(deadline, POLL)
Unheard == Waited(timeout, SAMPLE_TIMEOUT)

ClockInv == Age(now) <= LOOP_MAX

\* The calibration is looked at in the first iteration after the wait ...
PollInv ==
  state = "CALIBRATING" =>
    /\ Age(now) <= Polled
    /\ Polled - Age(now) < POLL + (IF pc \in {"take", "step"} THEN LOOP_MAX ELSE 0)

\* ... and a driver that gets no sample gives up in the first after the time-out.
TimeoutInv ==
  state = "RUNNING" =>
    /\ Age(now) <= Unheard
    /\ Unheard - Age(now) < SAMPLE_TIMEOUT + (IF pc \in {"health", "publish", "top"} THEN 0 ELSE LOOP_MAX)

\* The interrupt that a clear raises is taken in the next iteration, and while the
\* chip has anything to tell there is no other.
IrqInv ==
  /\ pc = "read" => irq_pending
  /\ state = "RUNNING" /\ irq_pending => pc \in {"step", "read"}
  /\ state = "RUNNING" /\ (ranging \/ result.status \in Distance) =>
       /\ tof_irq => Unheard - Age(now) <= IF pc = "take" THEN LOOP_MAX ELSE 0
       /\ irq_pending \/ pc = "clear" => Unheard - Age(now) <= LOOP_MAX

\* A result that is yet to be cleared was measured since the last clear; one that
\* is yet to be read, not long before it.
ResultInv ==
  result.status \in Distance =>
    /\ state \in {"CALIBRATING", "RUNNING"}
    /\ state = "CALIBRATING" => ready /\ result.age <= Polled
    /\ state = "RUNNING" /\ ready => result.age <= Unheard
    /\ state = "RUNNING" /\ (tof_irq \/ irq_pending) => result.age < Unheard + POLL + LOOP_MAX

ReadInv ==
  pc = "clear" /\ r.status \in Distance =>
    r.age < Unheard + POLL + LOOP_MAX /\ Unheard - Age(now) <= LOOP_MAX

RangeInv == range.status \in Distance => range.age < Unheard + POLL + 2 * LOOP_MAX

AgeInv == ClockInv /\ PollInv /\ TimeoutInv /\ IrqInv /\ ResultInv /\ ReadInv /\ RangeInv

\* The parameters, as far as ages need them.
LEMMA Widths ==
  /\ CLOCK \in Nat /\ LOOP_MAX \in Nat /\ LOOP_MAX > 0 /\ LOOP_MAX < CLOCK
  /\ POLL \in Nat /\ POLL \in 1 .. CLOCK - 1 /\ POLL + 2 * LOOP_MAX <= CLOCK
  /\ SAMPLE_TIMEOUT \in Nat /\ SAMPLE_TIMEOUT \in 1 .. CLOCK - 1
  /\ SAMPLE_TIMEOUT + 2 * LOOP_MAX <= CLOCK
  /\ LOOP_MAX <= CLOCK \div 2
<1>1. {POLL, SAMPLE_TIMEOUT} \subseteq 1 .. CLOCK - 1
  BY RangeAssumption
<1>2. CLOCK \in Nat /\ LOOP_MAX \in Nat /\ LOOP_MAX > 0 /\ LOOP_MAX < CLOCK
  BY RangeAssumption
<1>3. POLL + 2 * LOOP_MAX <= CLOCK /\ SAMPLE_TIMEOUT + 2 * LOOP_MAX <= CLOCK
  BY RangeAssumption
<1>4. POLL \in 1 .. CLOCK - 1 /\ SAMPLE_TIMEOUT \in 1 .. CLOCK - 1
  BY <1>1
<1>5. POLL \in Nat /\ SAMPLE_TIMEOUT \in Nat
  BY <1>4
<1>6. LOOP_MAX <= CLOCK \div 2
  BY <1>2, <1>3, <1>4
<1> QED
  BY <1>2, <1>3, <1>4, <1>5, <1>6

\* The age of a time: a time the clock has just read is new, and every tick adds one.
LEMMA AgeOf ==
  ASSUME NEW t \in Time
  PROVE  /\ Age(t) \in 0 .. CLOCK - 1
         /\ Age(0) = 0
         /\ Age(t) < CLOCK - 1 => Age(Aged(t)) = Age(t) + 1
<1>1. t \in Int /\ 0 <= t /\ t < CLOCK /\ CLOCK \in Nat
  BY Widths DEF Time
<1>2. Age(t) = IF t = 0 THEN 0 ELSE CLOCK - t
  BY <1>1 DEF Age
<1>3. Aged(t) = IF t = 0 THEN CLOCK - 1 ELSE t - 1
  BY <1>1 DEF Aged
<1>4. Age(0) = 0
  BY <1>1 DEF Age
<1>5. Age(t) \in 0 .. CLOCK - 1
  BY <1>1, <1>2
<1>6. ASSUME Age(t) < CLOCK - 1 PROVE Age(Aged(t)) = Age(t) + 1
  <2>1. Aged(t) \in Int /\ 0 <= Aged(t) /\ Aged(t) < CLOCK
    BY <1>1, <1>3
  <2>2. Age(Aged(t)) = IF Aged(t) = 0 THEN 0 ELSE CLOCK - Aged(t)
    BY <1>1, <2>1 DEF Age
  <2> QED
    BY <1>1, <1>2, <1>3, <1>6, <2>2
<1> QED
  BY <1>4, <1>5, <1>6

\* A wait grows by one with every tick, has just begun where it is started, and
\* has ended once it has lasted its length, until half the clock has passed.
LEMMA WaitOf ==
  ASSUME NEW end \in Time, NEW t \in Time, NEW length \in 1 .. CLOCK - 1
  PROVE  /\ Waited(end, length) \in 0 .. CLOCK - 1
         /\ Waited(end, length) < CLOCK - 1 => Waited(Aged(end), length) = Waited(end, length) + 1
         /\ Waited(Plus(t, length), length) = Age(t)
         /\ /\ Waited(end, length) - Age(t) >= length
            /\ Waited(end, length) - Age(t) < length + CLOCK \div 2
            => time_reached_u32(t, end)
<1>1. /\ end \in Int /\ 0 <= end /\ end < CLOCK /\ t \in Int /\ 0 <= t /\ t < CLOCK
      /\ CLOCK \in Nat /\ length \in Int /\ 0 < length /\ length < CLOCK
  BY Widths DEF Time
<1>2. Waited(end, length) = IF end <= length THEN length - end ELSE length - end + CLOCK
  BY <1>1 DEF Waited
<1>3. Aged(end) = IF end = 0 THEN CLOCK - 1 ELSE end - 1
  BY <1>1 DEF Aged
<1>4. Age(t) = IF t = 0 THEN 0 ELSE CLOCK - t
  BY <1>1 DEF Age
<1>5. Waited(end, length) \in 0 .. CLOCK - 1
  BY <1>1, <1>2
<1>6. ASSUME Waited(end, length) < CLOCK - 1
      PROVE  Waited(Aged(end), length) = Waited(end, length) + 1
  <2>1. Aged(end) \in Int /\ 0 <= Aged(end) /\ Aged(end) < CLOCK
    BY <1>1, <1>3
  <2>2. Waited(Aged(end), length) =
          IF Aged(end) <= length THEN length - Aged(end) ELSE length - Aged(end) + CLOCK
    BY <1>1, <2>1 DEF Waited
  <2> QED
    BY <1>1, <1>2, <1>3, <1>6, <2>2
<1>7. Waited(Plus(t, length), length) = Age(t)
  <2>1. Plus(t, length) = IF t + length < CLOCK THEN t + length ELSE t + length - CLOCK
    BY <1>1 DEF Plus
  <2>2. Plus(t, length) \in Int /\ 0 <= Plus(t, length) /\ Plus(t, length) < CLOCK
    BY <1>1, <2>1
  <2>3. Waited(Plus(t, length), length) =
          IF Plus(t, length) <= length THEN length - Plus(t, length)
          ELSE length - Plus(t, length) + CLOCK
    BY <1>1, <2>2 DEF Waited
  <2> QED
    BY <1>1, <1>4, <2>1, <2>3
<1>8. ASSUME Waited(end, length) - Age(t) >= length,
             Waited(end, length) - Age(t) < length + CLOCK \div 2
      PROVE  time_reached_u32(t, end)
  <2>1. (t - end) % CLOCK = IF end <= t THEN t - end ELSE t - end + CLOCK
    BY <1>1
  <2>2. CLOCK \div 2 \in Nat /\ 2 * (CLOCK \div 2) <= CLOCK
    BY <1>1
  <2>3. (t - end) % CLOCK < CLOCK \div 2
    BY <1>1, <1>2, <1>4, <1>8, <2>1, <2>2
  <2> QED
    BY <2>3 DEF time_reached_u32
<1> QED
  BY <1>5, <1>6, <1>7, <1>8

\* Everything that ages is a number.
LEMMA Numbers ==
  ASSUME IInv
  PROVE  /\ now \in Time /\ deadline \in Time /\ timeout \in Time
         /\ Age(now) \in Nat /\ Polled \in Nat /\ Unheard \in Nat
         /\ range.age \in Nat /\ result.age \in Nat /\ r.age \in Nat
<1>1. now \in Time /\ deadline \in Time /\ timeout \in Time
  BY DEF IInv, DriverInv, LoopInv
<1>2. Age(now) \in Nat
  BY <1>1, AgeOf
<1>3. Polled \in Nat
  BY <1>1, WaitOf, Widths DEF Polled
<1>4. Unheard \in Nat
  BY <1>1, WaitOf, Widths DEF Unheard
<1>5. range \in Samples /\ result \in Samples /\ r \in Samples
  BY DEF IInv, DriverInv, LoopInv
<1>6. \A sample \in Samples : sample.age \in Nat
  BY RangeAssumption DEF Samples
<1> QED
  BY <1>1, <1>2, <1>3, <1>4, <1>5, <1>6

\* Nothing has been measured at the start.
LEMMA AgesAtStart == Init => AgeInv
<1> SUFFICES ASSUME Init PROVE AgeInv
  OBVIOUS
<1>1. now = 0 /\ Age(now) = 0 /\ state = "BOOT_WAIT" /\ pc = "top"
  BY AgeOf, TimeIsClosed DEF Init
<1>2. range.status \notin Distance /\ result.status \notin Distance
  BY DEF Init, NoResult, Distance
<1> QED
  BY <1>1, <1>2, Widths
  DEF AgeInv, ClockInv, PollInv, TimeoutInv, IrqInv, ResultInv, ReadInv, RangeInv

\* A driver that gives up forgets its distance, and the chip its result.
LEMMA AgesOfFault ==
  ASSUME AgeInv, enter_fault, now' = now, pc' = "health"
  PROVE  AgeInv'
<1>1. range'.status \notin Distance /\ result'.status \notin Distance /\ state' = "RETRY_WAIT"
  BY NoDistance DEF enter_fault, ChipForgets
<1>2. ClockInv'
  BY DEF AgeInv, ClockInv
<1> QED
  BY <1>1, <1>2
  DEF AgeInv, PollInv, TimeoutInv, IrqInv, ResultInv, ReadInv, RangeInv

\* A wait that is started in this iteration is as old as the iteration.
LEMMA WaitsStart ==
  ASSUME IInv
  PROVE  /\ deadline' = Plus(now, POLL) => Polled' = Age(now)
         /\ timeout' = Plus(now, SAMPLE_TIMEOUT) => Unheard' = Age(now)
<1>1. now \in Time
  BY DEF IInv, LoopInv
<1> QED
  BY <1>1, WaitOf, Widths DEF Polled, Unheard

\* The clock is read: an iteration adds its length to every wait it found ended.
LEMMA AgesOfReadClock ==
  ASSUME IInv, AgeInv, ReadClock
  PROVE  AgeInv'
<1>1. /\ Age(now)' = 0 /\ Polled' = Polled /\ Unheard' = Unheard
      /\ pc = "top" /\ pc' = "take"
      /\ UNCHANGED <<state, irq_pending, tof_irq, range, result, r, ready, ranging>>
  BY AgeOf, TimeIsClosed DEF ReadClock, Polled, Unheard, tof, chip
<1>2. Age(now) \in Nat /\ Polled \in Nat /\ Unheard \in Nat /\ Age(now) <= LOOP_MAX
  BY Numbers DEF AgeInv, ClockInv
<1>3. ClockInv'
  BY <1>1, Widths DEF ClockInv
<1>4. PollInv'
  BY <1>1, <1>2, Widths DEF AgeInv, PollInv
<1>5. TimeoutInv'
  BY <1>1, <1>2, Widths DEF AgeInv, TimeoutInv
<1>6. IrqInv'
  BY <1>1, <1>2, Widths DEF AgeInv, IrqInv
<1>7. ResultInv' /\ ReadInv' /\ RangeInv'
  BY <1>1 DEF AgeInv, ResultInv, ReadInv, RangeInv
<1> QED
  BY <1>3, <1>4, <1>5, <1>6, <1>7 DEF AgeInv

\* What the proofs below need of the numbers.
LEMMA Bounds ==
  ASSUME IInv, AgeInv
  PROVE  /\ Age(now) \in Nat /\ Polled \in Nat /\ Unheard \in Nat
         /\ range.age \in Nat /\ result.age \in Nat /\ r.age \in Nat
         /\ LOOP_MAX \in Nat /\ POLL \in Nat /\ SAMPLE_TIMEOUT \in Nat
         /\ LOOP_MAX > 0 /\ POLL > 0 /\ SAMPLE_TIMEOUT > 0 /\ Age(now) <= LOOP_MAX
BY Numbers, Widths DEF AgeInv, ClockInv

\* The interrupt a clear raised is taken within an iteration of it.
LEMMA AgesOfTakeIrq ==
  ASSUME IInv, AgeInv, TakeIrq
  PROVE  AgeInv'
<1>1. /\ UNCHANGED <<now, deadline, timeout, state, range, result, r, ready, ranging>>
      /\ pc = "take" /\ pc' = "step"
      /\ tof_irq' = FALSE /\ (irq_pending' => irq_pending \/ tof_irq)
  BY DEF TakeIrq, chip
<1>2. Age(now)' = Age(now) /\ Polled' = Polled /\ Unheard' = Unheard
  BY <1>1 DEF Polled, Unheard
<1>3. ClockInv' /\ PollInv' /\ TimeoutInv'
  BY <1>1, <1>2 DEF AgeInv, ClockInv, PollInv, TimeoutInv
<1>4. IrqInv'
  BY <1>1, <1>2 DEF AgeInv, IrqInv
<1>5. ResultInv' /\ ReadInv' /\ RangeInv'
  BY <1>1, <1>2 DEF AgeInv, ResultInv, ReadInv, RangeInv
<1> QED
  BY <1>3, <1>4, <1>5 DEF AgeInv

\* vl53l1x.c:37-51: the bring-up.  A result it finds has been measured since the
\* last look at it.
LEMMA AgesOfBringUp ==
  ASSUME IInv, AgeInv, BringUp, pc = "step", UNCHANGED <<now, irq_pending, r>>,
         pc' = IF state' # "RUNNING" THEN "health" ELSE IF irq_pending THEN "read" ELSE "expire"
  PROVE  AgeInv'
<1>0. Age(now)' = Age(now) /\ ClockInv'
  BY DEF AgeInv, ClockInv
<1>1. CASE enter_fault
  <2>1. state' = "RETRY_WAIT"
    BY <1>1 DEF enter_fault
  <2> QED
    BY <1>1, <2>1, AgesOfFault
<1>2. ASSUME state # "RUNNING"
      PROVE  range.status \notin Distance /\ pc # "clear"
  BY <1>2 DEF IInv, DriverInv, LoopInv
<1>3. CASE SwitchOn
  <2>1. state' = "INITIALIZING" /\ result' = result /\ range' = range /\ result.status \notin Distance
    BY <1>3 DEF SwitchOn, AgeInv, ResultInv
  <2>2. range'.status \notin Distance /\ result'.status \notin Distance
    BY <1>2, <1>3, <2>1 DEF SwitchOn
  <2> QED
    BY <1>0, <2>1, <2>2 DEF AgeInv, PollInv, TimeoutInv, IrqInv, ResultInv, ReadInv, RangeInv
<1>4. CASE Configure /\ ~enter_fault
  <2>1. /\ state = "INITIALIZING" /\ result' = result /\ range' = range
        /\ state' = "INITIALIZING" \/ (state' = "CALIBRATING" /\ deadline' = Plus(now, POLL))
    BY <1>4 DEF Configure, chip
  <2>2. range'.status \notin Distance /\ result'.status \notin Distance
    BY <1>2, <2>1 DEF AgeInv, ResultInv
  <2>3. state' = "CALIBRATING" => Polled' = Age(now)
    BY <2>1, WaitsStart
  <2>4. PollInv'
    BY <1>0, <2>1, <2>3, Bounds DEF PollInv
  <2> QED
    BY <1>0, <2>1, <2>2, <2>4 DEF AgeInv, TimeoutInv, IrqInv, ResultInv, ReadInv, RangeInv
<1>5. CASE Calibrate /\ ~enter_fault
  <2>1. state = "CALIBRATING" /\ result' = result /\ range' = range
    BY <1>5 DEF Calibrate, chip
  <2>2. range'.status \notin Distance
    BY <1>2, <2>1
  <2>3. CASE ready /\ DataReady(FALSE) /\ state' = "RUNNING" /\ timeout' = Plus(now, SAMPLE_TIMEOUT)
    <3>1. Unheard' = Age(now) /\ ready' = FALSE
      BY <2>3, WaitsStart DEF DataReady
    <3>2. pc' \in {"read", "expire"} /\ (pc' = "read" => irq_pending') /\ (irq_pending' => pc' = "read")
      BY <2>3
    <3>3. Age(now) <= Polled /\ Polled - Age(now) < POLL + LOOP_MAX
      BY <2>1 DEF AgeInv, PollInv
    <3>4. ASSUME result'.status \in Distance
          PROVE  result'.age < Unheard' + POLL + LOOP_MAX
      <4>1. result.status \in Distance /\ result'.age = result.age
        BY <2>1, <3>4
      <4>2. result.age <= Polled
        BY <2>1, <4>1 DEF AgeInv, ResultInv
      <4> QED
        BY <3>1, <3>3, <4>1, <4>2, Bounds
    <3>5. TimeoutInv'
      BY <1>0, <2>3, <3>1, <3>2, Bounds DEF TimeoutInv
    <3>6. IrqInv'
      BY <1>0, <2>3, <3>1, <3>2, Bounds DEF IrqInv
    <3>7. ResultInv'
      BY <2>3, <3>1, <3>4 DEF ResultInv
    <3> QED
      BY <1>0, <2>2, <2>3, <3>2, <3>5, <3>6, <3>7 DEF AgeInv, PollInv, ReadInv, RangeInv
  <2>4. CASE ~ready /\ deadline' = Plus(now, POLL) /\ state' = state
    <3>1. Polled' = Age(now)
      BY <2>4, WaitsStart
    <3>2. result'.status \notin Distance
      BY <2>1, <2>4 DEF AgeInv, ResultInv
    <3>3. PollInv'
      BY <1>0, <2>1, <2>4, <3>1, Bounds DEF PollInv
    <3> QED
      BY <1>0, <2>1, <2>2, <2>4, <3>2, <3>3
      DEF AgeInv, TimeoutInv, IrqInv, ResultInv, ReadInv, RangeInv
  <2> QED
    BY <1>5, <2>3, <2>4 DEF Calibrate
<1> QED
  BY <1>1, <1>3, <1>4, <1>5 DEF BringUp

\* A wait that the driver goes on with has not ended.
LEMMA AgesOfStep ==
  ASSUME IInv, AgeInv, Step
  PROVE  AgeInv'
<1>1. /\ pc = "step" /\ UNCHANGED <<now, irq_pending, r>>
      /\ pc' = IF state' # "RUNNING" THEN "health" ELSE IF irq_pending THEN "read" ELSE "expire"
  BY DEF Step
<1>2. CASE BringUpDue
  BY <1>1, <1>2, AgesOfBringUp DEF Step
<1>3. CASE ~BringUpDue
  <2>1. UNCHANGED <<state, deadline, timeout, range, result, tof_irq, ready, ranging>>
    BY <1>3 DEF Step, chip
  <2>2. Age(now)' = Age(now) /\ Polled' = Polled /\ Unheard' = Unheard
    BY <1>1, <2>1 DEF Polled, Unheard
  <2>3. ASSUME state = "CALIBRATING" PROVE Polled - Age(now) < POLL
    <3>1. ~time_reached_u32(now, deadline)
      BY <1>3, <2>3 DEF BringUpDue
    <3>2. Polled - Age(now) < POLL + LOOP_MAX
      BY <1>1, <2>3 DEF AgeInv, PollInv
    <3>3. Polled - Age(now) < POLL + CLOCK \div 2
      <4>1. LOOP_MAX <= CLOCK \div 2 /\ CLOCK \div 2 \in Int
        BY Widths
      <4> QED
        BY <3>2, <4>1, Bounds
    <3>4. ~(Polled - Age(now) >= POLL)
      BY <3>1, <3>3, Numbers, WaitOf, Widths DEF Polled
    <3> QED
      BY <3>4, Bounds
  <2>4. ClockInv' /\ PollInv'
    <3>1. state' = "CALIBRATING" => state = "CALIBRATING" /\ pc' = "health"
      BY <1>1, <2>1
    <3>2. state = "CALIBRATING" => Age(now) <= Polled
      BY DEF AgeInv, PollInv
    <3>3. PollInv'
      BY <2>2, <2>3, <3>1, <3>2, Bounds DEF PollInv
    <3> QED
      BY <2>2, <3>3 DEF AgeInv, ClockInv
  <2>5. TimeoutInv'
    BY <1>1, <2>1, <2>2 DEF AgeInv, TimeoutInv
  <2>6. IrqInv'
    BY <1>1, <2>1, <2>2 DEF AgeInv, IrqInv
  <2>7. ResultInv' /\ ReadInv' /\ RangeInv'
    BY <1>1, <2>1, <2>2 DEF AgeInv, ResultInv, ReadInv, RangeInv
  <2> QED
    BY <2>4, <2>5, <2>6, <2>7 DEF AgeInv
<1> QED
  BY <1>2, <1>3

\* vl53l1x.c:53-56: what is read is no older than what could be read.
LEMMA AgesOfGetResult ==
  ASSUME IInv, AgeInv, GetResult
  PROVE  AgeInv'
<1>1. CASE enter_fault /\ pc' = "health"
  BY <1>1, AgesOfFault DEF GetResult
<1>2. CASE /\ r' = result /\ pc' = "clear"
           /\ UNCHANGED <<state, deadline, timeout, init_index, range, tof_irq, chip>>
  <2>1. /\ pc = "read" /\ pc' = "clear" /\ irq_pending' = FALSE /\ r' = result
        /\ UNCHANGED <<now, state, deadline, timeout, range, result, tof_irq, ready, ranging>>
    BY <1>2 DEF GetResult, chip
  <2>2. Age(now)' = Age(now) /\ Polled' = Polled /\ Unheard' = Unheard
    BY <2>1 DEF Polled, Unheard
  <2>3. state = "RUNNING" /\ irq_pending
    BY <2>1 DEF AgeInv, IrqInv, IInv, LoopInv
  <2>4. ClockInv' /\ PollInv' /\ TimeoutInv'
    BY <2>1, <2>2, <2>3 DEF AgeInv, ClockInv, PollInv, TimeoutInv
  <2>5. IrqInv'
    BY <2>1, <2>2, <2>3 DEF AgeInv, IrqInv
  <2>6. ReadInv'
    BY <2>1, <2>2, <2>3 DEF AgeInv, IrqInv, ResultInv, ReadInv
  <2>7. ResultInv' /\ RangeInv'
    BY <2>1, <2>2 DEF AgeInv, ResultInv, RangeInv
  <2> QED
    BY <2>4, <2>5, <2>6, <2>7 DEF AgeInv
<1> QED
  BY <1>1, <1>2 DEF GetResult

\* vl53l1x.c:54-63: a sample is stored, and what is left in the chip waits for the
\* interrupt that this clear raises, if it raises one.
LEMMA AgesOfClear ==
  ASSUME IInv, AgeInv, ClearInterrupt
  PROVE  AgeInv'
<1>1. CASE enter_fault /\ pc' = "health"
  BY <1>1, AgesOfFault DEF ClearInterrupt
<1>2. CASE /\ DataReady(FALSE) /\ range' = r
           /\ timeout' = Plus(now, SAMPLE_TIMEOUT) /\ pc' = "expire"
           /\ UNCHANGED <<state, deadline, init_index, connected, xshut, intact,
                          ranging, wait, result>>
  <2>1. /\ pc = "clear" /\ pc' = "expire" /\ range' = r /\ ready' = FALSE
        /\ tof_irq' => tof_irq \/ ready
        /\ UNCHANGED <<now, state, deadline, result, irq_pending, ranging>>
    BY <1>2 DEF ClearInterrupt, DataReady, ACTIVE_HIGH
  <2>2. Age(now)' = Age(now) /\ Unheard' = Age(now) /\ state = "RUNNING" /\ ~irq_pending
    BY <1>2, <2>1, WaitsStart DEF IInv, LoopInv, AgeInv, IrqInv
  <2>3. Age(now) <= Unheard
    BY <2>2 DEF AgeInv, TimeoutInv
  <2>4. ClockInv' /\ PollInv'
    BY <2>1, <2>2 DEF AgeInv, ClockInv, PollInv
  <2>5. TimeoutInv'
    BY <2>1, <2>2, Bounds DEF TimeoutInv
  <2>6. IrqInv'
    BY <2>1, <2>2, Bounds DEF IrqInv
  <2>7. ResultInv'
    <3> SUFFICES ASSUME result.status \in Distance, tof_irq'
                 PROVE  result.age < Age(now) + POLL + LOOP_MAX
      BY <2>1, <2>2 DEF ResultInv
    <3>1. Unheard - Age(now) <= LOOP_MAX
      BY <2>1, <2>2 DEF AgeInv, IrqInv
    <3>2. CASE ready
      <4>1. result.age <= Unheard
        BY <2>2, <3>2 DEF AgeInv, ResultInv
      <4> QED
        BY <3>1, <4>1, Bounds
    <3>3. CASE tof_irq
      <4>1. result.age < Unheard + POLL + LOOP_MAX
        BY <2>2, <3>3 DEF AgeInv, ResultInv
      <4>2. Unheard - Age(now) <= 0
        BY <2>1, <2>2, <3>3 DEF AgeInv, IrqInv
      <4> QED
        BY <4>1, <4>2, Bounds
    <3> QED
      BY <2>1, <3>2, <3>3
  <2>8. RangeInv'
    <3> SUFFICES ASSUME r.status \in Distance PROVE r.age < Age(now) + POLL + 2 * LOOP_MAX
      BY <2>1, <2>2 DEF RangeInv
    <3>1. r.age < Unheard + POLL + LOOP_MAX /\ Unheard - Age(now) <= LOOP_MAX
      BY <2>1 DEF AgeInv, ReadInv
    <3> QED
      BY <3>1, Bounds
  <2>9. ReadInv'
    BY <2>1 DEF ReadInv
  <2> QED
    BY <2>4, <2>5, <2>6, <2>7, <2>8, <2>9 DEF AgeInv
<1> QED
  BY <1>1, <1>2 DEF ClearInterrupt

\* vl53l1x.c:65: a driver that goes on has not waited for the time-out.
LEMMA AgesOfExpire ==
  ASSUME IInv, AgeInv, Expire
  PROVE  AgeInv'
<1>1. /\ pc = "expire" /\ pc' = "health" /\ now' = now /\ state = "RUNNING"
      /\ ~irq_pending /\ UNCHANGED <<irq_pending, r>>
  BY DEF Expire, IInv, LoopInv, AgeInv, IrqInv
<1>2. CASE time_reached_u32(now, timeout)
  BY <1>1, <1>2, AgesOfFault DEF Expire
<1>3. CASE ~time_reached_u32(now, timeout)
  <2>1. UNCHANGED <<state, deadline, timeout, range, result, tof_irq, ready, ranging>>
    BY <1>3 DEF Expire, chip
  <2>2. Age(now)' = Age(now) /\ Unheard' = Unheard
    BY <1>1, <2>1 DEF Unheard
  <2>3. Unheard - Age(now) < SAMPLE_TIMEOUT /\ Age(now) <= Unheard
    <3>1. Age(now) <= Unheard /\ Unheard - Age(now) < SAMPLE_TIMEOUT + LOOP_MAX
      BY <1>1 DEF AgeInv, TimeoutInv
    <3>2. LOOP_MAX <= CLOCK \div 2 /\ CLOCK \div 2 \in Int
      BY Widths
    <3>3. Unheard - Age(now) < SAMPLE_TIMEOUT + CLOCK \div 2
      BY <3>1, <3>2, Bounds
    <3>4. ~(Unheard - Age(now) >= SAMPLE_TIMEOUT)
      BY <1>3, <3>3, Numbers, WaitOf, Widths DEF Unheard
    <3> QED
      BY <3>1, <3>4, Bounds
  <2>4. ClockInv' /\ PollInv' /\ TimeoutInv'
    BY <1>1, <2>1, <2>2, <2>3, Bounds DEF ClockInv, PollInv, TimeoutInv
  <2>5. IrqInv'
    BY <1>1, <2>1, <2>2 DEF AgeInv, IrqInv
  <2>6. ResultInv' /\ ReadInv' /\ RangeInv'
    BY <1>1, <2>1, <2>2 DEF AgeInv, ResultInv, ReadInv, RangeInv
  <2> QED
    BY <2>4, <2>5, <2>6 DEF AgeInv
<1> QED
  BY <1>2, <1>3

\* The rest of the iteration changes no age.
LEMMA AgesOfRest ==
  ASSUME AgeInv, Report \/ Rest
  PROVE  AgeInv'
<1>1. /\ UNCHANGED <<now, deadline, timeout, state, irq_pending, tof_irq, range, result, r,
                     ready, ranging>>
      /\ pc \in {"health", "publish"} /\ pc' \in {"publish", "top"}
  BY DEF Report, Rest, tof, chip
<1>2. Age(now)' = Age(now) /\ Polled' = Polled /\ Unheard' = Unheard
  BY <1>1 DEF Polled, Unheard
<1>3. ClockInv' /\ PollInv' /\ TimeoutInv'
  BY <1>1, <1>2 DEF AgeInv, ClockInv, PollInv, TimeoutInv
<1>4. IrqInv'
  BY <1>1, <1>2 DEF AgeInv, IrqInv
<1>5. ResultInv' /\ ReadInv' /\ RangeInv'
  BY <1>1, <1>2 DEF AgeInv, ResultInv, ReadInv, RangeInv
<1> QED
  BY <1>3, <1>4, <1>5 DEF AgeInv

\* A measurement that ends is new, and its interrupt line does not fall.
LEMMA AgesOfMeasurement ==
  ASSUME IInv, AgeInv, MeasurementEnds
  PROVE  AgeInv'
<1>1. /\ UNCHANGED <<pc, now, deadline, timeout, state, irq_pending, range, r, ranging>>
      /\ ranging /\ ready' = TRUE /\ result'.age = 0
      /\ tof_irq' => tof_irq
  <2>1. ready' = TRUE /\ (tof_irq' => tof_irq)
    BY DEF MeasurementEnds, DataReady, ACTIVE_HIGH
  <2>2. result'.age = 0
    BY DEF MeasurementEnds
  <2> QED
    BY <2>1, <2>2 DEF MeasurementEnds, loop, tof
<1>2. Age(now)' = Age(now) /\ Polled' = Polled /\ Unheard' = Unheard
  BY <1>1 DEF Polled, Unheard
<1>3. state \in {"CALIBRATING", "RUNNING"}
  BY <1>1 DEF IInv, DriverInv, ChipIsOffInFault
<1>4. ClockInv' /\ PollInv' /\ TimeoutInv'
  BY <1>1, <1>2 DEF AgeInv, ClockInv, PollInv, TimeoutInv
<1>5. IrqInv'
  BY <1>1, <1>2 DEF AgeInv, IrqInv
<1>6. 0 <= Polled /\ 0 <= Unheard /\ 0 < Unheard + POLL + LOOP_MAX
  BY Bounds
<1>7. ResultInv'
  BY <1>1, <1>2, <1>3, <1>6 DEF ResultInv
<1>8. ReadInv' /\ RangeInv'
  BY <1>1, <1>2 DEF AgeInv, ReadInv, RangeInv
<1> QED
  BY <1>4, <1>5, <1>7, <1>8 DEF AgeInv

\* A chip that is gone has nothing to tell.
LEMMA AgesOfDisconnect ==
  ASSUME AgeInv, Disconnect
  PROVE  AgeInv'
<1>1. /\ UNCHANGED <<pc, now, deadline, timeout, state, irq_pending, range, r>>
      /\ ~ranging' /\ result'.status \notin Distance
  BY NoDistance DEF Disconnect, ChipForgets, loop, tof
<1>2. Age(now)' = Age(now) /\ Polled' = Polled /\ Unheard' = Unheard
  BY <1>1 DEF Polled, Unheard
<1>3. ClockInv' /\ PollInv' /\ TimeoutInv'
  BY <1>1, <1>2 DEF AgeInv, ClockInv, PollInv, TimeoutInv
<1>4. IrqInv' /\ ResultInv'
  BY <1>1 DEF AgeInv, IrqInv, ResultInv
<1>5. ReadInv' /\ RangeInv'
  BY <1>1, <1>2 DEF AgeInv, ReadInv, RangeInv
<1> QED
  BY <1>3, <1>4, <1>5 DEF AgeInv

\* A step that leaves all that ages alone.
LEMMA AgesUnchanged ==
  ASSUME AgeInv, UNCHANGED <<pc, now, deadline, timeout, state, irq_pending, tof_irq, range,
                             result, r, ready, ranging>>
  PROVE  AgeInv'
<1>1. Age(now)' = Age(now) /\ Polled' = Polled /\ Unheard' = Unheard
  BY DEF Polled, Unheard
<1>2. ClockInv' /\ PollInv' /\ TimeoutInv' /\ IrqInv'
  BY <1>1 DEF AgeInv, ClockInv, PollInv, TimeoutInv, IrqInv
<1>3. ResultInv' /\ ReadInv' /\ RangeInv'
  BY <1>1 DEF AgeInv, ResultInv, ReadInv, RangeInv
<1> QED
  BY <1>2, <1>3 DEF AgeInv

\* A tick adds at most one to the age of a sample.
LEMMA OlderByOne ==
  ASSUME NEW sample \in Samples
  PROVE  Older(sample).age <= sample.age + 1
<1>1. sample.age \in Nat
  BY RangeAssumption DEF Samples
<1>2. CASE sample.status \notin Distance \/ sample.age = AGE_MAX
  BY <1>1, <1>2 DEF Older
<1>3. CASE ~(sample.status \notin Distance \/ sample.age = AGE_MAX)
  <2>1. Older(sample).age = sample.age + 1
    BY <1>3 DEF Older, Samples
  <2> QED
    BY <1>1, <2>1
<1> QED
  BY <1>2, <1>3

\* All that ages ages alike.
LEMMA AgesOfTick ==
  ASSUME IInv, AgeInv, Tick
  PROVE  AgeInv'
<1>1. /\ UNCHANGED <<pc, state, irq_pending, tof_irq, ready, ranging>>
      /\ now' = Aged(now) /\ deadline' = Aged(deadline) /\ timeout' = Aged(timeout)
      /\ Age(now) < LOOP_MAX
  BY DEF Tick
<1>2. Age(now)' = Age(now) + 1
  <2>1. Age(now) < CLOCK - 1
    BY <1>1, Bounds, Widths
  <2> QED
    BY <1>1, <2>1, Numbers, AgeOf
<1>3. state = "CALIBRATING" => Polled' = Polled + 1
  <2> SUFFICES ASSUME state = "CALIBRATING" PROVE Polled' = Polled + 1
    OBVIOUS
  <2>1. Polled - Age(now) < POLL + LOOP_MAX
    BY Bounds DEF AgeInv, PollInv
  <2>2. Polled < CLOCK - 1
    BY <1>1, <2>1, Bounds, Widths
  <2> QED
    BY <1>1, <2>2, Numbers, WaitOf, Widths DEF Polled
<1>4. state = "RUNNING" => Unheard' = Unheard + 1
  <2> SUFFICES ASSUME state = "RUNNING" PROVE Unheard' = Unheard + 1
    OBVIOUS
  <2>1. Unheard - Age(now) < SAMPLE_TIMEOUT + LOOP_MAX
    BY Bounds DEF AgeInv, TimeoutInv
  <2>2. Unheard < CLOCK - 1
    BY <1>1, <2>1, Bounds, Widths
  <2> QED
    BY <1>1, <2>2, Numbers, WaitOf, Widths DEF Unheard
<1>5. /\ range'.status = range.status /\ range'.age <= range.age + 1 /\ range'.age \in Nat
      /\ result'.status = result.status /\ result'.age <= result.age + 1 /\ result'.age \in Nat
      /\ r'.status = r.status /\ r'.age <= r.age + 1 /\ r'.age \in Nat
  <2>1. range \in Samples /\ result \in Samples /\ r \in Samples
    BY DEF IInv, DriverInv, LoopInv
  <2>2. range' = Older(range) /\ result' = Older(result) /\ r' = Older(r)
    BY DEF Tick
  <2>3. \A sample \in Samples :
          /\ Older(sample).status = sample.status /\ Older(sample).age <= sample.age + 1
          /\ Older(sample).age \in Nat
    <3>1. \A sample \in Samples : sample.age \in Nat
      BY RangeAssumption DEF Samples
    <3> QED
      BY <3>1, OlderIsSample, OlderByOne
  <2> QED
    BY <2>1, <2>2, <2>3
<1>6. ClockInv'
  BY <1>1, <1>2, Bounds DEF ClockInv
<1>7. PollInv'
  <2> SUFFICES ASSUME state = "CALIBRATING" PROVE PollInv'
    BY <1>1 DEF PollInv
  <2>1. Polled' - Age(now)' = Polled - Age(now) /\ (Age(now) <= Polled => Age(now)' <= Polled')
    BY <1>2, <1>3, Bounds
  <2> QED
    BY <1>1, <2>1 DEF AgeInv, PollInv
<1>8. state = "RUNNING" =>
        /\ Unheard' - Age(now)' = Unheard - Age(now)
        /\ Age(now) <= Unheard => Age(now)' <= Unheard'
  BY <1>2, <1>4, Bounds
<1>9. TimeoutInv'
  BY <1>1, <1>8 DEF AgeInv, TimeoutInv
<1>10. IrqInv'
  BY <1>1, <1>5, <1>8 DEF AgeInv, IrqInv
<1>11. ResultInv'
  <2> SUFFICES ASSUME result.status \in Distance PROVE ResultInv'
    BY <1>5 DEF ResultInv
  <2>1. state \in {"CALIBRATING", "RUNNING"}
    BY DEF AgeInv, ResultInv
  <2>2. CASE state = "CALIBRATING"
    <3>1. ready /\ result.age <= Polled
      BY <2>2 DEF AgeInv, ResultInv
    <3>2. result'.age <= Polled'
      BY <1>3, <1>5, <2>2, <3>1, Bounds
    <3> QED
      BY <1>1, <2>2, <3>1, <3>2 DEF ResultInv
  <2>3. CASE state = "RUNNING"
    <3>1. result.age <= Unheard => result'.age <= Unheard'
      BY <1>4, <1>5, <2>3, Bounds
    <3>2. result.age < Unheard + POLL + LOOP_MAX => result'.age < Unheard' + POLL + LOOP_MAX
      BY <1>4, <1>5, <2>3, Bounds
    <3> QED
      BY <1>1, <2>3, <3>1, <3>2 DEF AgeInv, ResultInv
  <2> QED
    BY <2>1, <2>2, <2>3
<1>12. ReadInv'
  <2> SUFFICES ASSUME pc = "clear", r.status \in Distance PROVE ReadInv'
    BY <1>1, <1>5 DEF ReadInv
  <2>1. state = "RUNNING" /\ r.age < Unheard + POLL + LOOP_MAX /\ Unheard - Age(now) <= LOOP_MAX
    BY DEF AgeInv, ReadInv, IInv, LoopInv
  <2>2. r'.age < Unheard' + POLL + LOOP_MAX
    BY <1>4, <1>5, <2>1, Bounds
  <2> QED
    BY <1>8, <2>1, <2>2 DEF ReadInv
<1>13. RangeInv'
  <2> SUFFICES ASSUME range.status \in Distance PROVE RangeInv'
    BY <1>5 DEF RangeInv
  <2>1. state = "RUNNING" /\ range.age < Unheard + POLL + 2 * LOOP_MAX
    BY DEF AgeInv, RangeInv, IInv, DriverInv
  <2>2. range'.age < Unheard' + POLL + 2 * LOOP_MAX
    BY <1>4, <1>5, <2>1, Bounds
  <2> QED
    BY <2>2 DEF RangeInv
<1> QED
  BY <1>6, <1>7, <1>9, <1>10, <1>11, <1>12, <1>13 DEF AgeInv

\* Every step preserves the ages.
LEMMA AgesKept == IInv /\ AgeInv /\ [Next]_vars => AgeInv'
<1> SUFFICES ASSUME IInv, AgeInv, [Next]_vars PROVE AgeInv'
  OBVIOUS
<1>1. CASE ReadClock
  BY <1>1, AgesOfReadClock
<1>2. CASE TakeIrq
  BY <1>2, AgesOfTakeIrq
<1>3. CASE Step
  BY <1>3, AgesOfStep
<1>4. CASE GetResult
  BY <1>4, AgesOfGetResult
<1>5. CASE ClearInterrupt
  BY <1>5, AgesOfClear
<1>6. CASE Expire
  BY <1>6, AgesOfExpire
<1>7. CASE Report \/ Rest
  BY <1>7, AgesOfRest
<1>8. CASE MeasurementEnds
  BY <1>8, AgesOfMeasurement
<1>9. CASE Disconnect
  BY <1>9, AgesOfDisconnect
<1>10. CASE Reconnect
  BY <1>10, AgesUnchanged DEF Reconnect, loop, tof
<1>11. CASE Tick
  BY <1>11, AgesOfTick
<1>12. CASE UNCHANGED vars
  BY <1>12, AgesUnchanged DEF vars, loop, tof, chip
<1> QED
  BY <1>1, <1>2, <1>3, <1>4, <1>5, <1>6, <1>7, <1>8, <1>9, <1>10, <1>11, <1>12 DEF Next, Main

\* What is published has been waited for no longer than the time-out.
LEMMA AgesShow ==
  ASSUME IInv, AgeInv
  PROVE  DistanceIsFresh
<1> SUFFICES ASSUME pc = "publish", range.status \in Distance
             PROVE  range.age < SAMPLE_TIMEOUT + POLL + 3 * LOOP_MAX
  BY DEF DistanceIsFresh
<1>1. state = "RUNNING"
  BY DEF IInv, DriverInv
<1>2. Unheard - Age(now) < SAMPLE_TIMEOUT
  BY <1>1, Bounds DEF AgeInv, TimeoutInv
<1>3. range.age < Unheard + POLL + 2 * LOOP_MAX
  BY DEF AgeInv, RangeInv
<1> QED
  BY <1>2, <1>3, Bounds

\* Whatever interrupts are lost, spurious or left over, and whenever the chip comes
\* and goes, a distance that may be published was measured less than the sample
\* time-out, one wait of the calibration and three iterations ago
\* (vl53l1x.c:44-65, README.md:105).
THEOREM DistanceFresh == Spec => []DistanceIsFresh
<1>1. Init => IInv /\ AgeInv
  BY InitInvariant, AgesAtStart
<1>2. IInv /\ AgeInv /\ [Next]_vars => (IInv /\ AgeInv)'
  BY NextInvariant, AgesKept
<1>3. IInv /\ AgeInv => DistanceIsFresh
  BY AgesShow
<1> QED
  BY <1>1, <1>2, <1>3, PTL DEF Spec
=============================================================================
