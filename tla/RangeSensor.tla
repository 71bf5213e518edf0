----------------------------- MODULE RangeSensor -----------------------------
(***************************************************************************)
(* The range sensor: the VL53L1X driver (drivers/vl53l1x.c), its call and  *)
(* its health bits in the main loop (main.c:39), its interrupt             *)
(* (platform.c:79,130,172) and the chip itself as the driver sees it.      *)
(* Each statement that meets the interrupt or the bus is a step; time      *)
(* passes, measurements end and the chip comes and goes between any two.   *)
(*                                                                         *)
(* The chip is external.  While it ranges, a measurement ends every SAMPLE *)
(* ticks and raises data-ready, which the driver clears over the bus; its  *)
(* interrupt line shows data-ready with the polarity the configuration     *)
(* table selects.                                                          *)
(***************************************************************************)
EXTENDS WrapTime

CONSTANTS
  LOOP_MAX,        \* the longest iteration of the loop, in ticks
  BOOT,            \* vl53l1x.c:19: how long the chip is held off at start
  WAKE,            \* vl53l1x.c:40,66: from switching on to the first write
  POLL,            \* vl53l1x.c:44,50: between two looks at the calibration
  TOF_BOOT_TIMEOUT,   \* TOF_BOOT_TIMEOUT_MS
  SAMPLE_TIMEOUT,  \* VL53L1X_SAMPLE_TIMEOUT_MS
  SENSOR_RETRY,    \* SENSOR_RETRY_MS
  CONFIG_LENGTH,   \* entries of the configuration table
  SAMPLE,          \* chip: ticks from one measurement to the next
  Outcomes,        \* what a measurement may come to (vl53l1x.c:57-61)
  AGE_MAX          \* bound: ages are counted up to here

ASSUME RangeAssumption ==
  /\ CLOCK \in Nat /\ LOOP_MAX \in Nat \ {0} /\ LOOP_MAX < CLOCK
  /\ {BOOT, WAKE, POLL, TOF_BOOT_TIMEOUT, SAMPLE_TIMEOUT, SENSOR_RETRY} \subseteq 1 .. CLOCK - 1
  /\ POLL + 2 * LOOP_MAX <= CLOCK /\ SAMPLE_TIMEOUT + 2 * LOOP_MAX <= CLOCK
  /\ CONFIG_LENGTH \in Nat \ {0} /\ SAMPLE \in Nat \ {0} /\ AGE_MAX \in Nat
  /\ Outcomes \subseteq {"VALID", "TOO_CLOSE", "TOO_FAR", "INVALID"}

VARIABLES
  pc,                \* the statement that runs next
  now,               \* main.c:34
  state, deadline, timeout, init_index, irq_pending,     \* tof_t
  range,             \* the range sample, with the age of its measurement
  tofFault,          \* HEALTH_TOF_FAULT and HEALTH_I2C_FAULT
  tof_irq,           \* platform.c:40
  connected,         \* chip: it answers
  xshut,             \* chip: it is switched on
  intact,            \* chip: no power was lost since it was switched on
  ranging,           \* chip: it measures
  wait,              \* chip: ticks to the end of the measurement
  ready,             \* chip: data-ready
  result,            \* chip: the result registers, with their age
  r                  \* vl53l1x.c:53: the result read, until it is stored

loop == <<pc, now>>
tof  == <<state, deadline, timeout, init_index, irq_pending>>
chip == <<connected, xshut, intact, ranging, wait, ready, result>>
vars == <<loop, tof, range, tofFault, tof_irq, chip, r>>

States == {"BOOT_WAIT", "INITIALIZING", "CALIBRATING", "RUNNING", "RETRY_WAIT"}
Distance == {"VALID", "TOO_CLOSE", "TOO_FAR"}
Samples == [status : {"VALID", "TOO_CLOSE", "TOO_FAR", "INVALID", "FAULT"}, age : 0 .. AGE_MAX]
NoResult == [status |-> "INVALID", age |-> 0]

-----------------------------------------------------------------------------
(* The chip. *)

\* Entry 0x30 of the configuration table; the driver never changes it.
ACTIVE_HIGH == TRUE

\* Data-ready changes; a falling edge of the line interrupts (platform.c:79,172).
DataReady(new) ==
  /\ ready' = new
  /\ tof_irq' = (tof_irq \/ (ready = ACTIVE_HIGH /\ new = ~ACTIVE_HIGH))

\* The chip forgets everything when it is switched off or loses its power.
ChipForgets ==
  ranging' = FALSE /\ wait' = 0 /\ ready' = FALSE /\ result' = NoResult

\* Registers written over the bus start a measurement; a chip that has lost part
\* of its configuration may not measure.
StartRanging ==
  /\ ranging' \in {intact, TRUE}
  /\ wait' = IF ranging' THEN SAMPLE ELSE 0

-----------------------------------------------------------------------------
(* The driver. *)

\* Mutant: the chip is left on through a fault.
enter_fault_LeavesOn ==
  /\ range' = [status |-> "FAULT", age |-> 0]
  /\ state' = "RETRY_WAIT" /\ deadline' = Plus(now, SENSOR_RETRY)
  /\ UNCHANGED <<timeout, init_index, tof_irq, chip>>

\* Mutant: the last distance is kept through a fault.
enter_fault_KeepsSample ==
  /\ range' = range
  /\ xshut' = FALSE /\ ChipForgets
  /\ state' = "RETRY_WAIT" /\ deadline' = Plus(now, SENSOR_RETRY)
  /\ UNCHANGED <<timeout, init_index, tof_irq, connected, intact>>

enter_fault ==
  /\ range' = [status |-> "FAULT", age |-> 0]
  /\ xshut' = FALSE /\ ChipForgets
  /\ state' = "RETRY_WAIT" /\ deadline' = Plus(now, SENSOR_RETRY)
  /\ UNCHANGED <<timeout, init_index, tof_irq, connected, intact>>

\* Switching on and configuring the chip may make its line fall.
SwitchOn ==
  /\ state \in {"BOOT_WAIT", "RETRY_WAIT"}
  /\ xshut' = TRUE /\ intact' = connected /\ tof_irq' \in {tof_irq, TRUE}
  /\ state' = "INITIALIZING" /\ deadline' = Plus(now, WAKE) /\ init_index' = 0
  /\ UNCHANGED <<timeout, range, connected, ranging, wait, ready, result>>

\* Mutant: the table is read one entry too far.
Configure_OffByOne ==
  /\ state = "INITIALIZING"
  /\ \/ ~connected /\ enter_fault
     \/ /\ connected /\ init_index < CONFIG_LENGTH
        /\ init_index' = init_index + 1
        /\ UNCHANGED <<state, deadline, timeout, range, tof_irq, chip>>
     \/ /\ connected /\ init_index = CONFIG_LENGTH
        /\ StartRanging
        /\ state' = "CALIBRATING"
        /\ timeout' = Plus(now, TOF_BOOT_TIMEOUT) /\ deadline' = Plus(now, POLL)
        /\ UNCHANGED <<init_index, range, tof_irq, connected, xshut, intact, ready, result>>

\* One entry of the table an iteration; ranging starts with the last.
Configure ==
  /\ state = "INITIALIZING"
  /\ \/ ~connected /\ enter_fault
     \/ /\ connected /\ init_index < CONFIG_LENGTH - 1
        /\ init_index' = init_index + 1
        /\ UNCHANGED <<state, deadline, timeout, range, tof_irq, chip>>
     \/ /\ connected /\ init_index = CONFIG_LENGTH - 1
        /\ StartRanging
        /\ state' = "CALIBRATING"
        /\ timeout' = Plus(now, TOF_BOOT_TIMEOUT) /\ deadline' = Plus(now, POLL)
        /\ UNCHANGED <<init_index, range, tof_irq, connected, xshut, intact, ready, result>>

\* Mutant: a calibration that never ends is not given up.
Calibrate_NoTimeout ==
  /\ state = "CALIBRATING"
  /\ \/ ~connected /\ enter_fault
     \/ connected /\ ~intact /\ ready /\ enter_fault
     \/ /\ connected /\ ready
        /\ DataReady(FALSE) /\ StartRanging
        /\ state' = "RUNNING" /\ timeout' = Plus(now, SAMPLE_TIMEOUT)
        /\ UNCHANGED <<deadline, init_index, range, connected, xshut, intact, result>>
     \/ /\ connected /\ ~ready
        /\ deadline' = Plus(now, POLL)
        /\ UNCHANGED <<state, timeout, init_index, range, tof_irq, chip>>

\* The first measurement is thrown away: its interrupt is cleared and ranging is
\* started anew, in continuous mode.  The mode is read back (vl53l1x.c:26), so a chip
\* that has lost part of its configuration may fail the call.
Calibrate ==
  /\ state = "CALIBRATING"
  /\ \/ ~connected /\ enter_fault
     \/ connected /\ ~intact /\ ready /\ enter_fault
     \/ /\ connected /\ ready
        /\ DataReady(FALSE) /\ StartRanging
        /\ state' = "RUNNING" /\ timeout' = Plus(now, SAMPLE_TIMEOUT)
        /\ UNCHANGED <<deadline, init_index, range, connected, xshut, intact, result>>
     \/ /\ connected /\ ~ready /\ time_reached_u32(now, timeout) /\ enter_fault
     \/ /\ connected /\ ~ready /\ ~time_reached_u32(now, timeout)
        /\ deadline' = Plus(now, POLL)
        /\ UNCHANGED <<state, timeout, init_index, range, tof_irq, chip>>

\* vl53l1x.c:40-51,66: at most one of these runs in a call, since each of the
\* waits it starts is longer than the call.
BringUpDue == state # "RUNNING" /\ time_reached_u32(now, deadline)
BringUp == SwitchOn \/ Configure \/ Calibrate

-----------------------------------------------------------------------------
(* The main loop. *)

\* main.c:20-22: the chip is switched off and its driver waits.
Init ==
  /\ pc = "top" /\ now = 0
  /\ state = "BOOT_WAIT" /\ deadline = BOOT /\ timeout = 0
  /\ init_index = 0 /\ irq_pending = FALSE
  /\ range = [status |-> "INVALID", age |-> 0]
  /\ tofFault = FALSE /\ tof_irq = FALSE
  /\ connected \in BOOLEAN /\ xshut = FALSE /\ intact = FALSE
  /\ ranging = FALSE /\ wait = 0 /\ ready = FALSE /\ result = NoResult
  /\ r = NoResult

ReadClock ==
  /\ pc = "top" /\ pc' = "take"
  /\ now' = 0
  /\ UNCHANGED <<tof, range, tofFault, tof_irq, chip, r>>

\* main.c:39, tof_irq_notify.
TakeIrq ==
  /\ pc = "take" /\ pc' = "step"
  /\ irq_pending' = (irq_pending \/ tof_irq) /\ tof_irq' = FALSE
  /\ UNCHANGED <<now, state, deadline, timeout, init_index, range, tofFault, chip, r>>

\* The part of tof_step before a sample is read.
Step ==
  /\ pc = "step"
  /\ IF BringUpDue
       THEN BringUp
       ELSE UNCHANGED <<state, deadline, timeout, init_index, range, tof_irq, chip>>
  /\ pc' = CASE state' # "RUNNING" -> "health"
             [] state' = "RUNNING" /\ irq_pending -> "read"
             [] OTHER -> "expire"
  /\ UNCHANGED <<now, irq_pending, tofFault, r>>

\* vl53l1x.c:53-56: the result registers are read ...
GetResult ==
  /\ pc = "read"
  /\ irq_pending' = FALSE
  /\ \/ /\ ~connected /\ enter_fault
        /\ pc' = "health" /\ UNCHANGED r
     \/ /\ connected /\ r' = result
        /\ pc' = "clear"
        /\ UNCHANGED <<state, deadline, timeout, init_index, range, tof_irq, chip>>
  /\ UNCHANGED <<now, tofFault>>

\* vl53l1x.c:54-63: ... and then the interrupt is cleared, and the sample stored.
ClearInterrupt ==
  /\ pc = "clear"
  /\ r' = NoResult
  /\ \/ /\ ~connected /\ enter_fault
        /\ pc' = "health"
     \/ /\ connected /\ DataReady(FALSE)
        /\ range' = r
        /\ timeout' = Plus(now, SAMPLE_TIMEOUT)
        /\ pc' = "expire"
        /\ UNCHANGED <<state, deadline, init_index, connected, xshut, intact, ranging,
                       wait, result>>
  /\ UNCHANGED <<now, irq_pending, tofFault>>

\* Mutant: the time-out is not looked at.
Expire_Never ==
  /\ pc = "expire" /\ pc' = "health"
  /\ UNCHANGED <<now, tof, tofFault, tof_irq, chip, range, r>>

\* vl53l1x.c:65: no sample came.  The pending interrupt has been consumed by now.
Expire ==
  /\ pc = "expire" /\ pc' = "health"
  /\ IF ~irq_pending /\ time_reached_u32(now, timeout)
       THEN enter_fault
       ELSE UNCHANGED <<state, deadline, timeout, init_index, range, tof_irq, chip>>
  /\ UNCHANGED <<now, irq_pending, tofFault, r>>

\* Mutant: the fault bits are never cleared.
Report_Sticky ==
  /\ pc = "health" /\ pc' = "publish"
  /\ tofFault' = (tofFault \/ state # "RUNNING")
  /\ UNCHANGED <<now, tof, range, tof_irq, chip, r>>

\* main.c:39, on the value vl53l1x.c:67 returns.
Report ==
  /\ pc = "health" /\ pc' = "publish"
  /\ tofFault' = (state # "RUNNING")
  /\ UNCHANGED <<now, tof, range, tof_irq, chip, r>>

\* The rest of the iteration, which may publish the sample (main.c:51-58).
Rest ==
  /\ pc = "publish" /\ pc' = "top"
  /\ UNCHANGED <<now, tof, range, tofFault, tof_irq, chip, r>>

Main == \/ ReadClock \/ TakeIrq \/ Step \/ GetResult \/ ClearInterrupt
        \/ Expire \/ Report \/ Rest

-----------------------------------------------------------------------------
(* The chip on its own, and time. *)

MeasurementEnds ==
  /\ ranging /\ wait = 0
  /\ \E outcome \in Outcomes : result' = [status |-> outcome, age |-> 0]
  /\ wait' = SAMPLE
  /\ DataReady(TRUE)
  /\ UNCHANGED <<loop, tof, range, tofFault, connected, xshut, intact, ranging, r>>

\* The connector opens, with or without a spurious edge.
Disconnect ==
  /\ connected
  /\ connected' = FALSE /\ intact' = FALSE /\ ChipForgets
  /\ tof_irq' \in {tof_irq, TRUE}
  /\ UNCHANGED <<loop, tof, range, tofFault, xshut, r>>

Reconnect ==
  /\ ~connected
  /\ connected' = TRUE
  /\ UNCHANGED <<loop, tof, range, tofFault, tof_irq, xshut, intact, ranging, wait,
                 ready, result, r>>

Older(sample) ==
  IF sample.status \notin Distance \/ sample.age = AGE_MAX THEN sample
  ELSE [sample EXCEPT !.age = @ + 1]

\* An iteration takes at most LOOP_MAX ticks, and a measurement ends on time.
Tick ==
  /\ Age(now) < LOOP_MAX
  /\ ranging => wait > 0
  /\ now' = Aged(now) /\ deadline' = Aged(deadline) /\ timeout' = Aged(timeout)
  /\ wait' = IF wait > 0 THEN wait - 1 ELSE 0
  /\ range' = Older(range) /\ result' = Older(result) /\ r' = Older(r)
  /\ UNCHANGED <<pc, state, init_index, irq_pending, tofFault, tof_irq, connected,
                 xshut, intact, ranging, ready>>

Next == Main \/ MeasurementEnds \/ Disconnect \/ Reconnect \/ Tick

\* The loop runs, measurements end and time passes; the connector is left free.
Fairness == WF_vars(Main) /\ WF_vars(MeasurementEnds) /\ WF_vars(Tick)

Spec == Init /\ [][Next]_vars /\ Fairness

-----------------------------------------------------------------------------
TypeOK ==
  /\ pc \in {"top", "take", "step", "read", "clear", "expire", "health", "publish"}
  /\ {now, deadline, timeout} \subseteq Time
  /\ state \in States
  /\ init_index \in 0 .. CONFIG_LENGTH - 1
  /\ irq_pending \in BOOLEAN
  /\ {range, result, r} \subseteq Samples
  /\ tofFault \in BOOLEAN /\ tof_irq \in BOOLEAN
  /\ {connected, xshut, intact, ranging, ready} \subseteq BOOLEAN
  /\ wait \in 0 .. SAMPLE

\* main.c:39,51-58: what a range message says and what the health bits say agree
\* whenever a message may be published: a sample is a distance only while the
\* driver is running and its fault bits are clear.
DistanceIsHealthy ==
  /\ range.status \in Distance => state = "RUNNING"
  /\ pc = "publish" => (tofFault <=> state # "RUNNING")

\* README.md:105, "If no fresh sample arrives for 100 ms, distance is
\* invalidated": when it may be published, a distance was measured less than the
\* sample time-out, one wait between two looks at the calibration and three
\* iterations ago, whatever interrupts were lost, spurious or left over from an
\* earlier bring-up.
DistanceIsFresh ==
  pc = "publish" /\ range.status \in Distance =>
    range.age < SAMPLE_TIMEOUT + POLL + 3 * LOOP_MAX

\* vl53l1x.c:32-35,66: a driver that waits, or has given up, holds the chip off.
ChipIsOffInFault ==
  /\ state \in {"BOOT_WAIT", "RETRY_WAIT"} <=> ~xshut
  /\ ranging => xshut /\ connected /\ state \in {"CALIBRATING", "RUNNING"}

\* A chip that is gone for good ends up reported, with no distance published.
LossIsReported == <>[]~connected => <>[](tofFault /\ range.status = "FAULT")

\* README.md:105, "a staged one-second retry begins": a chip that is there for
\* good comes into service again and again, whatever happened before.
ServiceReturns == <>[]connected => []<>(state = "RUNNING" /\ range.status # "FAULT")

\* README.md:22,105, "GPIO1 falling-edge EXTI" and "continuous mode ... (40 Hz
\* target)": a chip that is there for good and measures stays in service.
ServiceLasts == <>[]connected => <>[](state = "RUNNING")
=============================================================================
