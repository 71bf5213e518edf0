----------------------------- MODULE FlowSensor -----------------------------
(***************************************************************************)
(* The optical-flow sensor: the PMW3901 driver (drivers/pmw3901.c), its    *)
(* supervision in the main loop (main.c:34-38,43), the motion interrupt    *)
(* (platform.c:128,130,171) and the chip itself as the driver sees it.     *)
(* Each statement of the loop is a step; time passes, interrupts arrive    *)
(* and the chip comes and goes between any two of them.                    *)
(*                                                                         *)
(* The chip is external.  It answers while it is connected; its motion     *)
(* line goes low when it has motion to report and stays low until the      *)
(* motion registers are read or the chip is reset, and the interrupt       *)
(* controller latches the falling edge only (platform.c:79).               *)
(***************************************************************************)
EXTENDS WrapTime

CONSTANTS
  LOOP_MAX,        \* the longest iteration of the loop, in ticks
  RESET_TICKS,     \* pmw3901.c:55: how long the chip is held in reset
  BOOT_TICKS,      \* pmw3901.c:61-62: waits after reset and after power-up
  SEQ_LENGTH,      \* entries of init_sequence
  SEQ_DELAY,       \* delay after its last entry
  SENSOR_RETRY,    \* SENSOR_RETRY_MS
  HEALTH_CHECK,    \* PMW3901_HEALTH_CHECK_MS
  COUNT_MAX,       \* INT32_MAX: where an accumulator saturates
  Deltas,          \* the motion a burst may report
  Quality          \* the surface quality a burst may report

ASSUME FlowAssumption ==
  /\ CLOCK \in Nat /\ LOOP_MAX \in Nat \ {0} /\ LOOP_MAX < CLOCK
  /\ {RESET_TICKS, BOOT_TICKS, SEQ_DELAY, SENSOR_RETRY, HEALTH_CHECK} \subseteq 0 .. CLOCK - 1
  /\ SEQ_LENGTH \in Nat \ {0}
  /\ COUNT_MAX \in Nat
  /\ Deltas \subseteq Int
  /\ 0 \in Quality

InitStates == {"IDLE", "RESET_ASSERTED", "RELEASE_WAIT", "ID_WAIT", "SEQUENCE", "DONE"}
Counts == (0 - COUNT_MAX) .. COUNT_MAX

VARIABLES
  pc,                \* the statement of the loop that runs next
  now,               \* main.c:34
  initialized, init_state, init_index, init_deadline,    \* pmw3901_t
  accumulated, quality,                                  \* pmw3901_t, one axis
  pmw_retry, pmw_health_check,                           \* main.c:27
  pmwFault,          \* HEALTH_PMW_FAULT
  flow,              \* the flow sample published last
  pmw_irq,           \* platform.c:40
  connected,         \* chip: it answers
  inReset,           \* chip: its reset line is held
  motionLow,         \* chip: the motion line is low
  freshEdge          \* history: the line fell while the driver was initialized

pmw    == <<initialized, init_state, init_index, init_deadline, accumulated, quality>>
timers == <<pmw_retry, pmw_health_check>>
chip   == <<connected, inReset, motionLow>>
vars   == <<pc, now, pmw, timers, pmwFault, flow, pmw_irq, chip, freshEdge>>

-----------------------------------------------------------------------------
(* The driver. *)

\* Mutant: the counts survive a reset of the driver.
pmw3901_reset_state_KeepsCounts ==
  /\ UNCHANGED accumulated /\ quality' = 0
  /\ initialized' = FALSE
  /\ init_state' = "IDLE" /\ init_index' = 0 /\ init_deadline' = 0

\* The firmware calls this with the driver initialized or freshly declared.
pmw3901_reset_state ==
  /\ accumulated' = 0 /\ quality' = 0
  /\ initialized' = FALSE
  /\ init_state' = "IDLE" /\ init_index' = 0 /\ init_deadline' = 0

pmw3901_start_init ==
  /\ accumulated' = 0 /\ quality' = 0
  /\ initialized' = FALSE
  /\ init_state' = "RESET_ASSERTED" /\ init_index' = 0
  /\ init_deadline' = Plus(0, RESET_TICKS)
  /\ inReset' = TRUE /\ motionLow' = FALSE /\ freshEdge' = FALSE

\* Mutant: coming up does not clear the fault.
SequenceEntry_KeepsFault ==
  /\ IF init_index < SEQ_LENGTH
       THEN /\ init_state' = "SEQUENCE"
            /\ init_index' = init_index + 1
            /\ init_deadline' = Plus(0, IF init_index' = SEQ_LENGTH THEN SEQ_DELAY ELSE 0)
            /\ UNCHANGED initialized
       ELSE /\ init_state' = "DONE" /\ initialized' = TRUE
            /\ UNCHANGED <<init_index, init_deadline>>
  /\ UNCHANGED pmwFault

\* One register of the sequence, or its end (pmw3901.c:64).
SequenceEntry ==
  IF init_index < SEQ_LENGTH
    THEN /\ init_state' = "SEQUENCE"
         /\ init_index' = init_index + 1
         /\ init_deadline' = Plus(0, IF init_index' = SEQ_LENGTH THEN SEQ_DELAY ELSE 0)
         /\ UNCHANGED <<initialized, pmwFault>>
    ELSE /\ init_state' = "DONE" /\ initialized' = TRUE
         /\ pmwFault' = FALSE
         /\ UNCHANGED <<init_index, init_deadline>>

\* main.c:37 on PMW_INIT_FAULT.
InitFault ==
  /\ init_state' = "IDLE"
  /\ pmwFault' = TRUE
  /\ pmw_retry' = Plus(now, SENSOR_RETRY)
  /\ UNCHANGED <<initialized, init_index, init_deadline>>

\* Mutant: the sum is stored as it is.
Saturate_Not(count) == count

\* The accumulators saturate (pmw3901.c:112-113).
Saturate(count) ==
  CASE count > COUNT_MAX       -> COUNT_MAX
    [] count < 0 - COUNT_MAX   -> 0 - COUNT_MAX
    [] OTHER                   -> count

\* A burst that came through.  A connected chip reports motion exactly when its
\* line is low; a burst from a chip that is gone may hold anything.
pmw3901_accumulate ==
  /\ quality' \in Quality
  /\ \/ /\ connected => motionLow
        /\ \E delta \in Deltas : accumulated' = Saturate(accumulated + delta)
     \/ /\ connected => ~motionLow
        /\ UNCHANGED accumulated

\* Mutant: the failure is reported and the driver left as it is.
TakeDown_StaysUp ==
  /\ UNCHANGED pmw
  /\ pmwFault' = TRUE
  /\ pmw_retry' = Plus(now, SENSOR_RETRY)

\* The sensor is taken out of service (main.c:35,38).
TakeDown ==
  /\ pmw3901_reset_state
  /\ pmwFault' = TRUE
  /\ pmw_retry' = Plus(now, SENSOR_RETRY)

-----------------------------------------------------------------------------
(* The main loop. *)

\* main.c:20-27: start_init runs before the loop is entered for the first time.
Init ==
  /\ pc = "top" /\ now = 0
  /\ initialized = FALSE /\ init_state = "RESET_ASSERTED" /\ init_index = 0
  /\ init_deadline = RESET_TICKS % CLOCK
  /\ accumulated = 0 /\ quality = 0
  /\ pmw_retry = SENSOR_RETRY % CLOCK /\ pmw_health_check = HEALTH_CHECK % CLOCK
  /\ pmwFault = FALSE
  /\ flow = [valid |-> FALSE, count |-> 0, quality |-> 0]
  /\ pmw_irq = FALSE
  /\ connected \in BOOLEAN /\ inReset = TRUE /\ motionLow = FALSE
  /\ freshEdge = FALSE

\* main.c:34-35: the flag is taken whether or not the driver can use it.
TakeIrq ==
  /\ pc = "top"
  /\ now' = 0
  /\ pmw_irq' = FALSE
  /\ pc' = IF pmw_irq /\ initialized THEN "read" ELSE "retry"
  /\ UNCHANGED <<pmw, timers, pmwFault, flow, chip, freshEdge>>

\* main.c:35, pmw3901.c:68-80.  A burst of ones, or a transfer that times out,
\* is an error, and only comes from a chip that is gone.
ReadMotion ==
  /\ pc = "read"
  /\ \/ /\ pmw3901_accumulate
        /\ UNCHANGED <<initialized, init_state, init_index, init_deadline,
                       pmw_retry, pmwFault>>
     \/ ~connected /\ TakeDown
  /\ motionLow' = FALSE /\ freshEdge' = FALSE
  /\ pc' = "retry"
  /\ UNCHANGED <<now, pmw_health_check, flow, pmw_irq, connected, inReset>>

\* main.c:36.
Retry ==
  /\ pc = "retry"
  /\ pc' = "init"
  /\ IF ~initialized /\ time_reached_u32(now, pmw_retry)
       THEN pmw3901_start_init /\ pmw_retry' = Plus(now, SENSOR_RETRY)
       ELSE UNCHANGED <<pmw, pmw_retry, inReset, motionLow, freshEdge>>
  /\ UNCHANGED <<now, pmw_health_check, pmwFault, flow, pmw_irq, connected>>

\* pmw3901_init_step is called once an iteration while the chip comes up and
\* reads the microsecond clock at the call.  It has one disjunct per state.
InitDue == time_reached_u32(0, init_deadline)

InitWaits ==
  /\ ~InitDue
  /\ UNCHANGED <<pmw, pmw_retry, pmwFault, chip, freshEdge>>

ReleaseReset ==
  /\ InitDue /\ init_state = "RESET_ASSERTED"
  /\ inReset' = FALSE
  /\ init_state' = "RELEASE_WAIT" /\ init_deadline' = Plus(0, BOOT_TICKS)
  /\ UNCHANGED <<initialized, init_index, accumulated, quality, pmw_retry,
                 pmwFault, connected, motionLow, freshEdge>>

PowerUp ==
  /\ InitDue /\ init_state = "RELEASE_WAIT"
  /\ \/ /\ init_state' = "ID_WAIT" /\ init_deadline' = Plus(0, BOOT_TICKS)
        /\ UNCHANGED <<initialized, init_index, pmw_retry, pmwFault>>
     \/ ~connected /\ InitFault
  /\ UNCHANGED <<accumulated, quality, chip, freshEdge>>

\* Reading the motion registers after the identity check clears the motion line;
\* the first entry of the sequence is written in the same call.
CheckIdentity ==
  /\ InitDue /\ init_state = "ID_WAIT"
  /\ \/ connected /\ SequenceEntry /\ motionLow' = FALSE /\ UNCHANGED pmw_retry
     \/ ~connected /\ InitFault /\ UNCHANGED motionLow
  /\ UNCHANGED <<accumulated, quality, connected, inReset, freshEdge>>

WriteSequence ==
  /\ InitDue /\ init_state = "SEQUENCE"
  /\ \/ SequenceEntry /\ UNCHANGED pmw_retry
     \/ ~connected /\ init_index < SEQ_LENGTH /\ InitFault
  /\ UNCHANGED <<accumulated, quality, chip, freshEdge>>

pmw3901_init_step ==
  InitWaits \/ ReleaseReset \/ PowerUp \/ CheckIdentity \/ WriteSequence

\* main.c:37.
InitStep ==
  /\ pc = "init"
  /\ pc' = "check"
  /\ IF ~initialized /\ init_state # "IDLE"
       THEN pmw3901_init_step
       ELSE UNCHANGED <<pmw, pmw_retry, pmwFault, chip, freshEdge>>
  /\ UNCHANGED <<now, pmw_health_check, flow, pmw_irq>>

\* Mutant: the result of the check is dropped.
HealthCheck_Ignored ==
  /\ pc = "check"
  /\ pc' = "publish"
  /\ pmw_health_check' = IF initialized /\ time_reached_u32(now, pmw_health_check)
                           THEN Plus(now, HEALTH_CHECK) ELSE pmw_health_check
  /\ UNCHANGED <<now, pmw, pmw_retry, pmwFault, flow, pmw_irq, chip, freshEdge>>

\* Only the identity registers are read: any chip that answers passes.
pmw3901_health_check == connected

\* main.c:38.
HealthCheck ==
  /\ pc = "check"
  /\ pc' = "publish"
  /\ IF initialized /\ time_reached_u32(now, pmw_health_check)
       THEN /\ pmw_health_check' = Plus(now, HEALTH_CHECK)
            /\ IF pmw3901_health_check
                 THEN UNCHANGED <<pmw, pmw_retry, pmwFault>>
                 ELSE TakeDown
       ELSE UNCHANGED <<pmw, timers, pmwFault>>
  /\ UNCHANGED <<now, flow, pmw_irq, chip, freshEdge>>

\* Mutant: publishing discards a pending interrupt with the counts.
Publish_ClearsIrq ==
  /\ pc = "publish"
  /\ pc' = "top"
  /\ flow' = [valid |-> initialized, count |-> accumulated, quality |-> quality]
  /\ accumulated' = 0 /\ quality' = 0 /\ pmw_irq' = FALSE
  /\ UNCHANGED <<now, initialized, init_state, init_index, init_deadline, timers,
                 pmwFault, chip, freshEdge>>

\* main.c:43, pmw3901.c:116-121.  Whether the period has elapsed is left open.
Publish ==
  /\ pc = "publish"
  /\ pc' = "top"
  /\ \/ /\ flow' = [valid |-> initialized, count |-> accumulated, quality |-> quality]
        /\ accumulated' = 0 /\ quality' = 0
     \/ UNCHANGED <<flow, accumulated, quality>>
  /\ UNCHANGED <<now, initialized, init_state, init_index, init_deadline, timers,
                 pmwFault, pmw_irq, chip, freshEdge>>

Main == TakeIrq \/ ReadMotion \/ Retry \/ InitStep \/ HealthCheck \/ Publish

-----------------------------------------------------------------------------
(* The chip, the interrupt and time. *)

\* The chip has motion to report; the falling edge interrupts (platform.c:171).
MotionEdge ==
  /\ connected /\ ~inReset /\ ~motionLow
  /\ motionLow' = TRUE
  /\ pmw_irq' = TRUE
  /\ freshEdge' = initialized
  /\ UNCHANGED <<pc, now, pmw, timers, pmwFault, flow, connected, inReset>>

\* The connector opens, with or without a spurious edge.
Disconnect ==
  /\ connected
  /\ connected' = FALSE /\ motionLow' = FALSE /\ freshEdge' = FALSE
  /\ pmw_irq' \in {pmw_irq, TRUE}
  /\ UNCHANGED <<pc, now, pmw, timers, pmwFault, flow, inReset>>

Reconnect ==
  /\ ~connected
  /\ connected' = TRUE
  /\ UNCHANGED <<pc, now, pmw, timers, pmwFault, flow, pmw_irq, inReset, motionLow,
                 freshEdge>>

\* An iteration takes at most LOOP_MAX ticks.
Tick ==
  /\ Age(now) < LOOP_MAX
  /\ now' = Aged(now)
  /\ init_deadline' = Aged(init_deadline)
  /\ pmw_retry' = Aged(pmw_retry)
  /\ pmw_health_check' = Aged(pmw_health_check)
  /\ UNCHANGED <<pc, initialized, init_state, init_index, accumulated, quality,
                 pmwFault, flow, pmw_irq, chip, freshEdge>>

Next == Main \/ MotionEdge \/ Disconnect \/ Reconnect \/ Tick

\* The loop runs and time passes; motion and the connector are left free.
Fairness == WF_vars(Main) /\ WF_vars(Tick)

Spec == Init /\ [][Next]_vars /\ Fairness

-----------------------------------------------------------------------------
TypeOK ==
  /\ pc \in {"top", "read", "retry", "init", "check", "publish"}
  /\ now \in Time
  /\ initialized \in BOOLEAN
  /\ init_state \in InitStates
  /\ init_index \in 0 .. SEQ_LENGTH
  /\ init_deadline \in Time
  /\ accumulated \in Counts
  /\ quality \in Quality
  /\ pmw_retry \in Time /\ pmw_health_check \in Time
  /\ pmwFault \in BOOLEAN
  /\ flow \in [valid : BOOLEAN, count : Counts, quality : Quality]
  /\ pmw_irq \in BOOLEAN
  /\ connected \in BOOLEAN /\ inReset \in BOOLEAN /\ motionLow \in BOOLEAN
  /\ freshEdge \in BOOLEAN

\* main.c:35-38: the fault bit and the driver never contradict each other; a
\* driver that is up has gone through its whole sequence, and one that is being
\* read is up.
FaultMeansDown ==
  /\ pmwFault => ~initialized
  /\ initialized <=> init_state = "DONE"
  /\ pc = "read" => initialized

\* pmw3901.c:51,55,116-121: whatever the order of failures, a sensor that is
\* down has no counts left over, and an invalid sample carries none.
InvalidFlowIsZero ==
  /\ ~initialized => accumulated = 0 /\ quality = 0
  /\ ~flow.valid => flow.count = 0 /\ flow.quality = 0

\* platform.c:128,171 and main.c:35: an edge that arrives while the driver is up
\* is never lost between the interrupt, the flag and the burst: as long as its
\* motion is unread, the flag is set or the read is about to happen.
EdgeIsRemembered ==
  /\ freshEdge => pmw_irq \/ pc = "read"
  /\ freshEdge => initialized /\ motionLow
  /\ motionLow => connected /\ ~inReset

\* main.c:36-38: a chip that is gone for good ends up reported and stays so.
LossIsReported == <>[]~connected => <>[](pmwFault /\ ~initialized)

\* main.c:36-37: a chip that is there for good ends up in service and stays so.
ChipComesUp == <>[]connected => <>[](initialized /\ ~pmwFault)

\* README.md:103, "Motion EXTI only sets a flag; Motion Burst is read and
\* accumulated in the main loop": motion that a chip in service reports is read.
MotionIsRead ==
  (initialized /\ motionLow) ~> (~motionLow \/ ~initialized)
=============================================================================
