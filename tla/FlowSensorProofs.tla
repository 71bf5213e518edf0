-------------------------- MODULE FlowSensorProofs --------------------------
(***************************************************************************)
(* Proofs about the optical-flow sensor for any clock width, any waits and *)
(* periods, any initialization sequence and any motion.                    *)
(***************************************************************************)
EXTENDS FlowSensor, TLAPS

IInv == TypeOK /\ FaultMeansDown /\ InvalidFlowIsZero /\ EdgeIsRemembered

\* Clock arithmetic stays on the clock.
LEMMA TimeIsClosed ==
  /\ 0 \in Time
  /\ \A t \in Time : Aged(t) \in Time
  /\ \A t \in Time, d \in 0 .. CLOCK - 1 : Plus(t, d) \in Time
  /\ \A d \in 0 .. CLOCK - 1 : d % CLOCK \in Time
BY FlowAssumption DEF Time, Aged, Plus

\* A saturated sum is a count.
LEMMA SaturateIsCount ==
  ASSUME NEW c \in Counts, NEW delta \in Deltas
  PROVE  Saturate(c + delta) \in Counts
BY FlowAssumption DEF Saturate, Counts

\* Zero is a count, and every duration is a time.
LEMMA Constants ==
  /\ 0 \in Counts /\ 0 \in Quality
  /\ {RESET_TICKS, BOOT_TICKS, SEQ_DELAY, SENSOR_RETRY, HEALTH_CHECK, 0} \subseteq 0 .. CLOCK - 1
  /\ SEQ_LENGTH \in Nat \ {0}
BY FlowAssumption DEF Counts

\* The sensor starts down, being reset, with nothing counted and no fault.
LEMMA InitInvariant == Init => IInv
<1> SUFFICES ASSUME Init PROVE IInv
  OBVIOUS
<1>1. init_deadline \in Time /\ pmw_retry \in Time /\ pmw_health_check \in Time
  BY TimeIsClosed, Constants DEF Init
<1>2. flow \in [valid : BOOLEAN, count : Counts, quality : Quality]
  BY Constants DEF Init
<1>4. init_index \in 0 .. SEQ_LENGTH /\ now \in Time
  BY TimeIsClosed, Constants DEF Init
<1>3. TypeOK
  BY <1>1, <1>2, <1>4, Constants DEF Init, TypeOK, InitStates
<1> QED
  BY <1>3 DEF Init, IInv, FaultMeansDown, InvalidFlowIsZero, EdgeIsRemembered

\* The driver's step towards service: it comes up only with its fault cleared
\* and its counts zero.
LEMMA InitStepInvariant == IInv /\ InitStep => IInv'
<1> SUFFICES ASSUME IInv, InitStep PROVE IInv'
  OBVIOUS
<1> USE DEF IInv
<1>1. pc = "init" /\ pc' = "check" /\ UNCHANGED <<now, pmw_health_check, flow, pmw_irq>>
  BY DEF InitStep
<1>2. CASE initialized \/ init_state = "IDLE"
  BY <1>1, <1>2 DEF InitStep, TypeOK, FaultMeansDown, InvalidFlowIsZero,
    EdgeIsRemembered, pmw, chip
<1>3. CASE ~initialized /\ init_state # "IDLE"
  <2>1. pmw3901_init_step
    BY <1>3 DEF InitStep
  <2>2. UNCHANGED <<accumulated, quality, connected, freshEdge>>
    BY <2>1 DEF pmw3901_init_step, InitWaits, ReleaseReset, PowerUp, CheckIdentity,
      WriteSequence, pmw, chip
  <2>3. /\ inReset' \in BOOLEAN /\ motionLow' \in BOOLEAN
        /\ motionLow' => motionLow /\ ~inReset'
    <3>1. CASE UNCHANGED <<inReset, motionLow>>
      BY <3>1 DEF TypeOK, EdgeIsRemembered
    <3>2. CASE inReset' = FALSE /\ UNCHANGED motionLow
      BY <3>2 DEF TypeOK
    <3>3. CASE UNCHANGED inReset /\ motionLow' = FALSE
      BY <3>3 DEF TypeOK
    <3> QED
      BY <2>1, <3>1, <3>2, <3>3
      DEF pmw3901_init_step, InitWaits, ReleaseReset, PowerUp, CheckIdentity,
        WriteSequence, chip
  <2> DEFINE Advanced ==
        /\ init_state' \in InitStates /\ init_index' \in 0 .. SEQ_LENGTH
        /\ init_deadline' \in Time /\ pmw_retry' \in Time
        /\ pmwFault' \in BOOLEAN /\ initialized' \in BOOLEAN
        /\ pmwFault' => ~initialized'
        /\ initialized' <=> init_state' = "DONE"
  <2>4. Advanced
    <3>1. ASSUME SequenceEntry, UNCHANGED pmw_retry PROVE Advanced
      <4>1. CASE init_index < SEQ_LENGTH
        <5>1. /\ init_state' = "SEQUENCE" /\ init_index' = init_index + 1
              /\ init_deadline' \in {Plus(0, SEQ_DELAY), Plus(0, 0)}
              /\ UNCHANGED <<initialized, pmwFault>>
          BY <3>1, <4>1 DEF SequenceEntry
        <5>2. init_deadline' \in Time
          BY <5>1, TimeIsClosed, Constants
        <5>3. init_index' \in 0 .. SEQ_LENGTH
          BY <4>1, <5>1, Constants DEF TypeOK
        <5> QED
          BY <1>3, <3>1, <5>1, <5>2, <5>3 DEF TypeOK, InitStates
      <4>2. CASE ~(init_index < SEQ_LENGTH)
        BY <3>1, <4>2 DEF SequenceEntry, TypeOK, InitStates
      <4> QED
        BY <4>1, <4>2
    <3>2. ASSUME InitFault PROVE Advanced
      BY <1>3, <3>2, TimeIsClosed, Constants
      DEF InitFault, TypeOK, FaultMeansDown, InitStates
    <3>3. CASE InitWaits
      BY <1>3, <3>3 DEF InitWaits, pmw, TypeOK, FaultMeansDown
    <3>4. CASE ReleaseReset
      BY <1>3, <3>4, TimeIsClosed, Constants
      DEF ReleaseReset, TypeOK, FaultMeansDown, InitStates
    <3>5. CASE PowerUp
      BY <1>3, <3>2, <3>5, TimeIsClosed, Constants
      DEF PowerUp, TypeOK, FaultMeansDown, InitStates
    <3>6. CASE CheckIdentity
      BY <3>1, <3>2, <3>6 DEF CheckIdentity
    <3>7. CASE WriteSequence
      BY <3>1, <3>2, <3>7 DEF WriteSequence
    <3> QED
      BY <2>1, <3>3, <3>4, <3>5, <3>6, <3>7 DEF pmw3901_init_step
  <2>5. ~freshEdge
    BY <1>3 DEF EdgeIsRemembered
  <2>6. TypeOK'
    BY <1>1, <2>2, <2>3, <2>4 DEF TypeOK
  <2>7. FaultMeansDown'
    BY <1>1, <2>4 DEF FaultMeansDown
  <2>8. InvalidFlowIsZero'
    BY <1>1, <1>3, <2>2 DEF InvalidFlowIsZero
  <2>9. EdgeIsRemembered'
    BY <2>2, <2>3, <2>5 DEF EdgeIsRemembered, TypeOK
  <2> QED
    BY <2>6, <2>7, <2>8, <2>9
<1> QED
  BY <1>2, <1>3

\* Taking the sensor down keeps the driver's variables in their types.
LEMMA TakeDownTypes ==
  ASSUME TypeOK, TakeDown
  PROVE  /\ initialized' \in BOOLEAN /\ init_state' \in InitStates
         /\ init_index' \in 0 .. SEQ_LENGTH /\ init_deadline' \in Time
         /\ accumulated' \in Counts /\ quality' \in Quality
         /\ pmw_retry' \in Time /\ pmwFault' \in BOOLEAN
<1>1. pmw_retry' \in Time
  BY TimeIsClosed, Constants DEF TakeDown, TypeOK
<1>2. init_deadline' \in Time
  BY TimeIsClosed DEF TakeDown, pmw3901_reset_state
<1>3. init_index' \in 0 .. SEQ_LENGTH
  BY Constants DEF TakeDown, pmw3901_reset_state
<1>4. accumulated' \in Counts /\ quality' \in Quality
  BY Constants DEF TakeDown, pmw3901_reset_state
<1> QED
  BY <1>1, <1>2, <1>3, <1>4 DEF TakeDown, pmw3901_reset_state, InitStates

\* Starting the sensor over keeps the driver's variables in their types.
LEMMA StartInitTypes ==
  ASSUME pmw3901_start_init
  PROVE  /\ initialized' \in BOOLEAN /\ init_state' \in InitStates
         /\ init_index' \in 0 .. SEQ_LENGTH /\ init_deadline' \in Time
         /\ accumulated' \in Counts /\ quality' \in Quality
<1>1. init_deadline' \in Time
  BY TimeIsClosed, Constants DEF pmw3901_start_init
<1>2. init_index' \in 0 .. SEQ_LENGTH
  BY Constants DEF pmw3901_start_init
<1>3. accumulated' \in Counts /\ quality' \in Quality
  BY Constants DEF pmw3901_start_init
<1> QED
  BY <1>1, <1>2, <1>3 DEF pmw3901_start_init, InitStates

\* A burst is read only while the driver is up, and a failed one takes it down
\* together with its counts.
LEMMA ReadMotionInvariant == IInv /\ ReadMotion => IInv'
<1> SUFFICES ASSUME IInv, ReadMotion PROVE IInv'
  OBVIOUS
<1> USE DEF IInv
<1>1. /\ pc' = "retry" /\ motionLow' = FALSE /\ freshEdge' = FALSE /\ initialized
      /\ UNCHANGED <<now, pmw_health_check, flow, pmw_irq, connected, inReset>>
  BY DEF ReadMotion, FaultMeansDown
<1>2. CASE /\ pmw3901_accumulate
           /\ UNCHANGED <<initialized, init_state, init_index, init_deadline,
                          pmw_retry, pmwFault>>
  <2>1. quality' \in Quality
    BY <1>2 DEF pmw3901_accumulate
  <2>2. accumulated' \in Counts
    BY <1>2, SaturateIsCount DEF pmw3901_accumulate, TypeOK
  <2>3. TypeOK'
    BY <1>1, <1>2, <2>1, <2>2 DEF TypeOK
  <2> QED
    BY <1>1, <1>2, <2>3 DEF FaultMeansDown, InvalidFlowIsZero, EdgeIsRemembered
<1>3. CASE TakeDown
  <2>1. TypeOK'
    BY <1>1, <1>3, TakeDownTypes DEF TypeOK
  <2> QED
    BY <1>1, <1>3, <2>1
    DEF TakeDown, pmw3901_reset_state, FaultMeansDown, InvalidFlowIsZero, EdgeIsRemembered
<1> QED
  BY <1>2, <1>3 DEF ReadMotion

LEMMA HealthCheckInvariant == IInv /\ HealthCheck => IInv'
<1> SUFFICES ASSUME IInv, HealthCheck PROVE IInv'
  OBVIOUS
<1> USE DEF IInv
<1>1. pc' = "publish" /\ UNCHANGED <<now, flow, pmw_irq, chip, freshEdge>>
  BY DEF HealthCheck
<1>2. pmw_health_check' \in Time
  BY TimeIsClosed, Constants DEF HealthCheck, timers, TypeOK
<1>3. CASE UNCHANGED <<pmw, pmw_retry, pmwFault>>
  <2>1. /\ UNCHANGED <<initialized, init_state, init_index, init_deadline>>
        /\ UNCHANGED <<accumulated, quality, pmw_retry, pmwFault>>
        /\ UNCHANGED <<now, flow, pmw_irq, connected, inReset, motionLow, freshEdge>>
    BY <1>1, <1>3 DEF pmw, chip
  <2>2. TypeOK'
    BY <1>1, <1>2, <2>1 DEF TypeOK
  <2>3. FaultMeansDown' /\ InvalidFlowIsZero'
    BY <1>1, <2>1 DEF FaultMeansDown, InvalidFlowIsZero
  <2>4. EdgeIsRemembered'
    <3>1. pc # "read"
      BY DEF HealthCheck
    <3> QED
      BY <1>1, <2>1, <3>1 DEF EdgeIsRemembered
  <2> QED
    BY <2>2, <2>3, <2>4
<1>4. CASE ~connected /\ TakeDown
  <2>1. ~freshEdge
    BY <1>4 DEF EdgeIsRemembered
  <2>2. TypeOK'
    BY <1>1, <1>2, <1>4, TakeDownTypes DEF TypeOK, chip
  <2> QED
    BY <1>1, <1>4, <2>1, <2>2
    DEF TakeDown, pmw3901_reset_state, FaultMeansDown, InvalidFlowIsZero,
      EdgeIsRemembered, chip
<1> QED
  BY <1>3, <1>4 DEF HealthCheck, pmw3901_health_check, timers

\* Every step preserves the invariant.
LEMMA NextInvariant == IInv /\ [Next]_vars => IInv'
<1> SUFFICES ASSUME IInv, [Next]_vars PROVE IInv'
  OBVIOUS
<1>1. CASE TakeIrq
  BY <1>1, TimeIsClosed DEF TakeIrq, IInv, TypeOK, FaultMeansDown, InvalidFlowIsZero,
    EdgeIsRemembered, pmw, timers, chip
<1>2. CASE ReadMotion
  BY <1>2, ReadMotionInvariant
<1>3. CASE Retry
  <2>1. CASE ~initialized /\ time_reached_u32(now, pmw_retry)
    <3>2. pmw_retry' \in Time
      BY <1>3, <2>1, TimeIsClosed, Constants DEF Retry, IInv, TypeOK
    <3>3. pmw3901_start_init
      BY <1>3, <2>1 DEF Retry
    <3>1. TypeOK'
      BY <1>3, <3>2, <3>3, StartInitTypes DEF Retry, pmw3901_start_init, IInv, TypeOK
    <3> QED
      BY <1>3, <2>1, <3>1 DEF Retry, pmw3901_start_init, IInv, FaultMeansDown,
        InvalidFlowIsZero, EdgeIsRemembered
  <2>2. CASE ~(~initialized /\ time_reached_u32(now, pmw_retry))
    BY <1>3, <2>2 DEF Retry, pmw, IInv, TypeOK, FaultMeansDown,
      InvalidFlowIsZero, EdgeIsRemembered
  <2> QED
    BY <2>1, <2>2
<1>4. CASE InitStep
  BY <1>4, InitStepInvariant
<1>5. CASE HealthCheck
  BY <1>5, HealthCheckInvariant
<1>6. CASE Publish
  <2>1. /\ flow' \in [valid : BOOLEAN, count : Counts, quality : Quality]
        /\ accumulated' \in Counts /\ quality' \in Quality
        /\ ~initialized => accumulated' = 0 /\ quality' = 0
        /\ ~flow'.valid => flow'.count = 0 /\ flow'.quality = 0
    BY <1>6, Constants DEF Publish, IInv, TypeOK, InvalidFlowIsZero
  <2> QED
    BY <1>6, <2>1 DEF Publish, IInv, TypeOK, FaultMeansDown, InvalidFlowIsZero,
      EdgeIsRemembered, timers, chip
<1>7. CASE MotionEdge
  BY <1>7 DEF MotionEdge, IInv, TypeOK, FaultMeansDown, InvalidFlowIsZero,
    EdgeIsRemembered, pmw, timers
<1>8. CASE Disconnect
  BY <1>8 DEF Disconnect, IInv, TypeOK, FaultMeansDown, InvalidFlowIsZero,
    EdgeIsRemembered, pmw, timers
<1>9. CASE Reconnect
  BY <1>9 DEF Reconnect, IInv, TypeOK, FaultMeansDown, InvalidFlowIsZero,
    EdgeIsRemembered, pmw, timers
<1>10. CASE Tick
  BY <1>10, TimeIsClosed DEF Tick, IInv, TypeOK, FaultMeansDown, InvalidFlowIsZero,
    EdgeIsRemembered, chip
<1>11. CASE UNCHANGED vars
  BY <1>11 DEF vars, IInv, TypeOK, FaultMeansDown, InvalidFlowIsZero,
    EdgeIsRemembered, pmw, timers, chip
<1> QED
  BY <1>1, <1>2, <1>3, <1>4, <1>5, <1>6, <1>7, <1>8, <1>9, <1>10, <1>11
  DEF Next, Main

\* The inductive invariant holds of every behaviour of the sensor and its loop.
THEOREM Invariant == Spec => []IInv
<1>1. Init => IInv
  BY InitInvariant
<1>2. IInv /\ [Next]_vars => IInv'
  BY NextInvariant
<1> QED
  BY <1>1, <1>2, PTL DEF Spec

\* Times stay on the clock and counts within their saturation (pmw3901.c:112-113).
THEOREM TypeCorrect == Spec => []TypeOK
<1>1. IInv => TypeOK
  BY DEF IInv
<1> QED
  BY <1>1, Invariant, PTL

\* The fault bit is never set while the driver is in service (main.c:35-38).
THEOREM FaultIsHonest == Spec => []FaultMeansDown
<1>1. IInv => FaultMeansDown
  BY DEF IInv
<1> QED
  BY <1>1, Invariant, PTL

\* An invalid flow sample carries no motion (pmw3901.c:51,55,116-121).
THEOREM InvalidIsZero == Spec => []InvalidFlowIsZero
<1>1. IInv => InvalidFlowIsZero
  BY DEF IInv
<1> QED
  BY <1>1, Invariant, PTL

\* No edge that arrives while the driver is up is lost (platform.c:128,171).
THEOREM EdgeIsKept == Spec => []EdgeIsRemembered
<1>1. IInv => EdgeIsRemembered
  BY DEF IInv
<1> QED
  BY <1>1, Invariant, PTL
=============================================================================
