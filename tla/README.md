# FlowCAN: specifications and proofs

TLA+ models of the FlowCAN firmware (`src/`), the TLC runs that check them and
the TLAPS proofs about them. FlowCAN is a bare-metal super-loop on a Cortex-M
microcontroller: it reads an optical-flow sensor (PMW3901, SPI) and a
time-of-flight range sensor (VL53L1X, I2C), and publishes both over MSP V2
(USART1) and DroneCAN v0 (CAN1).

What is hard in it is not arithmetic but order: one loop without locks, five
interrupt handlers that share memory with it, two sensors that come and go, a
bus that may take no frames for seconds, and timers on a clock that wraps. Host
tests (`src/tests/test_main.c`) exercise each function alone; the models
exercise them against each other.

## 1. The system

### Components, their state and their operations

| component | state | operations | code |
|---|---|---|---|
| main loop | `health`, the two samples, `pmw_retry`, `pmw_health_check` | one iteration after the other, never blocked; feeds the watchdog at the end | `app/main.c` |
| scheduler | `deadline`, `period` of each task | `periodic_task_init`, `periodic_task_due` (skips missed periods) | `app/scheduler.c` |
| PMW3901 driver | `pmw3901_t`: accumulators, quality, `initialized`, the bring-up state machine | `reset_state`, `start_init`, `init_step`, `read_motion`, `accumulate`, `health_check`, `publish` | `drivers/pmw3901.c` |
| VL53L1X driver | `tof_t`: state, deadline, time-out, `init_index`, `irq_pending` | `tof_begin`, `tof_irq_notify`, `tof_step` | `drivers/vl53l1x.c` |
| UART rings | `uart_tx`, `uart_rx` with a head and a tail each; the TDBE interrupt enable | `platform_uart_tx`, `platform_uart_rx_pop`, `USART1_IRQHandler` | `platform/platform.c`, `flowcan/ring.h` |
| CAN receive ring | `can_rx`, `can_head`, `can_tail`, `can_overflow`, `can_activity` | `CAN1_RX0_IRQHandler`, `platform_can_rx_pop`, `platform_take_can_rx_*` | `platform/platform.c` |
| DroneCAN node | the libcanard instance, transfer ids, `tx_overflow_pending`, `next_cleanup_us`, `next_status_ms`, the extended clock | `dronecan_publish_*`, `dronecan_poll`, `on_reception`, `dronecan_take_tx_overflow` | `protocol/dronecan.c` |
| libcanard | block pool, transmit queue, receive states | broadcast, respond, peek/pop, handle frame, cleanup | `third_party/libcanard/canard.c` |
| bus-off recovery | `active`, `retry_at_ms` | `can_recovery_step`, `platform_can_reinit` | `app/can_recovery.c` |
| MSP codec | parser state | `msp_encode_*`, `msp_parser_consume` | `protocol/msp.c` |
| LEDs | `off_at[4]`; `next`, last colour | `activity_pulse`, `activity_step`, `status_led_step` | `app/activity.c`, `app/status_led.c` |
| interrupt flags | `pmw_irq`, `tof_irq` | set by the EXINT handlers, taken by `take_flag` with interrupts masked | `platform/platform.c` |

### How they interact

The loop calls everything; nothing calls the loop. Interrupt handlers touch only
rings and flags: USART1 both UART rings and its own enable bit, CAN1_RX0 the
receive ring, EXINT1/EXINT9_5 one flag each, SysTick the millisecond counter.
Handlers preempt the loop at any instruction and are never preempted by it.
Drivers reach their chips by bus transfers that succeed or fail within a
time-out, and the chips answer with interrupt lines. The samples are shared
structures: written by the drivers, read by both publishers.

### What makes each component correct

* *UART rings*: a frame leaves whole, in order and once, or is refused; received
  bytes come out in order; neither side waits for ever.
* *Flow sensor*: the fault bit, the driver's state and the published sample agree;
  motion that is reported is read; a lost chip is noticed, a present one recovers.
* *Range sensor*: no stale distance; the sample agrees with the fault bits; a lost
  chip is noticed, a present one recovers and stays.
* *CAN transmit*: the pool is exact, the queue ordered, a measurement whole on the
  wire, the high-priority reserve kept, backpressure reported, no unbounded queue,
  automatic recovery from bus-off.
* *CAN receive*: as the UART, with overflow reported and time stamps that are not
  in the future.
* *Scheduler, LEDs*: at most one run a period, never stuck, at every value of the
  clock.
* *MSP parser*: it accepts the frames and nothing else, whatever bytes came before, and
  finds its place again after noise.

The hazards that follow from this, each at its line, are listed under `hazards`
in `PROJECT.json` with the properties that would catch them.

## 2. The modules

| module | what it is |
|---|---|
| `Ring` | index arithmetic of the rings: `ring_used`, `ring_can_write`, `Succ`, and `Contents`, what a ring holds |
| `ByteQueue` | abstract specification: a bounded FIFO that accepts a whole frame or refuses it |
| `UartLink` | the serial port: the loop's accesses, the handler, the USART; refines `ByteQueue` twice |
| `WrapTime` | 32-bit time: `time_reached_u32` on a clock of `CLOCK` values, kept relative to the present |
| `FlowSensor` | the PMW3901 driver, `main.c:34-38,43`, the motion interrupt and the chip |
| `RangeSensor` | the VL53L1X driver, `main.c:39`, its interrupt and the chip |
| `CanTx` | block pool, transmit queue, broadcasts, answers, poll, recovery and controller |
| `CanRx` | the CAN receive ring, its handler and flags, the extended clock and the time stamps; refines `ByteQueue` |
| `Msp` | the MSP V2 encoder and parser on a line that corrupts and loses bytes |
| `MainLoop` | the scheduler, the LEDs, the health bits they show and the watchdog, on an absolute clock |
| `FlowPower` | `FlowSensor` with the chip's configuration, which a loss of power takes away |
| `FirmwareConfig` | the firmware's values and the relations between them the models rest on, evaluated by TLC with `MCCanTx` |
| `MCUartLink`, `MCCanTx`, `MCMsp` | instances for TLC whose constants are not simple values |
| `RingProofs` | lemmas: index arithmetic, differences on a clock that wraps, least elements, induction over a set of numbers |
| `UartLinkProofs`, `FlowSensorProofs`, `RangeSensorProofs`, `CanTxProofs`, `CanRxProofs`, `MspProofs`, `MainLoopProofs` | the proofs about each module |

A definition keeps the name of the function, variable or state it models. A
definition whose name ends in an underscore and a few words (`CopyByte_PublishesEach`)
is a *mutant*: the bug a plausible slip would put there. For every property of
every passing run, one such mutant, put in place of the definition, makes the run
fail; the list is in `PROJECT.json`. That keeps each property honest: it is
violated by a bug of the code, not only by nonsense.

### Grain

`UartLink` cuts the loop at every access to memory the handler also touches, and
lets the handler be one step. `tail` is read once by `platform_uart_tx` and
`head` written by nobody else, so its two loads and its size test are one step.
`usart_interrupt_enable` is a read-modify-write of `ctrl1`; the argument for one
step is at `EnableTdbe`. The handler tests TDBE and not its enable bit, so a
received byte may send one; the model keeps that.

`FlowSensor` and `RangeSensor` make each statement of the loop that meets the
interrupt or the bus a step. Between any two, time passes, an edge arrives or the
chip comes or goes. A transfer to a chip that is gone fails, except that a motion
burst may also return anything (nothing is driving the line). `RangeSensor` splits
a sample into reading the result and clearing the interrupt.

`CanTx` has one step per statement of the loop and of `dronecan_poll`, one per
received and one per transmitted frame; the bus takes a mailbox, fails or recovers
in between. Bus-off is sampled twice in an iteration, as in the code, and may
change in between. `should_accept` (`dronecan.c:42`) looks at the type of a transfer and
not at its length, so a request may have several frames. Each requester has one receive
state, which takes a block, and the payload of an unfinished request takes more of them
(`createBufferBlock`); the model keeps both, and every way in which they are given back: the
request ends, is begun anew, finds no block, or is past its time. Toggles, transfer ids and
check sums are left out: a frame that does not fit is one the model may drop, with
what the code has done by then. The last frame of a request, or its only one, and the
answer to it are two steps. All answers are one stream. The timestamp of a new receive
state is 0 (`createRxState`) until a frame is good, which is a time long past.

`CanRx` cuts the loop at every access to the receive ring, as `UartLink` does; the
handler takes one frame a step, and a frame that is standard, remote or over-long
sets the overflow flag like one that finds the ring full (`platform.c:180`).
`platform_can_reinit` is one step, because it disables the interrupt first. What a
frame means is `CanTx`'s; here a request matters because its answer reads the clock
again in the middle of a poll.

`MainLoop` has two steps to an iteration: everything up to `main.c:67` works on the
`now` of `main.c:34` and shares nothing with a handler, and the LEDs follow. Time
passes between any two. The two sensors are what their own modules show of them: the
flow sensor starts, serves or is down with its fault bit set (`FaultMeansDown`), the
range sensor serves or not, and either may change in any iteration. The watchdog may
restart the controller at any moment, and the lamp keeps its colour.

`Msp` has one step for each byte. The check sum is the real one, computed bit by bit,
and bytes are numbers: what the properties tell apart is which strings of bytes pass.
`msp_encode_v2`'s tests for missing buffers and for room in the output (`msp.c:26`) are left
out, since its callers' 32 bytes (`main.c:31`) hold the frames they send.

### Time

Every time in the code is compared through `(int32_t)(now - deadline) >= 0`. The
sensor models keep times as they are used: relative to the present, modulo
`CLOCK`, which stands for 2^32. `Tick` moves every time back by one, so that a
deadline left behind long enough would become a future one exactly as in the code.
`now` is the value `main.c:34` read and may lag by `LOOP_MAX` ticks, the longest
iteration; waits measured by other clocks (`platform_micros`) start from the
present. `CanTx` needs no wrap (its times are 64-bit, or rearmed every period) and
counts ticks left. `CanRx` needs the wrap of the microsecond clock only in the
extended clock and the stamps: it keeps the true time and shows it modulo `CLOCK`.
`MainLoop` keeps its clock absolute, because 0 means "none" to an activity LED.

### What stands for what

| model | code |
|---|---|
| one accumulator, `Deltas` | the two axes, which never meet |
| a sample's `status` and `age` | distance, quality, time stamp |
| `connected`, `intact` | the chip has power and its connector; its configuration is whole |
| a frame's `stream`, `index`, `left` | identifier, place in its transfer, deadline |
| `got`, `torn` | a receiver's reassembly of each broadcast stream; answers, which may be cut short at an empty pool, are not followed |
| `rx_states[requester]` | a receive state: the time it has left, and the number of its `buffer_blocks` |
| one `deadline`, one `led` with its `off_at` | the two tasks, the four LEDs |
| a colour | a pattern's red, green, blue; `"off"` the dark part of a blinking one. The two red patterns have one colour and differ in how they blink |
| `rxLost`, `freshEdge`, `cut`, `lost`, `polled`, `phase`, `sincePulse`, `wrongFor`, `endsAtZero` | history variables: no code keeps them, properties need them |

## 3. The runs

| run | checks | what it shows |
|---|---|---|
| `UartLink` | `CopyInFreeSlots`, `ReadByteIsOldest`, `TxImplementsQueue`, `RxImplementsQueue`, `WaitingByteIsSent`, `LoopComesRound` | both directions implement `ByteQueue` under every preemption; enabling the interrupt last is enough; the budget keeps the loop going |
| `FlowSensor` | `FaultMeansDown`, `InvalidFlowIsZero`, `EdgeIsRemembered`, `LossIsReported`, `ChipComesUp` | supervision works through every order of failures |
| `FlowMotion` | `MotionIsRead` | **violated**: finding 1 |
| `FlowPower` | `LossOfPowerIsNoticed` | **violated**: finding 4 |
| `RangeSensor` | `DistanceIsHealthy`, `DistanceIsFresh`, `ChipIsOffInFault`, `LossIsReported`, `ServiceReturns` | no stale distance, whatever happens to interrupts |
| `RangeService` | `ServiceLasts` | **violated**: finding 2 |
| `CanTx` | `BlocksAreAccounted`, `QueueIsOrdered`, `TelemetryIsWhole`, `ReserveIsKept`, `BackpressureIsReported` | pool and queue stay sound through refusal, expiry, bus-off, recovery and requests of several frames |
| `CanTxLive` | `TelemetryIsAdmitted`, `BusOffEnds` | no unbounded queue; bus-off ends |
| `CanTxAnswer` | `AnswerHasBlocks` | **violated**: finding 3 |
| `CanRx` | `StampIsHonest`, `OverflowIsReported`, `RxImplementsQueue` | the receive ring is a bounded queue that only a full ring or a reset loses frames from; losses are reported; stamps are never in the future |
| `Msp` | `PayloadFits`, `AcceptsExactlyFrames`, `CleanFrameIsAccepted`, `PlaceIsFound` | the parser accepts the frames and nothing else, and recovers from noise |
| `MainLoop` | `GridIsKept`, `PulseEnds`, `LampIsTruthful` | timers and LEDs hold at every value of the clock, with late iterations and restarts; a lamp left behind for half the clock is not covered |

Passing runs also check `TypeOK`. Each property's comment in its module says which
lines it is about.

What some of them do not say:

* `LampIsTruthful` counts how long the lamp has shown a state that is over. Green
  and blue stand for one state each, and must be shown in it and in no other. The
  patterns of faults and bus-off blink: their colours must not be shown in any other state, and
  in theirs the lamp may be dark, for how long the model leaves open. A lamp
  whose `next` was left behind (section 4) is exempt: there the code shows a state that is over,
  and no property covers it.
* `BusOffEnds` says that bus-off ends. That a controller which works is not reset is
  the first case of `Recover` and has no property.
* `StampIsHonest` bounds how early a stamp is only for a frame that came before the clock
  was last read; later than the frame it never is.
* The histories `lost` in `CanTx` and `CanRx` and `rxLost` in `UartLink` are never reset, nor
  is the health bit they are compared with: after the first loss the
  reporting properties say nothing more. `cut` is kept for each stream and not reset either,
  so that once a transfer of a stream has been thrown away half-sent, a later one that
  starts anew in the middle is not noticed.

### Bounds, and why they are enough

* `UartLink`: rings of 3 slots, frames of 1 and 2 bytes, two byte values. A frame
  of two fills the ring, so every index wraps and every refusal and loss happens
  within a few steps; the proofs below cover every other size. `RX_BUDGET` = 1: a
  drain that ends on the budget and one that ends on an empty ring both happen.
* `FlowSensor`: `COUNT_MAX` = 1 and `Deltas` = {1}, so the second burst saturates;
  a sequence of 2 entries; the last entry's delay, in the code on an entry in the
  middle, is `SEQ_DELAY`, 0 here. `CLOCK` = 19 is just over twice the longest wait.
  `SENSOR_RETRY` = 9 exceeds the length of a bring-up, as it does in the firmware
  (two waits of 5 ms, 100 ms in the sequence, 77 iterations) as long as an iteration
  stays under about 11 ms: `ChipComesUp` rests on it, and is false if it does not
  hold.
* `RangeSensor`: `SAMPLE` < `SAMPLE_TIMEOUT`, and `TOF_BOOT_TIMEOUT` longer than a
  measurement, in the order of the firmware's 25, 100 and 500 ms; two ticks an
  iteration. Ages stop at `AGE_MAX` = 16, which is the bound of `DistanceIsFresh`: the
  time-out, one wait between two looks at the calibration (`POLL`), and three
  iterations, all exclusive. A result may be one iteration old when its interrupt is
  taken, the time-out is measured from that iteration's start, expiry is noticed up to
  an iteration late, and the first result may have been ready for a whole wait of the
  calibration before the driver looked. An earlier form of the property left `POLL`
  out. It held here, where a wait of 2 is no longer than an iteration, and the attempt
  to prove it for every wait showed it false: with a wait of 4 on iterations of 1, TLC
  finds a distance past that bound. In the firmware the wait is 1 ms.
* `CanTx`: 6 blocks, a reserve of 4, transfers of 2 (answer, flow) and 1 (status,
  range) frames, one mailbox, one waiting frame of a request, budgets of 2, deadlines of one
  tick. One requester, whose requests may be of any length, fills the pool alone; two
  of them, in `CanTxAnswer`, ask in one poll, and the proofs are for any
  number. `CanTxLive` has 3 blocks, a reserve of 1, answers of
  one frame and polls that take one. The ties of the firmware's values are kept, the first two as assumptions of the
  module: one telemetry transfer never exceeds the reserve by more than a frame (the
  firmware has 4 frames against 16 blocks), the recovery wait is no shorter than
  deadline plus cleanup, on which `TelemetryIsWhole` rests (what was queued when
  the wait began has expired when it ends), and two answers do not fit the pool
  together with what may be queued. A tick is longer than an iteration.

* `CanRx`: a ring of 3 slots; a clock of 3 values, which the four ticks of
  `TIME_MAX` take past its wrap; at most one tick from a poll to the next
  (`LOOP_MAX`), the most a clock of 3 allows. In the firmware the clock wraps after 71
  minutes and the watchdog bounds an iteration at half a second. `RX_BUDGET` = 2 is the
  ring's capacity, as 16 is at least 15: with less, a frame could wait through
  several polls, and its stamp would be early by as many iterations.
* `MainLoop`: a clock of 13 values, which behaviours go round again and again;
  iterations of up to 3 ticks on a period of 2, so that one or two releases are
  missed; a hold and a gap of 1. `LOOP_MAX` exceeds each of them, which is the hard
  case. The two history clocks stop at `SINCE_MAX` and `WRONG_MAX`, the hold or the
  gap and two iterations; both bounds are tight, and both exemptions happen: a hold
  that ends at 0, and a `next` left behind for half the clock.
* `FlowPower`: the bounds of `FlowSensor`, with one value of the quality.
* `FirmwareConfig` is not an instance. It holds the firmware's own values and checks
  what the bounds above claim of them: the ties of the pool, the recovery wait against
  the deadlines, the polls against the ring, the waits against half a clock, the
  bring-up against the retry (its 11 ms), the watchdog's reload value.

* `Msp`: a payload of up to 2 bytes, an empty frame and one that fills the payload
  and holds a `<`; three events of noise or loss anywhere, enough for a false `$X<`, a
  length in range where there is none, one out of range, and a byte lost in between.
  `heard`, the history, stops one byte past the longest frame (`HEARD_MAX`).
  `PlaceIsFound` is claimed for frames in which no byte but the first is a `$`
  (`MarkIsFirst`). It fails without that: a byte that does not match is dropped even
  when it is a `$` (`msp.c:65`), so a check sum of `$` at the end of every frame
  hides the start of the next from a parser that is out of step.

### Fairness

The loop runs (`WF` on its step): it has no wait and the processor does nothing
else. Time passes (`WF` on `Tick`; `SF` in `CanTx`, where a tick is only possible at
the top of the loop). A pending interrupt is taken and a byte in the shift register
goes out (`UartLink`), a chip that measures finishes its measurement
(`RangeSensor`), and a byte that has arrived is parsed (`Msp`, which `LoopComesRound`
and the ring justify); that the peer keeps sending is a premise of `PlaceIsFound`. `CanRx` and `MainLoop` check no liveness and
need no fairness: their bounds on lateness are safety properties of the history clocks.
Nothing is asked of the sensors' connectors, of motion, of received
bytes or requests, nor of the bus: `TelemetryIsAdmitted` and `BusOffEnds` hold on a
bus that never takes a frame. The properties about a present or a lost chip say so
in their premise.

## 4. Findings

1. **Motion swallowed during bring-up** (`main.c:35`). `platform_take_pmw_irq()`
   comes before `&&pmw.initialized`, so the flag is cleared even when the burst is
   not read. An edge between the read of the motion registers at `pmw3901.c:63` and
   `INIT_DONE` leaves the line low; the controller latches falling edges only
   (`platform.c:79`), and the sensor, in service and without a fault, never reports
   motion again. README.md:103 promises that the burst is read.
2. **Interrupt polarity of the range sensor** (`platform.c:79`). The ULD's default
   configuration selects an active-high interrupt, the controller a falling edge.
   The line falls only when the driver clears an interrupt, so after the one that the
   bring-up leaves pending no measurement is ever noticed: 100 ms later the driver
   faults, and a second later it starts over, for ever. README.md:22,105 promise a
   falling-edge interrupt and continuous mode at 40 Hz. With `ACTIVE_HIGH` = FALSE,
   `ServiceLasts` holds.
3. **Answers without a reserve** (`dronecan.c:67`, `canard.c:1216`). One poll takes
   up to 16 requests and answers each with 9 frames from a pool of 51 blocks. The
   fifth or sixth runs out half-way, at an assertion that the release build compiles
   out; the frames queued so far are sent as a truncated answer.

4. **A chip without its configuration passes every check** (`pmw3901.c:82`). The
   health check reads the identity registers, and a write over SPI succeeds with no
   chip there. A chip that loses its power between two checks, or is plugged in after
   the power-up write, is in service without the power-up write or the sequence, and
   the loop never sets it up again. `docs/bringup-checklist.md:13` expects a
   disconnected sensor to be retried. The range sensor has no such gap: a chip that
   restarts stops measuring, and the sample time-out takes it out of service
   (`RangeSensor!intact`).

`ServiceReturns` and `DistanceIsFresh` show that finding 2 is contained: the sensor
comes back every time and no stale distance is published. `BackpressureIsReported`
shows that finding 3 raises its health bit.

Met while modelling, smaller, and kept in the models as the code has them:

* Health bit 4 (README.md:96, "CAN RX queue overflow") is also set by any standard,
  remote or over-long frame (`Foreign` in `CanRx`). Bits 6 and 7 are never set.
* At start-up the range sensor's fault bit is set before the first colour is sent, so
  the lamp shows yellow where README.md:107 has blue for start-up; blue takes a range
  sensor that serves while the flow sensor still comes up.
* A pulse whose end falls on 0 leaves its LED on until the next event (`activity.c:7`,
  `endsAtZero`): once in 49.7 days, if an event falls on that millisecond.
* After more than 24.8 days of one steady colour the next change may wait until
  `status_led.c:25`'s deadline comes round, for up to 24.8 days (`LeftBehind`).
* A frame that comes between the reading of the clock in a poll and its pop gets a
  stamp that is early by a whole turn of the clock, or 0 (`dronecan.c:23`):
  `StampIsHonest` says of it only that the stamp is not late. Only early stamps are possible, and
  what they do is make a receive state old, or new again (0), too soon: a request under way
  is dropped. `CanTx` allows for it: the time left after a frame is any.

## 5. The proofs

Checked by TLAPS for every value of the constants that satisfies the modules'
assumptions (`UartAssumption`, `FlowAssumption`, `RangeAssumption`, `CanTxAssumption`,
`CanRxAssumption`, `MspAssumption`, `MainLoopAssumption`), which TLC evaluates on the
runs: sizes and periods are positive, waits and iterations fit the clock (half of it
where the code compares by sign), frames are not empty and their payloads not over the
limit, a CAN poll follows another within less than half a turn of the clock and can
take all the ring holds, and the pool and the recovery wait keep the ties of section 3.
`FirmwareConfig` checks those on the firmware's own values.

Every safety property that a passing run checks is a theorem, the refinements included.

* `RingProofs`: what the index arithmetic does. `UsedProperties` and `SlotProperties`
  relate distance, successor and slot on a ring; `ContentsTail`, `ContentsOfFreeWrite`
  and `ContentsAppend` say what moving the tail, writing a free slot and moving the
  head do to the contents. `RemainderIsUnique` and `ClockDifference` do the same for a
  clock that wraps. `LeastElement`,
  `GreatestElement` and `Induction` are about sets of numbers.
* `UartLinkProofs`: `IInv` is `TypeOK`, `CopyInFreeSlots` and `ReadByteIsOldest`
  together. None of them is inductive alone: that the copy stays in free slots needs
  the indices typed, and that the pop reads the oldest byte needs the handler's full
  test. The handler only shrinks what is used of the transmit ring, so the test
  `platform_uart_tx` made on a stale tail stays true; it only fills free slots of the
  receive ring, so the byte being popped stays. From `IInv`, `TxRefinement` and
  `RxRefinement` show step by step that publishing the head is `Put`, the refused test
  `Refuse`, the handler's send `Take` (and the other way round for reception), and
  everything else a stutter.
* `FlowSensorProofs`: `IInv` is `TypeOK`, `FaultMeansDown`, `InvalidFlowIsZero` and
  `EdgeIsRemembered`; one lemma for each statement of the loop that changes much.
  That counts are zero while the sensor is down needs `FaultMeansDown` (a burst is only
  read while it is up), and that an edge is remembered needs the same for the take of
  the flag.
* `RangeSensorProofs`: `IInv` is in two halves, `DriverInv` for the driver and the chip
  and `LoopInv` for the loop; `Parts` says that together they are `TypeOK`,
  `DistanceIsHealthy`, `ChipIsOffInFault` and one fact more, without which the others
  are not inductive: a sample is read, stored and waited for only by a driver that
  runs. `FaultInvariant` and `BringUpInvariant` carry the driver's half; a chip ranges
  only switched on, so giving up, which switches it off, stops it. `DistanceIsFresh`
  needs a second invariant on top of it, `AgeInv`, which measures ages against the
  driver's own waits: the time since its last look at the calibration (`Polled`) and
  since its last clear (`Unheard`) stay below the wait and an iteration, because the
  iteration after a wait's end acts on it (`PollInv`, `TimeoutInv`); a result in the chip
  is no older than the wait during which it was measured (`ResultInv`); and the interrupt
  that a clear raises is taken in the next iteration (`IrqInv`), so that what is
  read then, and what is published until the time-out, keeps its bound (`ReadInv`,
  `RangeInv`).
* `CanTxProofs`: the invariant is about the frames of one stream on their way from the
  queue through the mailboxes to a receiver, `Line`. `Chain` says that each frame goes on
  with the transfer of the one before it and that the last one completes it, unless one
  was cut off; it is stated on `Neighbours`, two frames of the stream with none in
  between, so that what happens elsewhere in the line leaves it alone. All the code does
  to the queue is one of two things, each with its lemmas: putting frames in at one
  place (`Inserted`: `PushInserts`, `ChainOfTransfer`, `ChainOfOthers`, `SortedOfInserted`,
  `RisingOfTransfer`) and taking some out (`Thinned`: `KeptThins`, `ChainOfThinned`,
  `RisingOfThinned`). A transfer goes behind all of its own identifier, hence after its
  predecessor, and a measurement is admitted with room for all of it; an expired frame takes
  what is left of its transfer with it, because the frames of one have one deadline and
  later measurements no earlier one (`DeadlinesRise`). `TelemetryIsWhole` needs
  `ExpiresFirst`: what was queued when the wait for a reset began has expired when it
  ends; with `CleanupIsSet` that is an inequality between four timers. `ReserveIsKept`
  is not inductive, nor is its bound on the telemetry in the queue: an admission looks at
  free blocks, not at telemetry. What is inductive is `InTail`: telemetry stands at
  the end of the queue, at less than the bound from it. `BackpressureIsReported` is
  inductive alone. `BlocksAreAccounted` counts the blocks of the receive states as a set,
  `RxBlocks`, of pairs of a requester and a number, so that one more is a pair added
  (`BlockTaken`) and a list given back an interval taken away (`PayloadReleased`, `StaleReleased`);
  `BlocksInv` adds to it that the set is finite, as a cardinality means nothing
  without. Each frame of a request keeps it (`FirstFrameKeeps`, `LaterFrameKeeps`), as does
  everything that leaves the receive states alone (`TakenKeeps`, `ReleasedKeeps`).
* `MspProofs`: `IInv` has three parts. `TypeInv` is `TypeOK`, `PayloadFits` and
  `HalfRead`, that the first byte of a command or a length is all there is of it until
  the second is added: without it their 16 bits are not kept. `HeardInv` says what
  the bytes heard so far have to do with each state: `$X<` when they are past, the command
  and length they spell, the payload stored so far and its check sum. Each state's step is an
  instance of `OneMore` (one more byte, one more of the check sum), `FrameEnds` or
  `GivenUp`, and `IsFrame` follows at the last byte (`AcceptsExactlyFrames`). The check
  sum is a recursive function over the bytes; `SumsExist` and `SumsAgree` show by
  `Induction` over the lengths that it is defined and determined by them, `CheckSumGrows`
  that a byte more is one turn more of `msp_crc8_dvb_s2`. `CleanInv` keeps a frame that
  nothing disturbs split between what was heard and what is on the line;
  `EncodedIsFrame` (by `FrameBytes`, which says what byte stands where) makes the
  encoder's output a frame, so that it ends in acceptance. What the check sum is worth
  is `OneByteIsSeen`: what is accepted is never a frame with one byte changed.
  `CrcLosesNothing` says that a turn of `msp_crc8_dvb_s2` is one-to-one in the sum and in
  the byte - each shift is (`ShiftLosesNothing`: the polynomial is odd, a doubled byte
  even), and so is an exclusive or (`XorLosesNothing`) - hence two sums that differ once
  stay different (`CheckSumTells`). This one is proved only: two short frames and a few
  noise bytes would say little about a check sum.
* `MainLoopProofs`: `IInv` speaks of differences on the clock: `Lag` since the loop read
  it, `Ahead` to the release of the task, `Gap` to the end of the lamp's wait. `GridInv`
  puts the release within a period of the reading and on the grid; `LaterRelease` and
  `FirstToCome` show that the division at `scheduler.c:4` keeps it there after any number of missed
  releases. `PulseInv` bounds a lit LED's age by its hold, what the
  loop has yet to notice, and one iteration. The lamp takes most: `LampInv` ties it to the
  colour last sent, `Waiting` says how long the colour on show may have been wrong in terms of
  `Gap`, which for a gap long over looks like one to come; the margin of
  half a clock in `LeftBehind` is where that reading turns.
* `CanRxProofs`: `IInv` is `TypeOK` and three facts. `PopIsOldest` is the pop's half of
  the refinement, as on the serial port. `ClockIsExact` says that the extended clock is
  the time at which it was last read; reading it again preserves that by
  `ClockDifference`: the difference of two readings less than a range apart, modulo that
  range, is the time between them. `FramesAreRecent` bounds the age of what waits: at most
  one interval between polls, and what this poll's budget will not reach came after it
  began - this is where a budget that covers a full ring is needed, or a frame could
  outlive the clock's range. With these, `StampBounds` follows for a frame older and for one younger than
  the last reading of the clock. `OverflowIsReported` is inductive alone. `RxRefinement`
  has one step more than the serial port's: `Discard`, which empties the queue.

Only model-checked: the liveness properties (`WaitingByteIsSent`, `LoopComesRound`,
`LossIsReported`, `ChipComesUp`, `ServiceReturns`, `TelemetryIsAdmitted`, `BusOffEnds`,
`PlaceIsFound`), because fairness is ENABLED and that is out of TLAPS's reach, and the
four findings, which are counterexamples. `RingProofs!Induction` is an induction over a set,
since the provers cannot instantiate the library's schemes for an operator.

## 6. Not modelled, and the plan

Not planned: register-level set-up, the I2C and SPI handshakes (a transfer succeeds
or fails in bounded time), floating-point encoding, generated and vendored code
beyond what the firmware calls.

Also left out: the conversion of the health word to a node's health
(`dronecan.c:24`), the layout of the messages (`dronecan.c:26-40`, `msp.c:36-52`, of which
`FirmwareConfig` keeps the lengths), and the I2C byte sequences of `platform.c:132-150`,
where what matters would be the peripheral's own behaviour.

Planned next: an abstract specification of the node's promises (whole measurements, in
order) that `CanTx` would implement.

## 7. Running it

    tlc -workers 2 -config FlowSensor.cfg FlowSensor.tla
    tlapm FlowSensorProofs.tla

Each run takes from a few seconds to about two minutes. `CanTxProofs` and
`MainLoopProofs` take several minutes each, the other proofs one or two.
