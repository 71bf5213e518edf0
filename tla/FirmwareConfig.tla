--------------------------- MODULE FirmwareConfig ---------------------------
(***************************************************************************)
(* The firmware's own values (config/config.h, platform.c, the drivers)    *)
(* and the relations between them on which it rests: those the code        *)
(* asserts, and those the specifications assume of their constants or keep *)
(* in their small instances.  The instances do not have these values; that *)
(* these values satisfy what the proofs assume and what the instances keep *)
(* is what TLC evaluates here.                                             *)
(***************************************************************************)
EXTENDS Integers

APB1_HZ == 72000000
WATCHDOG_CLOCK_HZ == 40000
WATCHDOG_DIVIDER == 256
WATCHDOG_TIMEOUT_MS == 500
ACTIVITY_LED_HOLD_MS == 30

CAN_BITRATE == 1000000
CAN_RX_QUEUE_SIZE == 16
CAN_RECOVERY_MS == 1000
CAN_TX_DEADLINE_US == 100000
CAN_HIGH_PRIORITY_TX_DEADLINE_US == 500000
CANARD_ARENA_SIZE == 2048
CANARD_MEM_BLOCK_SIZE == 40
CANARD_CLEANUP_INTERVAL_US == 50000
CANARD_HIGH_PRIORITY_RESERVE_BLOCKS == 16
DRONECAN_RX_BUDGET_FRAMES == 16
DRONECAN_NODE_STATUS_HZ == 1
DRONECAN_FLOW_HZ == 50
DRONECAN_RANGE_HZ == 40

MSP_BAUDRATE == 115200
MSP_FLOW_HZ == 50
MSP_RANGE_HZ == 40
UART_RING_SIZE == 256

PMW3901_HEALTH_CHECK_MS == 1000
VL53L1X_TIMING_BUDGET_MS == 20
VL53L1X_INTER_MEASUREMENT_MS == 25
VL53L1X_SAMPLE_TIMEOUT_MS == 100
TOF_BOOT_TIMEOUT_MS == 500
SENSOR_RETRY_MS == 1000

-----------------------------------------------------------------------------
(* Values the code computes. *)

Rounded(dividend, divisor) == (dividend + divisor - 1) \div divisor

WATCHDOG_RELOAD_VALUE ==
  Rounded(WATCHDOG_TIMEOUT_MS * WATCHDOG_CLOCK_HZ, 1000 * WATCHDOG_DIVIDER) - 1

CAN_TIME_QUANTA == 18
CAN_BAUD_DIVIDER == APB1_HZ \div (CAN_BITRATE * CAN_TIME_QUANTA)

\* libcanard sends up to seven bytes in one frame; a longer transfer carries a
\* check sum of two bytes.
TransferFrames(bytes) == IF bytes < 8 THEN 1 ELSE Rounded(bytes + 2, 7)

\* A response with the node's name, of twenty characters.
InfoTransfer   == TransferFrames(61)
StatusTransfer == TransferFrames(7)
FlowTransfer   == TransferFrames(21)
RangeTransfer  == TransferFrames(15)
PoolBlocks     == CANARD_ARENA_SIZE \div CANARD_MEM_BLOCK_SIZE

\* msp_encode_v2 adds nine bytes to the payload.
FlowMessage  == 9 + 9
RangeMessage == 5 + 9

\* The bring-up of the flow sensor, from its start: the waits of the reset, of the
\* boot and of the sequence, and an iteration for each write and state.
PmwSequence == 73
BringUp(iteration) == 1 + 5 + 5 + 100 + (PmwSequence + 3) * iteration

-----------------------------------------------------------------------------
(* config.h:87-94, platform.c:26: what the compiler checks. *)
ASSUME StaticAsserts ==
  /\ APB1_HZ % (CAN_BITRATE * CAN_TIME_QUANTA) = 0
  /\ DRONECAN_FLOW_HZ = MSP_FLOW_HZ /\ DRONECAN_RANGE_HZ = MSP_RANGE_HZ
  /\ DRONECAN_NODE_STATUS_HZ > 0 /\ 1000 % DRONECAN_NODE_STATUS_HZ = 0
  /\ WATCHDOG_RELOAD_VALUE \in 1 .. 4095

\* What it does not: platform.c:22-25,100.  The watchdog waits at least as long as it
\* is asked to, a bit's segments make up its quanta, and a period of milliseconds
\* is a whole number of them.
ASSUME ComputedValues ==
  /\ (WATCHDOG_RELOAD_VALUE + 1) * WATCHDOG_DIVIDER * 1000
       >= WATCHDOG_TIMEOUT_MS * WATCHDOG_CLOCK_HZ
  /\ 1 + 13 + 4 = CAN_TIME_QUANTA
  /\ CAN_BAUD_DIVIDER * CAN_TIME_QUANTA * CAN_BITRATE = APB1_HZ
  /\ 1000 % MSP_FLOW_HZ = 0 /\ 1000 % MSP_RANGE_HZ = 0

\* MainLoop, FlowSensor, RangeSensor: every wait in milliseconds, plus the two
\* iterations that notice its end late, is less than half the clock.  The
\* watchdog bounds an iteration.
ASSUME WaitsFitTheClock ==
  \A wait \in {1000 \div MSP_FLOW_HZ, 1000 \div MSP_RANGE_HZ, ACTIVITY_LED_HOLD_MS,
               CAN_RECOVERY_MS, PMW3901_HEALTH_CHECK_MS, SENSOR_RETRY_MS,
               VL53L1X_SAMPLE_TIMEOUT_MS, TOF_BOOT_TIMEOUT_MS} :
    wait + 2 * WATCHDOG_TIMEOUT_MS <= 2147483647

\* CanTx: admitted telemetry fits whole and leaves room for an answer and a status.
PoolTies(info, status, flow, reserve) ==
  /\ flow <= reserve + 1
  /\ info + status <= reserve + 1 - flow

\* CanTx, CanRx: the pool's ties; a poll's requests can want more than the pool
\* (AnswerHasBlocks); a measurement expires before a reset (TelemetryIsWhole); a
\* poll takes all that waits (CanRxAssumption).
ASSUME CanTies ==
  /\ PoolTies(InfoTransfer, StatusTransfer, FlowTransfer, CANARD_HIGH_PRIORITY_RESERVE_BLOCKS)
  /\ StatusTransfer = 1 /\ RangeTransfer <= FlowTransfer
  /\ CANARD_HIGH_PRIORITY_RESERVE_BLOCKS < PoolBlocks
  /\ DRONECAN_RX_BUDGET_FRAMES * InfoTransfer > PoolBlocks
  /\ CAN_RECOVERY_MS * 1000 > CAN_TX_DEADLINE_US + CANARD_CLEANUP_INTERVAL_US
  /\ CAN_RECOVERY_MS * 1000 > CAN_HIGH_PRIORITY_TX_DEADLINE_US + CANARD_CLEANUP_INTERVAL_US
  /\ DRONECAN_RX_BUDGET_FRAMES >= CAN_RX_QUEUE_SIZE - 1

\* UartLink: a message of each kind fits an empty ring, and the line carries more
\* than is put on it.  RangeSensor: a measurement ends within its period and well
\* before the time-out.  FlowSensor: a bring-up ends before the next retry as long
\* as an iteration stays within 11 ms (ChipComesUp).
ASSUME SensorAndSerialTies ==
  /\ FlowMessage + RangeMessage < UART_RING_SIZE
  /\ (FlowMessage * MSP_FLOW_HZ + RangeMessage * MSP_RANGE_HZ) * 10 < MSP_BAUDRATE
  /\ VL53L1X_TIMING_BUDGET_MS <= VL53L1X_INTER_MEASUREMENT_MS
  /\ 2 * VL53L1X_INTER_MEASUREMENT_MS < VL53L1X_SAMPLE_TIMEOUT_MS
  /\ VL53L1X_SAMPLE_TIMEOUT_MS < TOF_BOOT_TIMEOUT_MS
  /\ BringUp(11) < SENSOR_RETRY_MS
=============================================================================
