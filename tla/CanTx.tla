-------------------------------- MODULE CanTx --------------------------------
(***************************************************************************)
(* The transmit side of the DroneCAN node: libcanard's block pool and      *)
(* transmit queue (third_party/libcanard/canard.c), the node's broadcasts, *)
(* its answers and its poll (protocol/dronecan.c), bus-off recovery        *)
(* (app/can_recovery.c), the controller (platform.c:153,155) and the part  *)
(* of the main loop that ties them together (main.c:41-67).                *)
(*                                                                         *)
(* A transfer is a number of frames of one stream; a stream has one CAN    *)
(* identifier.  What a frame carries is left out; its place in its         *)
(* transfer is kept, since that is what a receiver reassembles by.  Times  *)
(* are the ticks left until a deadline, 0 once it has passed.              *)
(*                                                                         *)
(* The controller and the bus are external: mailboxes are sent in the      *)
(* order they were filled (platform.c:99), frames only leave while the bus *)
(* is on, and the controller leaves bus-off on its own or on a reset.      *)
(***************************************************************************)
EXTENDS Integers, Sequences, FiniteSets

CONSTANTS
  Requesters,      \* nodes that ask for the node's information
  Frames,          \* frames of a transfer, by stream
  CAPACITY,        \* blocks of the pool: CANARD_ARENA_SIZE / CANARD_MEM_BLOCK_SIZE
  RESERVE,         \* CANARD_HIGH_PRIORITY_RESERVE_BLOCKS
  MAILBOXES,       \* transmit mailboxes of the controller
  RX_RING,         \* requests that can wait for the node
  RX_BUDGET,       \* DRONECAN_RX_BUDGET_FRAMES
  TX_BUDGET,       \* DRONECAN_TX_BUDGET_FRAMES
  TX_DEADLINE,     \* CAN_TX_DEADLINE_US
  HIGH_DEADLINE,   \* CAN_HIGH_PRIORITY_TX_DEADLINE_US
  RX_TIMEOUT,      \* TRANSFER_TIMEOUT_USEC
  CLEANUP,         \* CANARD_CLEANUP_INTERVAL_US
  STATUS_PERIOD,   \* 1000 / DRONECAN_NODE_STATUS_HZ
  RECOVERY         \* CAN_RECOVERY_MS

Streams == {"info", "status", "range", "flow"}
Telemetry == {"range", "flow"}

\* What is broadcast; the rest are answers, which may be cut short when they find
\* too few blocks, and are not followed to their receivers.
Broadcasts == Streams \ {"info"}

\* The identifiers in their order on the bus: GetNodeInfo responses, NodeStatus,
\* range and flow measurements (dronecan.c:49,60,61,69).  Responses are taken to
\* go to nodes of low number, and are one stream whoever they go to.
CanId == [info |-> 1, status |-> 2, range |-> 3, flow |-> 4]

ASSUME CanTxAssumption ==
  /\ Frames \in [Streams -> Nat \ {0}]
  /\ {CAPACITY, RESERVE, MAILBOXES, RX_RING, RX_BUDGET, TX_BUDGET, RX_TIMEOUT} \subseteq Nat \ {0}
  /\ {TX_DEADLINE, HIGH_DEADLINE, CLEANUP, STATUS_PERIOD, RECOVERY} \subseteq Nat \ {0}
  /\ RESERVE < CAPACITY
  /\ \A stream \in Telemetry : Frames[stream] <= RESERVE + 1
  /\ Frames["status"] = 1
  /\ TX_DEADLINE + CLEANUP <= RECOVERY   \* a measurement expires before a reset

VARIABLES
  pc,                \* the statement that runs next
  off,               \* main.c:41: bus_off
  count,             \* the counter of the loops in dronecan_poll
  tx_queue,          \* ins->tx_queue
  used,              \* statistics.current_usage_blocks
  rx_states,         \* ins->rx_states, by requester: the time left of the state,
                     \* and the blocks of payload in its buffer_blocks
  cleanup,           \* next_cleanup_us
  next_status,       \* next_status_ms
  recovery,          \* can_recovery_t
  tx_overflow_pending,
  txOverflow,        \* HEALTH_CAN_TX_OVERFLOW
  inbox,             \* frames of requests in the receive ring
  mailbox,           \* controller: frames in its mailboxes
  bof,               \* controller: bus-off
  got, torn,         \* receivers: the frames of the transfer under way, by
                     \* stream, and the streams with a transfer cut short
  cut,               \* history: the streams that had a transfer thrown away
                     \* after its first frames had left
  lost               \* history: a transfer was refused or cut short

node == <<tx_queue, used, rx_states, cleanup, next_status, tx_overflow_pending>>
bus  == <<mailbox, bof, got, torn>>
vars == <<pc, off, count, node, recovery, txOverflow, inbox, bus, cut, lost>>

Frame == [stream : Streams, index : Nat \ {0}, left : Nat]
FreeBlocks == CAPACITY - used

-----------------------------------------------------------------------------
(* libcanard. *)

\* Mutant: a frame goes before those of its own identifier.
Behind_NotEqual(queued, frame) == CanId[queued.stream] >= CanId[frame.stream]

\* isPriorityHigher: the queued frame loses against the new one.
Behind(queued, frame) == CanId[queued.stream] > CanId[frame.stream]

\* pushTxQueue puts a frame before the first one it beats.  The frames of a
\* transfer have one identifier, so they end up side by side.
Push(queue, frames) ==
  LET beaten == {i \in DOMAIN queue : Behind(queue[i], frames[1])}
      place  == IF beaten = {} THEN Len(queue) + 1
                ELSE CHOOSE i \in beaten : \A j \in beaten : i <= j
  IN  SubSeq(queue, 1, place - 1) \o frames \o SubSeq(queue, place, Len(queue))

\* Mutant: the pool is not looked at.
Room_Assumed(stream) == Frames[stream]

\* The frames of a transfer there are blocks for.
Room(stream) == IF FreeBlocks < Frames[stream] THEN FreeBlocks ELSE Frames[stream]

\* enqueueTxFrames: blocks are taken one at a time, and when they run out, the
\* frames queued so far stay.
Enqueue(stream, deadline) ==
  LET room == Room(stream)
      frames == [i \in 1 .. room |-> [stream |-> stream, index |-> i, left |-> deadline]]
  IN  /\ tx_queue' = IF room = 0 THEN tx_queue ELSE Push(tx_queue, frames)
      /\ used' = used + room

EnqueueFails(stream) == Room(stream) < Frames[stream]

\* freeBlock, for each of some blocks.
Release(blocks) == used' = used - blocks

NoState == [allocated |-> FALSE, left |-> 0, payload |-> 0]
Empty(left) == [allocated |-> TRUE, left |-> left, payload |-> 0]

\* The blocks of some receive states: each state is one, and those of its payload
\* are numbered from 1.
RxBlocks(states) ==
  UNION {{requester} \X (0 .. states[requester].payload) :
           requester \in {r \in Requesters : states[r].allocated}}

\* Mutant: the list is dropped and its blocks are kept.
releaseStatePayload_Leaks(requester, left) ==
  /\ Release(0)
  /\ rx_states' = [rx_states EXCEPT ![requester] = Empty(left)]

\* A requester's payload goes; its state stays, with this time left.
releaseStatePayload(requester, left) ==
  /\ Release(rx_states[requester].payload)
  /\ rx_states' = [rx_states EXCEPT ![requester] = Empty(left)]

\* The broadcasts that lose the rest of a transfer when the frames at these places
\* are thrown away.
CutBy(queue, places) ==
  {stream \in Broadcasts :
     \E i \in places :
       /\ queue[i].stream = stream /\ queue[i].index > 1
       /\ \A j \in places : j < i => queue[j].stream # stream}

\* The frames at these places, in their order.
Kept(queue, places) ==
  [k \in 1 .. Cardinality(places) |->
     queue[CHOOSE i \in places : Cardinality({j \in places : j <= i}) = k]]

\* canardCleanupStaleTransfers: the receive states past their time, with their
\* payload, and the frames past theirs.
CleanupStaleTransfers ==
  LET expired == {i \in DOMAIN tx_queue : tx_queue[i].left = 0}
      stale == {block \in RxBlocks(rx_states) : rx_states[block[1]].left = 0}
  IN  /\ tx_queue' = Kept(tx_queue, DOMAIN tx_queue \ expired)
      /\ cut' = cut \cup CutBy(tx_queue, expired)
      /\ Release(Cardinality(expired) + Cardinality(stale))
      /\ rx_states' = [r \in Requesters |->
                         IF rx_states[r].left = 0 THEN NoState ELSE rx_states[r]]

-----------------------------------------------------------------------------
(* The node. *)

\* Mutant: telemetry may take the block that makes the reserve whole.
Admitted_OffByOne(stream) == stream \in Telemetry => FreeBlocks >= RESERVE

\* Mutant: there is no reserve.
Admitted_Always(stream) == TRUE

\* dronecan.c:56: telemetry leaves a reserve of blocks.
Admitted(stream) == stream \in Telemetry => FreeBlocks > RESERVE

\* broadcast, and what its caller makes of its result (main.c:48,56).
Broadcast(stream) ==
  IF Admitted(stream)
    THEN /\ Enqueue(stream, IF stream \in Telemetry THEN TX_DEADLINE ELSE HIGH_DEADLINE)
         /\ tx_overflow_pending' = (tx_overflow_pending \/ EnqueueFails(stream))
         /\ lost' = (lost \/ EnqueueFails(stream))
    ELSE /\ UNCHANGED <<tx_queue, used>>
         /\ tx_overflow_pending' = TRUE
         /\ lost' = TRUE

-----------------------------------------------------------------------------
(* The main loop. *)

Init ==
  /\ pc = "sample" /\ off = FALSE /\ count = 0
  /\ tx_queue = <<>> /\ used = 0
  /\ rx_states = [requester \in Requesters |-> NoState]
  /\ cleanup = 0 /\ next_status = 0
  /\ recovery = [active |-> FALSE, left |-> 0]
  /\ tx_overflow_pending = FALSE /\ txOverflow = FALSE
  /\ inbox = 0 /\ mailbox = <<>> /\ bof = FALSE
  /\ got = [stream \in Broadcasts |-> 0] /\ torn = {}
  /\ cut = {} /\ lost = FALSE

\* main.c:41.
SampleBusOff ==
  /\ pc \in {"sample", "ticked"} /\ pc' = "flow"
  /\ off' = bof
  /\ UNCHANGED <<count, node, recovery, txOverflow, inbox, bus, cut, lost>>

\* main.c:43-58; whether a measurement is due is left open.
Publish(stream, at, next) ==
  /\ pc = at /\ pc' = next
  /\ \/ /\ ~off /\ Broadcast(stream)
        /\ txOverflow' = (txOverflow \/ ~Admitted(stream) \/ EnqueueFails(stream))
     \/ UNCHANGED <<tx_queue, used, tx_overflow_pending, txOverflow, lost>>
  /\ UNCHANGED <<off, count, rx_states, cleanup, next_status, recovery, inbox, bus, cut>>

\* platform.c:155: the controller starts anew, and both rings are emptied.
platform_can_reinit ==
  /\ mailbox' = <<>> /\ bof' = FALSE /\ inbox' = 0
  /\ cut' = cut \cup CutBy(mailbox, DOMAIN mailbox)
  /\ UNCHANGED <<got, torn>>

\* Mutant: the wait starts over in every iteration.
Recover_Rearms ==
  /\ pc = "recover" /\ pc' = "clean" /\ off' = FALSE
  /\ recovery' = [active |-> off, left |-> IF off THEN RECOVERY ELSE 0]
  /\ IF off /\ recovery.active /\ recovery.left = 0
       THEN platform_can_reinit
       ELSE UNCHANGED <<inbox, bus, cut>>
  /\ UNCHANGED <<count, node, txOverflow, lost>>

\* main.c:66, can_recovery_step; bus_off is not used after it.
Recover ==
  /\ pc = "recover" /\ pc' = "clean" /\ off' = FALSE
  /\ recovery' = CASE ~off -> [active |-> FALSE, left |-> 0]
                    [] off /\ recovery.active /\ recovery.left > 0 -> recovery
                    [] OTHER -> [active |-> TRUE, left |-> RECOVERY]
  /\ IF off /\ recovery.active /\ recovery.left = 0
       THEN platform_can_reinit
       ELSE UNCHANGED <<inbox, bus, cut>>
  /\ UNCHANGED <<count, node, txOverflow, lost>>

\* Mutant: what is past its time stays.
Cleanup_Forgets ==
  /\ pc = "clean" /\ pc' = "receive"
  /\ cleanup' = IF cleanup = 0 THEN CLEANUP ELSE cleanup
  /\ count' = 0
  /\ UNCHANGED <<off, tx_queue, used, rx_states, next_status, recovery, tx_overflow_pending,
                 txOverflow, inbox, bus, cut, lost>>

\* dronecan.c:66.
Cleanup ==
  /\ pc = "clean" /\ pc' = "receive"
  /\ IF cleanup = 0
       THEN CleanupStaleTransfers /\ cleanup' = CLEANUP
       ELSE UNCHANGED <<tx_queue, used, rx_states, cleanup, cut>>
  /\ count' = 0
  /\ UNCHANGED <<off, next_status, recovery, tx_overflow_pending, txOverflow, inbox, bus, lost>>

\* Mutant: an answer that could not be queued is not reported.
Answer_Silent ==
  /\ pc = "answer" /\ pc' = "receive"
  /\ Enqueue("info", HIGH_DEADLINE)
  /\ lost' = (lost \/ EnqueueFails("info"))
  /\ UNCHANGED <<off, count, rx_states, cleanup, next_status, tx_overflow_pending, recovery,
                 txOverflow, inbox, bus, cut>>

\* on_reception of a GetNodeInfo request, of one frame or of several, whose payload
\* has gone back to the pool by then.
Answer ==
  /\ pc = "answer" /\ pc' = "receive"
  /\ Enqueue("info", HIGH_DEADLINE)
  /\ lost' = (lost \/ EnqueueFails("info"))
  /\ tx_overflow_pending' = (tx_overflow_pending \/ EnqueueFails("info"))
  /\ UNCHANGED <<off, count, rx_states, cleanup, next_status, recovery, txOverflow, inbox,
                 bus, cut>>

\* canard.c:437-557, the first frame of a request: its requester's state is found or
\* takes a block, and restarts if it holds the payload of an unfinished request.
\* A request of one frame is answered; the payload of a longer one fits the
\* state at first.  The time left is any: a frame of the wrong toggle, transfer or
\* length stops short of moving the timestamp, which for a new state is long past,
\* and the stamp of a good one may be early (see CanRx).
FirstFrame(requester) ==
  \/ /\ ~rx_states[requester].allocated /\ FreeBlocks = 0
     /\ pc' = "receive"
     /\ UNCHANGED <<used, rx_states>>
  \/ /\ pc' \in {"receive", "answer"}
     /\ \E left \in 0 .. RX_TIMEOUT :
          IF rx_states[requester].allocated
            THEN releaseStatePayload(requester, left)
            ELSE /\ FreeBlocks > 0 /\ used' = used + 1
                 /\ rx_states' = [rx_states EXCEPT ![requester] = Empty(left)]

\* canard.c:560-570, 1529-1623: a frame in the middle of a request goes into the last
\* block, or into one more; when there is none, all of the payload goes.
MiddleFrame(requester) ==
  /\ pc' = "receive"
  /\ \/ UNCHANGED <<used, rx_states>>
     \/ /\ FreeBlocks > 0 /\ used' = used + 1
        /\ rx_states' = [rx_states EXCEPT ![requester].payload = @ + 1]
     \/ /\ FreeBlocks = 0
        /\ releaseStatePayload(requester, rx_states[requester].left)

\* canard.c:574-656: the last frame takes no block.  Whether the request is answered
\* or its check sum is wrong, its payload goes.
LastFrame(requester) ==
  /\ pc' \in {"receive", "answer"}
  /\ releaseStatePayload(requester, rx_states[requester].left)

\* canard.c:453-497: a frame that goes on with a request finds its state; past its
\* time it restarts, and the frame is dropped.  So is one of the wrong toggle or
\* transfer, which changes as much as one that fits the last block.
LaterFrame(requester) ==
  IF ~rx_states[requester].allocated
    THEN pc' = "receive" /\ UNCHANGED <<used, rx_states>>
    ELSE IF rx_states[requester].left = 0
      THEN pc' = "receive" /\ releaseStatePayload(requester, 0)
      ELSE MiddleFrame(requester) \/ LastFrame(requester)

\* dronecan.c:67, canard.c:403-660: a frame of a request is taken from the ring.
Receive ==
  /\ pc = "receive"
  /\ count < RX_BUDGET /\ count' = count + 1
  /\ inbox > 0 /\ inbox' = inbox - 1
  /\ \E requester \in Requesters : FirstFrame(requester) \/ LaterFrame(requester)
  /\ UNCHANGED <<off, tx_queue, cleanup, next_status, tx_overflow_pending, recovery, txOverflow,
                 bus, cut, lost>>

\* dronecan.c:68: bus-off, sampled a second time, empties the queue.
ReceiveDone ==
  /\ pc = "receive"
  /\ count = RX_BUDGET \/ inbox = 0
  /\ IF bof
       THEN /\ tx_queue' = <<>> /\ Release(Len(tx_queue))
            /\ cut' = cut \cup CutBy(tx_queue, DOMAIN tx_queue)
            /\ pc' = "report"
       ELSE /\ UNCHANGED <<tx_queue, used, cut>>
            /\ pc' = "status"
  /\ UNCHANGED <<off, count, rx_states, cleanup, next_status, tx_overflow_pending, recovery,
                 txOverflow, inbox, bus, lost>>

\* dronecan.c:69.
Status ==
  /\ pc = "status" /\ pc' = "transmit"
  /\ IF next_status = 0
       THEN Broadcast("status") /\ next_status' = STATUS_PERIOD
       ELSE UNCHANGED <<tx_queue, used, next_status, tx_overflow_pending, lost>>
  /\ count' = 0
  /\ UNCHANGED <<off, rx_states, cleanup, recovery, txOverflow, inbox, bus, cut>>

CanTransmit == count < TX_BUDGET /\ tx_queue # <<>> /\ Len(mailbox) < MAILBOXES

\* dronecan.c:70, platform.c:153: one frame into an empty mailbox.
Transmit ==
  /\ pc = "transmit" /\ CanTransmit
  /\ mailbox' = Append(mailbox, Head(tx_queue))
  /\ tx_queue' = Tail(tx_queue) /\ Release(1)
  /\ count' = count + 1
  /\ UNCHANGED <<pc, off, rx_states, cleanup, next_status, tx_overflow_pending, recovery,
                 txOverflow, inbox, bof, got, torn, cut, lost>>

TransmitDone ==
  /\ pc = "transmit" /\ ~CanTransmit
  /\ pc' = "report"
  /\ UNCHANGED <<off, count, node, recovery, txOverflow, inbox, bus, cut, lost>>

\* main.c:67, dronecan_take_tx_overflow.
Report ==
  /\ pc = "report" /\ pc' = "sample"
  /\ txOverflow' = (txOverflow \/ tx_overflow_pending)
  /\ tx_overflow_pending' = FALSE
  /\ count' = 0
  /\ UNCHANGED <<off, tx_queue, used, rx_states, cleanup, next_status, recovery, inbox, bus,
                 cut, lost>>

Main == \/ SampleBusOff
        \/ Publish("flow", "flow", "range") \/ Publish("range", "range", "recover")
        \/ Recover \/ Cleanup \/ Receive \/ Answer \/ ReceiveDone
        \/ Status \/ Transmit \/ TransmitDone \/ Report

-----------------------------------------------------------------------------
(* The controller, the bus and time. *)

\* The oldest mailbox is sent.  A receiver takes the frame for the next of its
\* transfer or the first of a new one; a new one in place of the next means that
\* the rest of the last was cut off.
Send ==
  /\ ~bof /\ mailbox # <<>>
  /\ LET frame == Head(mailbox)
         stream == frame.stream
     IN  IF stream \in Broadcasts
           THEN /\ got' = [got EXCEPT ![stream] = frame.index % Frames[stream]]
                /\ torn' = IF \/ frame.index = got[stream] + 1
                              \/ frame.index = 1 /\ stream \in cut
                           THEN torn ELSE torn \cup {stream}
           ELSE UNCHANGED <<got, torn>>
  /\ mailbox' = Tail(mailbox)
  /\ UNCHANGED <<pc, off, count, node, recovery, txOverflow, inbox, bof, cut, lost>>

\* Errors on the bus take the controller off it; it may come back on its own.
BusOff ==
  /\ ~bof /\ bof' = TRUE
  /\ UNCHANGED <<pc, off, count, node, recovery, txOverflow, inbox, mailbox, got, torn,
                 cut, lost>>

BusOn ==
  /\ bof /\ bof' = FALSE
  /\ UNCHANGED <<pc, off, count, node, recovery, txOverflow, inbox, mailbox, got, torn,
                 cut, lost>>

\* A frame of a GetNodeInfo request comes in; the ring drops it when it is full.
Request ==
  /\ ~bof /\ inbox < RX_RING
  /\ inbox' = inbox + 1
  /\ UNCHANGED <<pc, off, count, node, recovery, txOverflow, bus, cut, lost>>

Less(left) == IF left > 0 THEN left - 1 ELSE 0

\* A tick is longer than an iteration of the loop.
Tick ==
  /\ pc = "sample" /\ pc' = "ticked"
  /\ tx_queue' = [i \in DOMAIN tx_queue |-> [tx_queue[i] EXCEPT !.left = Less(@)]]
  /\ rx_states' = [requester \in Requesters |-> [rx_states[requester] EXCEPT !.left = Less(@)]]
  /\ recovery' = [recovery EXCEPT !.left = Less(@)]
  /\ cleanup' = Less(cleanup) /\ next_status' = Less(next_status)
  /\ UNCHANGED <<off, count, used, tx_overflow_pending, txOverflow, inbox, bus, cut, lost>>

Next == Main \/ Send \/ BusOff \/ BusOn \/ Request \/ Tick

\* The loop runs and time passes; nothing is asked of the bus.
Fairness == WF_vars(Main) /\ SF_vars(Tick)

Spec == Init /\ [][Next]_vars /\ Fairness

-----------------------------------------------------------------------------
TypeOK ==
  /\ pc \in {"sample", "ticked", "flow", "range", "recover", "clean", "receive", "answer",
             "status", "transmit", "report"}
  /\ off \in BOOLEAN /\ count \in 0 .. RX_BUDGET + TX_BUDGET
  /\ tx_queue \in Seq(Frame) /\ mailbox \in Seq(Frame) /\ Len(mailbox) <= MAILBOXES
  /\ used \in 0 .. CAPACITY
  /\ rx_states \in [Requesters -> [allocated : BOOLEAN, left : 0 .. RX_TIMEOUT, payload : Nat]]
  /\ cleanup \in 0 .. CLEANUP /\ next_status \in 0 .. STATUS_PERIOD
  /\ recovery \in [active : BOOLEAN, left : 0 .. RECOVERY]
  /\ tx_overflow_pending \in BOOLEAN /\ txOverflow \in BOOLEAN
  /\ inbox \in 0 .. RX_RING /\ bof \in BOOLEAN
  /\ got \in [Broadcasts -> Nat]
  /\ torn \subseteq Broadcasts /\ cut \subseteq Broadcasts /\ lost \in BOOLEAN

\* canard.c:1893-1938: every block in use is a frame in the queue, a receive state or
\* payload that hangs on one, whatever was refused, cut short, restarted, expired or
\* thrown away.
BlocksAreAccounted == used = Len(tx_queue) + Cardinality(RxBlocks(rx_states))

\* The frames on their way to the bus, the next to be sent first.
Line == mailbox \o tx_queue

\* A frame comes after one of an index of its stream, or starts anew after a cut.
Follows(frame, before) ==
  \/ frame.index = (before % Frames[frame.stream]) + 1
  \/ frame.index = 1 /\ frame.stream \in cut

\* canard.c:1267-1311, dronecan.c:70: the queue is in the order of the
\* identifiers, and from a receiver back through the mailboxes to the queue, each
\* frame of a measurement follows its predecessor, except after one cut off.
QueueIsOrdered ==
  /\ \A i \in 1 .. Len(tx_queue) - 1 :
       CanId[tx_queue[i].stream] <= CanId[tx_queue[i + 1].stream]
  /\ \A j \in DOMAIN Line : Line[j].stream \in Broadcasts =>
       LET earlier == {i \in 1 .. j - 1 : Line[i].stream = Line[j].stream}
       IN  IF earlier = {}
             THEN Follows(Line[j], got[Line[j].stream])
             ELSE \E i \in earlier : /\ \A k \in earlier : k <= i
                                    /\ Follows(Line[j], Line[i].index)

\* README.md:107, "Telemetry backpressure ... drops a complete frame": a receiver
\* never sees part of a measurement or a status, unless the rest expired or was
\* thrown away in bus-off.
TelemetryIsWhole == torn = {}

\* dronecan.c:56: telemetry never eats into the reserve by more than the one
\* transfer that found it whole, so that a status and an answer find room.
ReserveIsKept ==
  \E stream \in Telemetry :
    Cardinality({i \in DOMAIN tx_queue : tx_queue[i].stream \in Telemetry})
      < CAPACITY - RESERVE + Frames[stream]

\* README.md:107, "Telemetry backpressure is reported as a health bit": a transfer
\* that was refused or cut short is reported at the end of the iteration.
BackpressureIsReported == lost => tx_overflow_pending \/ txOverflow

\* README.md:82 and docs/bringup-checklist.md, "no unbounded queue": once the
\* requests end, there is room for telemetry again and again, even if the bus
\* never takes a frame.
TelemetryIsAdmitted == <>[](inbox = 0) => []<>(FreeBlocks > RESERVE)

\* README.md:82, "waits one second, and reinitializes CAN": bus-off always ends.
BusOffEnds == bof ~> ~bof

\* canard.c:1216 asserts that a transfer of several frames never runs out of
\* blocks half-way: an answer finds all of its blocks.
AnswerHasBlocks == pc = "answer" => ~EnqueueFails("info")
=============================================================================
