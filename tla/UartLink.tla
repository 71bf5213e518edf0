------------------------------ MODULE UartLink ------------------------------
(***************************************************************************)
(* The MSP serial port: the main loop (main.c:43-61) and the USART1        *)
(* interrupt handler (platform.c:173-177) share two rings without a lock.  *)
(* The main loop is cut at every access to memory the handler also         *)
(* touches; the handler preempts it and is never preempted by it, so it is *)
(* one step.  The handler tests the TDBE flag and not its enable bit: a    *)
(* byte that arrives may therefore also send one.                          *)
(***************************************************************************)
EXTENDS Ring, Sequences

CONSTANTS
  UART_RING_SIZE,   \* slots of each ring
  RX_BUDGET,        \* MAIN_UART_RX_BUDGET_BYTES
  Byte,             \* the values of a byte
  ZeroByte,         \* what the statically allocated rings hold at start
  FlowFrames,       \* what msp_encode_flow may produce
  RangeFrames       \* what msp_encode_range may produce

ASSUME UartAssumption ==
  /\ UART_RING_SIZE \in Nat /\ UART_RING_SIZE > 1
  /\ RX_BUDGET \in Nat \ {0}
  /\ ZeroByte \in Byte
  /\ FlowFrames \subseteq Seq(Byte) \ {<< >>}
  /\ RangeFrames \subseteq Seq(Byte) \ {<< >>}

TxFrames == FlowFrames \cup RangeFrames
Index == Indices(UART_RING_SIZE)

VARIABLES
  pc,         \* where the main loop stands
  data,       \* platform_uart_tx: the frame being copied
  i,          \* platform_uart_tx: how many of its bytes are copied
  next,       \* platform_uart_tx: the slot of the next byte
  after,      \* where platform_uart_tx returns to
  count,      \* main.c:60: bytes popped in this iteration
  b,          \* platform_uart_rx_pop: the byte read, before the tail moves
  received,   \* the byte the MSP parser consumed last
  txOverflow, \* HEALTH_UART_TX_OVERFLOW
  uart_tx, utx_head, utx_tail,
  uart_rx, urx_head, urx_tail,
  tdbeInt,    \* USART1 ctrl1: the TDBE interrupt is enabled
  tdbe,       \* USART1 status: the transmit data register is empty
  sent,       \* the byte written last to the transmit data register
  rdbf,       \* USART1 status: the receive data register is full
  rdr,        \* the receive data register
  rxLost      \* history: a received byte found the ring full (no code keeps it)

mainVars == <<pc, data, i, next, after, count, b, received, txOverflow>>
txRing   == <<uart_tx, utx_head, utx_tail>>
rxRing   == <<uart_rx, urx_head, urx_tail>>
usart    == <<tdbeInt, tdbe, sent, rdbf, rdr>>
txLocals == <<data, i, next, after>>
vars     == <<mainVars, txRing, rxRing, usart, rxLost>>

Init ==
  /\ pc = "flow" /\ data = << >> /\ i = 0 /\ next = 0 /\ after = "range"
  /\ count = 0 /\ b = ZeroByte /\ received = ZeroByte /\ txOverflow = FALSE
  /\ uart_tx = [s \in Index |-> ZeroByte] /\ utx_head = 0 /\ utx_tail = 0
  /\ uart_rx = [s \in Index |-> ZeroByte] /\ urx_head = 0 /\ urx_tail = 0
  /\ tdbeInt = FALSE /\ tdbe = TRUE /\ sent = ZeroByte
  /\ rdbf = FALSE /\ rdr = ZeroByte
  /\ rxLost = FALSE

-----------------------------------------------------------------------------
(* The main loop. *)

\* platform_uart_tx up to its size check.  head is written by nobody else and
\* tail is read once, so the two loads and the test on the copies are one step.
uart_tx_begin(frame, return) ==
  IF ring_can_write(UART_RING_SIZE, utx_head, utx_tail, Len(frame))
    THEN /\ pc' = "copy"
         /\ data' = frame /\ i' = 0 /\ next' = utx_head /\ after' = return
         /\ UNCHANGED txOverflow
    ELSE /\ pc' = return
         /\ txOverflow' = TRUE
         /\ UNCHANGED txLocals

\* main.c:43-45.  Whether the 20 ms period has elapsed is left open.
PublishFlow ==
  /\ pc = "flow"
  /\ \/ \E frame \in FlowFrames : uart_tx_begin(frame, "range")
     \/ pc' = "range" /\ UNCHANGED <<txLocals, txOverflow>>
  /\ UNCHANGED <<count, b, received, txRing, rxRing, usart, rxLost>>

\* main.c:51-53.
PublishRange ==
  /\ pc = "range"
  /\ \/ \E frame \in RangeFrames : uart_tx_begin(frame, "drain")
     \/ pc' = "drain" /\ UNCHANGED <<txLocals, txOverflow>>
  /\ UNCHANGED <<count, b, received, txRing, rxRing, usart, rxLost>>

\* Mutant: every byte is made visible as soon as it is copied.
CopyByte_PublishesEach ==
  /\ pc = "copy" /\ i < Len(data)
  /\ uart_tx' = [uart_tx EXCEPT ![next] = data[i + 1]]
  /\ next' = Succ(UART_RING_SIZE, next)
  /\ utx_head' = next'
  /\ i' = i + 1
  /\ UNCHANGED <<pc, data, after, count, b, received, txOverflow,
                 utx_tail, rxRing, usart, rxLost>>

CopyByte ==
  /\ pc = "copy" /\ i < Len(data)
  /\ uart_tx' = [uart_tx EXCEPT ![next] = data[i + 1]]
  /\ next' = Succ(UART_RING_SIZE, next)
  /\ i' = i + 1
  /\ UNCHANGED <<pc, data, after, count, b, received, txOverflow,
                 utx_head, utx_tail, rxRing, usart, rxLost>>

\* The bytes become visible to the handler all at once.
PublishHead ==
  /\ pc = "copy" /\ i = Len(data)
  /\ utx_head' = next
  /\ pc' = "enable"
  /\ UNCHANGED <<txLocals, count, b, received, txOverflow, uart_tx, utx_tail,
                 rxRing, usart, rxLost>>

\* Mutant: the interrupt is enabled only when the register is empty already.
EnableTdbe_IfEmpty ==
  /\ pc = "enable"
  /\ tdbeInt' = (tdbeInt \/ tdbe)
  /\ pc' = after
  /\ data' = << >> /\ i' = 0 /\ next' = 0 /\ after' = "range"
  /\ UNCHANGED <<count, b, received, txOverflow, txRing, rxRing,
                 tdbe, sent, rdbf, rdr, rxLost>>

\* usart_interrupt_enable is "ctrl1 |= bit".  A handler that clears the bit
\* between the load and the store is overwritten by a store that sets it, so
\* the two accesses amount to one that sets it.
EnableTdbe ==
  /\ pc = "enable"
  /\ tdbeInt' = TRUE
  /\ pc' = after
  /\ data' = << >> /\ i' = 0 /\ next' = 0 /\ after' = "range"   \* dead locals
  /\ UNCHANGED <<count, b, received, txOverflow, txRing, rxRing,
                 tdbe, sent, rdbf, rdr, rxLost>>

\* Mutant: the drain has no budget.
RxTest_NoBudget ==
  /\ pc = "drain"
  /\ IF urx_tail # urx_head
       THEN pc' = "rxRead" /\ count' = 0
       ELSE pc' = "flow" /\ count' = 0
  /\ UNCHANGED <<txLocals, b, received, txOverflow, txRing, rxRing, usart,
                 rxLost>>

\* main.c:60: the loop condition, with the first test of platform_uart_rx_pop.
\* Leaving the loop leads through the rest of the iteration back to its top.
RxTest ==
  /\ pc = "drain"
  /\ IF count < RX_BUDGET /\ urx_tail # urx_head
       THEN pc' = "rxRead" /\ UNCHANGED count
       ELSE pc' = "flow" /\ count' = 0
  /\ UNCHANGED <<txLocals, b, received, txOverflow, txRing, rxRing, usart,
                 rxLost>>

RxRead ==
  /\ pc = "rxRead"
  /\ b' = uart_rx[urx_tail]
  /\ pc' = "rxAdvance"
  /\ UNCHANGED <<txLocals, count, received, txOverflow, txRing, rxRing, usart,
                 rxLost>>

\* Mutant: popping one byte releases all of them.
RxAdvance_DropsRest ==
  /\ pc = "rxAdvance"
  /\ urx_tail' = urx_head
  /\ received' = b /\ b' = ZeroByte   \* a dead local
  /\ count' = count + 1
  /\ pc' = "drain"
  /\ UNCHANGED <<txLocals, txOverflow, txRing, uart_rx, urx_head, usart,
                 rxLost>>

RxAdvance ==
  /\ pc = "rxAdvance"
  /\ urx_tail' = Succ(UART_RING_SIZE, urx_tail)
  /\ received' = b /\ b' = ZeroByte   \* a dead local
  /\ count' = count + 1
  /\ pc' = "drain"
  /\ UNCHANGED <<txLocals, txOverflow, txRing, uart_rx, urx_head, usart,
                 rxLost>>

Main ==
  \/ PublishFlow \/ PublishRange
  \/ CopyByte \/ PublishHead \/ EnableTdbe
  \/ RxTest \/ RxRead \/ RxAdvance

-----------------------------------------------------------------------------
(* The interrupt handler and the USART. *)

\* Mutant: a byte is stored without looking for a free slot.
HandlerReceives_NoFullTest ==
  IF rdbf
    THEN /\ rdbf' = FALSE /\ rdr' = ZeroByte
         /\ uart_rx' = [uart_rx EXCEPT ![urx_head] = rdr]
         /\ urx_head' = Succ(UART_RING_SIZE, urx_head)
         /\ UNCHANGED rxLost
    ELSE UNCHANGED <<rdbf, rdr, uart_rx, urx_head, rxLost>>

\* platform.c:175.
HandlerReceives ==
  IF rdbf
    THEN LET n == Succ(UART_RING_SIZE, urx_head)
         IN  /\ rdbf' = FALSE /\ rdr' = ZeroByte   \* its value is used up
             /\ IF n # urx_tail
                  THEN /\ uart_rx' = [uart_rx EXCEPT ![urx_head] = rdr]
                       /\ urx_head' = n
                       /\ UNCHANGED rxLost
                  ELSE /\ rxLost' = TRUE
                       /\ UNCHANGED <<uart_rx, urx_head>>
    ELSE UNCHANGED <<rdbf, rdr, uart_rx, urx_head, rxLost>>

\* platform.c:176.
HandlerSends ==
  CASE ~tdbe                       -> UNCHANGED <<tdbeInt, tdbe, sent, utx_tail>>
    [] tdbe /\ utx_tail = utx_head -> /\ tdbeInt' = FALSE
                                      /\ UNCHANGED <<tdbe, sent, utx_tail>>
    [] tdbe /\ utx_tail # utx_head -> /\ sent' = uart_tx[utx_tail]
                                      /\ tdbe' = FALSE
                                      /\ utx_tail' = Succ(UART_RING_SIZE, utx_tail)
                                      /\ UNCHANGED tdbeInt

USART1_IRQHandler ==
  /\ rdbf \/ (tdbe /\ tdbeInt)
  /\ HandlerReceives
  /\ HandlerSends
  /\ UNCHANGED <<mainVars, uart_tx, utx_head, urx_tail>>

\* Hardware: a byte has been clocked in, or the data register has been emptied
\* into the shift register.  A byte that comes in while rdbf is set is lost in
\* hardware, which no variable here shows.
ByteArrives ==
  /\ ~rdbf
  /\ rdbf' = TRUE
  /\ rdr' \in Byte
  /\ UNCHANGED <<mainVars, txRing, rxRing, tdbeInt, tdbe, sent, rxLost>>

RegisterEmpties ==
  /\ ~tdbe
  /\ tdbe' = TRUE
  /\ UNCHANGED <<mainVars, txRing, rxRing, tdbeInt, sent, rdbf, rdr, rxLost>>

Next == Main \/ USART1_IRQHandler \/ ByteArrives \/ RegisterEmpties

\* The processor runs the loop, a pending interrupt is taken, and the line
\* shifts bits out.  Nothing forces bytes to arrive.
Fairness == WF_vars(Main) /\ WF_vars(USART1_IRQHandler) /\ WF_vars(RegisterEmpties)

Spec == Init /\ [][Next]_vars /\ Fairness

-----------------------------------------------------------------------------
(* What the port promises, and that it keeps the promise. *)

TxQueue == INSTANCE ByteQueue WITH
  Capacity <- UART_RING_SIZE - 1,
  Frames   <- TxFrames,
  queue    <- Contents(UART_RING_SIZE, uart_tx, utx_head, utx_tail),
  taken    <- sent,
  refused  <- txOverflow

RxQueue == INSTANCE ByteQueue WITH
  Capacity <- UART_RING_SIZE - 1,
  Frames   <- {<<x>> : x \in Byte},
  queue    <- Contents(UART_RING_SIZE, uart_rx, urx_head, urx_tail),
  taken    <- received,
  refused  <- rxLost

TypeOK ==
  /\ pc \in {"flow", "range", "copy", "enable", "drain", "rxRead", "rxAdvance"}
  /\ data \in TxFrames \cup {<< >>}
  /\ i \in 0 .. Len(data)
  /\ next \in Index
  /\ after \in {"range", "drain"}
  /\ count \in 0 .. RX_BUDGET
  /\ b \in Byte /\ received \in Byte /\ txOverflow \in BOOLEAN
  /\ uart_tx \in [Index -> Byte] /\ utx_head \in Index /\ utx_tail \in Index
  /\ uart_rx \in [Index -> Byte] /\ urx_head \in Index /\ urx_tail \in Index
  /\ tdbeInt \in BOOLEAN /\ tdbe \in BOOLEAN /\ sent \in Byte
  /\ rdbf \in BOOLEAN /\ rdr \in Byte
  /\ rxLost \in BOOLEAN

\* platform.c:151: while a frame is being copied, all of it fits behind the
\* bytes still to be sent however far the handler has got, the copy stands
\* where it should, and what is copied already reads back.
CopyInFreeSlots ==
  pc = "copy" =>
    /\ data \in TxFrames
    /\ ring_used(UART_RING_SIZE, utx_head, utx_tail) + Len(data) < UART_RING_SIZE
    /\ next = Slot(UART_RING_SIZE, utx_head, i)
    /\ \A k \in 1 .. i : uart_tx[Slot(UART_RING_SIZE, utx_head, k - 1)] = data[k]

\* platform.c:152: a byte read but not yet released is still the oldest byte of
\* the ring, whatever the handler stored in the meantime.
ReadByteIsOldest ==
  /\ pc \in {"rxRead", "rxAdvance"} => urx_head # urx_tail /\ count < RX_BUDGET
  /\ pc = "rxAdvance" => b = uart_rx[urx_tail]

\* platform.c:151,176: frames leave whole, in order, each byte once, and a
\* frame is refused (main.c:45,53) only when it did not fit.
TxImplementsQueue == TxQueue!Spec

\* platform.c:152,175: received bytes reach the parser in order, each at most
\* once, and are lost only when the ring is full.
RxImplementsQueue == RxQueue!Spec

\* platform.c:151,176: a byte waiting to be sent is sent.  The handler disables
\* its own interrupt when it finds the ring empty, so this rests on enabling it
\* after the head has moved.
WaitingByteIsSent ==
  \A k \in Index : (utx_tail = k /\ utx_head # k) ~> (utx_tail # k)

\* main.c:60: however fast bytes arrive, the drain ends and the loop comes back
\* to its top, where the watchdog has been fed.
LoopComesRound == []<>(pc = "flow")
=============================================================================
