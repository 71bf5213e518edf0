--------------------------- MODULE UartLinkProofs ---------------------------
(***************************************************************************)
(* Proofs about the serial port for rings, budgets, frames and byte values *)
(* of any size: its inductive invariant, and that each direction           *)
(* implements the bounded queue of module ByteQueue.                       *)
(***************************************************************************)
EXTENDS UartLink, RingProofs

IInv == TypeOK /\ CopyInFreeSlots /\ ReadByteIsOldest

\* A frame is a sequence of bytes and is not empty.
LEMMA FrameType ==
  /\ \A f \in TxFrames : f \in Seq(Byte) /\ Len(f) \in Nat /\ Len(f) > 0
  /\ \A f \in TxFrames \cup {<< >>} : f \in Seq(Byte) /\ Len(f) \in Nat
<1>1. \A f \in TxFrames : f \in Seq(Byte) /\ f # << >>
  BY UartAssumption DEF TxFrames
<1>2. << >> \in Seq(Byte) /\ Len(<< >>) = 0
  BY EmptySeq
<1>3. \A f \in TxFrames : Len(f) \in Nat /\ Len(f) > 0
  BY <1>1, EmptySeq
<1> QED
  BY <1>1, <1>2, <1>3

\* The rings start empty and the main loop at its top.
LEMMA InitInvariant == Init => IInv
<1> SUFFICES ASSUME Init PROVE IInv
  OBVIOUS
<1>1. 0 \in Index /\ 0 \in 0 .. RX_BUDGET /\ ZeroByte \in Byte
  BY UartAssumption DEF Index, Indices
<1>2. data \in TxFrames \cup {<< >>} /\ i \in 0 .. Len(data)
  <2>1. Len(<< >>) = 0
    BY EmptySeq
  <2> QED
    BY <2>1 DEF Init
<1>3. TypeOK
  BY <1>1, <1>2 DEF Init, TypeOK
<1> QED
  BY <1>3 DEF Init, IInv, CopyInFreeSlots, ReadByteIsOldest

\* The size check of platform_uart_tx leaves room for the whole frame.
LEMMA BeginInvariant ==
  ASSUME IInv, NEW frame \in TxFrames, NEW return \in {"range", "drain"},
         uart_tx_begin(frame, return),
         UNCHANGED <<count, b, received, txRing, rxRing, usart, rxLost>>
  PROVE  IInv'
<1> USE UartAssumption DEF IInv, TypeOK, txRing, rxRing, usart
<1>1. Len(frame) \in Nat
  BY FrameType
<1>2. CASE ring_can_write(UART_RING_SIZE, utx_head, utx_tail, Len(frame))
  <2>1. /\ pc' = "copy" /\ data' = frame /\ i' = 0 /\ next' = utx_head
        /\ after' = return /\ UNCHANGED txOverflow
    BY <1>2 DEF uart_tx_begin
  <2>2. ring_used(UART_RING_SIZE, utx_head, utx_tail) \in 0 .. UART_RING_SIZE - 1
    BY UsedProperties, Zenon DEF Index
  <2>3. ring_used(UART_RING_SIZE, utx_head, utx_tail) + Len(frame) < UART_RING_SIZE
    BY <1>1, <1>2, <2>2 DEF ring_can_write
  <2>4. utx_head = Slot(UART_RING_SIZE, utx_head, 0)
    BY DEF Slot, Index, Indices
  <2>5. TypeOK'
    BY <2>1, <1>1
  <2>6. CopyInFreeSlots'
    BY <2>1, <2>3, <2>4 DEF CopyInFreeSlots
  <2>7. ReadByteIsOldest'
    BY <2>1 DEF ReadByteIsOldest
  <2> QED
    BY <2>5, <2>6, <2>7
<1>3. CASE ~ring_can_write(UART_RING_SIZE, utx_head, utx_tail, Len(frame))
  BY <1>3 DEF uart_tx_begin, txLocals, CopyInFreeSlots, ReadByteIsOldest
<1> QED
  BY <1>2, <1>3

\* Copying one byte stays in the free slots.
LEMMA CopyInvariant == ASSUME IInv, CopyByte PROVE IInv'
<1> USE UartAssumption DEF IInv, TypeOK
<1> DEFINE n == UART_RING_SIZE
<1>1. /\ pc = "copy" /\ i < Len(data) /\ i' = i + 1 /\ next' = Succ(n, next)
      /\ uart_tx' = [uart_tx EXCEPT ![next] = data[i + 1]]
      /\ UNCHANGED <<pc, data, after, count, b, received, txOverflow,
                     utx_head, utx_tail, rxRing, usart, rxLost>>
  BY DEF CopyByte
<1>2. /\ data \in TxFrames /\ data \in Seq(Byte) /\ Len(data) \in Nat
      /\ ring_used(n, utx_head, utx_tail) + Len(data) < n
      /\ next = Slot(n, utx_head, i)
      /\ \A k \in 1 .. i : uart_tx[Slot(n, utx_head, k - 1)] = data[k]
  BY <1>1, FrameType DEF CopyInFreeSlots
<1>3. ring_used(n, utx_head, utx_tail) \in 0 .. n - 1
  BY UsedProperties, Zenon DEF Index
<1>4. i + 1 \in 1 .. Len(data) /\ i \in 0 .. n - 1 /\ data[i + 1] \in Byte
  <2>1. i + 1 \in 1 .. Len(data) /\ i \in 0 .. n - 1
    BY <1>1, <1>2, <1>3
  <2> QED
    BY <2>1, <1>2, ElementOfSeq
<1>5. /\ next' = Slot(n, utx_head, i + 1)
      /\ next' \in Index
  <2>1. Succ(n, next) = Slot(n, utx_head, i + 1)
    BY <1>2, <1>4, SlotProperties DEF Index
  <2>2. Succ(n, next) \in Index
    BY SuccWraps DEF Index
  <2> QED
    BY <1>1, <2>1, <2>2
<1>6. TypeOK'
  <2>1. uart_tx' \in [Index -> Byte]
    BY <1>1, <1>4
  <2> QED
    BY <1>1, <1>4, <1>5, <2>1 DEF rxRing, usart
<1>7. ASSUME NEW k \in 1 .. i + 1
      PROVE  uart_tx'[Slot(n, utx_head, k - 1)] = data[k]
  <2>1. k - 1 \in 0 .. n - 1 /\ Slot(n, utx_head, k - 1) \in Index
    <3>1. k - 1 \in 0 .. n - 1
      BY <1>4
    <3> QED
      BY <3>1, SlotProperties DEF Index
  <2>2. CASE k = i + 1
    BY <1>1, <1>2, <2>1, <2>2
  <2>3. CASE k \in 1 .. i
    <3>1. Slot(n, utx_head, k - 1) # next
      BY <1>2, <1>4, <2>1, <2>3, SlotProperties DEF Index
    <3> QED
      BY <1>1, <1>2, <2>1, <2>3, <3>1
  <2> QED
    BY <2>2, <2>3
<1>8. CopyInFreeSlots'
  BY <1>1, <1>2, <1>5, <1>7 DEF CopyInFreeSlots
<1>9. ReadByteIsOldest'
  BY <1>1 DEF ReadByteIsOldest
<1> QED
  BY <1>6, <1>8, <1>9

\* The handler only shrinks what is waiting to be sent, and stores received
\* bytes behind those the main loop has not popped yet.
LEMMA HandlerInvariant == ASSUME IInv, USART1_IRQHandler PROVE IInv'
<1> USE UartAssumption DEF IInv, TypeOK
<1> DEFINE n == UART_RING_SIZE
<1>1. UNCHANGED <<mainVars, uart_tx, utx_head, urx_tail>>
  BY DEF USART1_IRQHandler
<1>2. /\ uart_rx' \in [Index -> Byte] /\ urx_head' \in Index
      /\ rdbf' \in BOOLEAN /\ rdr' \in Byte /\ rxLost' \in BOOLEAN
      /\ urx_head # urx_tail => /\ urx_head' # urx_tail
                                /\ uart_rx'[urx_tail] = uart_rx[urx_tail]
  <2>1. HandlerReceives
    BY DEF USART1_IRQHandler
  <2>2. Succ(n, urx_head) \in Index
    BY SuccWraps DEF Index
  <2>3. CASE rdbf /\ Succ(n, urx_head) # urx_tail
    BY <2>1, <2>2, <2>3 DEF HandlerReceives
  <2>4. CASE rdbf /\ Succ(n, urx_head) = urx_tail
    BY <2>1, <2>4 DEF HandlerReceives
  <2>5. CASE ~rdbf
    BY <2>1, <2>5 DEF HandlerReceives
  <2> QED
    BY <2>3, <2>4, <2>5
<1>3. /\ tdbeInt' \in BOOLEAN /\ tdbe' \in BOOLEAN /\ sent' \in Byte
      /\ utx_tail' \in Index
      /\ ring_used(n, utx_head, utx_tail') <= ring_used(n, utx_head, utx_tail)
  <2>1. HandlerSends
    BY DEF USART1_IRQHandler
  <2>2. /\ Succ(n, utx_tail) \in Index
        /\ Succ(n, utx_tail) = IF utx_tail + 1 = n THEN 0 ELSE utx_tail + 1
    BY SuccWraps DEF Index
  <2>3. CASE ~tdbe
    <3>1. UNCHANGED <<tdbeInt, tdbe, sent, utx_tail>>
      BY <2>1, <2>3 DEF HandlerSends
    <3>2. ring_used(n, utx_head, utx_tail') <= ring_used(n, utx_head, utx_tail)
      BY <3>1 DEF ring_used, Index, Indices
    <3> QED
      BY <3>1, <3>2
  <2>4. CASE tdbe /\ utx_tail = utx_head
    <3>1. tdbeInt' = FALSE /\ UNCHANGED <<tdbe, sent, utx_tail>>
      BY <2>1, <2>4 DEF HandlerSends
    <3>2. ring_used(n, utx_head, utx_tail') <= ring_used(n, utx_head, utx_tail)
      BY <3>1 DEF ring_used, Index, Indices
    <3> QED
      BY <3>1, <3>2
  <2>5. CASE tdbe /\ utx_tail # utx_head
    <3>1. /\ sent' = uart_tx[utx_tail] /\ tdbe' = FALSE
          /\ utx_tail' = Succ(n, utx_tail) /\ UNCHANGED tdbeInt
      BY <2>1, <2>5 DEF HandlerSends
    <3>2. ring_used(n, utx_head, utx_tail') <= ring_used(n, utx_head, utx_tail)
      BY <2>2, <2>5, <3>1 DEF ring_used, Index, Indices
    <3> QED
      BY <2>2, <3>1, <3>2
  <2> QED
    BY <2>3, <2>4, <2>5
<1>4. TypeOK'
  BY <1>1, <1>2, <1>3 DEF mainVars
<1>5. CopyInFreeSlots'
  <2>1. SUFFICES ASSUME pc = "copy"
                 PROVE  ring_used(n, utx_head, utx_tail') + Len(data) < n
    BY <1>1 DEF CopyInFreeSlots, mainVars
  <2>2. Len(data) \in Nat /\ ring_used(n, utx_head, utx_tail) + Len(data) < n
    BY <2>1, FrameType DEF CopyInFreeSlots
  <2>3. /\ ring_used(n, utx_head, utx_tail) \in Int
        /\ ring_used(n, utx_head, utx_tail') \in Int
    <3>1. /\ n \in Nat /\ n > 1 /\ utx_head \in Indices(n)
          /\ utx_tail \in Indices(n) /\ utx_tail' \in Indices(n)
      BY <1>3 DEF Index
    <3> QED
      BY ONLY <3>1, UsedIsInt, Zenon
  <2> QED
    BY <1>3, <2>2, <2>3
<1>6. ReadByteIsOldest'
  BY <1>1, <1>2 DEF ReadByteIsOldest, mainVars
<1> QED
  BY <1>4, <1>5, <1>6

\* Every step preserves the invariant.
LEMMA NextInvariant == IInv /\ [Next]_vars => IInv'
<1> SUFFICES ASSUME IInv, [Next]_vars PROVE IInv'
  OBVIOUS
<1> USE UartAssumption
<1>1. CASE PublishFlow
  <2>1. ASSUME NEW frame \in FlowFrames, uart_tx_begin(frame, "range") PROVE IInv'
    BY <1>1, <2>1, BeginInvariant DEF PublishFlow, TxFrames
  <2>2. CASE pc' = "range" /\ UNCHANGED <<txLocals, txOverflow>>
    BY <1>1, <2>2 DEF PublishFlow, IInv, TypeOK, CopyInFreeSlots, ReadByteIsOldest,
      txLocals, txRing, rxRing, usart
  <2> QED
    BY <1>1, <2>1, <2>2 DEF PublishFlow
<1>2. CASE PublishRange
  <2>1. ASSUME NEW frame \in RangeFrames, uart_tx_begin(frame, "drain") PROVE IInv'
    BY <1>2, <2>1, BeginInvariant DEF PublishRange, TxFrames
  <2>2. CASE pc' = "drain" /\ UNCHANGED <<txLocals, txOverflow>>
    BY <1>2, <2>2 DEF PublishRange, IInv, TypeOK, CopyInFreeSlots, ReadByteIsOldest,
      txLocals, txRing, rxRing, usart
  <2> QED
    BY <1>2, <2>1, <2>2 DEF PublishRange
<1>3. CASE CopyByte
  BY <1>3, CopyInvariant
<1>4. CASE PublishHead
  BY <1>4 DEF PublishHead, IInv, TypeOK, CopyInFreeSlots, ReadByteIsOldest,
    txLocals, rxRing, usart
<1>5. CASE EnableTdbe
  BY <1>5, FrameType, UartAssumption DEF EnableTdbe, IInv, TypeOK, CopyInFreeSlots, ReadByteIsOldest,
    txRing, rxRing, Index, Indices
<1>6. CASE RxTest
  BY <1>6 DEF RxTest, IInv, TypeOK, CopyInFreeSlots, ReadByteIsOldest,
    txLocals, txRing, rxRing, usart
<1>7. CASE RxRead
  BY <1>7 DEF RxRead, IInv, TypeOK, CopyInFreeSlots, ReadByteIsOldest,
    txLocals, txRing, rxRing, usart
<1>8. CASE RxAdvance
  <2>1. Succ(UART_RING_SIZE, urx_tail) \in Index
    BY SuccWraps DEF IInv, TypeOK, Index
  <2> QED
    BY <1>8, <2>1 DEF RxAdvance, IInv, TypeOK, CopyInFreeSlots, ReadByteIsOldest,
      txLocals, txRing, usart
<1>9. CASE USART1_IRQHandler
  BY <1>9, HandlerInvariant
<1>10. CASE ByteArrives
  BY <1>10 DEF ByteArrives, IInv, TypeOK, CopyInFreeSlots, ReadByteIsOldest,
    mainVars, txRing, rxRing
<1>11. CASE RegisterEmpties
  BY <1>11 DEF RegisterEmpties, IInv, TypeOK, CopyInFreeSlots, ReadByteIsOldest,
    mainVars, txRing, rxRing
<1>12. CASE UNCHANGED vars
  BY <1>12 DEF vars, IInv, TypeOK, CopyInFreeSlots, ReadByteIsOldest,
    mainVars, txRing, rxRing, usart
<1> QED
  BY <1>1, <1>2, <1>3, <1>4, <1>5, <1>6, <1>7, <1>8, <1>9, <1>10, <1>11, <1>12
  DEF Next, Main

-----------------------------------------------------------------------------
(* Each direction implements the bounded queue. *)

txQueue == Contents(UART_RING_SIZE, uart_tx, utx_head, utx_tail)
rxQueue == Contents(UART_RING_SIZE, uart_rx, urx_head, urx_tail)

\* A refused frame did not fit; an accepted one changes nothing yet.
LEMMA BeginImplements ==
  ASSUME IInv, NEW frame \in TxFrames, NEW return, uart_tx_begin(frame, return),
         UNCHANGED <<txRing, usart>>
  PROVE  [TxQueue!Next]_TxQueue!vars
<1> USE UartAssumption DEF IInv, TypeOK, txRing, usart
<1>1. UNCHANGED <<txQueue, sent>>
  BY DEF txQueue
<1>2. CASE ring_can_write(UART_RING_SIZE, utx_head, utx_tail, Len(frame))
  BY <1>1, <1>2 DEF uart_tx_begin, TxQueue!vars, txQueue
<1>3. CASE ~ring_can_write(UART_RING_SIZE, utx_head, utx_tail, Len(frame))
  <2>1. Len(txQueue) = ring_used(UART_RING_SIZE, utx_head, utx_tail)
    BY ContentsType DEF txQueue, Index
  <2>2. Len(frame) \in Nat /\ ring_used(UART_RING_SIZE, utx_head, utx_tail) \in Nat
    <3>1. Len(frame) \in Nat
      BY FrameType
    <3> QED
      BY <3>1 DEF ring_used, Index, Indices
  <2>3. Len(txQueue) + Len(frame) > UART_RING_SIZE - 1
    BY <1>3, <2>1, <2>2 DEF ring_can_write, Index, Indices
  <2>4. txOverflow' = TRUE
    BY <1>3 DEF uart_tx_begin
  <2> QED
    BY <1>1, <2>3, <2>4 DEF TxQueue!Next, TxQueue!Refuse, txQueue
<1> QED
  BY <1>2, <1>3

\* Every step of the port is a step of the transmit queue or leaves it alone.
LEMMA TxStep == IInv /\ [Next]_vars => [TxQueue!Next]_TxQueue!vars
<1> SUFFICES ASSUME IInv, [Next]_vars PROVE [TxQueue!Next]_TxQueue!vars
  OBVIOUS
<1> USE UartAssumption DEF IInv, TypeOK
<1> DEFINE n == UART_RING_SIZE
<1>0. /\ n \in Nat /\ n > 1 /\ uart_tx \in [Indices(n) -> Byte]
      /\ utx_head \in Indices(n) /\ utx_tail \in Indices(n)
  BY DEF Index
<1>1. CASE PublishFlow
  <2>1. ASSUME NEW frame \in FlowFrames, uart_tx_begin(frame, "range")
        PROVE  [TxQueue!Next]_TxQueue!vars
    BY <1>1, <2>1, BeginImplements DEF PublishFlow, TxFrames
  <2>2. CASE UNCHANGED <<txLocals, txOverflow>>
    BY <1>1, <2>2 DEF PublishFlow, TxQueue!vars, txRing, usart
  <2> QED
    BY <1>1, <2>1, <2>2 DEF PublishFlow
<1>2. CASE PublishRange
  <2>1. ASSUME NEW frame \in RangeFrames, uart_tx_begin(frame, "drain")
        PROVE  [TxQueue!Next]_TxQueue!vars
    BY <1>2, <2>1, BeginImplements DEF PublishRange, TxFrames
  <2>2. CASE UNCHANGED <<txLocals, txOverflow>>
    BY <1>2, <2>2 DEF PublishRange, TxQueue!vars, txRing, usart
  <2> QED
    BY <1>2, <2>1, <2>2 DEF PublishRange
<1>3. CASE CopyByte
  <2>1. /\ pc = "copy" /\ i < Len(data)
        /\ uart_tx' = [uart_tx EXCEPT ![next] = data[i + 1]]
        /\ UNCHANGED <<utx_head, utx_tail, sent, txOverflow>>
    BY <1>3 DEF CopyByte, usart
  <2>2. /\ data \in Seq(Byte) /\ Len(data) \in Nat /\ next = Slot(n, utx_head, i)
        /\ ring_used(n, utx_head, utx_tail) + Len(data) < n
    BY <2>1, FrameType DEF CopyInFreeSlots
  <2>3. i \in Nat /\ data[i + 1] \in Byte
    <3>1. i + 1 \in 1 .. Len(data)
      BY <2>1, <2>2
    <3> QED
      BY <2>2, <3>1, ElementOfSeq
  <2>4. ring_used(n, utx_head, utx_tail) + i < n
    BY <2>1, <2>2, <2>3 DEF ring_used, Index, Indices
  <2>5. txQueue' = txQueue
    <3>1. \A x \in Indices(n) : x # Slot(n, utx_head, i) => uart_tx'[x] = uart_tx[x]
      BY <1>0, <2>1, <2>2
    <3>2. Contents(n, uart_tx', utx_head, utx_tail) = txQueue
      BY ONLY <1>0, <2>3, <2>4, <3>1, ContentsOfFreeWrite DEF txQueue
    <3> QED
      BY <2>1, <3>2 DEF txQueue
  <2> QED
    BY <2>1, <2>5 DEF TxQueue!vars, txQueue
<1>4. CASE PublishHead
  <2>1. /\ pc = "copy" /\ i = Len(data) /\ utx_head' = next
        /\ UNCHANGED <<uart_tx, utx_tail, sent, txOverflow>>
    BY <1>4 DEF PublishHead, usart
  <2>2. /\ data \in TxFrames /\ data \in Seq(Byte) /\ Len(data) \in Nat
        /\ next = Slot(n, utx_head, Len(data))
        /\ ring_used(n, utx_head, utx_tail) + Len(data) < n
        /\ \A k \in 1 .. Len(data) : uart_tx[Slot(n, utx_head, k - 1)] = data[k]
    BY <2>1, FrameType DEF CopyInFreeSlots
  <2>3. txQueue' = txQueue \o data
    <3>1. Contents(n, uart_tx, Slot(n, utx_head, Len(data)), utx_tail) =
            txQueue \o data
      BY ONLY <1>0, <2>2, ContentsAppend, SMTT(60) DEF txQueue
    <3> QED
      BY <2>1, <2>2, <3>1 DEF txQueue
  <2>4. Len(txQueue) + Len(data) <= n - 1
    <3>1. Len(txQueue) = ring_used(n, utx_head, utx_tail)
      BY ContentsType DEF txQueue, Index
    <3>2. ring_used(n, utx_head, utx_tail) \in Int
      BY ONLY <1>0, UsedIsInt, Zenon
    <3> QED
      BY <2>2, <3>1, <3>2
  <2> QED
    BY <2>1, <2>2, <2>3, <2>4 DEF TxQueue!Next, TxQueue!Put, txQueue
<1>5. CASE EnableTdbe
  BY <1>5 DEF EnableTdbe, TxQueue!vars, txRing
<1>6. CASE RxTest
  BY <1>6 DEF RxTest, TxQueue!vars, txRing, usart
<1>7. CASE RxRead
  BY <1>7 DEF RxRead, TxQueue!vars, txRing, usart
<1>8. CASE RxAdvance
  BY <1>8 DEF RxAdvance, TxQueue!vars, txRing, usart
<1>9. CASE USART1_IRQHandler
  <2>1. HandlerSends /\ UNCHANGED <<txOverflow, uart_tx, utx_head>>
    BY <1>9 DEF USART1_IRQHandler, mainVars
  <2>2. CASE ~tdbe \/ utx_tail = utx_head
    <3>1. UNCHANGED <<sent, utx_tail>>
      BY <2>1, <2>2 DEF HandlerSends
    <3> QED
      BY <2>1, <3>1 DEF TxQueue!vars
  <2>3. CASE tdbe /\ utx_tail # utx_head
    <3>1. sent' = uart_tx[utx_tail] /\ utx_tail' = Succ(n, utx_tail)
      BY <2>1, <2>3 DEF HandlerSends
    <3>2. /\ txQueue # << >> /\ Head(txQueue) = uart_tx[utx_tail]
          /\ txQueue' = Tail(txQueue)
      <4>1. /\ txQueue # << >> /\ Head(txQueue) = uart_tx[utx_tail]
            /\ Contents(n, uart_tx, utx_head, Succ(n, utx_tail)) = Tail(txQueue)
        BY ONLY <1>0, <2>3, ContentsTail, Zenon DEF txQueue
      <4> QED
        BY <2>1, <3>1, <4>1 DEF txQueue
    <3> QED
      BY <2>1, <3>1, <3>2 DEF TxQueue!Next, TxQueue!Take, txQueue
  <2> QED
    BY <2>2, <2>3
<1>10. CASE ByteArrives
  BY <1>10 DEF ByteArrives, TxQueue!vars, mainVars, txRing
<1>11. CASE RegisterEmpties
  BY <1>11 DEF RegisterEmpties, TxQueue!vars, mainVars, txRing
<1>12. CASE UNCHANGED vars
  BY <1>12 DEF vars, TxQueue!vars, mainVars, txRing, usart
<1> QED
  BY <1>1, <1>2, <1>3, <1>4, <1>5, <1>6, <1>7, <1>8, <1>9, <1>10, <1>11, <1>12
  DEF Next, Main

-----------------------------------------------------------------------------

\* Every step of the port is a step of the receive queue or leaves it alone.
LEMMA RxStep == IInv /\ [Next]_vars => [RxQueue!Next]_RxQueue!vars
<1> SUFFICES ASSUME IInv, [Next]_vars PROVE [RxQueue!Next]_RxQueue!vars
  OBVIOUS
<1> USE UartAssumption DEF IInv, TypeOK
<1> DEFINE n == UART_RING_SIZE
<1>0. /\ n \in Nat /\ n > 1 /\ uart_rx \in [Indices(n) -> Byte]
      /\ urx_head \in Indices(n) /\ urx_tail \in Indices(n)
  BY DEF Index
<1>1. CASE PublishFlow
  BY <1>1 DEF PublishFlow, RxQueue!vars, rxRing
<1>2. CASE PublishRange
  BY <1>2 DEF PublishRange, RxQueue!vars, rxRing
<1>3. CASE CopyByte
  BY <1>3 DEF CopyByte, RxQueue!vars, rxRing
<1>4. CASE PublishHead
  BY <1>4 DEF PublishHead, RxQueue!vars, rxRing
<1>5. CASE EnableTdbe
  BY <1>5 DEF EnableTdbe, RxQueue!vars, rxRing
<1>6. CASE RxTest
  BY <1>6 DEF RxTest, RxQueue!vars, rxRing
<1>7. CASE RxRead
  BY <1>7 DEF RxRead, RxQueue!vars, rxRing
<1>8. CASE RxAdvance
  <2>1. /\ pc = "rxAdvance" /\ received' = b /\ urx_tail' = Succ(n, urx_tail)
        /\ UNCHANGED <<uart_rx, urx_head, rxLost>>
    BY <1>8 DEF RxAdvance
  <2>2. urx_head # urx_tail /\ b = uart_rx[urx_tail]
    BY <2>1 DEF ReadByteIsOldest
  <2>3. /\ rxQueue # << >> /\ Head(rxQueue) = uart_rx[urx_tail]
        /\ Contents(n, uart_rx, urx_head, Succ(n, urx_tail)) = Tail(rxQueue)
    BY ONLY <1>0, <2>2, ContentsTail, Zenon DEF rxQueue
  <2> QED
    BY <2>1, <2>2, <2>3 DEF RxQueue!Next, RxQueue!Take, rxQueue
<1>9. CASE USART1_IRQHandler
  <2>1. HandlerReceives /\ UNCHANGED <<received, urx_tail>> /\ rdr \in Byte
    BY <1>9 DEF USART1_IRQHandler, mainVars
  <2>2. CASE ~rdbf
    BY <2>1, <2>2 DEF HandlerReceives, RxQueue!vars
  <2> DEFINE h == Succ(n, urx_head)
             used == ring_used(n, urx_head, urx_tail)
             frame == <<rdr>>
  <2>3. h = IF urx_head + 1 = n THEN 0 ELSE urx_head + 1
    BY SuccWraps, <1>0
  <2>4. /\ frame \in Seq(Byte) /\ Len(frame) = 1 /\ frame[1] = rdr
        /\ frame \in {<<x>> : x \in Byte}
    BY <2>1
  <2>5. Len(rxQueue) = used /\ used \in Int
    <3>1. Len(rxQueue) = used
      BY ONLY <1>0, ContentsType DEF rxQueue
    <3> QED
      BY <1>0, <3>1 DEF ring_used
  <2>6. CASE rdbf /\ h = urx_tail
    <3>1. UNCHANGED <<uart_rx, urx_head>> /\ rxLost' = TRUE
      BY <2>1, <2>6 DEF HandlerReceives
    <3>2. used = n - 1
      BY <1>0, <2>3, <2>6 DEF ring_used, Indices
    <3>3. Len(rxQueue) + Len(frame) > n - 1
      BY <2>4, <2>5, <3>2
    <3>4. RxQueue!Refuse(frame)
      BY <2>1, <3>1, <3>3 DEF RxQueue!Refuse, rxQueue
    <3> QED
      BY <2>4, <3>4 DEF RxQueue!Next
  <2>7. CASE rdbf /\ h # urx_tail
    <3>1. /\ uart_rx' = [uart_rx EXCEPT ![urx_head] = rdr]
          /\ urx_head' = h /\ UNCHANGED rxLost
      BY <2>1, <2>7 DEF HandlerReceives
    <3>2. used + 1 < n
      BY <1>0, <2>3, <2>7 DEF ring_used, Indices
    <3>3. Slot(n, urx_head, 0) = urx_head /\ Slot(n, urx_head, 1) = h
      BY <1>0, <2>3 DEF Slot, Indices
    <3>4. Contents(n, uart_rx', urx_head, urx_tail) = rxQueue
      <4>1. used + 0 < n
        BY <3>2, <2>5
      <4>2. \A x \in Indices(n) : x # Slot(n, urx_head, 0) => uart_rx'[x] = uart_rx[x]
        BY <1>0, <3>1, <3>3
      <4> QED
        BY ONLY <1>0, <4>1, <4>2, ContentsOfFreeWrite DEF rxQueue
    <3>5. Contents(n, uart_rx', Slot(n, urx_head, Len(frame)), urx_tail) =
            Contents(n, uart_rx', urx_head, urx_tail) \o frame
      <4>1. uart_rx' \in [Indices(n) -> Byte]
        BY <1>0, <2>1, <3>1
      <4>2. \A k \in 1 .. Len(frame) : uart_rx'[Slot(n, urx_head, k - 1)] = frame[k]
        <5>1. uart_rx'[urx_head] = rdr
          BY <1>0, <3>1
        <5>2. ASSUME NEW k \in 1 .. Len(frame) PROVE k = 1
          BY <2>4, <5>2
        <5> QED
          BY <2>4, <3>3, <5>1, <5>2
      <4>3. used + Len(frame) < n
        BY <2>4, <3>2
      <4>4. ASSUME NEW ring \in [Indices(n) -> Byte], NEW f \in Seq(Byte),
                   ring_used(n, urx_head, urx_tail) + Len(f) < n,
                   \A k \in 1 .. Len(f) : ring[Slot(n, urx_head, k - 1)] = f[k]
            PROVE  Contents(n, ring, Slot(n, urx_head, Len(f)), urx_tail) =
                     Contents(n, ring, urx_head, urx_tail) \o f
        BY ONLY <1>0, <4>4, ContentsAppend
      <4> HIDE DEF frame
      <4> QED
        BY ONLY <2>4, <4>1, <4>2, <4>3, <4>4
    <3>6. rxQueue' = rxQueue \o frame
      BY <2>1, <2>4, <3>1, <3>3, <3>4, <3>5 DEF rxQueue
    <3>7. Len(rxQueue) + Len(frame) <= n - 1
      BY <2>4, <2>5, <3>2
    <3>8. RxQueue!Put(frame)
      BY <2>1, <3>1, <3>6, <3>7 DEF RxQueue!Put, rxQueue
    <3> QED
      BY <2>4, <3>8 DEF RxQueue!Next
  <2> QED
    BY <2>2, <2>6, <2>7
<1>10. CASE ByteArrives
  BY <1>10 DEF ByteArrives, RxQueue!vars, mainVars, rxRing
<1>11. CASE RegisterEmpties
  BY <1>11 DEF RegisterEmpties, RxQueue!vars, mainVars, rxRing
<1>12. CASE UNCHANGED vars
  BY <1>12 DEF vars, RxQueue!vars, mainVars, rxRing
<1> QED
  BY <1>1, <1>2, <1>3, <1>4, <1>5, <1>6, <1>7, <1>8, <1>9, <1>10, <1>11, <1>12
  DEF Next, Main

\* Both queues start empty and with nothing refused.
LEMMA InitImplements == Init => TxQueue!Init /\ RxQueue!Init
<1> SUFFICES ASSUME Init PROVE TxQueue!Init /\ RxQueue!Init
  OBVIOUS
<1>1. ring_used(UART_RING_SIZE, 0, 0) = 0
  BY DEF ring_used
<1>2. txQueue = << >> /\ rxQueue = << >>
  BY <1>1 DEF Init, txQueue, rxQueue, Contents
<1> QED
  BY <1>2 DEF Init, TxQueue!Init, RxQueue!Init, txQueue, rxQueue

-----------------------------------------------------------------------------
(* The theorems. *)

\* The inductive invariant holds of every behaviour of the port (platform.c:
\* 151-152,173-177).
THEOREM Invariant == Spec => []IInv
<1>1. Init => IInv
  BY InitInvariant
<1>2. IInv /\ [Next]_vars => IInv'
  BY NextInvariant
<1> QED
  BY <1>1, <1>2, PTL DEF Spec

\* Ring indices never leave their ring, whatever the sizes (platform.c:151-152).
THEOREM TypeCorrect == Spec => []TypeOK
<1>1. IInv => TypeOK
  BY DEF IInv
<1> QED
  BY <1>1, Invariant, PTL

\* platform_uart_tx never writes a slot the handler may still read
\* (platform.c:151,176).
THEOREM CopySafe == Spec => []CopyInFreeSlots
<1>1. IInv => CopyInFreeSlots
  BY DEF IInv
<1> QED
  BY <1>1, Invariant, PTL

\* A byte being popped is not overwritten by the handler (platform.c:152,175).
THEOREM ReadSafe == Spec => []ReadByteIsOldest
<1>1. IInv => ReadByteIsOldest
  BY DEF IInv
<1> QED
  BY <1>1, Invariant, PTL

\* Frames leave whole, in order and once, and are refused only when they do not
\* fit (platform.c:151,176), for rings and frames of any size.
THEOREM TxRefinement == Spec => TxImplementsQueue
<1>1. Init => TxQueue!Init
  BY InitImplements
<1>2. IInv /\ [Next]_vars => [TxQueue!Next]_TxQueue!vars
  BY TxStep
<1> QED
  BY <1>1, <1>2, Invariant, PTL DEF Spec, TxImplementsQueue, TxQueue!Spec

\* Received bytes are popped in order and once, and are lost only when the ring
\* is full (platform.c:152,175), for rings of any size.
THEOREM RxRefinement == Spec => RxImplementsQueue
<1>1. Init => RxQueue!Init
  BY InitImplements
<1>2. IInv /\ [Next]_vars => [RxQueue!Next]_RxQueue!vars
  BY RxStep
<1> QED
  BY <1>1, <1>2, Invariant, PTL DEF Spec, RxImplementsQueue, RxQueue!Spec
=============================================================================
