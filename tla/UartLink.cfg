SPECIFICATION Spec
CONSTANTS
  UART_RING_SIZE = 3
  RX_BUDGET = 1
  Byte = {1, 2}
  ZeroByte = 1
  FlowFrames <- MCFlowFrames
  RangeFrames <- MCRangeFrames
INVARIANTS
  TypeOK
  CopyInFreeSlots
  ReadByteIsOldest
PROPERTIES
  TxImplementsQueue
  RxImplementsQueue
  WaitingByteIsSent
  LoopComesRound
