SPECIFICATION MCSpec
CONSTANTS
  SIZE = 3
  UART_FIFO_LEN = 2
  THRESH = 0
  QLEN = 2
  MAX_BYTES = 5
  Byte = {0, 1}
  UartBuffSize = 4
  FIFO_LEN = 2
  QUEUE_BUFFER_SIZE = 6
  Message <- SomeMessages
INVARIANTS SpaceExact TxWakeup RingOK
PROPERTIES BytesFlow RxIsQueue TxIsQueue IsMessageQueue
