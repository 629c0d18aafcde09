\* Transmission: 2 usable slots, 5 bytes are written, nothing arrives.
CONSTANTS
  SERIAL_BUFFER_SIZE = 3
  Byte = {a, b}
  NoByte = NoByte
  MaxTx = 5
  MaxRx = 0
  LongIsr = FALSE
  Rebegin = FALSE
SPECIFICATION FairSpec
INVARIANTS TypeOK TxFifo NoLostWakeup
PROPERTIES FlushDrains CallsReturn AllSent
