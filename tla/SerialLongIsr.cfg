\* Another handler may run for longer than a frame; one byte is written.
CONSTANTS
  SERIAL_BUFFER_SIZE = 3
  Byte = {a, b}
  NoByte = NoByte
  MaxTx = 1
  MaxRx = 0
  LongIsr = TRUE
  Rebegin = FALSE
SPECIFICATION FairSpec
PROPERTIES CallsReturn
CHECK_DEADLOCK FALSE
