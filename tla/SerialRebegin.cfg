\* begin() on an open port; three bytes are written: to the shift
\* register, to UDR and to the ring.
CONSTANTS
  SERIAL_BUFFER_SIZE = 3
  Byte = {a, b}
  NoByte = NoByte
  MaxTx = 3
  MaxRx = 0
  LongIsr = FALSE
  Rebegin = TRUE
SPECIFICATION PromptSpec
PROPERTIES CallsReturn
CHECK_DEADLOCK FALSE
