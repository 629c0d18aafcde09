\* Reception: 2 usable slots, 4 bytes without error, one byte is written.
CONSTANTS
  SERIAL_BUFFER_SIZE = 3
  Byte = {a, b}
  NoByte = NoByte
  MaxTx = 1
  MaxRx = 4
  LongIsr = FALSE
  Rebegin = FALSE
SPECIFICATION Spec
INVARIANTS AnswersHold ClosedIsQuiet
PROPERTIES Implements
