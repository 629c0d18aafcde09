\* Rings of 2 bytes, counts of 0 to 3, bytes numbered modulo 3.
CONSTANTS
  BUFFER_SIZE = 2
  CountMod = 4
  BUFFER_NEARLY_FULL = 1
  Numbers = 3
  OutEndpoint = 1
  ReceiveFifo = 1
  Byte <- MCByte
  NoByte = NoByte
SPECIFICATION FairSpec
INVARIANTS TypeOK Aligned InOrder

PROPERTIES HostServed Drains
