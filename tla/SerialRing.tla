----------------------------- MODULE SerialRing -----------------------------
(***************************************************************************)
(* struct ring_buffer of cores/arduino/HardwareSerial.cpp: an array of     *)
(* SERIAL_BUFFER_SIZE bytes with a write index (head) and a read index     *)
(* (tail).  head = tail means empty, so one slot always stays unused.      *)
(*                                                                         *)
(* The indices are 16 bits wide and are read by an 8-bit CPU in two        *)
(* accesses, but they stay below 256, so that the high byte is always 0    *)
(* and a read is never torn: an index is one value here.                   *)
(***************************************************************************)
EXTENDS Integers, Sequences

CONSTANTS
  SERIAL_BUFFER_SIZE,  \* slots of a ring: 16 or 64 in the source
  Byte,                \* the values a data byte can take
  NoByte               \* what a slot holds before its first use (0 in C)

ASSUME BufferSizeAssumption == SERIAL_BUFFER_SIZE \in Nat \ {0, 1}
ASSUME NoByteAssumption == NoByte \notin Byte

Slot == 0 .. SERIAL_BUFFER_SIZE - 1

Ring == [buffer : [Slot -> Byte \cup {NoByte}], head : Slot, tail : Slot]

EmptyRing == [buffer |-> [i \in Slot |-> NoByte], head |-> 0, tail |-> 0]

\* Mutant: the index does not wrap.
Advance_NoWrap(i) == i + 1

\* (index + 1) % SERIAL_BUFFER_SIZE, as every user of a ring computes it.
Advance(i) == (i + 1) % SERIAL_BUFFER_SIZE

IsEmpty(r) == r.head = r.tail
IsFull(r)  == Advance(r.head) = r.tail

\* HardwareSerial::available(): the number of unread bytes.
Count(r) == (SERIAL_BUFFER_SIZE + r.head - r.tail) % SERIAL_BUFFER_SIZE

Front(r) == r.buffer[r.tail]

\* A byte enters in two stores, the slot first and the head after it; it
\* leaves by one store to the tail.
Stored(r, c)  == [r EXCEPT !.buffer[r.head] = c]
Published(r)  == [r EXCEPT !.head = Advance(r.head)]
Popped(r)     == [r EXCEPT !.tail = Advance(r.tail)]

\* Mutants: one byte is dropped too early, or none is ever dropped.
store_char_Early(c, r) ==
  IF Advance(Advance(r.head)) = r.tail THEN r ELSE Published(Stored(r, c))
store_char_Overruns(c, r) == Published(Stored(r, c))

\* store_char(): drop the byte when the head would run into the tail.
store_char(c, r) == IF IsFull(r) THEN r ELSE Published(Stored(r, c))

\* The unread bytes, oldest first: what the ring means.
Contents(r) ==
  [k \in 1 .. Count(r) |-> r.buffer[(r.tail + k - 1) % SERIAL_BUFFER_SIZE]]
=============================================================================
