----------------------------- MODULE SerialPort -----------------------------
(***************************************************************************)
(* What a serial port promises a sketch: an outgoing queue that delivers   *)
(* to the line, in order, exactly the bytes written, and a bounded         *)
(* incoming queue that loses a byte only when it is full.                  *)
(***************************************************************************)
EXTENDS Integers, Sequences

CONSTANTS
  Byte,         \* the values a data byte can take
  OutCapacity,  \* most bytes accepted by write() and not yet on the line
  InCapacity    \* most received bytes waiting to be read

VARIABLES
  outq,      \* bytes accepted and not yet on the line, oldest first
  line,      \* bytes that have left on the TX pin
  inq,       \* bytes waiting to be read, oldest first
  taken,     \* how many good bytes the port has taken from the receiver
  returned   \* bytes read() has returned

vars == <<outq, line, inq, taken, returned>>

Init ==
  /\ outq = << >>
  /\ line = << >>
  /\ inq = << >>
  /\ taken = 0
  /\ returned = << >>

Write(c) ==
  /\ Len(outq) < OutCapacity
  /\ outq' = Append(outq, c)
  /\ UNCHANGED <<line, inq, taken, returned>>

Send ==
  /\ outq # << >>
  /\ line' = Append(line, Head(outq))
  /\ outq' = Tail(outq)
  /\ UNCHANGED <<inq, taken, returned>>

Receive(c) ==
  /\ taken' = taken + 1
  /\ inq' = IF Len(inq) < InCapacity THEN Append(inq, c) ELSE inq
  /\ UNCHANGED <<outq, line, returned>>

Read ==
  /\ inq # << >>
  /\ returned' = Append(returned, Head(inq))
  /\ inq' = Tail(inq)
  /\ UNCHANGED <<outq, line, taken>>

\* end() throws away what was not read.
Discard ==
  /\ inq' = << >>
  /\ UNCHANGED <<outq, line, taken, returned>>

Next ==
  \/ \E c \in Byte : Write(c) \/ Receive(c)
  \/ Send
  \/ Read
  \/ Discard

Spec == Init /\ [][Next]_vars
=============================================================================
