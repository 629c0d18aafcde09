--------------------------- MODULE SoftwareSerial ---------------------------
(***************************************************************************)
(* libraries/SoftwareSerial/SoftwareSerial.cpp: several ports that share   *)
(* one receive buffer and one pin change interrupt.  The handler samples a *)
(* whole frame with interrupts off, by counting time; write() sends one in *)
(* the same way.  The bits of a frame are left out: a byte is sampled well *)
(* if the handler starts within the start bit, and torn if it starts later.*)
(*                                                                         *)
(* The buffer is kept as the sequence of what can still be read of it.     *)
(***************************************************************************)
EXTENDS Integers, Sequences

CONSTANTS
  Port,             \* the SoftwareSerial objects
  NoPort,           \* active_object before the first begin()
  _SS_MAX_RX_BUFF,  \* bytes of the buffer, one of which stays free: 64
  FrameTicks,       \* ticks of a frame
  StartTicks        \* ticks within which the handler must start sampling

ASSUME PortAssumption == NoPort \notin Port
ASSUME BufferAssumption == _SS_MAX_RX_BUFF \in Nat \ {0, 1}
ASSUME FrameAssumption == FrameTicks \in Nat \ {0} /\ StartTicks \in 0 .. FrameTicks - 1

VARIABLES
  active_object,    \* the listening port
  receive_buffer,   \* bytes to be read
  buffer_overflow,  \* a flag per port
  tuned,            \* the ports whose delays fit their baud rate
  pcmsk,            \* the ports whose pin raises the pin change interrupt
  pcif,             \* the interrupt is pending
  line,             \* ticks left of the frame on a port's RX pin, 0 if none
  recv,             \* the frame that the handler is sampling
  sending           \* ticks left of the frame that write() sends

portVars == <<active_object, receive_buffer, buffer_overflow, tuned, pcmsk, pcif>>
wireVars == <<line, recv, sending>>
serialVars == <<portVars, wireVars>>

\* A byte as the handler stored it: the pin it was sampled on, and whether
\* sampling began in the middle of a frame.
Data == [port : Port, torn : BOOLEAN]

NotReceiving == [left |-> 0, torn |-> FALSE, on |-> FALSE]

SerialInit ==
  /\ active_object = NoPort
  /\ receive_buffer = << >>
  /\ buffer_overflow = [p \in Port |-> FALSE]
  /\ tuned = {} /\ pcmsk = {} /\ pcif = FALSE
  /\ line = [p \in Port |-> 0]
  /\ recv = NotReceiving
  /\ sending = 0

InStartBit(p) == line[p] >= FrameTicks - StartTicks

\* A frame that the handler begins to sample now; without delays it is over
\* at once.
Sampling(p) ==
  LET clean == p \in tuned /\ InStartBit(p)
  IN  [on |-> TRUE, torn |-> ~clean,
       left |-> CASE clean -> line[p] [] p \notin tuned -> 0 [] OTHER -> FrameTicks]

-----------------------------------------------------------------------------
(* Mutants *)

\* listen() keeps what another port has received.
Listen_KeepsBuffer(p) ==
  IF active_object = p
  THEN UNCHANGED <<active_object, receive_buffer, buffer_overflow>>
  ELSE /\ buffer_overflow' = [buffer_overflow EXCEPT ![p] = FALSE]
       /\ active_object' = p
       /\ UNCHANGED receive_buffer

\* The flag is set only when nothing could be stored before.
RecvEnd_ForgetsFlag ==
  /\ recv.on /\ recv.left = 0
  /\ recv' = NotReceiving
  /\ IF Len(receive_buffer) < _SS_MAX_RX_BUFF - 1
     THEN /\ receive_buffer' = Append(receive_buffer,
                                 [port |-> active_object, torn |-> recv.torn])
          /\ buffer_overflow' = [buffer_overflow EXCEPT ![active_object] = FALSE]
     ELSE UNCHANGED receive_buffer
          /\ buffer_overflow' = [buffer_overflow EXCEPT ![active_object] = TRUE]
  /\ UNCHANGED <<active_object, tuned, pcmsk, pcif, line, sending>>

\* Room is not tested.
RecvEnd_NoTest ==
  /\ recv.on /\ recv.left = 0
  /\ recv' = NotReceiving
  /\ receive_buffer' = Append(receive_buffer,
                          [port |-> active_object, torn |-> recv.torn])
  /\ UNCHANGED <<active_object, buffer_overflow, tuned, pcmsk, pcif, line, sending>>

\* The frame is one bit longer.
WriteFrame_TwoStopBits(p) ==
  /\ p \in tuned
  /\ sending' = FrameTicks + 1
  /\ UNCHANGED <<portVars, line, recv>>

\* Any change of the pin is taken for a start bit.
IsrRecv_AnyLevel ==
  /\ pcif
  /\ active_object # NoPort
  /\ pcif' = FALSE
  /\ recv' = Sampling(active_object)
  /\ UNCHANGED <<active_object, receive_buffer, buffer_overflow, tuned, pcmsk,
                 line, sending>>

-----------------------------------------------------------------------------
(* The methods *)

\* listen() replaces another port and forgets what that one received.
Listen(p) ==
  IF active_object = p
  THEN UNCHANGED <<active_object, receive_buffer, buffer_overflow>>
  ELSE /\ buffer_overflow' = [buffer_overflow EXCEPT ![p] = FALSE]
       /\ receive_buffer' = << >>
       /\ active_object' = p

\* begin() clears the delays, sets those of a rate that is in the table and
\* switches the pin's interrupt on, and then listens.  The handler may run in
\* between, for the port that listens still.
BeginUntune(p) ==
  /\ tuned' = tuned \ {p}
  /\ UNCHANGED <<active_object, receive_buffer, buffer_overflow, pcmsk, pcif,
                 wireVars>>

BeginTune(p, supported) ==
  /\ IF supported
     THEN tuned' = tuned \cup {p} /\ pcmsk' = pcmsk \cup {p}
     ELSE UNCHANGED <<tuned, pcmsk>>
  /\ UNCHANGED <<active_object, receive_buffer, buffer_overflow, pcif, wireVars>>

BeginListen(p) ==
  /\ Listen(p)
  /\ UNCHANGED <<tuned, pcmsk, pcif, wireVars>>

\* end() leaves the port listening.
End(p) ==
  /\ pcmsk' = pcmsk \ {p}
  /\ UNCHANGED <<active_object, receive_buffer, buffer_overflow, tuned, pcif,
                 wireVars>>

\* read() of the listening port; available() and peek() change nothing.
Read(p) ==
  /\ active_object = p
  /\ receive_buffer # << >>
  /\ receive_buffer' = Tail(receive_buffer)
  /\ UNCHANGED <<active_object, buffer_overflow, tuned, pcmsk, pcif, wireVars>>

Flush(p) ==
  /\ active_object = p
  /\ receive_buffer' = << >>
  /\ UNCHANGED <<active_object, buffer_overflow, tuned, pcmsk, pcif, wireVars>>

\* overflow() loads the flag and clears it in two steps.
ClearOverflow(p) ==
  /\ buffer_overflow' = [buffer_overflow EXCEPT ![p] = FALSE]
  /\ UNCHANGED <<active_object, receive_buffer, tuned, pcmsk, pcif, wireVars>>

\* write() of a port with a baud rate: a frame with interrupts off (they are on
\* again in its stop bit, which is not told apart).
WriteFrame(p) ==
  /\ p \in tuned
  /\ sending' = FrameTicks
  /\ UNCHANGED <<portVars, line, recv>>

-----------------------------------------------------------------------------
(* The pin change handler *)

\* No port, or the pin of the listening one is high: not for us.  Behind the
\* start bit the pin may have either level.
IsrNotForUs ==
  /\ pcif
  /\ active_object # NoPort => ~InStartBit(active_object)
  /\ pcif' = FALSE
  /\ UNCHANGED <<active_object, receive_buffer, buffer_overflow, tuned, pcmsk,
                 wireVars>>

\* The pin is low: sample a frame from here.
IsrRecv ==
  /\ pcif
  /\ active_object # NoPort
  /\ line[active_object] > 0
  /\ pcif' = FALSE
  /\ recv' = Sampling(active_object)
  /\ UNCHANGED <<active_object, receive_buffer, buffer_overflow, tuned, pcmsk,
                 line, sending>>

RecvEnd ==
  /\ recv.on /\ recv.left = 0
  /\ recv' = NotReceiving
  /\ IF Len(receive_buffer) < _SS_MAX_RX_BUFF - 1
     THEN /\ receive_buffer' = Append(receive_buffer,
                                 [port |-> active_object, torn |-> recv.torn])
          /\ UNCHANGED buffer_overflow
     ELSE /\ buffer_overflow' = [buffer_overflow EXCEPT ![active_object] = TRUE]
          /\ UNCHANGED receive_buffer
  /\ UNCHANGED <<active_object, tuned, pcmsk, pcif, line, sending>>

-----------------------------------------------------------------------------
(* The pins *)

\* A remote sender starts a frame: the pin falls.
StartBit(p) ==
  /\ line[p] = 0
  /\ line' = [line EXCEPT ![p] = FrameTicks]
  /\ pcif' = (pcif \/ p \in pcmsk)
  /\ UNCHANGED <<active_object, receive_buffer, buffer_overflow, tuned, pcmsk,
                 recv, sending>>

Less(n) == IF n = 0 THEN 0 ELSE n - 1

\* Time passes on the pins; a frame's later bits change its pin or do not.
PinTick ==
  /\ line' = [p \in Port |-> Less(line[p])]
  /\ \E edge \in BOOLEAN :
       /\ edge => \E p \in pcmsk : line[p] > 0
       /\ pcif' = (pcif \/ edge)
  /\ recv' = [recv EXCEPT !.left = Less(recv.left)]
  /\ sending' = Less(sending)
  /\ UNCHANGED <<active_object, receive_buffer, buffer_overflow, tuned, pcmsk>>
=============================================================================
