--------------------------- MODULE HardwareSerial ---------------------------
(***************************************************************************)
(* cores/arduino/HardwareSerial.cpp: one serial port.  The sketch's thread *)
(* runs the methods of class HardwareSerial; the receive (RX) and the      *)
(* data-register-empty (UDRE) interrupt handlers run between any two of    *)
(* its steps, each of them to its end; the USART shifts frames in and out. *)
(*                                                                         *)
(* A method is cut into steps where a handler that runs in between can     *)
(* tell the difference: at its accesses to the rings' indices, and between *)
(* the load and the store of sbi() and cbi(), which reach UCSRnB through a *)
(* pointer and so are not atomic.  Non-volatile accesses stay in program   *)
(* order, as avr-gcc emits them here.                                      *)
(***************************************************************************)
EXTENDS SerialRing

CONSTANTS
  MaxTx,    \* bound: how many bytes the sketch writes
  MaxRx,    \* bound: how many bytes arrive
  LongIsr,  \* another handler may hold the CPU for longer than one frame
  Rebegin   \* the sketch may call begin() on a port that is open

ASSUME BoundAssumption == MaxTx \in Nat /\ MaxRx \in Nat
ASSUME ModeAssumption == LongIsr \in BOOLEAN /\ Rebegin \in BOOLEAN

VARIABLES
  tx, rx,        \* tx_buffer, rx_buffer
  transmitting,  \* the member that flush() looks at
  pc, then,      \* the sketch's next step; the one after the sbi/cbi's
  todo, reg,     \* the sbi/cbi's left to do; UCSRnB as the running one read it
  byte,          \* the local c of write() and read()
  open,          \* begin() was called, and end() not since
  ucsrb, txc,    \* bits of UCSRnB; the TXC flag of UCSRnA
  urx,           \* the receiver's FIFO
  udr, shift,    \* transmit data register and shift register, 0 or 1 byte
  written, line, \* history: the bytes published by write(); sent on the pin
  idleSince,     \* history: nothing was written since the last begin(baud)
  taken,         \* history: how many bytes without error the RX handler took
  returned,      \* history: the bytes read() returned
  promised,      \* history: what is left of the last answer of available()
  peeked         \* history: the last answer of peek(), until the next read()

sketch   == <<pc, then, todo, reg, byte, open>>
hardware == <<ucsrb, txc, urx, udr, shift>>
txHist   == <<written, line, idleSince>>
rxHist   == <<taken, returned, promised, peeked>>
history  == <<txHist, rxHist>>
software == <<tx, rx, transmitting>>
vars     == <<software, sketch, hardware, history>>

Bit == {"RXEN", "TXEN", "RXCIE", "UDRIE"}
Op  == {"sbi", "cbi"} \X Bit

PC == {"idle", "rmw_load", "rmw_store", "end_wait", "end_clear", "write_wait",
       "write_store", "write_publish", "write_txc", "read_pop", "flush_wait"}

Frame == [c : Byte, parityError : BOOLEAN]

Init ==
  /\ tx = EmptyRing /\ rx = EmptyRing
  /\ transmitting = FALSE
  /\ pc = "idle" /\ then = "idle" /\ todo = << >> /\ reg = {}
  /\ byte = NoByte
  /\ open = FALSE
  /\ ucsrb = {} /\ txc = FALSE /\ urx = << >> /\ udr = << >> /\ shift = << >>
  /\ written = << >> /\ line = << >> /\ idleSince = TRUE
  /\ taken = 0 /\ returned = << >> /\ promised = 0 /\ peeked = NoByte

\* A step of the sketch's thread that changes nothing else.
Goto(next) ==
  /\ pc' = next
  /\ UNCHANGED <<software, then, todo, reg, byte, open, hardware, history>>

-----------------------------------------------------------------------------
(* sbi() and cbi() on UCSRnB *)

BeginOps == << <<"sbi", "RXEN">>, <<"sbi", "TXEN">>, <<"sbi", "RXCIE">>,
               <<"cbi", "UDRIE">> >>
EndOps   == << <<"cbi", "RXEN">>, <<"cbi", "TXEN">>, <<"cbi", "RXCIE">>,
               <<"cbi", "UDRIE">> >>
WriteOps == << <<"sbi", "UDRIE">> >>

Apply(op, bits) == IF op[1] = "sbi" THEN bits \cup {op[2]} ELSE bits \ {op[2]}

\* Go on with the read-modify-writes ops, and with next after them.
Start(ops, next) == pc' = "rmw_load" /\ todo' = ops /\ then' = next

RmwLoad ==
  /\ pc = "rmw_load"
  /\ reg' = ucsrb
  /\ pc' = "rmw_store"
  /\ UNCHANGED <<software, then, todo, byte, open, hardware, history>>

\* The store puts back the other bits as they were loaded, whatever a handler
\* did to them since.  A receiver that is switched off loses its FIFO.
RmwStore ==
  /\ pc = "rmw_store"
  /\ ucsrb' = Apply(Head(todo), reg)
  /\ urx' = IF "RXEN" \in ucsrb' THEN urx ELSE << >>
  /\ todo' = Tail(todo)
  /\ pc' = IF Tail(todo) = << >> THEN then ELSE "rmw_load"
  /\ UNCHANGED <<software, then, reg, byte, open, txc, udr, shift, history>>

-----------------------------------------------------------------------------
(* Mutants: what a plausible slip in the source would do *)

\* end() does not wait for the ring to empty.
End_NoWait ==
  /\ pc = "end_wait"
  /\ Start(EndOps, "end_clear")
  /\ UNCHANGED <<software, reg, byte, open, hardware, history>>

\* end() leaves the received bytes in the ring.
End_KeepsRx ==
  /\ pc = "end_clear"
  /\ pc' = "idle"
  /\ promised' = 0
  /\ peeked' = NoByte
  /\ UNCHANGED <<software, then, todo, reg, byte, open, hardware, txHist,
                 taken, returned>>

\* flush() waits for TXC even when nothing was ever written.
Flush_OnlyTxc ==
  /\ pc = "flush_wait"
  /\ txc
  /\ transmitting' = FALSE
  /\ pc' = "idle"
  /\ UNCHANGED <<tx, rx, then, todo, reg, byte, open, hardware, history>>

\* write() does not wait on a full ring.
Write_NoWait == pc = "write_wait" /\ Goto("write_store")

\* write() does not clear TXC.
Write_KeepsTxc ==
  /\ pc = "write_txc"
  /\ transmitting' = TRUE
  /\ pc' = "idle"
  /\ byte' = NoByte
  /\ UNCHANGED <<tx, rx, then, todo, reg, open, hardware, history>>

\* The UDRE handler switches itself off one byte early.
Udre_OffByOne ==
  /\ "UDRIE" \in ucsrb /\ udr = << >>
  /\ Count(tx) <= 1
  /\ ucsrb' = ucsrb \ {"UDRIE"}
  /\ UNCHANGED <<software, sketch, txc, urx, udr, shift, history>>

-----------------------------------------------------------------------------
(* The methods *)

\* begin(baud) clears `transmitting`; begin(baud, config) does not.  Writing
\* UCSRnA leaves TXC alone: only a 1 clears it.
Begin(withConfig) ==
  /\ pc = "idle"
  /\ Rebegin \/ ~open
  /\ open' = TRUE
  /\ transmitting' = (withConfig /\ transmitting)
  /\ idleSince' = (~withConfig \/ idleSince)
  /\ Start(BeginOps, "idle")
  /\ UNCHANGED <<tx, rx, reg, byte, hardware, written, line, rxHist>>

End ==
  /\ pc = "idle"
  /\ pc' = "end_wait"
  /\ open' = FALSE
  /\ UNCHANGED <<software, then, todo, reg, byte, hardware, history>>

EndWait ==
  /\ pc = "end_wait"
  /\ IsEmpty(tx)
  /\ Start(EndOps, "end_clear")
  /\ UNCHANGED <<software, reg, byte, open, hardware, history>>

EndClear ==
  /\ pc = "end_clear"
  /\ rx' = [rx EXCEPT !.head = rx.tail]
  /\ pc' = "idle"
  /\ promised' = 0
  /\ peeked' = NoByte
  /\ UNCHANGED <<tx, transmitting, then, todo, reg, byte, open, hardware,
                 txHist, taken, returned>>

\* The handler can change head while the count is computed; head is read
\* before tail, so the answer is the count at that moment.
Available ==
  /\ pc = "idle"
  /\ promised' = Count(rx)
  /\ UNCHANGED <<software, sketch, hardware, txHist, taken, returned, peeked>>

Peek ==
  /\ pc = "idle"
  /\ ~IsEmpty(rx)
  /\ peeked' = Front(rx)
  /\ UNCHANGED <<software, sketch, hardware, txHist, taken, returned, promised>>

\* read() of an empty ring returns -1 and changes nothing.
Read ==
  /\ pc = "idle"
  /\ ~IsEmpty(rx)
  /\ byte' = Front(rx)
  /\ pc' = "read_pop"
  /\ UNCHANGED <<software, then, todo, reg, open, hardware, history>>

ReadPop ==
  /\ pc = "read_pop"
  /\ rx' = Popped(rx)
  /\ returned' = Append(returned, byte)
  /\ promised' = IF promised = 0 THEN 0 ELSE promised - 1
  /\ peeked' = NoByte
  /\ pc' = "idle"
  /\ byte' = NoByte
  /\ UNCHANGED <<tx, transmitting, then, todo, reg, open, hardware, txHist,
                 taken>>

Flush == pc = "idle" /\ Goto("flush_wait")

FlushWait ==
  /\ pc = "flush_wait"
  /\ transmitting => txc
  /\ transmitting' = FALSE
  /\ pc' = "idle"
  /\ UNCHANGED <<tx, rx, then, todo, reg, byte, open, hardware, history>>

\* A sketch writes to an open port.
Write(c) ==
  /\ pc = "idle" /\ open
  /\ Len(written) < MaxTx
  /\ byte' = c
  /\ pc' = "write_wait"
  /\ UNCHANGED <<software, then, todo, reg, open, hardware, history>>

WriteWait == pc = "write_wait" /\ ~IsFull(tx) /\ Goto("write_store")

WriteStore ==
  /\ pc = "write_store"
  /\ tx' = Stored(tx, byte)
  /\ pc' = "write_publish"
  /\ UNCHANGED <<rx, transmitting, then, todo, reg, byte, open, hardware,
                 history>>

WritePublish ==
  /\ pc = "write_publish"
  /\ tx' = Published(tx)
  /\ written' = Append(written, byte)
  /\ idleSince' = FALSE
  /\ Start(WriteOps, "write_txc")
  /\ UNCHANGED <<rx, transmitting, reg, byte, open, hardware, line, rxHist>>

\* TXC is cleared by writing a one to it.
WriteTxc ==
  /\ pc = "write_txc"
  /\ transmitting' = TRUE
  /\ txc' = FALSE
  /\ pc' = "idle"
  /\ byte' = NoByte
  /\ UNCHANGED <<tx, rx, then, todo, reg, open, ucsrb, urx, udr, shift, history>>

-----------------------------------------------------------------------------
(* The interrupt handlers *)

RxIsr ==
  /\ "RXCIE" \in ucsrb /\ urx # << >>
  /\ urx' = Tail(urx)
  /\ IF Head(urx).parityError
     THEN UNCHANGED <<rx, taken>>
     ELSE rx' = store_char(Head(urx).c, rx) /\ taken' = taken + 1
  /\ UNCHANGED <<tx, transmitting, sketch, ucsrb, txc, udr, shift, txHist,
                 returned, promised, peeked>>

\* The last byte was handed over: the handler switches itself off.
UdreIsrEmpty ==
  /\ "UDRIE" \in ucsrb /\ udr = << >>
  /\ IsEmpty(tx)
  /\ ucsrb' = ucsrb \ {"UDRIE"}
  /\ UNCHANGED <<software, sketch, txc, urx, udr, shift, history>>

UdreIsrSend ==
  /\ "UDRIE" \in ucsrb /\ udr = << >>
  /\ ~IsEmpty(tx)
  /\ udr' = <<Front(tx)>>
  /\ tx' = Popped(tx)
  /\ UNCHANGED <<rx, transmitting, sketch, ucsrb, txc, urx, shift, history>>

-----------------------------------------------------------------------------
(* The USART *)

TxLoad ==
  /\ udr # << >> /\ shift = << >>
  /\ shift' = udr
  /\ udr' = << >>
  /\ UNCHANGED <<software, sketch, ucsrb, txc, urx, history>>

\* Unless another handler holds the CPU for a whole frame, the UDRE handler
\* refills UDR before the frame in the shift register ends, and write() gets
\* from the store to head to its sbi(TXC) before the frame of its byte ends.
InWrite == pc = "write_txc" \/ (pc \in {"rmw_load", "rmw_store"} /\ then = "write_txc")

InTime ==
  \/ LongIsr
  \/ udr # << >>
  \/ IF IsEmpty(tx) THEN ~InWrite ELSE "UDRIE" \notin ucsrb

FrameEnd ==
  /\ shift # << >>
  /\ InTime
  /\ line' = line \o shift
  /\ shift' = << >>
  /\ txc' = (txc \/ udr = << >>)
  /\ UNCHANGED <<software, sketch, ucsrb, urx, udr, written, idleSince, rxHist>>

\* The receiver's FIFO holds two frames; one that finds it full is lost.
Arrive(f) ==
  /\ "RXEN" \in ucsrb /\ Len(urx) < 2
  /\ taken + Len(urx) < MaxRx
  /\ urx' = Append(urx, f)
  /\ UNCHANGED <<software, sketch, ucsrb, txc, udr, shift, history>>

-----------------------------------------------------------------------------
Call ==
  \/ \E withConfig \in BOOLEAN : Begin(withConfig)
  \/ End \/ Available \/ Peek \/ Read \/ Flush
  \/ \E c \in Byte : Write(c)

InCall ==
  \/ RmwLoad \/ RmwStore \/ EndWait \/ EndClear \/ ReadPop \/ FlushWait
  \/ WriteWait \/ WriteStore \/ WritePublish \/ WriteTxc

UdreIsr == UdreIsrEmpty \/ UdreIsrSend

Next ==
  \/ Call \/ InCall
  \/ RxIsr \/ UdreIsr
  \/ TxLoad \/ FrameEnd \/ \E f \in Frame : Arrive(f)

Spec == Init /\ [][Next]_vars

\* A method that has begun goes on, a pending handler runs, and the
\* transmitter shifts; nobody has to call a method or to send a byte.
FairSpec ==
  /\ Spec
  /\ WF_vars(InCall) /\ WF_vars(RxIsr) /\ WF_vars(UdreIsr)
  /\ WF_vars(TxLoad) /\ WF_vars(FrameEnd)

\* A pending interrupt, or a byte in UDR that the idle shift register takes.
Pending ==
  \/ "RXCIE" \in ucsrb /\ urx # << >>
  \/ udr = << >> /\ "UDRIE" \in ucsrb
  \/ udr # << >> /\ shift = << >>

\* As above, on a CPU that nothing else keeps busy: what is pending comes
\* before the thread's next step.  Everything else is checked and proved
\* without this; it makes a counterexample one that the chip can show.
PromptNext ==
  \/ (Call \/ InCall) /\ ~Pending
  \/ RxIsr \/ UdreIsr
  \/ TxLoad \/ FrameEnd \/ \E f \in Frame : Arrive(f)

PromptSpec ==
  /\ Init /\ [][PromptNext]_vars
  /\ WF_vars(InCall /\ ~Pending) /\ WF_vars(RxIsr) /\ WF_vars(UdreIsr)
  /\ WF_vars(TxLoad) /\ WF_vars(FrameEnd)

-----------------------------------------------------------------------------
(* Properties *)

TypeOK ==
  /\ tx \in Ring /\ rx \in Ring
  /\ transmitting \in BOOLEAN /\ open \in BOOLEAN
  /\ pc \in PC /\ then \in PC
  /\ todo \in Seq(Op) /\ reg \subseteq Bit
  /\ byte \in Byte \cup {NoByte}
  /\ ucsrb \subseteq Bit /\ txc \in BOOLEAN
  /\ urx \in Seq(Frame) /\ Len(urx) <= 2
  /\ udr \in Seq(Byte) /\ Len(udr) <= 1
  /\ shift \in Seq(Byte) /\ Len(shift) <= 1
  /\ written \in Seq(Byte) /\ line \in Seq(Byte) /\ idleSince \in BOOLEAN
  /\ taken \in Nat /\ returned \in Seq(Byte)
  /\ promised \in 0 .. SERIAL_BUFFER_SIZE - 1
  /\ peeked \in Byte \cup {NoByte}

\* Every byte written is in exactly one of the ring, UDR, the shift register
\* and the line, and leaves in the order it was written, whatever the UDRE
\* handler interrupts.
TxFifo == line \o shift \o udr \o Contents(tx) = written

\* The UDRE handler switches itself off on an empty ring; a ring that holds
\* bytes still has it on, or write() is about to set UDRIE, and TXEN is on.
NoLostWakeup ==
  ~IsEmpty(tx) =>
    \/ {"UDRIE", "TXEN"} \subseteq ucsrb
    \/ pc \in {"rmw_load", "rmw_store"} /\ todo = WriteOps /\ "TXEN" \in ucsrb

\* What available() and peek() answered still holds for the next reads,
\* whatever arrives in between.
AnswersHold ==
  /\ promised <= Count(rx)
  /\ peeked # NoByte => ~IsEmpty(rx) /\ Front(rx) = peeked

\* Between end() and begin() the port is quiet: no handler can run and no
\* stale byte waits for the next begin(), although end() switches the port
\* off by four interruptible read-modify-writes.
ClosedIsQuiet ==
  pc = "idle" /\ ~open => ucsrb = {} /\ IsEmpty(rx) /\ IsEmpty(tx)

\* When flush() returns, every byte written is on the line, unless nothing
\* was written since the last begin(baud).
FlushDrains ==
  [][pc = "flush_wait" /\ pc' = "idle" => line = written \/ idleSince]_vars

\* Every call returns: write() on a full ring, end() and flush() wait for
\* handlers and hardware that get them on.
CallsReturn == pc # "idle" ~> pc = "idle"

\* Every byte written is sent, whatever the sketch does or omits afterwards.
AllSent == \A n \in 1 .. MaxTx : Len(written) >= n ~> Len(line) >= n

Port == INSTANCE SerialPort WITH
  OutCapacity <- SERIAL_BUFFER_SIZE + 1,
  InCapacity  <- SERIAL_BUFFER_SIZE - 1,
  outq <- shift \o udr \o Contents(tx),
  inq  <- Contents(rx)

\* The port implements the two queues of SerialPort.
Implements == Port!Spec
=============================================================================
