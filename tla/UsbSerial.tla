------------------------------ MODULE UsbSerial ------------------------------
(***************************************************************************)
(* firmwares/atmegaxxu2/arduino-usbserial/Arduino-usbserial.c: the bridge  *)
(* between the host's USB and the board's UART.  The main loop moves bytes *)
(* of the host to the UART, and bytes of the UART to the host; the receive *)
(* handler fills the second ring at any moment, full or not.               *)
(*                                                                         *)
(* The main loop is cut where the receive handler can tell the difference: *)
(* at its accesses to USARTtoUSB_Buffer.  The other ring belongs to the    *)
(* main loop alone.  The USB library and the USART are external.           *)
(*                                                                         *)
(* The bridge never looks at a byte.  Bytes are numbered, modulo Numbers,  *)
(* in the order the bridge takes them; a lost, doubled or swapped byte     *)
(* shows as a number out of turn.                                          *)
(***************************************************************************)
EXTENDS CountedRing

CONSTANTS
  BUFFER_NEARLY_FULL,  \* more bytes than this are flushed without a timer
  Numbers,             \* bytes are numbered 0 .. Numbers - 1, and round again
  OutEndpoint,         \* bytes the host can have waiting in the OUT endpoint
  ReceiveFifo          \* bytes the USART receiver holds: 2 in the chip

ASSUME NearlyFullAssumption == BUFFER_NEARLY_FULL \in 0 .. BUFFER_SIZE - 1
ASSUME NumbersAssumption ==
  Numbers \in Nat /\ Numbers > BUFFER_SIZE /\ Byte = 0 .. Numbers - 1
ASSUME EndpointAssumption == {OutEndpoint, ReceiveFifo} \subseteq Nat \ {0}

VARIABLES
  toUsart, toUsb,  \* USBtoUSART_Buffer, USARTtoUSB_Buffer
  pc,              \* the main loop's next step
  BufferCount,     \* the local of main()
  byte,            \* what RingBuffer_Remove() is about to return
  configured,      \* USB_DeviceState = DEVICE_STATE_Configured
  tov0,            \* the flush timer's flag
  urx,             \* bytes in the USART receiver
  udre,            \* the USART can take a byte
  waiting,         \* bytes of the host in the OUT endpoint
  reset,           \* the board's reset line is pulled low
  fromHost,        \* history: number of the next byte of the host to be taken
  toBoard,         \* history: number of the next byte due at the USART
  fromBoard,       \* history: number of the next byte the handler takes
  disorder         \* history: an overrun whose bytes are still in the ring

rings   == <<toUsart, toUsb>>
loop    == <<pc, BufferCount, byte>>
outside == <<configured, tov0, urx, udre, waiting, reset>>
history == <<fromHost, toBoard, fromBoard, disorder>>
vars    == <<rings, loop, outside, history>>

PC == {"read", "count", "take", "discount", "send", "transmit", "task"}

Next1(n) == (n + 1) % Numbers

\* Bytes the handler has inserted and the main loop has not taken: the count,
\* less the byte that is taken and not yet discounted.
Unread == IF pc = "discount" THEN (toUsb.Count + CountMod - 1) % CountMod
                             ELSE toUsb.Count

Init ==
  /\ toUsart = InitBuffer /\ toUsb = InitBuffer
  /\ pc = "read" /\ BufferCount = 0 /\ byte = NoByte
  /\ configured = FALSE /\ tov0 = FALSE /\ urx = 0 /\ udre = TRUE
  /\ waiting = 0 /\ reset = FALSE
  /\ fromHost = 0 /\ toBoard = 0 /\ fromBoard = 0 /\ disorder = FALSE

-----------------------------------------------------------------------------
(* Mutants: what a plausible slip in the source would do *)

\* Nothing but a nearly full ring is flushed.
FetchCount_NoTimer ==
  /\ pc = "count"
  /\ pc' = IF toUsb.Count > BUFFER_NEARLY_FULL THEN "take" ELSE "transmit"
  /\ BufferCount' = toUsb.Count
  /\ disorder' = (disorder /\ ~IsEmpty(toUsb))
  /\ UNCHANGED <<rings, byte, outside, fromHost, toBoard, fromBoard>>

\* The retrieval location is moved before the byte is fetched.
TakeByte_MovesFirst ==
  /\ pc = "take"
  /\ byte' = Front(OutMoved(toUsb))
  /\ toUsb' = OutMoved(toUsb)
  /\ pc' = "discount"
  /\ disorder' = (disorder \/ Unread = 0)
  /\ UNCHANGED <<toUsart, BufferCount, outside, fromHost, toBoard, fromBoard>>

\* The count is written back from the copy the flush works with.
Discount_FromCopy ==
  /\ pc = "discount"
  /\ toUsb' = [toUsb EXCEPT !.Count = BufferCount - 1]
  /\ disorder' = (disorder /\ ~(Unread = 0 /\ BufferCount = 1))
  /\ pc' = "send"
  /\ UNCHANGED <<toUsart, BufferCount, byte, outside, fromHost, toBoard,
                 fromBoard>>

\* The byte sent to the USART stays counted.
TransmitByte_StaysCounted ==
  /\ pc = "transmit" /\ ~IsEmpty(toUsart) /\ udre
  /\ toUsart' = OutMoved(toUsart)
  /\ udre' = FALSE
  /\ toBoard' = Next1(toBoard)
  /\ pc' = "task"
  /\ UNCHANGED <<toUsb, BufferCount, byte, configured, tov0, urx, waiting, reset,
                 fromHost, fromBoard, disorder>>

-----------------------------------------------------------------------------
(* The main loop *)

\* CDC_Device_ReceiveByte() has a byte, or is below zero.
ReceiveByte ==
  /\ pc = "read"
  /\ pc' = "count"
  /\ IF ~IsFull(toUsart) /\ configured /\ waiting > 0
     THEN /\ toUsart' = Insert(toUsart, fromHost)
          /\ fromHost' = Next1(fromHost)
          /\ waiting' = waiting - 1
     ELSE UNCHANGED <<toUsart, fromHost, waiting>>
  /\ UNCHANGED <<toUsb, BufferCount, byte, configured, tov0, urx, udre, reset,
                 toBoard, fromBoard, disorder>>

\* The timer's flag is looked at, and cleared, after the count was fetched.
\* Only the bytes counted now are flushed; none of them, and the loop is done.
FetchCount ==
  /\ pc = "count"
  /\ IF tov0 \/ toUsb.Count > BUFFER_NEARLY_FULL
     THEN /\ tov0' = FALSE
          /\ BufferCount' = toUsb.Count
          /\ pc' = IF IsEmpty(toUsb) THEN "transmit" ELSE "take"
     ELSE /\ pc' = "transmit"
          /\ UNCHANGED <<tov0, BufferCount>>
  /\ disorder' = (disorder /\ ~IsEmpty(toUsb))
  /\ UNCHANGED <<rings, byte, configured, urx, udre, waiting, reset, fromHost,
                 toBoard, fromBoard>>

\* RingBuffer_Remove() in two steps: the byte and Out, then the count.
TakeByte ==
  /\ pc = "take"
  /\ byte' = Front(toUsb)
  /\ toUsb' = OutMoved(toUsb)
  /\ pc' = "discount"
  /\ disorder' = (disorder \/ Unread = 0)
  /\ UNCHANGED <<toUsart, BufferCount, outside, fromHost, toBoard, fromBoard>>

Discount ==
  /\ pc = "discount"
  /\ toUsb' = Discounted(toUsb)
  /\ disorder' = (disorder /\ ~(Unread = 0 /\ BufferCount = 1))
  /\ pc' = "send"
  /\ UNCHANGED <<toUsart, BufferCount, byte, outside, fromHost, toBoard,
                 fromBoard>>

\* CDC_Device_SendByte() may wait for the host; whether it has sent the byte
\* or given up, the loop goes on.
SendByte ==
  /\ pc = "send"
  /\ BufferCount' = BufferCount - 1
  /\ byte' = NoByte
  /\ pc' = IF BufferCount = 1 THEN "transmit" ELSE "take"
  /\ UNCHANGED <<rings, outside, history>>

\* Serial_TxByte() waits until the USART can take a byte.
TransmitByte ==
  /\ pc = "transmit" /\ ~IsEmpty(toUsart) /\ udre
  /\ toUsart' = Remove(toUsart)
  /\ udre' = FALSE
  /\ toBoard' = Next1(toBoard)
  /\ pc' = "task"
  /\ UNCHANGED <<toUsb, BufferCount, byte, configured, tov0, urx, waiting, reset,
                 fromHost, fromBoard, disorder>>

NothingToTransmit ==
  /\ pc = "transmit" /\ IsEmpty(toUsart)
  /\ pc' = "task"
  /\ UNCHANGED <<rings, BufferCount, byte, outside, history>>

\* CDC_Device_USBTask() and USB_USBTask(): usually nothing for the rings.
Task ==
  /\ pc = "task"
  /\ pc' = "read"
  /\ UNCHANGED <<rings, BufferCount, byte, outside, history>>

\* The host configures the device; the endpoints start empty.
ConfigurationChanged ==
  /\ pc = "task" /\ ~configured
  /\ configured' = TRUE
  /\ waiting' = 0
  /\ pc' = "read"
  /\ UNCHANGED <<rings, BufferCount, byte, tov0, urx, udre, reset, history>>

\* The USART is switched off and on with the new settings: what its receiver
\* held is gone.
LineEncodingChanged ==
  /\ pc = "task" /\ configured
  /\ urx' = 0
  /\ pc' = "read"
  /\ UNCHANGED <<rings, BufferCount, byte, configured, tov0, udre, waiting, reset,
                 history>>

\* The board is held in reset while the host asserts DTR.
ControLineStateChanged ==
  /\ pc = "task" /\ configured
  /\ reset' = ~reset
  /\ pc' = "read"
  /\ UNCHANGED <<rings, BufferCount, byte, configured, tov0, urx, udre, waiting,
                 history>>

Loop == \/ ReceiveByte \/ FetchCount \/ TakeByte \/ Discount \/ SendByte
        \/ TransmitByte \/ NothingToTransmit
        \/ Task \/ ConfigurationChanged \/ LineEncodingChanged
        \/ ControLineStateChanged

-----------------------------------------------------------------------------
(* The receive handler: it inserts without a test for room. *)

RxIsr ==
  /\ urx > 0
  /\ urx' = urx - 1
  /\ IF configured
     THEN /\ toUsb' = Insert(toUsb, fromBoard)
          /\ fromBoard' = Next1(fromBoard)
          /\ disorder' = (disorder \/ Unread >= BUFFER_SIZE)
     ELSE UNCHANGED <<toUsb, fromBoard, disorder>>
  /\ UNCHANGED <<toUsart, loop, configured, tov0, udre, waiting, reset, fromHost,
                 toBoard>>

-----------------------------------------------------------------------------
(* The board, the host and the hardware *)

\* A board in reset is silent.
BoardSends ==
  /\ urx < ReceiveFifo /\ ~reset
  /\ urx' = urx + 1
  /\ UNCHANGED <<rings, loop, configured, tov0, udre, waiting, reset, history>>

HostSends ==
  /\ configured /\ waiting < OutEndpoint
  /\ waiting' = waiting + 1
  /\ UNCHANGED <<rings, loop, configured, tov0, urx, udre, reset, history>>

\* A bus reset or a pulled plug, seen by the USB library's handler.
Disconnect ==
  /\ configured
  /\ configured' = FALSE
  /\ UNCHANGED <<rings, loop, tov0, urx, udre, waiting, reset, history>>

TimerOverflow ==
  /\ ~tov0
  /\ tov0' = TRUE
  /\ UNCHANGED <<rings, loop, configured, urx, udre, waiting, reset, history>>

UsartReady ==
  /\ ~udre
  /\ udre' = TRUE
  /\ UNCHANGED <<rings, loop, configured, tov0, urx, waiting, reset, history>>

Next == Loop \/ RxIsr \/ BoardSends \/ HostSends \/ Disconnect
        \/ TimerOverflow \/ UsartReady

Spec == Init /\ [][Next]_vars

\* The main loop goes on (CDC_Device_SendByte() gives up after a while), a
\* pending handler runs, the timer overflows and the USART sends.
FairSpec ==
  /\ Spec
  /\ WF_vars(Loop) /\ WF_vars(RxIsr)
  /\ WF_vars(TimerOverflow) /\ WF_vars(UsartReady)

-----------------------------------------------------------------------------
(* Properties *)

TypeOK ==
  /\ toUsart \in RingBuff /\ toUsb \in RingBuff
  /\ pc \in PC /\ BufferCount \in 0 .. CountMod - 1
  /\ byte \in Byte \cup {NoByte}
  /\ {configured, tov0, udre, reset, disorder} \subseteq BOOLEAN
  /\ urx \in 0 .. ReceiveFifo /\ waiting \in 0 .. OutEndpoint
  /\ {fromHost, toBoard, fromBoard} \subseteq Byte

\* In, Out and Count of the ring that two parties share never drift apart,
\* though each is moved on its own, by different parties, past any overrun
\* and past the wrap of the count: that is why an overrun can heal.
Aligned ==
  (toUsb.Out + Unread) % BUFFER_SIZE = toUsb.In

\* What the host gets of the board is in order and complete, but for the
\* bytes of an overrun; once the ring was empty, the order is right again.
\* And the count fetched before the flush is a promise: the loop never removes
\* from an empty ring.
ToHostInOrder ==
  LET Number(k) == (fromBoard + 2 * Numbers - Unread + k - 1) % Numbers
  IN  ~disorder =>
        /\ Unread <= BUFFER_SIZE
        /\ NextBytes(toUsb, Unread) = [k \in 1 .. Unread |-> Number(k)]
        /\ pc = "discount" => byte = Number(0)
        /\ pc = "take" => Unread > 0 /\ BufferCount <= Unread

\* Bytes of the host reach the USART complete and in order, through any
\* number of disconnections and reconfigurations.
ToBoardInOrder ==
  /\ toUsart.Count <= BUFFER_SIZE
  /\ NextBytes(toUsart, toUsart.Count) =
       [k \in 1 .. toUsart.Count |-> (toBoard + k - 1) % Numbers]
  /\ (toBoard + toUsart.Count) % Numbers = fromHost

\* Both directions (Arduino-usbserial.c:92-114, 222-228).
InOrder == ToHostInOrder /\ ToBoardInOrder

\* A byte the host has sent is taken, unless the host is lost.
HostServed ==
  \A n \in Byte : waiting > 0 /\ fromHost = n ~> fromHost # n \/ ~configured

\* When the board falls silent, everything it sent is handed over and a
\* disordered ring comes to order.
Drains == <>[](urx = 0) => <>[](Unread = 0 /\ ~disorder)
=============================================================================
