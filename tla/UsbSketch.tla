------------------------------ MODULE UsbSketch ------------------------------
(***************************************************************************)
(* A sketch on a board with USB: the serial port Serial_ (CDC.cpp), the    *)
(* reports of mouse and keyboard (HID.cpp), and the host.  The handlers    *)
(* run between any two steps of the sketch.                                *)
(*                                                                         *)
(* The bytes of the port are numbered from the oldest one that the other   *)
(* side has not got: whenever it gets one, all numbers fall by one.        *)
(***************************************************************************)
EXTENDS UsbCore

CONSTANTS
  MaxWrite,   \* bound: bytes of one write()
  SendTries   \* times USB_Send() looks for space: 250

ASSUME WriteAssumption == {MaxWrite, SendTries} \subseteq Nat \ {0}

VARIABLES
  peek_buffer,        \* the byte that peek() took, or -1
  lineState, dwDTERate,  \* _usbLineInfo; of the rate only whether it is 1200
  watchdog,           \* wdt_enable() was called
  pc,
  ep, len, n, timeout,   \* arguments and locals of USB_Send()
  data, part,         \* what is sent: bytes from a number on, or a report's part
  promised            \* history: bytes told by available() or peek(), unread;
                      \* forgotten when the sketch sends

cdcVars == <<peek_buffer, promised>>
lineVars == <<lineState, dwDTERate, watchdog>>
sendVars == <<pc, ep, len, n, timeout, data, part>>
vars == <<coreVars, cdcVars, lineVars, sendVars>>

PC == {"idle", "send_space", "send_fill", "send_failed",
       "flush_count", "flush_release"}

Init ==
  /\ CoreInit
  /\ peek_buffer = -1 /\ promised = 0
  /\ lineState = 0 /\ dwDTERate = "other" /\ watchdog = FALSE
  /\ pc = "idle" /\ ep = CDC_TX /\ len = 0 /\ n = 0 /\ timeout = 0 /\ data = 0
  /\ part = "bytes"

-----------------------------------------------------------------------------
(* History: the numbers of the bytes *)

Flat(banks) == IF banks = << >> THEN << >>
               ELSE banks[1] \o (IF Len(banks) = 2 THEN banks[2] ELSE << >>)

Numbers(from, count) == [i \in 1 .. count |-> from + i - 1]

\* k bytes have reached the other side.
Older(bytes, k) == [i \in 1 .. Len(bytes) |-> bytes[i] - k]
OlderBanks(banks, k) == [i \in 1 .. Len(banks) |-> Older(banks[i], k)]

Unsent == Flat(packets[CDC_TX]) \o bank[CDC_TX]
Peeked == IF peek_buffer >= 0 THEN <<peek_buffer>> ELSE << >>
Unread == Peeked \o Flat(received)

LesserOf(a, b) == IF a < b THEN a ELSE b

-----------------------------------------------------------------------------
(* Serial_: begin(), available(), peek(), read() *)

\* begin() forgets a byte that was only looked at.
Begin ==
  /\ pc = "idle"
  /\ peek_buffer' = -1 /\ promised' = 0
  /\ received' = OlderBanks(received, Len(Peeked))
  /\ UNCHANGED <<_usbConfiguration, enabled, UENUM, bank, packets, lineVars, sendVars>>

Available ==
  /\ pc = "idle"
  /\ promised' = Len(Peeked) + FifoByteCount(CDC_RX)
  /\ UNCHANGED <<coreVars, peek_buffer, lineVars, sendVars>>

Peek ==
  /\ pc = "idle"
  /\ peek_buffer < 0 /\ CanRecv
  /\ Recv(Rest)
  /\ peek_buffer' = received[1][1]
  /\ promised' = IF promised > 0 THEN promised ELSE 1
  /\ UNCHANGED <<lineVars, sendVars>>

Keep(k) == promised' = IF promised > k THEN promised - k ELSE 0

ReadPeeked ==
  /\ pc = "idle"
  /\ peek_buffer >= 0
  /\ peek_buffer' = -1
  /\ received' = OlderBanks(received, 1)
  /\ Keep(1)
  /\ UNCHANGED <<_usbConfiguration, enabled, UENUM, bank, packets, lineVars, sendVars>>

Read ==
  /\ pc = "idle"
  /\ peek_buffer < 0 /\ CanRecv
  /\ Recv(OlderBanks(Rest, 1))
  /\ Keep(1)
  /\ UNCHANGED <<peek_buffer, lineVars, sendVars>>

-----------------------------------------------------------------------------
(* USB_Send(), for write() and HID_SendReport() *)

UsbSend(endpoint, size, what) ==
  /\ pc' = "send_space" /\ ep' = endpoint /\ len' = size /\ part' = what
  /\ data' = (IF endpoint = CDC_TX THEN Len(Unsent) ELSE 0)
  /\ n' = 0 /\ timeout' = SendTries

\* A call that is over leaves nothing behind.
Idle ==
  /\ pc' = "idle" /\ ep' = CDC_TX /\ len' = 0 /\ part' = "bytes"
  /\ data' = 0 /\ n' = 0 /\ timeout' = 0

\* write() does nothing unless the host has the port open.
Write(size) ==
  /\ pc = "idle"
  /\ lineState > 0 /\ _usbConfiguration
  /\ UsbSend(CDC_TX, size, "bytes")
  /\ promised' = 0
  /\ UNCHANGED <<coreVars, peek_buffer, lineVars>>

\* HID_SendReport() sends the id and then the body, whatever became of the id.
SendReport ==
  /\ pc = "idle"
  /\ _usbConfiguration
  /\ UsbSend(HID_TX, 1, "id")
  /\ promised' = 0
  /\ UNCHANGED <<coreVars, peek_buffer, lineVars>>

AfterSend(body) ==
  IF part = "id" /\ _usbConfiguration THEN UsbSend(HID_TX, 1, body) ELSE Idle

\* Mutant: the tries are not counted.
SendLooks_ForEver ==
  /\ pc = "send_space"
  /\ IF SendSpace(ep) > 0
     THEN n' = LesserOf(SendSpace(ep), len) /\ pc' = "send_fill"
     ELSE UNCHANGED <<n, pc>>
  /\ UNCHANGED <<coreVars, cdcVars, lineVars, ep, len, timeout, data, part>>

\* USB_SendSpace(); without space a try is used up, and delay(1) passes.
SendLooks ==
  /\ pc = "send_space"
  /\ LET space == SendSpace(ep)
     IN  CASE space > 0 ->
                n' = LesserOf(space, len) /\ pc' = "send_fill"
                  /\ UNCHANGED <<ep, len, timeout, data, part>>
           [] space = 0 /\ timeout > 1 ->
                timeout' = timeout - 1 /\ UNCHANGED <<pc, ep, len, n, data, part>>
           [] OTHER -> AfterSend("orphan")
  /\ UNCHANGED <<coreVars, cdcVars, lineVars>>

Chunk == IF ep = CDC_TX THEN Numbers(data, n) ELSE <<part>>

\* The bytes go into the bank that is at hand by now.
SendFills ==
  /\ pc = "send_fill"
  /\ Fill(ep, Chunk, part \in {"body", "orphan"} /\ len = n)
  /\ IF len > n
     THEN /\ pc' = "send_space" /\ len' = len - n /\ n' = 0
          /\ data' = (IF ep = CDC_TX THEN data + n ELSE 0)
          /\ UNCHANGED <<ep, timeout, part>>
     ELSE AfterSend("body")
  /\ UNCHANGED <<cdcVars, lineVars>>

\* Or there is none any more: look again.
SendLooksAgain ==
  /\ pc = "send_fill"
  /\ ~ReadWriteAllowed(ep)
  /\ pc' = "send_space" /\ n' = 0
  /\ UNCHANGED <<coreVars, ep, len, timeout, data, part, cdcVars, lineVars>>

-----------------------------------------------------------------------------
(* Serial_::flush() is USB_Flush(), and does not wait. *)

Flush ==
  /\ pc = "idle"
  /\ FlushSelect(CDC_TX)
  /\ pc' = "flush_count"
  /\ UNCHANGED <<ep, len, n, timeout, data, part, cdcVars, lineVars>>

FlushCounts ==
  /\ pc = "flush_count"
  /\ IF FifoByteCount(UENUM) > 0
     THEN pc' = "flush_release" /\ UNCHANGED UENUM
     ELSE pc' = "idle" /\ UENUM' = AnyEP
  /\ UNCHANGED <<_usbConfiguration, enabled, bank, packets, received, ep, len, n, timeout, data, part, cdcVars, lineVars>>

FlushReleases ==
  /\ pc = "flush_release"
  /\ FlushRelease
  /\ pc' = "idle"
  /\ UNCHANGED <<ep, len, n, timeout, data, part, cdcVars, lineVars>>

-----------------------------------------------------------------------------
(* The host and the handlers *)

\* The banks are gone, with the id of a report that is under way.
BanksLost ==
  /\ data' = 0
  /\ part' = IF part = "body" THEN "orphan" ELSE part
  /\ promised' = LesserOf(promised, Len(Peeked))
  /\ UNCHANGED <<pc, ep, len, n, timeout, peek_buffer, lineVars>>

Reset == EndOfReset /\ BanksLost
Configure == \E value \in BOOLEAN : SetConfiguration(value) /\ BanksLost

Frame == StartOfFrame /\ UNCHANGED <<cdcVars, lineVars, sendVars>>

DTR(state) == state % 2 = 1

\* CDC_Setup(), CDC_SET_CONTROL_LINE_STATE.  At 1200 baud closing the port sets
\* the watchdog and opening it takes it back.
SetControlLineState(state) ==
  /\ _usbConfiguration
  /\ ControlRequest
  /\ lineState' = state
  /\ IF dwDTERate = "1200"
     THEN watchdog' = ~DTR(state)
     ELSE watchdog' = watchdog
  /\ UNCHANGED <<dwDTERate, cdcVars, sendVars>>

\* CDC_SET_LINE_CODING.
SetLineCoding(rate) ==
  /\ _usbConfiguration
  /\ ControlRequest
  /\ dwDTERate' = rate
  /\ UNCHANGED <<lineState, watchdog, cdcVars, sendVars>>

OtherRequest == ControlRequest /\ UNCHANGED <<cdcVars, lineVars, sendVars>>

\* The watchdog restarts the board.
WatchdogBites ==
  /\ watchdog
  /\ _usbConfiguration' = FALSE /\ enabled' = FALSE /\ UENUM' = AnyEP
  /\ EmptyBanks
  /\ peek_buffer' = -1 /\ promised' = 0
  /\ lineState' = 0 /\ dwDTERate' = "other" /\ watchdog' = FALSE
  /\ Idle

HostFetchesBytes ==
  /\ packets[CDC_TX] # << >>
  /\ LET k == Len(Head(packets[CDC_TX]))
     IN  /\ packets' = [packets EXCEPT ![CDC_TX] = OlderBanks(Tail(@), k)]
         /\ bank' = [bank EXCEPT ![CDC_TX] = Older(@, k)]
         /\ data' = IF ep = CDC_TX /\ pc \in {"send_space", "send_fill"}
                    THEN data - k ELSE 0
  /\ UNCHANGED <<_usbConfiguration, enabled, UENUM, received, cdcVars, lineVars, pc,
                 ep, len, n, timeout, part>>

HostFetchesReport ==
  /\ packets[HID_TX] # << >>
  /\ packets' = [packets EXCEPT ![HID_TX] = Tail(@)]
  /\ UNCHANGED <<_usbConfiguration, enabled, UENUM, bank, received, cdcVars,
                 lineVars, sendVars>>

HostSends(k) ==
  /\ _usbConfiguration /\ Len(received) < 2
  /\ received' = Append(received, Numbers(Len(Unread), k))
  /\ UNCHANGED <<_usbConfiguration, enabled, UENUM, bank, packets, cdcVars,
                 lineVars, sendVars>>

-----------------------------------------------------------------------------
SendCall == SendLooks \/ SendFills \/ SendLooksAgain
FlushCall == FlushCounts \/ FlushReleases

Next ==
  \/ Begin \/ Available \/ Peek \/ ReadPeeked \/ Read
  \/ \E size \in 1 .. MaxWrite : Write(size)
  \/ SendReport \/ Flush \/ SendCall \/ FlushCall
  \/ Reset \/ Configure \/ Frame \/ OtherRequest
  \/ \E state \in 0 .. 1 : SetControlLineState(state)
  \/ \E rate \in {"1200", "other"} : SetLineCoding(rate)
  \/ WatchdogBites \/ HostFetchesBytes \/ HostFetchesReport
  \/ \E k \in 0 .. BankSize : HostSends(k)

Spec == Init /\ [][Next]_vars

\* A call goes on, and frames start while the device is connected.  The host
\* need not fetch anything.
Fairness ==
  /\ WF_vars(SendCall \/ FlushCall)
  /\ WF_vars(Frame)

FairSpec == Spec /\ Fairness

-----------------------------------------------------------------------------
(* Properties *)

TypeOK ==
  /\ {_usbConfiguration, enabled, watchdog} \subseteq BOOLEAN
  /\ UENUM \in {0, CDC_TX, HID_TX, AnyEP}
  /\ \A e \in InEP : /\ Len(packets[e]) <= 2
                     /\ Len(bank[e]) <= (IF Len(packets[e]) = 2 THEN 0 ELSE BankSize - 1)
                     /\ \A i \in 1 .. Len(packets[e]) : Len(packets[e][i]) <= BankSize
  /\ Len(received) <= 2
  /\ peek_buffer \in {-1, 0} /\ promised \in 0 .. BankSize + 1
  /\ lineState \in 0 .. 2 /\ dwDTERate \in {"1200", "other"}
  /\ pc \in PC /\ ep \in InEP /\ part \in {"bytes", "id", "body", "orphan"}
  /\ len \in 0 .. MaxWrite /\ n \in 0 .. len /\ timeout \in 0 .. SendTries
  /\ data \in Nat

\* Bytes reach the host and the sketch once and in order, although the start
\* of a frame may release the bank between USB_Send()'s look and its locked
\* part (USBCore.cpp:271-321, 591-596), and peek() keeps one byte outside the
\* banks (CDC.cpp:131-154).
InOrder ==
  /\ Unsent = Numbers(0, Len(Unsent))
  /\ Unread = Numbers(0, Len(Unread))

\* What available() or peek() have told can be read, unless begin() or a reset
\* came in between.
AnswersHold == promised <= Len(Peeked) + FifoByteCount(CDC_RX)

\* A report goes out whole; its body goes alone only if the host fetched too
\* slowly for the id, or there was a reset (HID.cpp:159-163).
ReportsWhole ==
  \A i \in 1 .. Len(packets[HID_TX]) :
    packets[HID_TX][i] \in {<<"id", "body">>, <<"orphan">>, << >>}

\* Every byte that write() accepted leaves for the host, without another call.
Sent == bank[CDC_TX] # << >> ~> bank[CDC_TX] = << >>

\* write(), HID_SendReport() and flush() return, although the host may fetch
\* nothing and frames release the bank between two looks (USBCore.cpp:280-317);
\* only a device that is reset and configured without end might go on looking.
CallsReturn ==
  ([]<>enabled /\ []<>~enabled) \/ (pc # "idle" ~> pc = "idle")
=============================================================================
