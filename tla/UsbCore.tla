------------------------------- MODULE UsbCore -------------------------------
(***************************************************************************)
(* cores/arduino/USBCore.cpp: the endpoints of the board's USB device, the *)
(* calls that fill and empty them, and the two interrupt handlers.         *)
(*                                                                         *)
(* An endpoint has two banks.  The bank at hand of an IN endpoint is in    *)
(* bank, the released ones, which the host may fetch, are in packets.  The *)
(* OUT endpoint's banks are in received, the one at hand first.            *)
(***************************************************************************)
EXTENDS Integers, Sequences

CONSTANTS
  CDC_RX, CDC_TX, HID_TX,  \* the endpoints, apart from the control endpoint 0
  AnyEP,                   \* UENUM while nobody relies on it
  BankSize                 \* bytes of a bank: 64

ASSUME EndpointAssumption ==
  /\ {CDC_RX, CDC_TX, HID_TX} \subseteq Nat \ {0}
  /\ CDC_RX < CDC_TX /\ CDC_TX < HID_TX
  /\ AnyEP \notin {0, CDC_RX, CDC_TX, HID_TX}
  /\ BankSize \in Nat \ {0, 1}  \* a report has two parts

VARIABLES
  _usbConfiguration,  \* the device was configured since the last reset
  enabled,            \* the endpoints work: not since a reset
  UENUM,              \* the endpoint that the registers show
  bank, packets,      \* IN endpoints
  received            \* OUT endpoint

coreVars == <<_usbConfiguration, enabled, UENUM, bank, packets, received>>

InEP == {CDC_TX, HID_TX}

\* A handler selects an endpoint and does not put back the old one.
Select(ep) == UENUM' = IF UENUM = AnyEP THEN AnyEP ELSE ep

EmptyBanks ==
  /\ bank' = [ep \in InEP |-> << >>]
  /\ packets' = [ep \in InEP |-> << >>]
  /\ received' = << >>

CoreInit ==
  /\ _usbConfiguration = FALSE /\ enabled = FALSE /\ UENUM = AnyEP
  /\ bank = [ep \in InEP |-> << >>]
  /\ packets = [ep \in InEP |-> << >>]
  /\ received = << >>

-----------------------------------------------------------------------------
(* Registers of the endpoint at hand *)

HasBank(ep) == enabled /\ Len(packets[ep]) < 2
ReadWriteAllowed(ep) == HasBank(ep) /\ Len(bank[ep]) < BankSize

FifoByteCount(ep) ==
  CASE ep = CDC_RX -> IF received = << >> THEN 0 ELSE Len(Head(received))
    [] ep \in InEP -> Len(bank[ep])
    [] OTHER -> 0

\* Without a bank there is nothing to release.
ReleaseTX(ep, content) ==
  IF HasBank(ep)
  THEN /\ packets' = [packets EXCEPT ![ep] = Append(@, content)]
       /\ bank' = [bank EXCEPT ![ep] = << >>]
  ELSE UNCHANGED <<packets, bank>>

-----------------------------------------------------------------------------
(* Mutants *)

\* The free space is not looked at again.
Fill_NoSecondLook(ep, data, release) ==
  /\ LET content == IF HasBank(ep) THEN bank[ep] \o data ELSE bank[ep]
     IN  IF Len(content) >= BankSize \/ release
         THEN ReleaseTX(ep, content)
         ELSE bank' = [bank EXCEPT ![ep] = content] /\ UNCHANGED packets
  /\ UNCHANGED <<_usbConfiguration, enabled, UENUM, received>>

\* A full bank is left for the start of the next frame.
Fill_KeepsFull(ep, data, release) ==
  /\ ReadWriteAllowed(ep)
  /\ LET content == bank[ep] \o data
     IN  IF release
         THEN ReleaseTX(ep, content)
         ELSE bank' = [bank EXCEPT ![ep] = content] /\ UNCHANGED packets
  /\ UNCHANGED <<_usbConfiguration, enabled, UENUM, received>>

\* A bank is released although bytes are left in it.
Rest_ReleasesEarly == Tail(received)

\* The start of a frame flushes every endpoint.
StartOfFrame_FlushesAll ==
  /\ enabled
  /\ Select(HID_TX)
  /\ LET due == {ep \in InEP : bank[ep] # << >> /\ HasBank(ep)}
     IN  /\ packets' = [ep \in InEP |-> IF ep \in due THEN Append(packets[ep], bank[ep])
                                                     ELSE packets[ep]]
         /\ bank' = [ep \in InEP |-> IF ep \in due THEN << >> ELSE bank[ep]]
  /\ UNCHANGED <<_usbConfiguration, enabled, received>>

\* The start of a frame is for the LEDs only.
StartOfFrame_NoFlush ==
  /\ enabled
  /\ Select(CDC_TX)
  /\ UNCHANGED <<_usbConfiguration, enabled, bank, packets, received>>

-----------------------------------------------------------------------------
(* The calls; each but USB_Flush() selects its endpoint and uses it with     *)
(* interrupts off *)

\* USB_Recv() of one byte; it fails if there is none.
CanRecv == _usbConfiguration /\ FifoByteCount(CDC_RX) > 0

\* What is left after that byte: an emptied bank is released, but one that
\* came empty never is.
Rest ==
  LET left == Tail(Head(received))
  IN  (IF left = << >> THEN << >> ELSE <<left>>) \o Tail(received)

Recv(rest) ==
  /\ received' = rest
  /\ UNCHANGED <<_usbConfiguration, enabled, UENUM, bank, packets>>

SendSpace(ep) == IF ReadWriteAllowed(ep) THEN BankSize - Len(bank[ep]) ELSE 0

\* The locked part of USB_Send() when there still is a bank.
Fill(ep, data, release) ==
  /\ ReadWriteAllowed(ep)
  /\ LET content == bank[ep] \o data
     IN  IF Len(content) >= BankSize \/ release
         THEN ReleaseTX(ep, content)
         ELSE bank' = [bank EXCEPT ![ep] = content] /\ UNCHANGED packets
  /\ UNCHANGED <<_usbConfiguration, enabled, UENUM, received>>

\* USB_Flush() in three steps.  The last two use the endpoint that a handler
\* may have selected in between.
FlushSelect(ep) ==
  /\ UENUM' = ep
  /\ UNCHANGED <<_usbConfiguration, enabled, bank, packets, received>>

\* On endpoint 0 the banks show nothing of the release.
FlushRelease ==
  /\ IF UENUM \in InEP THEN ReleaseTX(UENUM, bank[UENUM])
                       ELSE UNCHANGED <<packets, bank>>
  /\ UENUM' = AnyEP
  /\ UNCHANGED <<_usbConfiguration, enabled, received>>

-----------------------------------------------------------------------------
(* The handlers *)

\* USB_GEN at the end of a reset: the endpoints are gone, 0 is set up anew.
EndOfReset ==
  /\ _usbConfiguration' = FALSE /\ enabled' = FALSE
  /\ Select(0)
  /\ EmptyBanks

\* USB_GEN at the start of a frame.
StartOfFrame ==
  /\ enabled
  /\ Select(CDC_TX)
  /\ IF FifoByteCount(CDC_TX) > 0 THEN ReleaseTX(CDC_TX, bank[CDC_TX])
                                 ELSE UNCHANGED <<packets, bank>>
  /\ UNCHANGED <<_usbConfiguration, enabled, received>>

\* USB_COM for SET_CONFIGURATION: InitEndpoints() leaves its last one selected.
SetConfiguration(value) ==
  /\ _usbConfiguration' = value /\ enabled' = TRUE
  /\ Select(HID_TX)
  /\ EmptyBanks

\* USB_COM for any other request.
ControlRequest ==
  /\ Select(0)
  /\ UNCHANGED <<_usbConfiguration, enabled, bank, packets, received>>
=============================================================================
