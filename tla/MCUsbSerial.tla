---------------------------- MODULE MCUsbSerial ----------------------------
(***************************************************************************)
(* Instance of UsbSerial for TLC: bytes are numbers.                       *)
(***************************************************************************)
EXTENDS UsbSerial

MCByte == 0 .. Numbers - 1
=============================================================================
