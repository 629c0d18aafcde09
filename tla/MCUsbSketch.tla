---------------------------- MODULE MCUsbSketch ----------------------------
(***************************************************************************)
(* Instances of UsbSketch for TLC.                                         *)
(***************************************************************************)
EXTENDS UsbSketch
=============================================================================
