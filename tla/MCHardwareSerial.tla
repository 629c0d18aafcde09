-------------------------- MODULE MCHardwareSerial --------------------------
(***************************************************************************)
(* Instances of HardwareSerial for TLC.                                    *)
(***************************************************************************)
EXTENDS HardwareSerial
=============================================================================
