------------------------------- MODULE MCServo -------------------------------
(***************************************************************************)
(* Instances of Servo for TLC.                                             *)
(***************************************************************************)
EXTENDS Servo
=============================================================================
