---------------------------- MODULE MCTimeSketch ----------------------------
(***************************************************************************)
(* Instances of TimeSketch for TLC.                                        *)
(***************************************************************************)
EXTENDS TimeSketch
=============================================================================
