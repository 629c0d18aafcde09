--------------------------- MODULE MCSerialSketch ---------------------------
(***************************************************************************)
(* Instances of SerialSketch for TLC.                                      *)
(***************************************************************************)
EXTENDS SerialSketch, TLC

\* The ports are alike; no property is about the order of time between them.
PortSymmetry == Permutations(Port)
=============================================================================
