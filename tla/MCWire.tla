------------------------------- MODULE MCWire -------------------------------
(***************************************************************************)
(* Instances of Wire for TLC.  The driver never looks at a byte: every     *)
(* byte of a transfer is one of its own, told by its place in it.          *)
(***************************************************************************)
EXTENDS Wire

CONSTANTS zero, w1, w2, r1, r2, r3, f1, f2, f3, f4, a1, a2

MCByte == {zero, w1, w2, r1, r2, r3, f1, f2, f3, f4, a1, a2}

\* Buffers of two bytes.
MCMessage  == << {w1}, {w2} >>
MCRemote   == << {r1}, {r2}, {r3} >>
MCIncoming == << {f1}, {f2}, {f3}, {f4} >>
MCAnswers  == {<< >>, <<a1>>, <<a1, a2>>}
=============================================================================
