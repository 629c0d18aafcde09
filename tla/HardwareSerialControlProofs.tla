-------------------- MODULE HardwareSerialControlProofs --------------------
(***************************************************************************)
(* The interrupt enables of HardwareSerial: sbi() and cbi() are neither    *)
(* atomic nor alone, since the UDRE handler clears UDRIE in between.       *)
(* And flush(), which relies on TXC being cleared in time.                 *)
(***************************************************************************)
EXTENDS HardwareSerialProofs

Rmw == pc \in {"rmw_load", "rmw_store"}

\* The bits that UCSRnB has or is about to be given back.
Held == ucsrb \cup (IF pc = "rmw_store" THEN reg ELSE {})

\* begin() has switched the transmitter on once it has done two of its four
\* operations; end() has switched off what it has worked through.
BeginAt(k) ==
  /\ todo = SubSeq(BeginOps, k, 4)
  /\ k > 2 => "TXEN" \in ucsrb /\ (pc = "rmw_store" => "TXEN" \in reg)
EndAt(k) ==
  /\ todo = SubSeq(EndOps, k, 4)
  /\ \A j \in 1 .. k - 1 : EndOps[j][2] \notin Held

InRmw ==
  /\ then = "idle" => open /\ \E k \in 1 .. 4 : BeginAt(k)
  /\ then = "end_clear" => ~open /\ IsEmpty(tx) /\ \E k \in 1 .. 4 : EndAt(k)
  /\ then = "write_txc" =>
       /\ open /\ todo = WriteOps /\ "TXEN" \in ucsrb
       /\ pc = "rmw_store" => "TXEN" \in reg

Quiet == ucsrb = {} /\ IsEmpty(rx) /\ IsEmpty(tx)

CInv ==
  /\ Rmw => InRmw
  /\ open /\ ~Rmw => "TXEN" \in ucsrb
  /\ pc = "end_wait" => ~open
  /\ pc = "end_clear" => ~open /\ ucsrb = {} /\ IsEmpty(tx)
  /\ pc \in {"write_wait", "write_store", "write_publish", "write_txc"} => open
  /\ ~open /\ pc \in {"idle", "flush_wait", "read_pop"} => Quiet

\* begin() on a closed port finds the ring empty.
WInv == NoLostWakeup /\ (Rmw /\ then = "idle" => IsEmpty(tx))
-----------------------------------------------------------------------------
(* What is left of a list of four operations *)

LEMMA FourOps ==
  ASSUME NEW ops \in Seq(Op), Len(ops) = 4, NEW k \in 1 .. 4
  PROVE  /\ Head(SubSeq(ops, k, 4)) = ops[k]
         /\ k < 4 => Tail(SubSeq(ops, k, 4)) = SubSeq(ops, k + 1, 4)
         /\ k < 4 => SubSeq(ops, k + 1, 4) # << >>
         /\ k = 4 => Tail(SubSeq(ops, k, 4)) = << >>
<1>1. k \in 1 .. Len(ops) /\ 4 \in k .. Len(ops)
  OBVIOUS
<1>2. /\ Head(SubSeq(ops, k, 4)) = ops[k]
      /\ Tail(SubSeq(ops, k, 4)) = SubSeq(ops, k + 1, 4)
  BY <1>1, HeadTailOfSubSeq
<1>3. ASSUME k < 4 PROVE SubSeq(ops, k + 1, 4) # << >>
  <2> DEFINE rest == SubSeq(ops, k + 1, 4)
  <2>1. \A i \in k + 1 .. 4 : ops[i] \in Op
    BY <1>1, ElementOfSeq
  <2>2. Len(rest) = 4 - (k + 1) + 1
    BY <1>1, <1>3, <2>1, SubSeqProperties
  <2>3. Len(rest) # 0
    BY <1>3, <2>2
  <2> HIDE DEF rest
  <2>4. rest # << >>
    BY <2>3
  <2> QED
    BY <2>4 DEF rest
<1>4. ASSUME k = 4 PROVE SubSeq(ops, k + 1, 4) = << >>
  BY <1>4, SubSeqEmpty
<1> QED
  BY <1>2, <1>3, <1>4

LEMMA OpsAre ==
  /\ BeginOps \in Seq(Op) /\ Len(BeginOps) = 4
  /\ EndOps \in Seq(Op) /\ Len(EndOps) = 4
  /\ SubSeq(BeginOps, 1, 4) = BeginOps /\ SubSeq(EndOps, 1, 4) = EndOps
<1>1. BeginOps \in Seq(Op) /\ Len(BeginOps) = 4
  BY DEF BeginOps, Op, Bit
<1>2. EndOps \in Seq(Op) /\ Len(EndOps) = 4
  BY DEF EndOps, Op, Bit
<1> QED
  BY <1>1, <1>2, SubSeqFull

LEMMA InitCInv == Init => CInv
<1> SUFFICES ASSUME Init PROVE CInv
  OBVIOUS
<1>1. IsEmpty(EmptyRing)
  BY EmptyRingIs
<1> QED
  BY <1>1 DEF Init, CInv, Rmw, Quiet

\* An operation of begin() or end(): the bits it leaves behind.
LEMMA RmwStoreStep ==
  ASSUME IInv, CInv, RmwStore
  PROVE  CInv'
<1> USE DEF software, sketch, hardware, history, txHist, rxHist
<1>1. /\ pc = "rmw_store" /\ InRmw
      /\ then \in {"idle", "end_clear", "write_txc"}
      /\ ucsrb \subseteq Bit /\ reg \subseteq Bit
  BY DEF RmwStore, CInv, Rmw, IInv, TypeOK, ThreadKnows
<1>2. /\ UNCHANGED <<tx, rx, open, then, reg>>
      /\ ucsrb' = Apply(Head(todo), reg) /\ todo' = Tail(todo)
      /\ pc' = IF Tail(todo) = << >> THEN then ELSE "rmw_load"
  BY DEF RmwStore
<1>3. CASE then = "idle"
  <2>1. PICK k \in 1 .. 4 : BeginAt(k)
    BY <1>1, <1>3 DEF InRmw
  <2>2. Head(todo) = BeginOps[k] /\ open
    BY <1>1, <1>3, <2>1, OpsAre, FourOps DEF BeginAt, InRmw
  <2>3. k >= 2 => "TXEN" \in ucsrb'
    BY <1>1, <1>2, <2>1, <2>2 DEF BeginAt, BeginOps, Apply
  <2>4. CASE k < 4
    <3>1. todo' = SubSeq(BeginOps, k + 1, 4) /\ pc' = "rmw_load"
      BY <1>2, <2>1, <2>4, OpsAre, FourOps DEF BeginAt
    <3>2. BeginAt(k + 1)'
      BY <2>3, <3>1 DEF BeginAt
    <3> QED
      BY <1>2, <1>3, <2>2, <2>4, <3>1, <3>2 DEF CInv, Rmw, InRmw
  <2>5. CASE k = 4
    <3>1. pc' = "idle"
      BY <1>2, <1>3, <2>1, <2>5, OpsAre, FourOps DEF BeginAt
    <3> QED
      BY <1>2, <2>2, <2>3, <2>5, <3>1 DEF CInv, Rmw
  <2> QED
    BY <2>4, <2>5
<1>4. CASE then = "end_clear"
  <2>1. PICK k \in 1 .. 4 : EndAt(k)
    BY <1>1, <1>4 DEF InRmw
  <2>2. Head(todo) = EndOps[k] /\ ~open /\ IsEmpty(tx)
    BY <1>1, <1>4, <2>1, OpsAre, FourOps DEF EndAt, InRmw
  <2>3. ucsrb' = reg \ {EndOps[k][2]}
    BY <1>2, <2>2 DEF EndOps, Apply
  <2>4. \A j \in 1 .. k : EndOps[j][2] \notin ucsrb'
    BY <1>1, <2>1, <2>3 DEF EndAt, Held
  <2>5. CASE k < 4
    <3>1. todo' = SubSeq(EndOps, k + 1, 4) /\ pc' = "rmw_load"
      BY <1>2, <2>1, <2>5, OpsAre, FourOps DEF EndAt
    <3>2. EndAt(k + 1)'
      BY <2>4, <3>1 DEF EndAt, Held
    <3> QED
      BY <1>2, <1>4, <2>2, <2>5, <3>1, <3>2 DEF CInv, Rmw, InRmw
  <2>6. CASE k = 4
    <3>1. pc' = "end_clear"
      BY <1>2, <1>4, <2>1, <2>6, OpsAre, FourOps DEF EndAt
    <3>2. ucsrb' \subseteq Bit
      BY <1>1, <2>3
    <3>3. ucsrb' = {}
      BY <2>4, <2>6, <3>2 DEF EndOps, Bit
    <3> QED
      BY <1>2, <2>2, <3>1, <3>3 DEF CInv, Rmw
  <2> QED
    BY <2>5, <2>6
<1>5. CASE then = "write_txc"
  <2>1. todo = WriteOps /\ open /\ "TXEN" \in reg
    BY <1>1, <1>5 DEF InRmw
  <2>2. Head(todo) = <<"sbi", "UDRIE">> /\ Tail(todo) = << >>
    BY <2>1 DEF WriteOps
  <2>3. "TXEN" \in ucsrb' /\ pc' = "write_txc"
    BY <1>2, <1>5, <2>1, <2>2 DEF Apply
  <2> QED
    BY <1>2, <2>1, <2>3 DEF CInv, Rmw
<1> QED
  BY <1>1, <1>3, <1>4, <1>5

LEMMA NextCInv == IInv /\ CInv /\ [Next]_vars => CInv'
<1> SUFFICES ASSUME IInv, CInv, [Next]_vars PROVE CInv'
  OBVIOUS
<1> USE DEF software, sketch, hardware, history, txHist, rxHist
<1>type. TypeOK /\ ThreadKnows
  BY DEF IInv
<1>1. ASSUME NEW withConfig \in BOOLEAN, Begin(withConfig)
      PROVE  CInv'
  <2>1. BeginAt(1)'
    BY <1>1, OpsAre DEF Begin, Start, BeginAt
  <2> QED
    BY <1>1, <2>1 DEF Begin, Start, CInv, Rmw, InRmw
<1>2. CASE End \/ Available \/ Peek \/ Read \/ Flush
  BY <1>2 DEF End, Available, Peek, Read, Flush, Goto, CInv, Rmw, Quiet
<1>3. ASSUME NEW c \in Byte, Write(c)
      PROVE  CInv'
  BY <1>3 DEF Write, CInv, Rmw
<1>4. CASE RmwLoad
  <2>1. pc = "rmw_load" /\ InRmw /\ reg' = ucsrb /\ pc' = "rmw_store"
        /\ UNCHANGED <<tx, rx, open, then, todo, ucsrb>>
    BY <1>4 DEF RmwLoad, CInv, Rmw
  <2>2. \A k \in 1 .. 4 : BeginAt(k) => BeginAt(k)'
    BY <2>1 DEF BeginAt
  <2>3. \A k \in 1 .. 4 : EndAt(k) => EndAt(k)'
    BY <2>1 DEF EndAt, Held
  <2>4. InRmw'
    BY <2>1, <2>2, <2>3 DEF InRmw
  <2> QED
    BY <2>1, <2>4 DEF CInv, Rmw
<1>5. CASE RmwStore
  BY <1>5, RmwStoreStep
<1>6. CASE EndWait
  <2>1. EndAt(1)'
    BY <1>6, OpsAre DEF EndWait, Start, EndAt
  <2> QED
    BY <1>6, <2>1 DEF EndWait, Start, CInv, Rmw, InRmw
<1>7. CASE EndClear
  <2>1. IsEmpty(rx')
    BY <1>7, <1>type, ClearedIs DEF EndClear, TypeOK
  <2> QED
    BY <1>7, <2>1 DEF EndClear, CInv, Rmw, Quiet
<1>8. CASE ReadPop
  <2>1. open
    BY <1>8, <1>type DEF ReadPop, ThreadKnows, CInv, Quiet
  <2> QED
    BY <1>8, <2>1 DEF ReadPop, CInv, Rmw
<1>9. CASE FlushWait
  BY <1>9 DEF FlushWait, CInv, Rmw, Quiet
<1>10. CASE WriteWait \/ WriteStore \/ WriteTxc
  BY <1>10 DEF WriteWait, Goto, WriteStore, WriteTxc, CInv, Rmw
<1>11. CASE WritePublish
  BY <1>11 DEF WritePublish, Start, CInv, Rmw, InRmw
<1>12. CASE RxIsr
  <2>1. ~Quiet /\ UNCHANGED <<tx, pc, then, todo, reg, open, ucsrb>>
    BY <1>12 DEF RxIsr, Quiet
  <2>2. \A k \in 1 .. 4 : (BeginAt(k) => BeginAt(k)') /\ (EndAt(k) => EndAt(k)')
    BY <2>1 DEF BeginAt, EndAt, Held
  <2>3. InRmw => InRmw'
    BY <2>1, <2>2 DEF InRmw
  <2> QED
    BY <2>1, <2>3 DEF CInv, Rmw
<1>13. CASE UdreIsr
  <2>1. /\ UNCHANGED <<rx, pc, then, todo, reg, open>>
        /\ ucsrb' = ucsrb \/ ucsrb' = ucsrb \ {"UDRIE"}
        /\ ~Quiet
    BY <1>13 DEF UdreIsr, UdreIsrEmpty, UdreIsrSend, Quiet
  <2>2. IsEmpty(tx) => IsEmpty(tx')
    BY <1>13 DEF UdreIsr, UdreIsrEmpty, UdreIsrSend
  <2>3. \A k \in 1 .. 4 : (BeginAt(k) => BeginAt(k)') /\ (EndAt(k) => EndAt(k)')
    BY <2>1 DEF BeginAt, EndAt, Held
  <2>4. InRmw => InRmw'
    BY <2>1, <2>2, <2>3 DEF InRmw
  <2> QED
    BY <2>1, <2>2, <2>4 DEF CInv, Rmw
<1>14. CASE TxLoad \/ FrameEnd \/ (\E f \in Frame : Arrive(f)) \/ UNCHANGED vars
  <2>1. UNCHANGED <<tx, rx, pc, then, todo, reg, open, ucsrb>>
    BY <1>14 DEF TxLoad, FrameEnd, Arrive, vars
  <2>2. \A k \in 1 .. 4 : (BeginAt(k) => BeginAt(k)') /\ (EndAt(k) => EndAt(k)')
    BY <2>1 DEF BeginAt, EndAt, Held
  <2>3. InRmw => InRmw'
    BY <2>1, <2>2 DEF InRmw
  <2> QED
    BY <2>1, <2>3 DEF CInv, Rmw, Quiet
<1> QED
  BY <1>1, <1>2, <1>3, <1>4, <1>5, <1>6, <1>7, <1>8, <1>9, <1>10, <1>11, <1>12,
     <1>13, <1>14 DEF Next, Call, InCall

LEMMA ControlInvariance == Spec => []CInv
BY InitCInv, NextCInv, Invariance, PTL DEF Spec

\* A closed port is quiet: no handler is enabled and both rings are empty,
\* although UDRIE was cleared under the feet of end()'s own operations.
THEOREM ClosedStaysQuiet == Spec => []ClosedIsQuiet
<1>1. CInv => ClosedIsQuiet
  BY DEF CInv, ClosedIsQuiet, Quiet
<1> QED
  BY <1>1, ControlInvariance, PTL

-----------------------------------------------------------------------------
(* The wake-up of the UDRE handler *)

LEMMA NextWInv ==
  ASSUME ~Rebegin
  PROVE  IInv /\ CInv /\ CInv' /\ WInv /\ [Next]_vars => WInv'
<1> SUFFICES ASSUME IInv, CInv, CInv', WInv, [Next]_vars PROVE WInv'
  OBVIOUS
<1> USE DEF software, sketch, hardware, history, txHist, rxHist
<1>type. TypeOK /\ ThreadKnows
  BY DEF IInv
<1>1. ASSUME NEW withConfig \in BOOLEAN, Begin(withConfig)
      PROVE  WInv'
  <2>1. IsEmpty(tx) /\ tx' = tx
    BY <1>1 DEF Begin, CInv, Quiet
  <2> QED
    BY <2>1 DEF WInv, NoLostWakeup
<1>2. ASSUME UNCHANGED <<tx, ucsrb>>, ~Rmw, ~Rmw'
      PROVE  WInv'
  BY <1>2 DEF WInv, NoLostWakeup, Rmw
<1>3. CASE \/ End \/ Available \/ Peek \/ Read \/ Flush \/ \E c \in Byte : Write(c)
           \/ EndClear \/ ReadPop \/ FlushWait \/ WriteWait \/ WriteTxc
  BY <1>2, <1>3 DEF End, Available, Peek, Read, Flush, Goto, Write, EndClear,
     ReadPop, FlushWait, WriteWait, WriteTxc, Rmw
<1>4. CASE RmwLoad
  BY <1>4 DEF RmwLoad, WInv, NoLostWakeup, Rmw
<1>5. CASE RmwStore
  <2>1. /\ pc = "rmw_store" /\ InRmw /\ tx' = tx /\ then' = then
        /\ then \in {"idle", "end_clear", "write_txc"}
        /\ ucsrb' = Apply(Head(todo), reg)
        /\ pc' = IF Tail(todo) = << >> THEN then ELSE "rmw_load"
    BY <1>5, <1>type DEF RmwStore, CInv, Rmw, ThreadKnows
  <2>2. CASE IsEmpty(tx)
    BY <2>1, <2>2 DEF WInv, NoLostWakeup
  <2>3. CASE ~IsEmpty(tx)
    <3>1. todo = WriteOps /\ then = "write_txc" /\ "TXEN" \in reg
      BY <2>1, <2>3 DEF InRmw, WInv, Rmw
    <3>2. Head(todo) = <<"sbi", "UDRIE">> /\ Tail(todo) = << >>
      BY <3>1 DEF WriteOps
    <3>3. {"UDRIE", "TXEN"} \subseteq ucsrb' /\ pc' = "write_txc"
      BY <2>1, <3>1, <3>2 DEF Apply
    <3> QED
      BY <3>3 DEF WInv, NoLostWakeup, Rmw
  <2> QED
    BY <2>2, <2>3
<1>6. CASE EndWait
  BY <1>6 DEF EndWait, Start, WInv, NoLostWakeup
<1>7. CASE WriteStore
  BY <1>7, <1>2, StoredIs, <1>type DEF WriteStore, TypeOK, WInv, NoLostWakeup, IsEmpty, Rmw
<1>8. CASE WritePublish
  <2>1. pc' = "rmw_load" /\ todo' = WriteOps /\ then' = "write_txc"
        /\ "TXEN" \in ucsrb'
    BY <1>8 DEF WritePublish, Start, CInv, Rmw
  <2> QED
    BY <2>1 DEF WInv, NoLostWakeup, Rmw
<1>9. CASE UdreIsrEmpty
  BY <1>9 DEF UdreIsrEmpty, WInv, NoLostWakeup
<1>10. CASE UdreIsrSend
  BY <1>10 DEF UdreIsrSend, WInv, NoLostWakeup, Rmw
<1>11. CASE RxIsr \/ TxLoad \/ FrameEnd \/ (\E f \in Frame : Arrive(f))
            \/ UNCHANGED vars
  <2>1. UNCHANGED <<tx, ucsrb, pc, then, todo>>
    BY <1>11 DEF RxIsr, TxLoad, FrameEnd, Arrive, vars
  <2> QED
    BY <2>1 DEF WInv, NoLostWakeup, Rmw
<1> QED
  BY <1>1, <1>3, <1>4, <1>5, <1>6, <1>7, <1>8, <1>9, <1>10, <1>11
  DEF Next, Call, InCall, UdreIsr

\* Unless the sketch calls begin() on an open port, a ring that holds bytes
\* always has the handler that empties it enabled or about to be enabled.
THEOREM WakeupNeverLost ==
  ASSUME ~Rebegin
  PROVE  Spec => []NoLostWakeup
<1>1. Init => WInv
  <2>1. IsEmpty(EmptyRing)
    BY EmptyRingIs
  <2> QED
    BY <2>1 DEF Init, WInv, NoLostWakeup
<1>2. IInv /\ CInv /\ CInv' /\ WInv /\ [Next]_vars => WInv'
  BY NextWInv
<1>3. WInv => NoLostWakeup
  BY DEF WInv
<1> QED
  BY <1>1, <1>2, <1>3, Invariance, ControlInvariance, PTL DEF Spec

-----------------------------------------------------------------------------
(* flush() *)

Drained == shift = << >> /\ udr = << >> /\ IsEmpty(tx)

\* Outside of write(), TXC says that all is on the line; and what flush() does
\* not wait for is on the line too, or was written before begin(baud).
FInv ==
  ~InWrite =>
    /\ txc => Drained
    /\ ~transmitting => Drained \/ idleSince

\* A port that has run dry stays so until the next byte is published.
LEMMA NextFInv ==
  ASSUME ~LongIsr
  PROVE  IInv /\ CInv /\ WInv /\ FInv /\ [Next]_vars => FInv'
<1> SUFFICES ASSUME IInv, CInv, WInv, FInv, [Next]_vars PROVE FInv'
  OBVIOUS
<1> USE DEF software, sketch, hardware, history, txHist, rxHist
<1>type. TypeOK /\ ThreadKnows
  BY DEF IInv
<1>1. ASSUME UNCHANGED <<txc, shift, udr, tx, transmitting, idleSince>>,
             InWrite \/ ~InWrite',
             InWrite => InWrite'
      PROVE  FInv'
  BY <1>1 DEF FInv, Drained
<1>2. ASSUME NEW withConfig \in BOOLEAN, Begin(withConfig)
      PROVE  FInv'
  <2>1. /\ ~InWrite /\ UNCHANGED <<txc, shift, udr, tx>>
        /\ transmitting' = (withConfig /\ transmitting)
        /\ idleSince' = (~withConfig \/ idleSince)
    BY <1>2 DEF Begin, InWrite
  <2>2. CASE withConfig
    BY <2>1, <2>2, <1>type DEF FInv, Drained, TypeOK
  <2>3. CASE ~withConfig
    BY <2>1, <2>3 DEF FInv, Drained
  <2> QED
    BY <2>2, <2>3
<1>3. CASE \/ End \/ Available \/ Peek \/ Read \/ Flush \/ \E c \in Byte : Write(c)
           \/ EndClear \/ ReadPop \/ WriteWait \/ EndWait
  BY <1>1, <1>3 DEF End, Available, Peek, Read, Flush, Goto, Write, EndClear, ReadPop,
     WriteWait, EndWait, Start, InWrite
<1>4. CASE RmwLoad
  BY <1>1, <1>4 DEF RmwLoad, InWrite
<1>5. CASE RmwStore
  <2>1. /\ pc = "rmw_store" /\ then' = then
        /\ UNCHANGED <<txc, shift, udr, tx, transmitting, idleSince>>
        /\ then \in {"idle", "end_clear", "write_txc"}
        /\ pc' = IF Tail(todo) = << >> THEN then ELSE "rmw_load"
    BY <1>5, <1>type DEF RmwStore, ThreadKnows
  <2> QED
    BY <1>1, <2>1 DEF InWrite
<1>6. CASE FlushWait
  <2>1. /\ ~InWrite /\ UNCHANGED <<txc, shift, udr, tx, idleSince>>
        /\ transmitting => txc
    BY <1>6 DEF FlushWait, InWrite
  <2> QED
    BY <2>1 DEF FInv, Drained
<1>7. CASE WriteStore
  <2>1. IsEmpty(tx)' <=> IsEmpty(tx)
    BY <1>7, StoredIs, <1>type DEF WriteStore, TypeOK, IsEmpty
  <2>2. /\ ~InWrite /\ ~InWrite'
        /\ UNCHANGED <<txc, shift, udr, transmitting, idleSince>>
    BY <1>7 DEF WriteStore, InWrite
  <2> QED
    BY <2>1, <2>2 DEF FInv, Drained
<1>8. CASE WritePublish
  BY <1>8 DEF WritePublish, Start, FInv, InWrite
<1>9. CASE WriteTxc
  BY <1>9 DEF WriteTxc, FInv
<1>10. CASE UdreIsrEmpty \/ RxIsr \/ (\E f \in Frame : Arrive(f)) \/ UNCHANGED vars
  BY <1>1, <1>10 DEF UdreIsrEmpty, RxIsr, Arrive, vars, InWrite
<1>11. CASE UdreIsrSend
  <2>1. ~Drained /\ InWrite' = InWrite /\ UNCHANGED <<txc, transmitting, idleSince>>
    BY <1>11 DEF UdreIsrSend, Drained, InWrite
  <2> QED
    BY <2>1 DEF FInv
<1>12. CASE TxLoad
  <2>1. ~Drained /\ InWrite' = InWrite /\ UNCHANGED <<txc, transmitting, idleSince>>
    BY <1>12 DEF TxLoad, Drained, InWrite
  <2> QED
    BY <2>1 DEF FInv
<1>13. CASE FrameEnd
  <2>1. /\ ~Drained /\ InWrite' = InWrite /\ UNCHANGED <<udr, tx, transmitting, idleSince>>
        /\ shift' = << >> /\ txc' = (txc \/ udr = << >>) /\ InTime
    BY <1>13 DEF FrameEnd, Drained, InWrite
  <2>2. ASSUME ~InWrite, udr = << >> PROVE IsEmpty(tx)
    <3>1. SUFFICES ASSUME ~IsEmpty(tx), "UDRIE" \notin ucsrb PROVE FALSE
      BY <2>1, <2>2 DEF InTime
    <3>2. pc \in {"rmw_load", "rmw_store"}
      BY <3>1 DEF WInv, NoLostWakeup
    <3>3. then \in {"idle", "end_clear"}
      BY <2>2, <3>2, <1>type DEF InWrite, ThreadKnows
    <3> QED
      BY <3>1, <3>2, <3>3 DEF WInv, CInv, InRmw, Rmw
  <2>3. ASSUME ~InWrite PROVE udr = << >> => Drained'
    BY <2>1, <2>2, <2>3 DEF Drained
  <2> QED
    BY <2>1, <2>3 DEF FInv
<1> QED
  BY <1>2, <1>3, <1>4, <1>5, <1>6, <1>7, <1>8, <1>9, <1>10, <1>11, <1>12, <1>13
  DEF Next, Call, InCall, UdreIsr

\* When flush() returns every byte written is on the line, unless nothing was
\* written since begin(baud): for every buffer, if no handler takes longer than
\* a frame and begin() is not called on an open port.
THEOREM FlushWaitsForAll ==
  ASSUME ~Rebegin, ~LongIsr
  PROVE  Spec => FlushDrains
<1>1. Init => WInv /\ FInv
  <2>1. IsEmpty(EmptyRing)
    BY EmptyRingIs
  <2> QED
    BY <2>1 DEF Init, WInv, NoLostWakeup, FInv, Drained
<1>2. IInv /\ CInv /\ CInv' /\ WInv /\ [Next]_vars => WInv'
  BY NextWInv
<1>3. IInv /\ CInv /\ WInv /\ FInv /\ [Next]_vars => FInv'
  BY NextFInv
<1>4. IInv /\ FInv /\ [Next]_vars =>
        [pc = "flush_wait" /\ pc' = "idle" => line = written \/ idleSince]_vars
  <2> SUFFICES ASSUME IInv, FInv, Next, pc = "flush_wait", pc' = "idle"
               PROVE  line = written \/ idleSince
    OBVIOUS
  <2>1. FlushWait
    BY DEF Next, Call, InCall, UdreIsr, Begin, End, Available, Peek, Read, Flush, Write,
       RmwLoad, RmwStore, EndWait, EndClear, ReadPop, WriteWait, WriteStore, WritePublish,
       WriteTxc, RxIsr, UdreIsrEmpty, UdreIsrSend, TxLoad, FrameEnd, Arrive, sketch
  <2>2. Drained \/ idleSince
    BY <2>1 DEF FlushWait, FInv, InWrite
  <2>3. CASE Drained
    <3>1. Contents(tx) = << >>
      BY <2>3, EmptyIs DEF Drained, IInv, TypeOK
    <3>2. line \in Seq(Byte) /\ line \o << >> = line
      BY ConcatEmptySeq DEF IInv, TypeOK
    <3>3. line \o shift \o udr \o Contents(tx) = written
      BY DEF IInv, TxFifo
    <3> QED
      BY <2>3, <3>1, <3>2, <3>3 DEF Drained
  <2> QED
    BY <2>2, <2>3
<1> QED
  BY <1>1, <1>2, <1>3, <1>4, Invariance, ControlInvariance, PTL DEF Spec, FlushDrains
=============================================================================
