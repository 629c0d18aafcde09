------------------------------ MODULE WireProofs ------------------------------
(***************************************************************************)
(* Proofs about Wire, for every size of the buffers, any number of other   *)
(* masters' transactions, and all they and the sketch may send, as long as *)
(* nobody addresses the device during the receive callback (Untimely = {}; *)
(* twi_releaseBus(), called at twi.c:474, wipes such a request away).      *)
(***************************************************************************)
EXTENDS Wire, SequenceTheorems, TLAPS

L == BUFFER_LENGTH

-----------------------------------------------------------------------------
(* The inductive invariant *)

Bits ==
  /\ twi_sendStop \in BOOLEAN /\ twi_inRepStart \in BOOLEAN /\ sendStop \in BOOLEAN
  /\ twie \in BOOLEAN /\ twea \in BOOLEAN /\ twsta \in BOOLEAN
  /\ servicing \in BOOLEAN /\ disturbed \in BOOLEAN /\ transmitting \in BOOLEAN

Modes ==
  /\ twi_state \in Mode /\ twi_slarw \in {"R", "W"} /\ role \in Role
  /\ pc \in PC /\ call \in {"read", "write"} /\ foreign \in 0 .. MaxForeign

Errors == twi_error \in Error /\ outcome \in Outcome

Flags == Bits /\ Modes /\ Errors

\* The call that the thread is in is the driver's transaction.
InProgress == pc = "wait_done" /\ twi_state = Busy(call)

\* What may be pending for a role.
StatusOK ==
  /\ role = "none" => status = "NO_INFO"
  /\ role = "start" => status \in {"START", "REP_START"}
  /\ role = "mt_addr" => status \in {"NO_INFO", "MT_SLA_NACK", "ARB_LOST", "BUS_ERROR"}
  /\ role = "mr_addr" => status \in {"NO_INFO", "MR_SLA_NACK", "ARB_LOST", "BUS_ERROR"}
  /\ role = "mt" => status \in {"NO_INFO", "MT_SLA_ACK", "MT_DATA_ACK", "MT_DATA_NACK",
                                "ARB_LOST", "BUS_ERROR"}
  /\ role = "mr" => status \in {"NO_INFO", "MR_SLA_ACK", "MR_DATA_ACK", "MR_DATA_NACK",
                                "ARB_LOST", "BUS_ERROR"}
  /\ role = "sr" => status \in {"NO_INFO", "SR_SLA_ACK", "SR_DATA_ACK", "SR_DATA_NACK",
                                "SR_STOP", "BUS_ERROR"}
  /\ role = "st" => status \in {"NO_INFO", "ST_SLA_ACK", "ST_DATA_ACK", "ST_DATA_NACK",
                                "ST_LAST_DATA", "BUS_ERROR"}

\* The peripheral's role goes with the driver's state.
BusOK ==
  /\ twie = ~twi_inRepStart
  /\ status = "REP_START" <=> twi_inRepStart
  /\ role = "none" /\ ~twsta /\ twea => twi_state = "READY" \/ pc = "twcr"
  /\ role = "none" /\ twsta => InProgress /\ twea
  /\ ~twea => \/ twi_inRepStart
              \/ role = "none" /\ twi_state = "SRX" /\ Deafened
              \/ role \in {"mr", "sr", "st"}
  /\ status = "START" => InProgress
  /\ role \in {"mt_addr", "mt"} => InProgress /\ call = "write"
  /\ role \in {"mr_addr", "mr"} => InProgress /\ call = "read"
  /\ role = "sr" => status = "SR_SLA_ACK" \/ twi_state = "SRX"
  /\ role = "st" => status = "ST_SLA_ACK" \/ twi_state = "STX"
  /\ servicing => role = "none" /\ twi_state = "READY" /\ twea /\ ~twsta

\* The driver is set up for a call only where the bus leaves it alone.
ThreadOK ==
  /\ twi_state \in {"MTX", "MRX"} => pc \in {"twcr", "wait_done"} /\ twi_state = Busy(call)
  /\ pc = "setup" => twi_state = "READY"
  /\ pc = "twcr" => twi_state = Busy(call)
  /\ pc \in {"setup", "twcr"} => ~servicing /\ (role = "none" \/ twi_inRepStart)
  /\ pc = "twcr" \/ InProgress => twi_slarw = (IF call = "write" THEN "W" ELSE "R")
  /\ pc \notin {"idle", "wait_ready"} /\ role \in {"sr", "st"} => disturbed
  /\ pc # "idle" /\ status = "ST_SLA_ACK" => disturbed
  /\ twi_inRepStart => twi_state = "READY" \/ pc = "twcr"
  /\ pc \in {"idle", "wait_ready", "setup", "twcr"} =>
       acked = << >> /\ fetched = << >> /\ outcome = "unanswered"
  /\ pc = "idle" => call = "write"
  /\ pc = "read_return" => call = "read"

\* The sketch's message, on its way.
MessageOK ==
  /\ txBuffer \in Seq(Byte) /\ message \in Seq(Byte) /\ length \in 0 .. L
  /\ txBufferLength \in 0 .. L /\ txBufferLength <= Len(txBuffer)
  /\ call = "write" /\ pc \in {"wait_ready", "setup"} =>
       /\ length <= Len(txBuffer)
       /\ ~disturbed => message = SubSeq(txBuffer, 1, length)
  /\ call = "write" /\ pc \in {"twcr", "wait_done"} /\ ~disturbed =>
       message = twi_masterBuffer

\* The master's buffer.
MasterOK ==
  /\ twi_masterBuffer \in Seq(Byte) /\ Len(twi_masterBuffer) <= L
  /\ twi_masterBufferIndex \in 0 .. L /\ twi_masterBufferLength \in 0 .. L
  /\ acked \in Seq(Byte) /\ fetched \in Seq(Byte) /\ twdr \in Byte

\* Nothing has come or gone before the remote device has answered its address.
StartOK ==
  pc = "twcr" \/ (InProgress /\ role \in {"none", "start", "mt_addr", "mr_addr"}) =>
    twi_masterBufferIndex = 0 /\ acked = << >> /\ fetched = << >>

WriteOK ==
  /\ call = "write" /\ pc \in {"twcr", "wait_done"} =>
       Len(twi_masterBuffer) = length /\ twi_masterBufferLength = length
  /\ pc = "twcr" \/ InProgress => twi_error = "none"
  /\ role = "mt" =>
       /\ twi_masterBufferIndex <= length
       /\ status = "NO_INFO" =>
            /\ twi_masterBufferIndex > 0
            /\ twdr = twi_masterBuffer[twi_masterBufferIndex]
            /\ acked = SubSeq(twi_masterBuffer, 1, twi_masterBufferIndex - 1)
       /\ status = "MT_SLA_ACK" => twi_masterBufferIndex = 0 
       /\ status \in {"MT_SLA_ACK", "MT_DATA_ACK"} =>
             acked = SubSeq(twi_masterBuffer, 1, twi_masterBufferIndex)

OutcomeOK ==
  /\ status = "MT_SLA_NACK" => outcome = "address_refused"
  /\ status = "MT_DATA_NACK" => outcome = "data_refused"
  /\ status \in {"ARB_LOST", "BUS_ERROR"} /\ role \notin {"sr", "st"} => outcome = "lost"
  /\ status \in {"NO_INFO", "MT_SLA_ACK", "MT_DATA_ACK"} /\ role = "mt" => outcome = "answered"
  /\ pc = "wait_done" /\ call = "write" /\ ~InProgress /\ ~disturbed =>
       /\ Result = Code[outcome]
       /\ Result = 0 => acked = message

\* What a remote device sent is what is kept, but for a byte that is pending.
ReadOK ==
  /\ call = "read" /\ pc \in {"wait_ready", "setup"} => length > 0
  /\ call = "read" /\ pc \in {"twcr", "wait_done"} =>
       /\ length > 0 /\ twi_masterBufferLength = length - 1
       /\ twi_masterBufferIndex = Len(twi_masterBuffer)
       /\ twi_masterBufferIndex <= length
  /\ call = "read" /\ pc = "wait_done" =>
       IF status \in {"MR_DATA_ACK", "MR_DATA_NACK"}
       THEN /\ fetched = Append(twi_masterBuffer, twdr)
            /\ status = "MR_DATA_ACK" => twi_masterBufferIndex < twi_masterBufferLength
            /\ status = "MR_DATA_NACK" => twi_masterBufferIndex = twi_masterBufferLength
       ELSE /\ fetched = twi_masterBuffer
            /\ outcome = "answered" /\ role # "mr" =>
                 twi_masterBufferIndex = twi_masterBufferLength + 1
  /\ role = "mr" =>
       /\ twi_masterBufferIndex <= twi_masterBufferLength
       /\ status = "MR_SLA_ACK" => twi_masterBufferIndex = 0
       /\ status = "NO_INFO" => (twea <=> twi_masterBufferIndex < twi_masterBufferLength)

\* What requestFrom() is about to hand over.
ReturnOK ==
  /\ rxBuffer \in Seq(Byte) /\ unread \in Seq(Byte) /\ Len(unread) <= L
  /\ pc = "read_return" =>
       /\ length <= Len(rxBuffer)
       /\ ~disturbed => /\ SubSeq(rxBuffer, 1, length) = fetched
                        /\ outcome = "answered" => Len(fetched) = twi_masterBufferLength + 1

\* Another master's bytes are kept as far as there is room.
ReceiverOK ==
  /\ twi_rxBuffer \in Seq(Byte) /\ Len(twi_rxBuffer) <= L
  /\ incoming \in Seq(Byte)
  /\ role = "sr" =>
       /\ status = "SR_SLA_ACK" => incoming = << >>
       /\ status = "SR_DATA_ACK" =>
            /\ Len(incoming) \in 1 .. L + 1
            /\ twi_rxBuffer = SubSeq(incoming, 1, Len(incoming) - 1)
            /\ twdr = incoming[Len(incoming)]
       /\ status = "SR_DATA_NACK" => Len(incoming) > L + 1
       /\ status \in {"NO_INFO", "SR_STOP", "BUS_ERROR"} =>
            /\ Len(incoming) <= L + 1
            /\ twi_rxBuffer = Take(incoming, L)
            /\ twea <=> Len(incoming) <= L

\* The answer goes out from its first byte on, to its last.
AnswerOK ==
  /\ twi_txBuffer \in Seq(Byte) /\ Len(twi_txBuffer) <= L
  /\ twi_txBufferIndex \in 0 .. Len(twi_txBuffer)
  /\ offer \in Seq(Byte) /\ answered \in Seq(Byte)
  /\ role = "st" =>
       IF status = "ST_SLA_ACK" THEN answered = << >>
       ELSE /\ offer = twi_txBuffer
            /\ twi_txBufferIndex > 0
            /\ twea <=> twi_txBufferIndex < Len(twi_txBuffer)
            /\ IF status \in {"NO_INFO", "BUS_ERROR"}
               THEN /\ twdr = offer[twi_txBufferIndex]
                    /\ answered = SubSeq(offer, 1, twi_txBufferIndex - 1)
               ELSE answered = SubSeq(offer, 1, twi_txBufferIndex)
            /\ status = "ST_DATA_ACK" => twea
            /\ status = "ST_LAST_DATA" => ~twea

Inv == /\ Flags /\ StatusOK /\ BusOK /\ ThreadOK /\ MessageOK /\ MasterOK /\ StartOK /\ WriteOK
       /\ OutcomeOK /\ ReadOK /\ ReturnOK /\ ReceiverOK /\ AnswerOK

-----------------------------------------------------------------------------
(* The parts of the model that a step leaves alone *)

\* The bus moves the peripheral and the histories only.
LEMMA BusLeaves ==
  ASSUME BusGoesOn \/ BusIsAddressed, disturbed \in BOOLEAN
  PROVE  UNCHANGED <<driver, sketch, twie, twea, twsta>> /\ (disturbed => disturbed')
<1>1. PICK s : Report(s)
  BY DEF BusGoesOn, BusIsAddressed, BusStart, BusAddressAnswered, BusAddressRefused,
         BusByteAcked, BusByteRefused, BusByteRead, BusByteSentHere, BusLost, BusStop,
         BusByteReadHere, BusAddressed
<1>2. UNCHANGED disturbed \/ disturbed' = (disturbed \/ pc # "idle")
  BY DEF BusGoesOn, BusIsAddressed, BusStart, BusAddressAnswered, BusAddressRefused,
         BusByteAcked, BusByteRefused, BusByteRead, BusByteSentHere, BusLost, BusStop,
         BusByteReadHere, BusAddressed, history
<1>3. ASSUME disturbed PROVE disturbed'
  BY <1>2, <1>3
<1> QED
  BY <1>1, <1>3 DEF Report

\* The handler leaves the sketch where it is.
LEMMA HandlerLeaves ==
  ASSUME HandlerRuns
  PROVE  /\ UNCHANGED <<pc, call, length, sendStop, history, foreign>>
         /\ UNCHANGED <<registered, transmitting, message, twi_slarw, twi_sendStop,
                        twi_masterBufferLength>>
BY DEF HandlerRuns, SlaveStop, SlaveTransmitter, IsrStart, IsrSend, IsrSentAll, IsrFailed,
       IsrReceive, IsrReceiveLast, IsrSlaveReceiver, IsrSlaveData, IsrSlaveDataNack, IsrRelease,
       IsrSlaveNext, IsrSlaveLast, IsrSlaveStop, IsrSlaveTransmitter, driver, masterVars, sketch,
       wireVars, txVars

\* The plain part of what is assumed.
LEMMA Sizes ==
  /\ L \in 1 .. 255
  /\ \A i \in 1 .. L : i \in DOMAIN Message /\ Message[i] \subseteq Byte
  /\ \A i \in 1 .. L : i \in DOMAIN Remote /\ Remote[i] \subseteq Byte
  /\ \A i \in 1 .. Len(Incoming) : Incoming[i] \subseteq Byte
  /\ Quantities \subseteq Nat \ {0}
  /\ Answers \subseteq Seq(Byte) /\ \A a \in Answers : Len(a) \in 0 .. L
  /\ Zero \in Byte /\ MaxForeign \in Nat
BY BufferAssumption, MessageAssumption, TrafficAssumption, QuantityAssumption, AnswerAssumption,
   ZeroAssumption, ForeignAssumption DEF L

-----------------------------------------------------------------------------
(* Strings of bytes *)

LEMMA FirstBytes ==
  ASSUME NEW s \in Seq(Byte), NEW n \in 0 .. Len(s)
  PROVE  /\ SubSeq(s, 1, n) \in Seq(Byte) /\ Len(SubSeq(s, 1, n)) = n
         /\ \A i \in 1 .. n : SubSeq(s, 1, n)[i] = s[i]
<1>1. Len(s) \in Nat /\ n \in Nat /\ \A i \in 1 .. n : s[i] \in Byte
  BY LenProperties
<1> QED
  BY <1>1, SubSeqProperties

LEMMA NoBytes == << >> \in Seq(Byte) /\ Len(<< >>) = 0
BY EmptySeq

LEMMA OneByteMore ==
  ASSUME NEW s \in Seq(Byte), NEW b \in Byte
  PROVE  /\ Append(s, b) \in Seq(Byte) /\ Len(Append(s, b)) = Len(s) + 1
         /\ Len(s) \in Nat
         /\ Append(s, b)[Len(s) + 1] = b
         /\ \A i \in 1 .. Len(s) : Append(s, b)[i] = s[i]
BY AppendProperties, LenProperties

\* The first bytes and the next one.
LEMMA NextByte ==
  ASSUME NEW s \in Seq(Byte), NEW n \in 1 .. Len(s)
  PROVE  Append(SubSeq(s, 1, n - 1), s[n]) = SubSeq(s, 1, n)
<1>1. Len(s) \in Nat /\ n \in Nat \ {0} /\ n - 1 \in 0 .. Len(s) /\ n \in 0 .. Len(s) /\ s[n] \in Byte
  BY LenProperties
<1> DEFINE p == SubSeq(s, 1, n - 1)
           q == SubSeq(s, 1, n)
<1>2. p \in Seq(Byte) /\ Len(p) = n - 1 /\ \A i \in 1 .. n - 1 : p[i] = s[i]
  <2> DEFINE m == n - 1
  <2>1. m \in 0 .. Len(s)
    BY <1>1
  <2> HIDE DEF m
  <2>2. SubSeq(s, 1, m) \in Seq(Byte) /\ Len(SubSeq(s, 1, m)) = m
        /\ \A i \in 1 .. m : SubSeq(s, 1, m)[i] = s[i]
    BY <2>1, FirstBytes
  <2> QED
    BY <2>2 DEF m
<1>3. q \in Seq(Byte) /\ Len(q) = n /\ \A i \in 1 .. n : q[i] = s[i]
  BY <1>1, FirstBytes
<1> HIDE DEF p, q
<1>4. Append(p, s[n]) \in Seq(Byte) /\ Len(Append(p, s[n])) = n
      /\ \A i \in 1 .. n : Append(p, s[n])[i] = s[i]
  <2>1. /\ Append(p, s[n]) \in Seq(Byte) /\ Len(Append(p, s[n])) = Len(p) + 1
        /\ Append(p, s[n])[Len(p) + 1] = s[n]
        /\ \A i \in 1 .. Len(p) : Append(p, s[n])[i] = p[i]
    BY <1>1, <1>2, OneByteMore
  <2>2. ASSUME NEW i \in 1 .. n PROVE Append(p, s[n])[i] = s[i]
    <3>1. i = n \/ i \in 1 .. n - 1
      BY <1>1
    <3> QED
      BY <1>1, <1>2, <2>1, <3>1
  <2> QED
    BY <1>1, <1>2, <2>1, <2>2
<1>5. Append(p, s[n]) = q
  BY <1>1, <1>3, <1>4, SeqEqual
<1> QED
  BY <1>5 DEF p, q

LEMMA OverlayIs ==
  ASSUME NEW b \in Seq(Byte), NEW s \in Seq(Byte)
  PROVE  /\ Overlay(b, s) \in Seq(Byte)
         /\ Len(Overlay(b, s)) \in Nat
         /\ Len(Overlay(b, s)) >= Len(b) /\ Len(Overlay(b, s)) >= Len(s)
<1> DEFINE r == SubSeq(b, Len(s) + 1, Len(b))
<1>1. Len(s) \in Nat /\ Len(b) \in Nat /\ \A i \in 1 .. Len(b) : b[i] \in Byte
  BY LenProperties
<1>2. r \in Seq(Byte) /\ Len(r) = IF Len(s) + 1 <= Len(b) THEN Len(b) - (Len(s) + 1) + 1 ELSE 0
  <2>1. Len(s) + 1 \in Int /\ Len(b) \in Int
    BY <1>1
  <2>2. \A i \in (Len(s) + 1) .. Len(b) : b[i] \in Byte
    BY <1>1
  <2> QED
    BY <2>1, <2>2, SubSeqProperties
<1> HIDE DEF r
<1>3. s \o r \in Seq(Byte) /\ Len(s \o r) = Len(s) + Len(r)
  BY <1>2, ConcatProperties
<1>4. Len(r) \in Nat /\ Len(s) + Len(r) >= Len(b)
  BY <1>1, <1>2
<1> QED
  BY <1>1, <1>3, <1>4 DEF Overlay, r

-----------------------------------------------------------------------------
\* A call goes on only while nothing is pending, or while the bus is held.
LEMMA CallsWait ==
  ASSUME Bits, Modes, StatusOK, BusOK, ThreadOK, SketchCalls \/ InCall
  PROVE  /\ status \in {"NO_INFO", "REP_START"} /\ status' \in {"NO_INFO", "REP_START"}
         /\ role \notin {"mt_addr", "mr_addr", "mt", "mr"} /\ role' \notin {"mt", "mr"}
         /\ \/ UNCHANGED <<role, status, twie, twea, twsta>>
            \/ WriteTwcr /\ role \in {"none", "start"} /\ role' \notin {"sr", "st"}
<1>1. \E p \in PC : At(p) /\ (p = "wait_done" => ~InProgress)
  BY DEF SketchCalls, InCall, CallGoesOn, BeginTransmission, Write, EndTransmission, RequestFrom,
     Enter, Read, WaitReady, Setup, WriteTwcr, ReturnWrite, ReadCopy, ReadReturn, Done, PC,
     InProgress
<1>2. status \in {"NO_INFO", "REP_START"}
  BY <1>1 DEF At, twint, BusOK, Bits
<1>3. role \notin {"mt_addr", "mr_addr", "mt", "mr"}
  BY <1>1 DEF At, BusOK, InProgress
<1>4. CASE WriteTwcr
  <2>1. role \in {"none", "start"}
    <3>1. role = "none" \/ twi_inRepStart
      BY <1>4 DEF WriteTwcr, At, ThreadOK
    <3>2. twi_inRepStart => status = "REP_START"
      BY DEF BusOK
    <3>3. status = "REP_START" => role = "start"
      BY DEF StatusOK, Modes, Role
    <3> QED
      BY <3>1, <3>2, <3>3
  <2>2. role' \in {"mt_addr", "mr_addr"} \/ role' = role
    BY <1>4 DEF WriteTwcr, Addressing
  <2>3. status' = "NO_INFO"
    BY <1>4 DEF WriteTwcr
  <2> QED
    BY <1>2, <1>3, <1>4, <2>1, <2>2, <2>3
<1>5. CASE ~WriteTwcr
  <2>1. UNCHANGED <<role, status, twie, twea, twsta>>
    BY <1>5 DEF SketchCalls, InCall, CallGoesOn, BeginTransmission, Write, EndTransmission,
       RequestFrom, Enter, Read, WaitReady, Setup, ReturnWrite, ReadCopy, ReadReturn, twiVars, twcr
  <2> QED
    BY <1>2, <1>3, <2>1
<1> QED
  BY <1>4, <1>5

\* What the handler makes of the driver's state and of the peripheral's role.
LEMMA HandlerDoes ==
  ASSUME HandlerRuns
  PROVE  /\ status' \in {"NO_INFO", "REP_START"}
         /\ UNCHANGED twi_state \/ twi_state' \in {"READY", "SRX", "STX"}
         /\ ~IsrReceive /\ ~IsrReceiveLast => UNCHANGED twi_masterBuffer
         /\ ~IsrReceive /\ ~IsrReceiveLast /\ ~IsrSend => UNCHANGED twi_masterBufferIndex
         /\ ~IsrFailed => UNCHANGED twi_error
         /\ ~IsrStart => role' \in {role, "none", "start"}
<1>1. status' \in {"NO_INFO", "REP_START"}
  BY DEF HandlerRuns, SlaveStop, SlaveTransmitter, IsrStart, IsrSend, IsrSentAll, IsrFailed,
     IsrReceive, IsrReceiveLast, IsrSlaveReceiver, IsrSlaveData, IsrSlaveDataNack, IsrRelease,
     IsrSlaveNext, IsrSlaveLast, IsrSlaveStop, IsrSlaveTransmitter, EndOfTransaction, OffTheBus,
     Reply
<1>2. UNCHANGED twi_state \/ twi_state' \in {"READY", "SRX", "STX"}
  BY DEF HandlerRuns, SlaveStop, SlaveTransmitter, IsrStart, IsrSend, IsrSentAll, IsrFailed,
     IsrReceive, IsrReceiveLast, IsrSlaveReceiver, IsrSlaveData, IsrSlaveDataNack, IsrRelease,
     IsrSlaveNext, IsrSlaveLast, IsrSlaveStop, IsrSlaveTransmitter, EndOfTransaction, OffTheBus,
     driver
<1>3. ~IsrReceive /\ ~IsrReceiveLast => UNCHANGED twi_masterBuffer
  BY DEF HandlerRuns, SlaveStop, SlaveTransmitter, IsrStart, IsrSend, IsrSentAll, IsrFailed,
     IsrSlaveReceiver, IsrSlaveData, IsrSlaveDataNack, IsrRelease,
     IsrSlaveNext, IsrSlaveLast, IsrSlaveStop, IsrSlaveTransmitter, driver, masterVars
<1>4. ~IsrReceive /\ ~IsrReceiveLast /\ ~IsrSend => UNCHANGED twi_masterBufferIndex
  BY DEF HandlerRuns, SlaveStop, SlaveTransmitter, IsrStart, IsrSentAll, IsrFailed,
     IsrSlaveReceiver, IsrSlaveData, IsrSlaveDataNack, IsrRelease,
     IsrSlaveNext, IsrSlaveLast, IsrSlaveStop, IsrSlaveTransmitter, driver, masterVars
<1>5. ~IsrFailed => UNCHANGED twi_error
  BY DEF HandlerRuns, SlaveStop, SlaveTransmitter, IsrStart, IsrSend, IsrSentAll,
     IsrReceive, IsrReceiveLast, IsrSlaveReceiver, IsrSlaveData, IsrSlaveDataNack, IsrRelease,
     IsrSlaveNext, IsrSlaveLast, IsrSlaveStop, IsrSlaveTransmitter, driver
<1>6. ~IsrStart => role' \in {role, "none", "start"}
  BY DEF HandlerRuns, SlaveStop, SlaveTransmitter, IsrSend, IsrSentAll, IsrFailed,
     IsrReceive, IsrReceiveLast, IsrSlaveReceiver, IsrSlaveData, IsrSlaveDataNack, IsrRelease,
     IsrSlaveNext, IsrSlaveLast, IsrSlaveStop, IsrSlaveTransmitter, EndOfTransaction, OffTheBus
<1> QED
  BY <1>1, <1>2, <1>3, <1>4, <1>5, <1>6

\* The handler runs for what is pending, in the role that it goes with.
LEMMA HandlerFor ==
  ASSUME Bits, Modes, StatusOK, BusOK, ThreadOK
  PROVE  /\ IsrStart => role = "start" /\ InProgress /\ status = "START"
         /\ IsrSend \/ IsrSentAll => role = "mt" /\ status \in {"MT_SLA_ACK", "MT_DATA_ACK"}
         /\ IsrReceive => role = "mr" /\ status \in {"MR_SLA_ACK", "MR_DATA_ACK"}
         /\ IsrReceiveLast => role = "mr" /\ status = "MR_DATA_NACK"
         /\ IsrSlaveReceiver => role = "sr" /\ status = "SR_SLA_ACK"
         /\ IsrSlaveData => role = "sr" /\ status = "SR_DATA_ACK"
         /\ IsrSlaveDataNack => role = "sr" /\ status = "SR_DATA_NACK"
         /\ SlaveStop => role = "sr" /\ status = "SR_STOP"
         /\ IsrSlaveNext => role = "st" /\ status = "ST_DATA_ACK"
         /\ IsrSlaveLast => role = "st" /\ status \in {"ST_DATA_NACK", "ST_LAST_DATA"}
         /\ \A answer \in Answers : SlaveTransmitter(answer) => role = "st" /\ status = "ST_SLA_ACK"
         /\ IsrRelease => role = "none" /\ twi_state = "READY"
<1>1. IsrStart => role = "start" /\ InProgress /\ status = "START"
  BY DEF IsrStart, Isr, Bits, StatusOK, BusOK, Modes, Role
<1>2. /\ IsrSend \/ IsrSentAll => role = "mt" /\ status \in {"MT_SLA_ACK", "MT_DATA_ACK"}
      /\ IsrReceive => role = "mr" /\ status \in {"MR_SLA_ACK", "MR_DATA_ACK"}
      /\ IsrReceiveLast => role = "mr" /\ status = "MR_DATA_NACK"
  BY DEF IsrSend, IsrSentAll, IsrReceive, IsrReceiveLast, Isr, StatusOK, Modes, Role
<1>3. /\ IsrSlaveReceiver => role = "sr" /\ status = "SR_SLA_ACK"
      /\ IsrSlaveData => role = "sr" /\ status = "SR_DATA_ACK"
      /\ IsrSlaveDataNack => role = "sr" /\ status = "SR_DATA_NACK"
      /\ SlaveStop => role = "sr" /\ status = "SR_STOP"
  BY DEF IsrSlaveReceiver, IsrSlaveData, IsrSlaveDataNack, SlaveStop, IsrSlaveStop, Isr, StatusOK,
     Modes, Role
<1>4. /\ IsrSlaveNext => role = "st" /\ status = "ST_DATA_ACK"
      /\ IsrSlaveLast => role = "st" /\ status \in {"ST_DATA_NACK", "ST_LAST_DATA"}
      /\ \A answer \in Answers : SlaveTransmitter(answer) => role = "st" /\ status = "ST_SLA_ACK"
  BY DEF IsrSlaveNext, IsrSlaveLast, SlaveTransmitter, IsrSlaveTransmitter, Isr, StatusOK,
     Modes, Role
<1>5. IsrRelease => role = "none" /\ twi_state = "READY"
  BY DEF IsrRelease, BusOK
<1> QED
  BY <1>1, <1>2, <1>3, <1>4, <1>5

\* The role after the handler tells what it did.
LEMMA HandlerRole ==
  ASSUME Bits, Modes, StatusOK, BusOK, ThreadOK, HandlerRuns
  PROVE  /\ role' = "mt" => IsrSend
         /\ role' = "mr" => IsrReceive
         /\ role' = "sr" => IsrSlaveReceiver \/ IsrSlaveData
         /\ role' = "st" => IsrSlaveNext \/ \E answer \in Answers : SlaveTransmitter(answer)
<1>1. IsrStart => role' \in {"mt_addr", "mr_addr"}
  BY DEF IsrStart, Addressing
<1>2. IsrFailed \/ IsrSlaveLast \/ IsrSlaveDataNack \/ SlaveStop => role' = "none"
  BY DEF IsrFailed, IsrSlaveLast, IsrSlaveDataNack, SlaveStop, IsrSlaveStop, OffTheBus
<1>3. IsrSentAll \/ IsrReceiveLast => role' \in {"none", "start"}
  BY DEF IsrSentAll, IsrReceiveLast, EndOfTransaction, OffTheBus
<1>4. ~IsrStart => role' \in {role, "none", "start"}
  BY HandlerDoes
<1> QED
  BY <1>1, <1>2, <1>3, <1>4, HandlerFor DEF HandlerRuns

\* The bus does nothing before the last report was served.
LEMMA BusWaits ==
  ASSUME StatusOK, BusGoesOn \/ BusIsAddressed
  PROVE  status = "NO_INFO" /\ status' # "NO_INFO" /\ role # "start"
<1>1. PICK s : Report(s) /\ s # "NO_INFO"
  BY DEF BusGoesOn, BusIsAddressed, BusStart, BusAddressAnswered, BusAddressRefused,
         BusByteAcked, BusByteRefused, BusByteRead, BusByteSentHere, BusLost, BusStop,
         BusByteReadHere, BusAddressed
<1> QED
  BY <1>1 DEF Report, twint, StatusOK

\* The sketch's calls do not touch what the slave's side keeps.
LEMMA CallsLeave ==
  ASSUME SketchCalls \/ InCall
  PROVE  UNCHANGED <<slaveVars, incoming, answered, offer, twdr, servicing>>
BY DEF SketchCalls, InCall, CallGoesOn, BeginTransmission, Write, EndTransmission, RequestFrom,
   Enter, Read, WaitReady, Setup, WriteTwcr, ReturnWrite, ReadCopy, ReadReturn, EndOfCall,
   twiVars, driver, sketch, history, wireVars

\* All bytes, and none.
LEMMA AllBytes ==
  ASSUME NEW s \in Seq(Byte)
  PROVE  SubSeq(s, 1, Len(s)) = s /\ SubSeq(s, 1, 0) = << >>
<1>1. Len(s) \in 0 .. Len(s) /\ 0 \in 0 .. Len(s) /\ Len(s) \in Nat
  BY LenProperties
<1>2. SubSeq(s, 1, Len(s)) = s
  <2> DEFINE n == Len(s)
             t == SubSeq(s, 1, n)
  <2>1. n \in 0 .. Len(s)
    BY <1>1
  <2>4. n = Len(s)
    OBVIOUS
  <2> HIDE DEF n
  <2>2. t \in Seq(Byte) /\ Len(t) = n /\ \A i \in 1 .. n : t[i] = s[i]
    BY <2>1, FirstBytes
  <2> HIDE DEF t
  <2>3. t = s
    BY <2>2, <2>4, SeqEqual
  <2> QED
    BY <2>3, <2>4 DEF t
<1>3. SubSeq(s, 1, 0) = << >>
  <2> DEFINE t == SubSeq(s, 1, 0)
  <2>1. t \in Seq(Byte) /\ Len(t) = 0
    BY <1>1, FirstBytes
  <2> HIDE DEF t
  <2>2. t = << >>
    BY <2>1, EmptySeq
  <2> QED
    BY <2>2 DEF t
<1> QED
  BY <1>2, <1>3

-----------------------------------------------------------------------------
(* The control part of the invariant *)

\* Flags stay flags.
LEMMA BitsStep ==
  ASSUME Inv, Next, Untimely = {}
  PROVE  Bits'
<1>0. Bits
  BY DEF Inv, Flags
<1>1. CASE SketchCalls
  <2>1. /\ UNCHANGED <<twi_sendStop, twi_inRepStart, twie, twea, twsta, servicing, disturbed>>
        /\ transmitting' \in {transmitting, TRUE} /\ sendStop' \in {sendStop, TRUE, FALSE}
    BY <1>1 DEF SketchCalls, BeginTransmission, Write, EndTransmission, RequestFrom, Enter, Read,
       driver, twcr, sketch, history, twiVars, txVars, wireVars
  <2> QED
    BY <1>0, <2>1 DEF Bits
<1>2. CASE InCall
  BY <1>0, <1>2 DEF InCall, CallGoesOn, WaitReady, Setup, WriteTwcr, ReturnWrite, ReadCopy,
     ReadReturn, EndOfCall, Bits, driver, twcr, history, txVars, wireVars
<1>3. CASE HandlerRuns
  <2>1. UNCHANGED <<twi_sendStop, sendStop, disturbed, transmitting>>
    BY <1>3, HandlerLeaves DEF history
  <2>2. /\ twi_inRepStart' \in {twi_inRepStart, TRUE} /\ servicing' \in {servicing, TRUE, FALSE}
        /\ twie' \in {TRUE, FALSE} /\ twsta' \in {TRUE, FALSE}
    BY <1>3 DEF HandlerRuns, SlaveStop, SlaveTransmitter, IsrStart, IsrSend, IsrSentAll, IsrFailed,
       IsrReceive, IsrReceiveLast, IsrSlaveReceiver, IsrSlaveData, IsrSlaveDataNack, IsrRelease,
       IsrSlaveNext, IsrSlaveLast, IsrSlaveStop, IsrSlaveTransmitter, EndOfTransaction, OffTheBus,
       Reply, driver, sketch
  <2>3. \/ twea' \in {TRUE, FALSE}
        \/ twea' = (1 < Len(twi_txBuffer'))
        \/ twea' = (twi_masterBufferIndex' < twi_masterBufferLength)
        \/ twea' = (twi_txBufferIndex' < Len(twi_txBuffer))
    BY <1>3 DEF HandlerRuns, SlaveStop, SlaveTransmitter, IsrStart, IsrSend, IsrSentAll, IsrFailed,
       IsrReceive, IsrReceiveLast, IsrSlaveReceiver, IsrSlaveData, IsrSlaveDataNack, IsrRelease,
       IsrSlaveNext, IsrSlaveLast, IsrSlaveStop, IsrSlaveTransmitter, EndOfTransaction, OffTheBus,
       Reply
  <2>4. ASSUME twea' = (1 < Len(twi_txBuffer')) PROVE twea' \in BOOLEAN
    BY ONLY <2>4, SMT
  <2>5. ASSUME twea' = (twi_masterBufferIndex' < twi_masterBufferLength) PROVE twea' \in BOOLEAN
    BY ONLY <2>5, SMT
  <2>6. ASSUME twea' = (twi_txBufferIndex' < Len(twi_txBuffer)) PROVE twea' \in BOOLEAN
    BY ONLY <2>6, SMT
  <2>7. twea' \in BOOLEAN
    BY <2>3, <2>4, <2>5, <2>6
  <2> QED
    BY <1>0, <2>1, <2>2, <2>7 DEF Bits
<1>4. CASE (BusGoesOn \/ BusIsAddressed) /\ UNCHANGED wireVars
  <2>1. UNCHANGED <<driver, sketch, twie, twea, twsta, transmitting>>
    BY <1>0, <1>4, BusLeaves DEF Bits, wireVars, txVars
  <2>2. UNCHANGED disturbed \/ disturbed' = (disturbed \/ pc # "idle")
    BY <1>4 DEF BusGoesOn, BusIsAddressed, BusStart, BusAddressAnswered, BusAddressRefused,
       BusByteAcked, BusByteRefused, BusByteRead, BusByteSentHere, BusLost, BusStop,
       BusByteReadHere, BusAddressed, history
  <2>3. disturbed \in BOOLEAN
    BY <1>0 DEF Bits
  <2>4. disturbed' \in BOOLEAN
    BY ONLY <2>2, <2>3
  <2> QED
    BY <1>0, <2>1, <2>4 DEF Bits, driver, sketch
<1> QED
  BY <1>1, <1>2, <1>3, <1>4 DEF Next

\* States, roles and calls stay in their sets.
LEMMA ModesStep ==
  ASSUME Inv, Next, Untimely = {}
  PROVE  Modes'
<1>0. Modes /\ Bits
  BY DEF Inv, Flags
<1>1. CASE SketchCalls
  BY <1>0, <1>1 DEF SketchCalls, BeginTransmission, Write, EndTransmission, RequestFrom, Enter, At,
     Read, Modes, PC, driver, sketch, twiVars
<1>2. CASE InCall
  BY <1>0, <1>2 DEF InCall, CallGoesOn, WaitReady, Setup, WriteTwcr, Addressing, ReturnWrite,
     ReadCopy, ReadReturn, EndOfCall, Modes, Mode, PC, Role, Busy, driver
<1>3. CASE HandlerRuns
  <2>1. UNCHANGED <<pc, call, foreign, twi_slarw>>
    BY <1>3, HandlerLeaves
  <2>2. twi_state' \in Mode
    BY <1>0, <1>3, HandlerDoes DEF Modes, Mode
  <2>3. role' \in {role, "none", "start", "mt_addr", "mr_addr"}
    BY <1>3, HandlerDoes DEF IsrStart, Addressing
  <2> QED
    BY <1>0, <2>1, <2>2, <2>3 DEF Modes, Role
<1>4. CASE BusGoesOn \/ BusIsAddressed
  <2>1. UNCHANGED <<pc, call, twi_state, twi_slarw>>
    BY <1>0, <1>4, BusLeaves DEF Bits, driver, sketch
  <2>2. role' \in Role /\ foreign' \in {foreign, foreign + 1} /\ (foreign' # foreign => foreign < MaxForeign)
    BY <1>0, <1>4 DEF BusGoesOn, BusIsAddressed, BusStart, BusAddressAnswered, BusAddressRefused,
       BusByteAcked, BusByteRefused, BusByteRead, BusByteSentHere, BusLost, BusStop,
       BusByteReadHere, BusAddressed, Modes, Role
  <2>3. foreign' \in 0 .. MaxForeign
    BY <1>0, <2>2, ForeignAssumption DEF Modes
  <2> QED
    BY <1>0, <2>1, <2>2, <2>3 DEF Modes
<1> QED
  BY <1>1, <1>2, <1>3, <1>4 DEF Next

\* So do error and outcome.
LEMMA ErrorsStep ==
  ASSUME Inv, Next, Untimely = {}
  PROVE  Errors'
<1>0. Errors /\ Bits
  BY DEF Inv, Flags
<1>1. CASE SketchCalls \/ InCall
  <2>1. twi_error' \in {twi_error, "none"} /\ outcome' \in {outcome, "unanswered"}
    BY <1>1 DEF SketchCalls, InCall, CallGoesOn, BeginTransmission, Write, EndTransmission,
       RequestFrom, Enter, Read, WaitReady, Setup, WriteTwcr, ReturnWrite, ReadCopy, ReadReturn,
       EndOfCall, twiVars, driver, history
  <2> QED
    BY <1>0, <2>1 DEF Errors, Error, Outcome
<1>2. CASE HandlerRuns
  <2>1. UNCHANGED outcome
    BY <1>2, HandlerLeaves DEF history
  <2>2. twi_error' \in Error
    BY <1>0, <1>2, HandlerDoes DEF IsrFailed, Isr, Errors, Error
  <2> QED
    BY <1>0, <2>1, <2>2 DEF Errors
<1>3. CASE BusGoesOn \/ BusIsAddressed
  <2>1. UNCHANGED twi_error
    BY <1>0, <1>3, BusLeaves DEF Bits, driver
  <2>2. outcome' \in {outcome, "answered", "address_refused", "data_refused", "lost"}
    BY <1>3 DEF BusGoesOn, BusIsAddressed, BusStart, BusAddressAnswered, BusAddressRefused,
       BusByteAcked, BusByteRefused, BusByteRead, BusByteSentHere, BusLost, BusStop,
       BusByteReadHere, BusAddressed, history
  <2> QED
    BY <1>0, <2>1, <2>2 DEF Errors, Outcome
<1> QED
  BY <1>1, <1>2, <1>3 DEF Next

\* What is pending goes with the role.
LEMMA StatusOKStep ==
  ASSUME Inv, Next, Untimely = {}
  PROVE  StatusOK'
<1>0. Flags /\ StatusOK /\ BusOK /\ ThreadOK
  BY DEF Inv, Flags
<1>1. ASSUME BeginTransmission PROVE StatusOK'
  BY <1>0, <1>1 DEF BeginTransmission, StatusOK, twcr, twiVars
<1>2. ASSUME Write PROVE StatusOK'
  BY <1>0, <1>2 DEF Write, StatusOK, twcr, twiVars
<1>3. ASSUME NEW stop \in BOOLEAN, EndTransmission(stop) PROVE StatusOK'
  BY <1>0, <1>3 DEF EndTransmission, Enter, StatusOK, twcr
<1>4. ASSUME NEW quantity \in Quantities, NEW stop \in BOOLEAN, RequestFrom(quantity, stop)
      PROVE  StatusOK'
  BY <1>0, <1>4 DEF RequestFrom, Enter, StatusOK, twcr
<1>5. ASSUME Read PROVE StatusOK'
  BY <1>0, <1>5 DEF Read, StatusOK, twcr, twiVars
<1>6. ASSUME WaitReady, UNCHANGED wireVars PROVE StatusOK'
  BY <1>0, <1>6 DEF WaitReady, StatusOK, twcr
<1>7. ASSUME Setup(SubSeq(txBuffer, 1, length)), UNCHANGED wireVars PROVE StatusOK'
  BY <1>0, <1>7 DEF Setup, StatusOK, twcr
<1>8. ASSUME WriteTwcr, UNCHANGED wireVars PROVE StatusOK'
  BY <1>0, <1>8 DEF WriteTwcr, At, Addressing, StatusOK, ThreadOK
<1>9. ASSUME ReturnWrite PROVE StatusOK'
  BY <1>0, <1>9 DEF ReturnWrite, StatusOK, twcr
<1>10. ASSUME ReadCopy PROVE StatusOK'
  BY <1>0, <1>10 DEF ReadCopy, StatusOK, twcr
<1>11. ASSUME ReadReturn PROVE StatusOK'
  BY <1>0, <1>11 DEF ReadReturn, StatusOK, twcr
<1>12. ASSUME SlaveStop PROVE StatusOK'
  BY <1>0, <1>12 DEF SlaveStop, IsrSlaveStop, OffTheBus, Reply, StatusOK
<1>13. ASSUME NEW answer \in Answers, SlaveTransmitter(answer) PROVE StatusOK'
  BY <1>0, <1>13 DEF SlaveTransmitter, IsrSlaveTransmitter, Isr, Reply, StatusOK
<1>14. ASSUME IsrStart, UNCHANGED wireVars PROVE StatusOK'
  BY <1>0, <1>14 DEF IsrStart, Reply, Addressing, StatusOK
<1>15. ASSUME IsrSend, UNCHANGED wireVars PROVE StatusOK'
  BY <1>0, <1>15 DEF IsrSend, Isr, Reply, StatusOK
<1>16. ASSUME IsrSentAll, UNCHANGED wireVars PROVE StatusOK'
  BY <1>0, <1>16 DEF IsrSentAll, EndOfTransaction, OffTheBus, Reply, StatusOK
<1>17. ASSUME IsrFailed, UNCHANGED wireVars PROVE StatusOK'
  BY <1>0, <1>17 DEF IsrFailed, OffTheBus, Reply, StatusOK
<1>18. ASSUME IsrReceive, UNCHANGED wireVars PROVE StatusOK'
  BY <1>0, <1>18 DEF IsrReceive, Isr, Reply, StatusOK
<1>19. ASSUME IsrReceiveLast, UNCHANGED wireVars PROVE StatusOK'
  BY <1>0, <1>19 DEF IsrReceiveLast, EndOfTransaction, OffTheBus, Reply, StatusOK
<1>20. ASSUME IsrSlaveReceiver, UNCHANGED wireVars PROVE StatusOK'
  BY <1>0, <1>20 DEF IsrSlaveReceiver, Isr, Reply, StatusOK
<1>21. ASSUME IsrSlaveData, UNCHANGED wireVars PROVE StatusOK'
  BY <1>0, <1>21 DEF IsrSlaveData, Isr, Reply, StatusOK
<1>22. ASSUME IsrSlaveDataNack, UNCHANGED wireVars PROVE StatusOK'
  BY <1>0, <1>22 DEF IsrSlaveDataNack, Reply, StatusOK
<1>23. ASSUME IsrRelease, UNCHANGED wireVars PROVE StatusOK'
  BY <1>0, <1>23 DEF IsrRelease, Reply, StatusOK, BusOK
<1>24. ASSUME IsrSlaveNext, UNCHANGED wireVars PROVE StatusOK'
  BY <1>0, <1>24 DEF IsrSlaveNext, Isr, Reply, StatusOK
<1>25. ASSUME IsrSlaveLast, UNCHANGED wireVars PROVE StatusOK'
  BY <1>0, <1>25 DEF IsrSlaveLast, OffTheBus, Reply, StatusOK
<1>26. ASSUME BusStart, UNCHANGED wireVars PROVE StatusOK'
  BY <1>0, <1>26 DEF BusStart, Report, StatusOK
<1>27. ASSUME BusAddressAnswered, UNCHANGED wireVars PROVE StatusOK'
  BY <1>0, <1>27 DEF BusAddressAnswered, Report, StatusOK
<1>28. ASSUME BusAddressRefused, UNCHANGED wireVars PROVE StatusOK'
  BY <1>0, <1>28 DEF BusAddressRefused, Report, StatusOK
<1>29. ASSUME BusByteAcked, UNCHANGED wireVars PROVE StatusOK'
  BY <1>0, <1>29 DEF BusByteAcked, Report, StatusOK
<1>30. ASSUME BusByteRefused, UNCHANGED wireVars PROVE StatusOK'
  BY <1>0, <1>30 DEF BusByteRefused, Report, StatusOK
<1>31. ASSUME BusByteRead, UNCHANGED wireVars PROVE StatusOK'
  BY <1>0, <1>31 DEF BusByteRead, Report, StatusOK
<1>32. ASSUME BusByteSentHere, UNCHANGED wireVars PROVE StatusOK'
  BY <1>0, <1>32 DEF BusByteSentHere, Report, StatusOK
<1>33. ASSUME NEW s \in {"ARB_LOST", "BUS_ERROR"}, BusLost(s), UNCHANGED wireVars PROVE StatusOK'
  BY <1>0, <1>33 DEF BusLost, Report, StatusOK, twint
<1>34. ASSUME BusStop, UNCHANGED wireVars PROVE StatusOK'
  BY <1>0, <1>34 DEF BusStop, Report, StatusOK
<1>35. ASSUME NEW more \in BOOLEAN, BusByteReadHere(more), UNCHANGED wireVars PROVE StatusOK'
  BY <1>0, <1>35 DEF BusByteReadHere, Report, StatusOK
<1>36. ASSUME NEW r \in {"sr", "st"}, BusAddressed(r), UNCHANGED wireVars PROVE StatusOK'
  BY <1>0, <1>36 DEF BusAddressed, Report, StatusOK
<1> QED
  BY <1>1, <1>2, <1>3, <1>4, <1>5, <1>6, <1>7, <1>8, <1>9, <1>10, <1>11, <1>12, <1>13, <1>14,
     <1>15, <1>16, <1>17, <1>18, <1>19, <1>20, <1>21, <1>22, <1>23, <1>24, <1>25, <1>26, <1>27,
     <1>28, <1>29, <1>30, <1>31, <1>32, <1>33, <1>34, <1>35, <1>36
  DEF Next, SketchCalls, InCall, CallGoesOn, HandlerRuns, BusGoesOn, BusIsAddressed

\* The role goes with the driver's state.
LEMMA BusOKStep ==
  ASSUME Inv, Next, Untimely = {}
  PROVE  BusOK'
<1>0. Flags /\ StatusOK /\ BusOK /\ ThreadOK
  BY DEF Inv, Flags
<1>1. ASSUME BeginTransmission PROVE BusOK'
  BY <1>0, <1>1 DEF BeginTransmission, BusOK, InProgress, Deafened, driver, twcr, sketch,
     history, twiVars
<1>2. ASSUME Write PROVE BusOK'
  BY <1>0, <1>2 DEF Write, BusOK, InProgress, Deafened, driver, twcr, sketch, history, twiVars
<1>3. ASSUME NEW stop \in BOOLEAN, EndTransmission(stop) PROVE BusOK'
  BY <1>0, <1>3 DEF EndTransmission, Enter, At, BusOK, InProgress, Deafened, driver, twcr,
     history
<1>4. ASSUME NEW quantity \in Quantities, NEW stop \in BOOLEAN, RequestFrom(quantity, stop)
      PROVE  BusOK'
  BY <1>0, <1>4 DEF RequestFrom, Enter, At, BusOK, InProgress, Deafened, driver, twcr, history
<1>5. ASSUME Read PROVE BusOK'
  BY <1>0, <1>5 DEF Read, BusOK, InProgress, Deafened, driver, twcr, sketch, history, twiVars
<1>6. ASSUME WaitReady, UNCHANGED wireVars PROVE BusOK'
  BY <1>0, <1>6 DEF WaitReady, At, BusOK, InProgress, driver, twcr
<1>7. ASSUME Setup(SubSeq(txBuffer, 1, length)), UNCHANGED wireVars PROVE BusOK'
  BY <1>0, <1>7 DEF Setup, At, BusOK, ThreadOK, InProgress, twcr
<1>8. ASSUME WriteTwcr, UNCHANGED wireVars PROVE BusOK'
  BY <1>0, <1>8 DEF WriteTwcr, At, Addressing, Flags, Modes, BusOK, ThreadOK, InProgress
<1>9. ASSUME ReturnWrite PROVE BusOK'
  BY <1>0, <1>9 DEF ReturnWrite, Done, At, EndOfCall, BusOK, InProgress, Deafened, driver, twcr
<1>10. ASSUME ReadCopy PROVE BusOK'
  BY <1>0, <1>10 DEF ReadCopy, Done, At, BusOK, InProgress, Deafened, driver, twcr, history
<1>11. ASSUME ReadReturn PROVE BusOK'
  BY <1>0, <1>11 DEF ReadReturn, At, EndOfCall, BusOK, InProgress, Deafened, driver, twcr
<1>12. ASSUME SlaveStop PROVE BusOK'
  BY <1>0, <1>12 DEF SlaveStop, IsrSlaveStop, Isr, OffTheBus, Reply, BusOK
<1>13. ASSUME NEW answer \in Answers, SlaveTransmitter(answer) PROVE BusOK'
  BY <1>0, <1>13 DEF SlaveTransmitter, IsrSlaveTransmitter, Isr, Reply, Flags, Modes, StatusOK,
     BusOK, Role, sketch
<1>14. ASSUME IsrStart, UNCHANGED wireVars PROVE BusOK'
  BY <1>0, <1>14 DEF IsrStart, Isr, Reply, Addressing, Flags, Modes, BusOK, ThreadOK, InProgress,
     driver, sketch
<1>15. ASSUME IsrSend, UNCHANGED wireVars PROVE BusOK'
  BY <1>0, <1>15 DEF IsrSend, Isr, Reply, StatusOK, BusOK, InProgress, sketch
<1>16. ASSUME IsrSentAll, UNCHANGED wireVars PROVE BusOK'
  BY <1>0, <1>16 DEF IsrSentAll, Isr, EndOfTransaction, OffTheBus, Reply, BusOK, sketch
<1>17. ASSUME IsrFailed, UNCHANGED wireVars PROVE BusOK'
  BY <1>0, <1>17 DEF IsrFailed, Isr, OffTheBus, Reply, BusOK
<1>18. ASSUME IsrReceive, UNCHANGED wireVars PROVE BusOK'
  BY <1>0, <1>18 DEF IsrReceive, Isr, Reply, Flags, Modes, StatusOK, BusOK, InProgress, Role,
     sketch
<1>19. ASSUME IsrReceiveLast, UNCHANGED wireVars PROVE BusOK'
  BY <1>0, <1>19 DEF IsrReceiveLast, Isr, EndOfTransaction, OffTheBus, Reply, BusOK, sketch
<1>20. ASSUME IsrSlaveReceiver, UNCHANGED wireVars PROVE BusOK'
  BY <1>0, <1>20 DEF IsrSlaveReceiver, Isr, Reply, StatusOK, BusOK, sketch
<1>21. ASSUME IsrSlaveData, UNCHANGED wireVars PROVE BusOK'
  BY <1>0, <1>21 DEF IsrSlaveData, Isr, Reply, Flags, Modes, StatusOK, BusOK, Role, sketch
<1>22. ASSUME IsrSlaveDataNack, UNCHANGED wireVars PROVE BusOK'
  <2>1. role = "sr" /\ twi_state = "SRX" /\ Len(incoming) > L + 1
    BY <1>0, <1>22 DEF IsrSlaveDataNack, Isr, Flags, Modes, StatusOK, BusOK, Role, ReceiverOK, Inv
  <2> QED
    BY <1>0, <1>22, <2>1
    DEF IsrSlaveDataNack, Isr, Reply, StatusOK, BusOK, ThreadOK, InProgress, Deafened, Busy, L,
        driver, history, sketch
<1>23. ASSUME IsrRelease, UNCHANGED wireVars PROVE BusOK'
  BY <1>0, <1>23 DEF IsrRelease, Reply, StatusOK, BusOK
<1>24. ASSUME IsrSlaveNext, UNCHANGED wireVars PROVE BusOK'
  BY <1>0, <1>24 DEF IsrSlaveNext, Isr, Reply, Flags, Modes, StatusOK, BusOK, Role, sketch
<1>25. ASSUME IsrSlaveLast, UNCHANGED wireVars PROVE BusOK'
  BY <1>0, <1>25 DEF IsrSlaveLast, Isr, OffTheBus, Reply, BusOK
<1>26. ASSUME BusStart, UNCHANGED wireVars PROVE BusOK'
  BY <1>0, <1>26 DEF BusStart, Report, BusOK, InProgress, driver, sketch, twint
<1>27. ASSUME BusAddressAnswered, UNCHANGED wireVars PROVE BusOK'
  BY <1>0, <1>27 DEF BusAddressAnswered, Report, BusOK, InProgress, driver, sketch, twint
<1>28. ASSUME BusAddressRefused, UNCHANGED wireVars PROVE BusOK'
  BY <1>0, <1>28 DEF BusAddressRefused, Report, BusOK, InProgress, driver, sketch, twint
<1>29. ASSUME BusByteAcked, UNCHANGED wireVars PROVE BusOK'
  BY <1>0, <1>29 DEF BusByteAcked, Report, BusOK, InProgress, driver, sketch, twint
<1>30. ASSUME BusByteRefused, UNCHANGED wireVars PROVE BusOK'
  BY <1>0, <1>30 DEF BusByteRefused, Report, BusOK, InProgress, driver, sketch, twint
<1>31. ASSUME BusByteRead, UNCHANGED wireVars PROVE BusOK'
  BY <1>0, <1>31 DEF BusByteRead, Report, BusOK, InProgress, driver, sketch, twint
<1>32. ASSUME BusByteSentHere, UNCHANGED wireVars PROVE BusOK'
  BY <1>0, <1>32 DEF BusByteSentHere, Report, BusOK, driver, sketch, twint
<1>33. ASSUME NEW s \in {"ARB_LOST", "BUS_ERROR"}, BusLost(s), UNCHANGED wireVars PROVE BusOK'
  BY <1>0, <1>33 DEF BusLost, Report, BusOK, InProgress, driver, sketch, twint
<1>34. ASSUME BusStop, UNCHANGED wireVars PROVE BusOK'
  BY <1>0, <1>34 DEF BusStop, Report, BusOK, driver, sketch, twint
<1>35. ASSUME NEW more \in BOOLEAN, BusByteReadHere(more), UNCHANGED wireVars PROVE BusOK'
  BY <1>0, <1>35 DEF BusByteReadHere, Report, BusOK, driver, sketch, twint
<1>36. ASSUME NEW r \in {"sr", "st"}, BusAddressed(r), UNCHANGED wireVars PROVE BusOK'
  BY <1>0, <1>36 DEF BusAddressed, Report, BusOK, driver, sketch, twint
<1> QED
  BY <1>1, <1>2, <1>3, <1>4, <1>5, <1>6, <1>7, <1>8, <1>9, <1>10, <1>11, <1>12, <1>13, <1>14,
     <1>15, <1>16, <1>17, <1>18, <1>19, <1>20, <1>21, <1>22, <1>23, <1>24, <1>25, <1>26, <1>27,
     <1>28, <1>29, <1>30, <1>31, <1>32, <1>33, <1>34, <1>35, <1>36
  DEF Next, SketchCalls, InCall, CallGoesOn, HandlerRuns, BusGoesOn, BusIsAddressed

\* The thread's place goes with the driver's state.
LEMMA ThreadOKStep ==
  ASSUME Inv, Next, Untimely = {}
  PROVE  ThreadOK'
<1>0. Flags /\ StatusOK /\ BusOK /\ ThreadOK
  BY DEF Inv, Flags
<1>1. ASSUME BeginTransmission PROVE ThreadOK'
  BY <1>0, <1>1 DEF BeginTransmission, At, ThreadOK, InProgress, driver, sketch, history, twiVars
<1>2. ASSUME Write PROVE ThreadOK'
  BY <1>0, <1>2 DEF Write, At, ThreadOK, InProgress, driver, sketch, history, twiVars
<1>3. ASSUME NEW stop \in BOOLEAN, EndTransmission(stop) PROVE ThreadOK'
  BY <1>0, <1>3 DEF EndTransmission, Enter, At, BusOK, ThreadOK, InProgress, driver, twcr,
     history, twint
<1>4. ASSUME NEW quantity \in Quantities, NEW stop \in BOOLEAN, RequestFrom(quantity, stop)
      PROVE  ThreadOK'
  BY <1>0, <1>4 DEF RequestFrom, Enter, At, BusOK, ThreadOK, InProgress, driver, twcr, history,
     twint
<1>5. ASSUME Read PROVE ThreadOK'
  BY <1>0, <1>5 DEF Read, At, ThreadOK, InProgress, driver, sketch, history, twiVars
<1>6. ASSUME WaitReady, UNCHANGED wireVars PROVE ThreadOK'
  BY <1>0, <1>6 DEF WaitReady, At, Flags, Modes, StatusOK, BusOK, ThreadOK, InProgress, Role,
     driver, twcr, history, twint
<1>7. ASSUME Setup(SubSeq(txBuffer, 1, length)), UNCHANGED wireVars PROVE ThreadOK'
  BY <1>0, <1>7 DEF Setup, At, ThreadOK, twcr, history
<1>8. ASSUME WriteTwcr, UNCHANGED wireVars PROVE ThreadOK'
  BY <1>0, <1>8 DEF WriteTwcr, At, Addressing, ThreadOK
<1>9. ASSUME ReturnWrite PROVE ThreadOK'
  BY <1>0, <1>9 DEF ReturnWrite, Done, EndOfCall, ThreadOK, InProgress, driver
<1>10. ASSUME ReadCopy PROVE ThreadOK'
  BY <1>0, <1>10 DEF ReadCopy, Done, At, ThreadOK, InProgress, driver, twcr, history
<1>11. ASSUME ReadReturn PROVE ThreadOK'
  BY <1>0, <1>11 DEF ReadReturn, At, EndOfCall, ThreadOK, InProgress, driver
<1>12. ASSUME SlaveStop PROVE ThreadOK'
  BY <1>0, <1>12 DEF SlaveStop, IsrSlaveStop, Isr, OffTheBus, Reply, StatusOK, BusOK, ThreadOK,
     InProgress, Busy, history
<1>13. ASSUME NEW answer \in Answers, SlaveTransmitter(answer) PROVE ThreadOK'
  BY <1>0, <1>13 DEF SlaveTransmitter, IsrSlaveTransmitter, Isr, StatusOK, BusOK, ThreadOK,
     InProgress, Busy, sketch, history
<1>14. ASSUME IsrStart, UNCHANGED wireVars PROVE ThreadOK'
  BY <1>0, <1>14 DEF IsrStart, Isr, Reply, Addressing, BusOK, ThreadOK, InProgress, driver,
     sketch
<1>15. ASSUME IsrSend, UNCHANGED wireVars PROVE ThreadOK'
  BY <1>0, <1>15 DEF IsrSend, Reply, ThreadOK, InProgress, sketch, history
<1>16. ASSUME IsrSentAll, UNCHANGED wireVars PROVE ThreadOK'
  BY <1>0, <1>16 DEF IsrSentAll, Isr, EndOfTransaction, OffTheBus, Reply, StatusOK, BusOK,
     ThreadOK, InProgress, Busy, sketch, history
<1>17. ASSUME IsrFailed, UNCHANGED wireVars PROVE ThreadOK'
  BY <1>0, <1>17 DEF IsrFailed, Isr, OffTheBus, Reply, StatusOK, BusOK, ThreadOK, InProgress,
     Busy, sketch, history
<1>18. ASSUME IsrReceive, UNCHANGED wireVars PROVE ThreadOK'
  BY <1>0, <1>18 DEF IsrReceive, Reply, ThreadOK, InProgress, sketch, history
<1>19. ASSUME IsrReceiveLast, UNCHANGED wireVars PROVE ThreadOK'
  BY <1>0, <1>19 DEF IsrReceiveLast, Isr, EndOfTransaction, OffTheBus, Reply, StatusOK, BusOK,
     ThreadOK, InProgress, Busy, sketch, history
<1>20. ASSUME IsrSlaveReceiver, UNCHANGED wireVars PROVE ThreadOK'
  BY <1>0, <1>20 DEF IsrSlaveReceiver, Isr, Reply, StatusOK, BusOK, ThreadOK, InProgress, Busy,
     sketch, history
<1>21. ASSUME IsrSlaveData, UNCHANGED wireVars PROVE ThreadOK'
  BY <1>0, <1>21 DEF IsrSlaveData, Reply, ThreadOK, InProgress, sketch, history
<1>22. ASSUME IsrSlaveDataNack, UNCHANGED wireVars PROVE ThreadOK'
  BY <1>0, <1>22 DEF IsrSlaveDataNack, Reply, ThreadOK, InProgress, driver, sketch, history
<1>23. ASSUME IsrRelease, UNCHANGED wireVars PROVE ThreadOK'
  BY <1>0, <1>23 DEF IsrRelease, Reply, ThreadOK, InProgress, Busy, history
<1>24. ASSUME IsrSlaveNext, UNCHANGED wireVars PROVE ThreadOK'
  BY <1>0, <1>24 DEF IsrSlaveNext, Reply, ThreadOK, InProgress, sketch, history
<1>25. ASSUME IsrSlaveLast, UNCHANGED wireVars PROVE ThreadOK'
  BY <1>0, <1>25 DEF IsrSlaveLast, Isr, OffTheBus, Reply, StatusOK, BusOK, ThreadOK, InProgress,
     Busy, sketch, history
<1>26. ASSUME BusStart, UNCHANGED wireVars PROVE ThreadOK'
  BY <1>0, <1>26 DEF BusStart, Report, BusOK, ThreadOK, InProgress, driver, sketch
<1>27. ASSUME BusAddressAnswered, UNCHANGED wireVars PROVE ThreadOK'
  BY <1>0, <1>27 DEF BusAddressAnswered, Report, BusOK, ThreadOK, InProgress, driver, sketch
<1>28. ASSUME BusAddressRefused, UNCHANGED wireVars PROVE ThreadOK'
  BY <1>0, <1>28 DEF BusAddressRefused, Report, BusOK, ThreadOK, InProgress, driver, sketch
<1>29. ASSUME BusByteAcked, UNCHANGED wireVars PROVE ThreadOK'
  BY <1>0, <1>29 DEF BusByteAcked, Report, BusOK, ThreadOK, InProgress, driver, sketch
<1>30. ASSUME BusByteRefused, UNCHANGED wireVars PROVE ThreadOK'
  BY <1>0, <1>30 DEF BusByteRefused, Report, BusOK, ThreadOK, InProgress, driver, sketch
<1>31. ASSUME BusByteRead, UNCHANGED wireVars PROVE ThreadOK'
  BY <1>0, <1>31 DEF BusByteRead, Report, BusOK, ThreadOK, InProgress, driver, sketch
<1>32. ASSUME BusByteSentHere, UNCHANGED wireVars PROVE ThreadOK'
  BY <1>0, <1>32 DEF BusByteSentHere, Report, ThreadOK, InProgress, driver, sketch
<1>33. ASSUME NEW s \in {"ARB_LOST", "BUS_ERROR"}, BusLost(s), UNCHANGED wireVars PROVE ThreadOK'
  BY <1>0, <1>33 DEF BusLost, Report, Flags, Modes, StatusOK, BusOK, ThreadOK, InProgress, Role,
     driver, sketch, twint
<1>34. ASSUME BusStop, UNCHANGED wireVars PROVE ThreadOK'
  BY <1>0, <1>34 DEF BusStop, Report, ThreadOK, InProgress, driver, sketch, history
<1>35. ASSUME NEW more \in BOOLEAN, BusByteReadHere(more), UNCHANGED wireVars PROVE ThreadOK'
  BY <1>0, <1>35 DEF BusByteReadHere, Report, ThreadOK, InProgress, driver, sketch
<1>36. ASSUME NEW r \in {"sr", "st"}, BusAddressed(r), UNCHANGED wireVars PROVE ThreadOK'
  BY <1>0, <1>36 DEF BusAddressed, Report, ThreadOK, InProgress, driver, sketch
<1> QED
  BY <1>1, <1>2, <1>3, <1>4, <1>5, <1>6, <1>7, <1>8, <1>9, <1>10, <1>11, <1>12, <1>13, <1>14,
     <1>15, <1>16, <1>17, <1>18, <1>19, <1>20, <1>21, <1>22, <1>23, <1>24, <1>25, <1>26, <1>27,
     <1>28, <1>29, <1>30, <1>31, <1>32, <1>33, <1>34, <1>35, <1>36
  DEF Next, SketchCalls, InCall, CallGoesOn, HandlerRuns, BusGoesOn, BusIsAddressed

-----------------------------------------------------------------------------
(* The data *)

\* The message is on its way until endTransmission() returns, or disturbed.
LEMMA MessageStep ==
  ASSUME Inv, Next, Untimely = {}
  PROVE  MessageOK'
<1>0. /\ Bits /\ Modes /\ StatusOK /\ BusOK /\ ThreadOK /\ MessageOK
      /\ twi_masterBufferIndex \in 0 .. L
  BY DEF Inv, Flags, MasterOK
<1>types. /\ L \in 1 .. 255 /\ Len(txBuffer) \in Nat /\ << >> \in Seq(Byte) /\ Len(<< >>) = 0
          /\ disturbed \in BOOLEAN
  BY <1>0, Sizes, NoBytes, LenProperties DEF MessageOK, Bits
<1>kept. ASSUME UNCHANGED <<txBuffer, txBufferLength, message, length, call, pc>>,
                disturbed => disturbed', call = "write" => UNCHANGED twi_masterBuffer
         PROVE  MessageOK'
  BY <1>0, <1>kept DEF MessageOK
<1>1. CASE BeginTransmission
  BY <1>0, <1>types, <1>1 DEF BeginTransmission, At, MessageOK, twiVars, sketch
<1>2. CASE Write
  <2> DEFINE n == txBufferLength
             s == SubSeq(txBuffer, 1, n)
  <2>1. n \in 0 .. Len(txBuffer) /\ n + 1 \in 1 .. L
    <3>1. n \in 0 .. L /\ n <= Len(txBuffer)
      BY <1>0 DEF MessageOK
    <3>2. n < L
      BY <1>2 DEF Write, L
    <3>3. L \in Nat /\ Len(txBuffer) \in Nat
      BY <1>types
    <3> HIDE DEF n
    <3> QED
      BY ONLY <3>1, <3>2, <3>3
  <2>2. PICK c \in Message[n + 1] : txBuffer' = Append(s, c)
    BY <1>2 DEF Write
  <2>3. c \in Byte
    <3> HIDE DEF n
    <3> QED
      BY <2>1, <2>2, Sizes
  <2>4. s \in Seq(Byte) /\ Len(s) = n
    BY <1>0, <2>1, FirstBytes DEF MessageOK
  <2> HIDE DEF s
  <2>5. txBuffer' \in Seq(Byte) /\ Len(txBuffer') = n + 1
    BY <2>2, <2>3, <2>4, OneByteMore
  <2> QED
    BY <1>0, <1>types, <1>2, <2>1, <2>5 DEF Write, At, MessageOK, twiVars, sketch
<1>3. ASSUME NEW stop \in BOOLEAN, EndTransmission(stop) PROVE MessageOK'
  <2>1. txBufferLength \in 0 .. Len(txBuffer)
    BY <1>0, <1>types DEF MessageOK
  <2>2. SubSeq(txBuffer, 1, txBufferLength) \in Seq(Byte)
    BY <1>0, <2>1, FirstBytes DEF MessageOK
  <2> QED
    BY <1>0, <1>types, <1>3, <2>1, <2>2 DEF EndTransmission, Enter, At, MessageOK, txVars
<1>4. ASSUME NEW quantity \in Quantities, NEW stop \in BOOLEAN, RequestFrom(quantity, stop)
      PROVE  MessageOK'
  <2>1. length' \in 0 .. L
    <3>1. quantity \in Nat
      BY Sizes
    <3>2. length' = IF quantity > L THEN L ELSE quantity
      BY <1>4 DEF RequestFrom, Enter, L
    <3> QED
      BY <1>types, <3>1, <3>2
  <2> QED
    BY <1>0, <1>4, <2>1 DEF RequestFrom, Enter, At, MessageOK, wireVars, txVars
<1>5. CASE WaitReady /\ UNCHANGED wireVars
  BY <1>0, <1>5 DEF WaitReady, At, MessageOK, wireVars, txVars, driver, masterVars, history
<1>6. CASE Setup(SubSeq(txBuffer, 1, length)) /\ UNCHANGED wireVars
  BY <1>0, <1>6 DEF Setup, At, MessageOK, wireVars, txVars, history
<1>7. CASE WriteTwcr /\ UNCHANGED wireVars
  BY <1>0, <1>7 DEF WriteTwcr, At, MessageOK, wireVars, txVars, masterVars, history
<1>8. CASE ReturnWrite
  BY <1>0, <1>types, <1>8 DEF ReturnWrite, EndOfCall, MessageOK
<1>9. CASE ReadCopy
  <2>1. length' \in 0 .. L
    BY <1>0, <1>types, <1>9 DEF ReadCopy, Received, MessageOK
  <2> QED
    BY <1>0, <1>9, <2>1 DEF ReadCopy, MessageOK, txVars
<1>10. CASE ReadReturn
  BY <1>0, <1>types, <1>10 DEF ReadReturn, EndOfCall, MessageOK, txVars
<1>11. CASE Read
  BY <1>11, <1>kept DEF Read, twiVars, sketch, txVars, driver, masterVars, history
<1>12. ASSUME NEW answer \in Answers, SlaveTransmitter(answer) PROVE MessageOK'
  <2>1. UNCHANGED <<pc, call, length, disturbed, message, twi_masterBuffer>> /\ status = "ST_SLA_ACK"
    BY <1>12 DEF SlaveTransmitter, IsrSlaveTransmitter, Isr, sketch, history, masterVars
  <2>2. /\ txBuffer' \in Seq(Byte) /\ Len(txBuffer') >= Len(txBuffer)
        /\ txBufferLength' \in 0 .. L /\ txBufferLength' <= Len(txBuffer')
    <3> DEFINE b == Overlay(txBuffer, answer)
    <3>1. answer \in Seq(Byte) /\ Len(answer) \in 0 .. L
      BY <1>12, Sizes
    <3>2. b \in Seq(Byte) /\ Len(b) \in Nat /\ Len(b) >= Len(txBuffer) /\ Len(b) >= Len(answer)
      BY <1>0, <3>1, OverlayIs DEF MessageOK
    <3>3. \/ UNCHANGED <<txBuffer, txBufferLength>>
          \/ txBufferLength' = 0 /\ txBuffer' = txBuffer
          \/ txBufferLength' = Len(answer) /\ txBuffer' = b
      BY <1>12 DEF SlaveTransmitter, onRequestService
    <3> HIDE DEF b
    <3> QED
      BY <1>0, <1>types, <3>1, <3>2, <3>3 DEF MessageOK
  <2>3. pc = "idle" \/ disturbed
    BY <1>0, <2>1 DEF ThreadOK
  <2>4. Len(txBuffer') \in Nat
    BY <2>2, LenProperties
  <2> QED
    BY <1>0, <1>types, <2>1, <2>2, <2>3, <2>4 DEF MessageOK
<1>13. CASE HandlerRuns /\ \A answer \in Answers : ~SlaveTransmitter(answer)
  <2>1. UNCHANGED <<txBuffer, txBufferLength>>
    BY <1>13 DEF HandlerRuns, SlaveStop, wireVars, txVars
  <2>2. call = "write" => UNCHANGED twi_masterBuffer
    <3>1. CASE IsrReceive \/ IsrReceiveLast
      <4>1. status \in {"MR_SLA_ACK", "MR_DATA_ACK", "MR_DATA_NACK"}
        BY <3>1 DEF IsrReceive, IsrReceiveLast, Isr
      <4> QED
        BY <1>0, <4>1 DEF StatusOK, BusOK, Modes, Role
    <3>2. CASE ~(IsrReceive \/ IsrReceiveLast)
      BY <1>13, <3>2 DEF HandlerRuns, SlaveStop, IsrStart, IsrSend, IsrSentAll, IsrFailed,
         IsrSlaveReceiver, IsrSlaveData, IsrSlaveDataNack, IsrRelease, IsrSlaveNext,
         IsrSlaveLast, IsrSlaveStop, driver, masterVars
    <3> QED
      BY <3>1, <3>2
  <2> QED
    BY <1>13, <1>kept, <2>1, <2>2, HandlerLeaves DEF history
<1>14. CASE (BusGoesOn \/ BusIsAddressed) /\ UNCHANGED wireVars
  BY <1>14, <1>types, <1>kept, BusLeaves DEF sketch, driver, masterVars, wireVars, txVars
<1> QED
  BY <1>1, <1>2, <1>3, <1>4, <1>5, <1>6, <1>7, <1>8, <1>9, <1>10, <1>11, <1>12, <1>13, <1>14
  DEF Next, SketchCalls, InCall, CallGoesOn

\* Nothing moves before the remote device has answered.
LEMMA StartStep ==
  ASSUME Inv, Next, Untimely = {}
  PROVE  StartOK'
<1> DEFINE Before(r) == r \in {"none", "start", "mt_addr", "mr_addr"}
<1>0. Modes /\ StatusOK /\ BusOK /\ ThreadOK /\ StartOK
  BY DEF Inv, Flags
<1>kept. ASSUME UNCHANGED <<twi_masterBufferIndex, acked, fetched>>, pc' # "twcr",
                InProgress' /\ Before(role') => InProgress /\ Before(role)
         PROVE  StartOK'
  BY <1>0, <1>kept DEF StartOK
<1>1. CASE pc' # "twcr" /\ ~InProgress'
  BY <1>1 DEF StartOK
<1>2. CASE SketchCalls \/ InCall
  <2>1. CASE Setup(SubSeq(txBuffer, 1, length))
    BY <1>0, <2>1 DEF Setup, At, StartOK, ThreadOK, history, InProgress
  <2>2. CASE WriteTwcr
    BY <1>0, <2>2 DEF WriteTwcr, At, StartOK, ThreadOK, history, masterVars
  <2>3. CASE pc' # "twcr" /\ ~InProgress'
    BY <1>1, <2>3
  <2> QED
    BY <1>2, <2>1, <2>2, <2>3 DEF SketchCalls, InCall, CallGoesOn, BeginTransmission, Write,
       EndTransmission, RequestFrom, Enter, Read, WaitReady, ReturnWrite, ReadCopy, ReadReturn,
       EndOfCall, At, InProgress, twiVars, sketch
<1>3. CASE HandlerRuns
  <2>1. pc' = pc /\ UNCHANGED <<call, acked, fetched>> /\ pc # "twcr"
    <3>1. ~(pc = "twcr")
      BY <1>0, <1>3 DEF HandlerRuns, ThreadOK, StatusOK, BusOK, Modes, SlaveStop, SlaveTransmitter,
         IsrStart, IsrSend, IsrSentAll, IsrFailed, IsrReceive, IsrReceiveLast, IsrSlaveReceiver,
         IsrSlaveData, IsrSlaveDataNack, IsrRelease, IsrSlaveNext, IsrSlaveLast, IsrSlaveStop,
         IsrSlaveTransmitter, Isr, twint
    <3> QED
      BY <1>3, <3>1, HandlerLeaves DEF history
  <2>2. CASE IsrStart
    BY <1>0, <1>kept, <2>1, <2>2 DEF IsrStart, Isr, Addressing, StatusOK, BusOK, Modes, Role,
       InProgress, driver, masterVars
  <2>3. CASE IsrSend \/ IsrReceive
    <3>1. status \in {"MT_SLA_ACK", "MT_DATA_ACK", "MR_SLA_ACK", "MR_DATA_ACK"} /\ UNCHANGED role
      BY <2>3 DEF IsrSend, IsrReceive, Isr
    <3>2. role \in {"mt", "mr"}
      BY <1>0, <3>1 DEF StatusOK, Modes, Role
    <3> QED
      BY <2>1, <3>1, <3>2 DEF StartOK
  <2>4. CASE ~IsrStart /\ ~IsrSend /\ ~IsrReceive
    <3>1. CASE twi_state' \in {"READY", "SRX", "STX"}
      BY <1>1, <2>1, <3>1 DEF InProgress, Busy
    <3>2. CASE IsrSlaveData \/ IsrSlaveNext \/ IsrSlaveDataNack
      <4>1. /\ status \in {"SR_DATA_ACK", "SR_DATA_NACK", "ST_DATA_ACK"} /\ UNCHANGED twi_state
        BY <3>2 DEF IsrSlaveData, IsrSlaveNext, IsrSlaveDataNack, Isr, driver
      <4>2. twi_state \in {"SRX", "STX"}
        BY <1>0, <4>1 DEF StatusOK, BusOK, Modes, Role
      <4> QED
        BY <1>1, <2>1, <4>1, <4>2 DEF InProgress, Busy
    <3> QED
      BY <1>3, <2>4, <3>1, <3>2 DEF HandlerRuns, SlaveStop, SlaveTransmitter, IsrSentAll, IsrFailed,
         IsrReceiveLast, IsrSlaveReceiver, IsrRelease, IsrSlaveLast, IsrSlaveStop,
         IsrSlaveTransmitter, EndOfTransaction, OffTheBus
  <2> QED
    BY <2>2, <2>3, <2>4
<1>4. CASE BusGoesOn \/ BusIsAddressed
  <2>1. UNCHANGED <<pc, call, twi_state, twi_masterBufferIndex>> /\ ~twint
    BY <1>4, BusLeaves, <1>0 DEF Inv, Flags, Bits, driver, masterVars, sketch,
       BusGoesOn, BusIsAddressed, BusStart, BusAddressAnswered, BusAddressRefused, BusByteAcked,
       BusByteRefused, BusByteRead, BusByteSentHere, BusLost, BusStop, BusByteReadHere,
       BusAddressed, Report
  <2>2. CASE BusStart
    BY <1>0, <1>kept, <2>1, <2>2 DEF BusStart, BusOK, ThreadOK, InProgress, history
  <2>3. CASE BusByteAcked \/ BusByteRead
    BY <1>0, <2>1, <2>3 DEF BusByteAcked, BusByteRead, BusOK, ThreadOK, StartOK, InProgress
  <2>4. CASE ~BusStart /\ ~BusByteAcked /\ ~BusByteRead
    <3>1. UNCHANGED <<acked, fetched>>
      BY <1>4, <2>4 DEF BusGoesOn, BusIsAddressed, BusAddressAnswered, BusAddressRefused,
         BusByteRefused, BusByteSentHere, BusLost, BusStop, BusByteReadHere, BusAddressed, history
    <3>2. Before(role') => Before(role)
      BY <1>4, <2>4 DEF BusGoesOn, BusIsAddressed, BusAddressAnswered, BusAddressRefused,
         BusByteRefused, BusByteSentHere, BusLost, BusStop, BusByteReadHere, BusAddressed
    <3> QED
      BY <1>0, <2>1, <3>1, <3>2 DEF StartOK, InProgress
  <2> QED
    BY <2>2, <2>3, <2>4
<1> QED
  BY <1>2, <1>3, <1>4 DEF Next

\* The master's buffer is never left, and what is written into it is bytes.
LEMMA MasterStep ==
  ASSUME Inv, Next, Untimely = {}
  PROVE  MasterOK'
<1>0. Bits /\ Modes /\ StatusOK /\ BusOK /\ ThreadOK /\ MessageOK /\ MasterOK /\ WriteOK /\ ReadOK
      /\ AnswerOK
  BY DEF Inv, Flags
<1>types. /\ L \in 1 .. 255 /\ Len(twi_masterBuffer) \in Nat /\ << >> \in Seq(Byte)
          /\ Len(<< >>) = 0
  BY <1>0, Sizes, NoBytes, LenProperties DEF MasterOK
<1>kept. ASSUME UNCHANGED <<masterVars, acked, fetched, twdr>> PROVE MasterOK'
  BY <1>0, <1>kept DEF MasterOK, masterVars
<1>1. CASE Setup(SubSeq(txBuffer, 1, length))
  <2>1. length \in 0 .. L /\ (call = "read" => length > 0)
        /\ (call = "write" => length <= Len(txBuffer))
    BY <1>0, <1>1 DEF MessageOK, ReadOK, Setup, At, Modes
  <2>2. twi_masterBuffer' \in Seq(Byte) /\ Len(twi_masterBuffer') <= L
    <3>1. CASE call = "write"
      <4>1. txBuffer \in Seq(Byte) /\ length \in 0 .. Len(txBuffer)
        BY <1>0, <1>types, <2>1, <3>1, LenProperties DEF MessageOK
      <4>2. SubSeq(txBuffer, 1, length) \in Seq(Byte) /\ Len(SubSeq(txBuffer, 1, length)) = length
        BY <4>1, FirstBytes
      <4> QED
        BY <1>1, <1>types, <2>1, <3>1, <4>2 DEF Setup
    <3>2. CASE call # "write"
      BY <1>1, <1>types, <3>2 DEF Setup
    <3> QED
      BY <3>1, <3>2
  <2>3. twi_masterBufferLength' \in 0 .. L
    <3>1. CASE call = "write"
      BY <1>1, <2>1, <3>1 DEF Setup
    <3>2. CASE call # "write"
      <4>1. length \in 1 .. 255 /\ length <= L
        BY <1>0, <1>types, <2>1, <3>2 DEF Modes
      <4>2. (length - 1) % 256 = length - 1
        BY ONLY <4>1
      <4> QED
        BY <1>1, <1>types, <3>2, <4>1, <4>2 DEF Setup
    <3> QED
      BY <3>1, <3>2
  <2> QED
    BY <1>0, <1>1, <1>types, <2>2, <2>3 DEF Setup, MasterOK, history
<1>2. CASE SketchCalls \/ (InCall /\ ~Setup(SubSeq(txBuffer, 1, length)))
  <2>1. UNCHANGED <<masterVars, twdr>> /\ acked' \in {acked, << >>} /\ fetched' \in {fetched, << >>}
    BY <1>2 DEF SketchCalls, InCall, CallGoesOn, BeginTransmission, Write, EndTransmission,
       RequestFrom, Enter, Read, WaitReady, WriteTwcr, ReturnWrite, ReadCopy, ReadReturn,
       EndOfCall, twiVars, driver, history
  <2> QED
    BY <1>0, <1>types, <2>1 DEF MasterOK, masterVars
<1>3. CASE IsrSend
  <2>1. twi_masterBufferIndex < twi_masterBufferLength /\ status \in {"MT_SLA_ACK", "MT_DATA_ACK"}
    BY <1>3 DEF IsrSend, Isr
  <2>2. Len(twi_masterBuffer) = twi_masterBufferLength
    BY <1>0, <2>1 DEF WriteOK, StatusOK, BusOK, Modes, Role, InProgress
  <2>3. twi_masterBufferIndex + 1 \in 1 .. Len(twi_masterBuffer)
    BY <1>0, <1>types, <2>1, <2>2 DEF MasterOK
  <2>4. twdr' \in Byte
    BY <1>0, <1>3, <2>3, ElementOfSeq DEF IsrSend, MasterOK
  <2> QED
    BY <1>0, <1>3, <1>types, <2>2, <2>3, <2>4 DEF IsrSend, MasterOK, history
<1>4. CASE IsrReceive \/ IsrReceiveLast
  <2>1. CASE UNCHANGED <<twi_masterBuffer, twi_masterBufferIndex>>
    BY <1>0, <1>4, <1>kept, <2>1 DEF IsrReceive, IsrReceiveLast, masterVars, history
  <2>2. CASE status \in {"MR_DATA_ACK", "MR_DATA_NACK"} /\ Keep
    <3>1. pc = "wait_done" /\ call = "read"
      BY <1>0, <2>2 DEF StatusOK, BusOK, Modes, Role, InProgress
    <3>2. /\ length \in 0 .. L /\ twi_masterBufferLength = length - 1
          /\ twi_masterBufferIndex <= twi_masterBufferLength
          /\ twi_masterBufferIndex = Len(twi_masterBuffer)
      BY <1>0, <2>2, <3>1 DEF ReadOK, MessageOK, MasterOK
    <3>3. twi_masterBuffer' \in Seq(Byte) /\ Len(twi_masterBuffer') = Len(twi_masterBuffer) + 1
      BY <1>0, <2>2, OneByteMore DEF Keep, MasterOK
    <3>4. UNCHANGED <<twi_masterBufferLength, acked, fetched, twdr>>
          /\ twi_masterBufferIndex' = twi_masterBufferIndex + 1
      BY <1>4, <2>2 DEF IsrReceive, IsrReceiveLast, Keep, history
    <3>5. twi_masterBufferIndex' \in 0 .. L /\ Len(twi_masterBuffer') <= L
      BY <1>0, <1>types, <3>2, <3>3, <3>4 DEF MasterOK
    <3> QED
      BY <1>0, <3>3, <3>4, <3>5 DEF MasterOK
  <2> QED
    BY <1>4, <2>1, <2>2 DEF IsrReceive, IsrReceiveLast, Isr
<1>5. ASSUME NEW answer \in Answers, SlaveTransmitter(answer) PROVE MasterOK'
  <2>1. twi_txBuffer' \in Seq(Byte) /\ twi_txBuffer' # << >>
    <3>1. answer \in Seq(Byte) /\ <<Zero>> \in Seq(Byte) /\ <<Zero>> # << >>
      BY <1>5, Sizes
    <3> QED
      BY <1>5, <3>1 DEF SlaveTransmitter, IsrSlaveTransmitter
  <2>2. 1 \in 1 .. Len(twi_txBuffer')
    BY <2>1, EmptySeq
  <2>3. twdr' \in Byte
    BY <1>5, <2>1, <2>2, ElementOfSeq DEF SlaveTransmitter, IsrSlaveTransmitter
  <2> QED
    BY <1>0, <1>5, <2>3 DEF SlaveTransmitter, IsrSlaveTransmitter, MasterOK, masterVars, history
<1>6. CASE IsrSlaveNext
  <2>1. twdr' \in Byte
    <3>1. CASE twi_txBufferIndex < Len(twi_txBuffer)
      <4>1. twi_txBufferIndex + 1 \in 1 .. Len(twi_txBuffer) /\ twi_txBuffer \in Seq(Byte)
        BY <1>0, <3>1, LenProperties DEF AnswerOK
      <4> QED
        BY <1>6, <3>1, <4>1, ElementOfSeq DEF IsrSlaveNext
    <3>2. CASE ~(twi_txBufferIndex < Len(twi_txBuffer))
      BY <1>6, <3>2 DEF IsrSlaveNext
    <3> QED
      BY <3>1, <3>2
  <2> QED
    BY <1>0, <1>6, <2>1 DEF IsrSlaveNext, MasterOK, masterVars, history
<1>7. CASE HandlerRuns /\ ~IsrSend /\ ~IsrReceive /\ ~IsrReceiveLast /\ ~IsrSlaveNext
           /\ \A answer \in Answers : ~SlaveTransmitter(answer)
  BY <1>7, <1>kept DEF HandlerRuns, SlaveStop, IsrStart, IsrSentAll, IsrFailed, IsrSlaveReceiver,
     IsrSlaveData, IsrSlaveDataNack, IsrRelease, IsrSlaveLast, IsrSlaveStop, driver, history
<1>8. CASE BusGoesOn \/ BusIsAddressed
  <2>1. UNCHANGED masterVars
    BY <1>0, <1>8, BusLeaves DEF Bits, driver
  <2>2. CASE BusByteAcked
    BY <1>0, <2>1, <2>2, OneByteMore DEF BusByteAcked, MasterOK, masterVars
  <2>3. CASE BusByteRead
    <3> DEFINE i == Len(fetched) + 1
    <3>1. i \in 1 .. L
      <4>1. role = "mr" /\ status = "NO_INFO"
        BY <2>3 DEF BusByteRead, Report, twint
      <4>2. pc = "wait_done" /\ call = "read"
        BY <1>0, <4>1 DEF BusOK, InProgress
      <4>3. /\ fetched = twi_masterBuffer /\ length \in 0 .. L /\ twi_masterBufferLength = length - 1
            /\ twi_masterBufferIndex <= twi_masterBufferLength
            /\ twi_masterBufferIndex = Len(twi_masterBuffer)
        BY <1>0, <4>1, <4>2 DEF ReadOK, MessageOK
      <4> QED
        BY <1>0, <1>types, <4>3 DEF MasterOK
    <3>2. twdr' \in Remote[i] /\ fetched' = Append(fetched, twdr') /\ UNCHANGED acked
      BY <2>3 DEF BusByteRead
    <3> HIDE DEF i
    <3>3. twdr' \in Byte
      BY <3>1, <3>2, Sizes
    <3> QED
      BY <1>0, <2>1, <3>2, <3>3, OneByteMore DEF MasterOK, masterVars
  <2>4. CASE BusByteSentHere
    <3>1. Len(incoming) + 1 \in 1 .. Len(Incoming)
      <4>1. Len(incoming) \in Nat /\ Len(Incoming) \in Nat /\ Len(incoming) < Len(Incoming)
        BY <2>4, LenProperties, TrafficAssumption DEF BusByteSentHere, Inv, ReceiverOK
      <4> QED
        BY ONLY <4>1
    <3>2. twdr' \in Byte
      <4> DEFINE i == Len(incoming) + 1
      <4>1. i \in 1 .. Len(Incoming) /\ twdr' \in Incoming[i]
        BY <2>4, <3>1 DEF BusByteSentHere
      <4> HIDE DEF i
      <4> QED
        BY <4>1, Sizes
    <3> QED
      BY <1>0, <2>1, <2>4, <3>2 DEF BusByteSentHere, MasterOK, masterVars
  <2>5. CASE ~BusByteAcked /\ ~BusByteRead /\ ~BusByteSentHere
    <3>1. UNCHANGED <<acked, fetched, twdr>>
      BY <1>8, <2>5 DEF BusGoesOn, BusIsAddressed, BusStart, BusAddressAnswered, BusAddressRefused,
         BusByteRefused, BusLost, BusStop, BusByteReadHere, BusAddressed, history
    <3> QED
      BY <1>kept, <2>1, <3>1
  <2> QED
    BY <2>2, <2>3, <2>4, <2>5
<1> QED
  BY <1>1, <1>2, <1>3, <1>4, <1>5, <1>6, <1>7, <1>8 DEF Next, HandlerRuns

\* Bytes go out in order, and those acknowledged are the first ones.
LEMMA WriteStep ==
  ASSUME Inv, Next, Untimely = {}
  PROVE  WriteOK'
<1>0. /\ Bits /\ Modes /\ StatusOK /\ BusOK /\ ThreadOK /\ MessageOK /\ MasterOK /\ StartOK
      /\ WriteOK
  BY DEF Inv, Flags
<1>1. CASE Setup(SubSeq(txBuffer, 1, length)) /\ UNCHANGED wireVars
  <2>1. role' # "mt" /\ pc' = "twcr" /\ UNCHANGED <<call, length>> /\ twi_error' = "none"
    BY <1>0, <1>1, CallsWait DEF InCall, CallGoesOn, Setup
  <2>2. ASSUME call = "write" PROVE Len(twi_masterBuffer') = length /\ twi_masterBufferLength' = length
    <3>1. txBuffer \in Seq(Byte) /\ length \in 0 .. Len(txBuffer)
      <4>1. txBuffer \in Seq(Byte) /\ length \in 0 .. L /\ length <= Len(txBuffer)
        BY <1>0, <1>1, <2>2 DEF MessageOK, Setup, At
      <4>2. Len(txBuffer) \in Nat /\ length \in Nat
        BY <4>1, LenProperties, Sizes
      <4> QED
        BY <4>1, <4>2
    <3>2. Len(SubSeq(txBuffer, 1, length)) = length
      BY <3>1, FirstBytes
    <3> QED
      BY <1>1, <2>2, <3>2 DEF Setup
  <2> QED
    BY <2>1, <2>2 DEF WriteOK
<1>2. CASE SketchCalls \/ (InCall /\ ~(Setup(SubSeq(txBuffer, 1, length)) /\ UNCHANGED wireVars))
  <2>1. role' # "mt"
    BY <1>0, <1>2, CallsWait
  <2>2. CASE WriteTwcr
    BY <1>0, <2>1, <2>2 DEF WriteTwcr, At, WriteOK, masterVars
  <2>3. CASE pc' \notin {"twcr", "wait_done"}
    BY <2>1, <2>3 DEF WriteOK, InProgress
  <2> QED
    BY <1>2, <2>2, <2>3 DEF SketchCalls, InCall, CallGoesOn, BeginTransmission, Write,
       EndTransmission, RequestFrom, Enter, Read, WaitReady, ReturnWrite, ReadCopy, ReadReturn,
       EndOfCall, At, twiVars, sketch
<1>3. CASE HandlerRuns
  <2>1. UNCHANGED <<pc, call, length, twi_masterBufferLength, acked>>
    BY <1>3, HandlerLeaves DEF history
  <2>2. call = "write" => UNCHANGED twi_masterBuffer
    BY <1>0, <1>3, HandlerFor, HandlerDoes DEF BusOK
  <2>3. pc' = "twcr" \/ InProgress' => twi_error' = "none"
    <3>1. CASE IsrFailed
      <4>1. status \in {"MT_SLA_NACK", "MT_DATA_NACK", "MR_SLA_NACK", "ARB_LOST", "BUS_ERROR"}
            /\ twi_state' = "READY"
        BY <3>1 DEF IsrFailed, Isr, OffTheBus
      <4>2. pc # "twcr"
        BY <1>0, <4>1 DEF ThreadOK, StatusOK, BusOK
      <4> QED
        BY <2>1, <4>1, <4>2 DEF InProgress, Busy
    <3>2. CASE ~IsrFailed
      <4>1. UNCHANGED twi_error /\ (UNCHANGED twi_state \/ twi_state' \in {"READY", "SRX", "STX"})
        BY <1>3, <3>2, HandlerDoes
      <4> QED
        BY <1>0, <2>1, <4>1 DEF WriteOK, InProgress, Busy
    <3> QED
      BY <3>1, <3>2
  <2>4. ASSUME role' = "mt"
        PROVE  /\ twi_masterBufferIndex' <= length /\ status' = "NO_INFO"
               /\ twi_masterBufferIndex' > 0
               /\ twdr' = twi_masterBuffer[twi_masterBufferIndex']
               /\ acked = SubSeq(twi_masterBuffer, 1, twi_masterBufferIndex' - 1)
    <3> DEFINE i == twi_masterBufferIndex
    <3>1. IsrSend /\ role = "mt" /\ status \in {"MT_SLA_ACK", "MT_DATA_ACK"}
      BY <1>0, <1>3, <2>4, HandlerRole, HandlerFor
    <3>2. pc = "wait_done" /\ call = "write"
      BY <1>0, <3>1 DEF BusOK, InProgress
    <3>3. /\ i \in Nat /\ length \in Nat /\ i < length
          /\ acked = SubSeq(twi_masterBuffer, 1, i)
      BY <1>0, <3>1, <3>2, Sizes DEF WriteOK, MasterOK, MessageOK, IsrSend
    <3>4. /\ twi_masterBufferIndex' = i + 1 /\ status' = "NO_INFO"
          /\ twdr' = twi_masterBuffer[i + 1]
      BY <3>1 DEF IsrSend, Reply
    <3> HIDE DEF i
    <3>5. i + 1 <= length /\ i + 1 > 0 /\ (i + 1) - 1 = i
      BY ONLY <3>3
    <3> QED
      BY <3>3, <3>4, <3>5
  <2>5. UNCHANGED twi_masterBuffer \/ ~(call = "write")
    BY <2>2
  <2>6. call = "write" /\ pc \in {"twcr", "wait_done"} =>
          Len(twi_masterBuffer') = length /\ twi_masterBufferLength' = length
    BY <1>0, <2>1, <2>2 DEF WriteOK
  <2>7. role' = "mt" => UNCHANGED twi_masterBuffer
    BY <1>0, <1>3, <2>2, HandlerRole, HandlerFor DEF BusOK
  <2> QED
    BY <2>1, <2>3, <2>4, <2>6, <2>7 DEF WriteOK
<1>4. CASE BusGoesOn \/ BusIsAddressed
  <2>1. UNCHANGED <<driver, pc, call, length>>
    BY <1>0, <1>4, BusLeaves DEF Bits, sketch
  <2>2. UNCHANGED <<twi_state, twi_error, masterVars, pc, call, length>>
    BY <2>1 DEF driver
  <2>3. UNCHANGED <<twi_masterBuffer, twi_masterBufferIndex, twi_masterBufferLength>>
    BY <2>2 DEF masterVars
  <2>4. status = "NO_INFO" /\ status' # "NO_INFO"
    BY <1>0, <1>4, BusWaits
  <2>5. ASSUME role' = "mt"
        PROVE  /\ twi_masterBufferIndex <= length
               /\ status' = "MT_SLA_ACK" => twi_masterBufferIndex = 0
               /\ status' \in {"MT_SLA_ACK", "MT_DATA_ACK"} =>
                    acked' = SubSeq(twi_masterBuffer, 1, twi_masterBufferIndex)
    <3>1. CASE BusAddressAnswered
      <4>1. role = "mt_addr" /\ status' = "MT_SLA_ACK" /\ UNCHANGED acked
        BY <2>5, <3>1 DEF BusAddressAnswered, Report
      <4>2. twi_masterBufferIndex = 0 /\ acked = << >> /\ length \in Nat
        BY <1>0, <4>1, Sizes DEF StartOK, BusOK, MessageOK
      <4>3. SubSeq(twi_masterBuffer, 1, 0) = << >>
        BY <1>0, AllBytes DEF MasterOK
      <4> QED
        BY <4>1, <4>2, <4>3
    <3>2. CASE BusByteAcked
      <4> DEFINE n == twi_masterBufferIndex
      <4>1. role = "mt" /\ status' = "MT_DATA_ACK" /\ acked' = Append(acked, twdr)
        BY <3>2 DEF BusByteAcked, Report
      <4>2. n > 0 /\ n <= length /\ twdr = twi_masterBuffer[n] /\ acked = SubSeq(twi_masterBuffer, 1, n - 1)
        BY <1>0, <2>4, <4>1 DEF WriteOK
      <4>3. Len(twi_masterBuffer) = length /\ length \in Nat /\ n \in Nat
        BY <1>0, <4>1, Sizes DEF WriteOK, BusOK, InProgress, MessageOK, MasterOK
      <4>4. twi_masterBuffer \in Seq(Byte)
        BY <1>0 DEF MasterOK
      <4> HIDE DEF n
      <4>5. n \in 1 .. Len(twi_masterBuffer)
        BY <4>2, <4>3
      <4>6. acked' = SubSeq(twi_masterBuffer, 1, n)
        BY <4>1, <4>2, <4>4, <4>5, NextByte
      <4> QED
        BY <4>1, <4>2, <4>6 DEF n
    <3>3. CASE ~BusAddressAnswered /\ ~BusByteAcked
      <4>1. role = "mt" /\ status' \in {"MT_DATA_NACK", "ARB_LOST", "BUS_ERROR"}
        BY <1>4, <2>5, <3>3 DEF BusGoesOn, BusIsAddressed, BusStart, BusAddressRefused,
           BusByteRefused, BusByteRead, BusByteSentHere, BusLost, BusStop, BusByteReadHere,
           BusAddressed, Report
      <4> QED
        BY <1>0, <4>1 DEF WriteOK
    <3> QED
      BY <3>1, <3>2, <3>3
  <2>6. call = "write" /\ pc \in {"twcr", "wait_done"} =>
          Len(twi_masterBuffer) = length /\ twi_masterBufferLength = length
    BY <1>0 DEF WriteOK
  <2>7. pc = "twcr" \/ InProgress => twi_error = "none"
    BY <1>0 DEF WriteOK
  <2> QED
    BY <2>2, <2>3, <2>4, <2>5, <2>6, <2>7 DEF WriteOK, InProgress
<1> QED
  BY <1>1, <1>2, <1>3, <1>4 DEF Next

\* What the driver makes of the outcome.
LEMMA OutcomeStep ==
  ASSUME Inv, Next, Untimely = {}
  PROVE  OutcomeOK'
<1>0. /\ Bits /\ Modes /\ Errors /\ StatusOK /\ BusOK /\ ThreadOK /\ MessageOK /\ MasterOK
      /\ WriteOK /\ OutcomeOK
  BY DEF Inv, Flags
<1>1. CASE SketchCalls \/ InCall
  <2>1. status' \in {"NO_INFO", "REP_START"} /\ role' # "mt"
    BY <1>0, <1>1, CallsWait
  <2>2. pc' # "wait_done" \/ InProgress'
    <3>1. CASE WriteTwcr
      BY <1>0, <3>1 DEF WriteTwcr, At, ThreadOK, InProgress
    <3>2. CASE ~WriteTwcr
      BY <1>1, <3>2 DEF SketchCalls, InCall, CallGoesOn, BeginTransmission, Write, EndTransmission,
         RequestFrom, Enter, Read, WaitReady, Setup, ReturnWrite, ReadCopy, ReadReturn, EndOfCall,
         At, twiVars, sketch
    <3> QED
      BY <3>1, <3>2
  <2> QED
    BY <2>1, <2>2 DEF OutcomeOK
<1>2. CASE HandlerRuns
  <2>1. UNCHANGED <<pc, call, outcome, acked, disturbed, message>>
    BY <1>2, HandlerLeaves DEF history
  <2>2. status' \in {"NO_INFO", "REP_START"}
    BY <1>2, HandlerDoes
  <2>3. role' = "mt" => outcome = "answered"
    BY <1>0, <1>2, HandlerRole, HandlerFor DEF OutcomeOK
  <2>4. ASSUME pc = "wait_done", call = "write", ~InProgress', ~disturbed
        PROVE  Result' = Code[outcome] /\ (Result' = 0 => acked = message)
    <3>1. role \notin {"mr_addr", "mr", "sr", "st"}
      BY <1>0, <2>4 DEF BusOK, ThreadOK
    <3>2. CASE IsrSentAll
      <4>1. role = "mt" /\ status \in {"MT_SLA_ACK", "MT_DATA_ACK"} /\ UNCHANGED twi_error
            /\ twi_masterBufferIndex >= twi_masterBufferLength
        BY <1>0, <1>2, <3>2, HandlerFor DEF IsrSentAll
      <4>2. InProgress /\ twi_error = "none" /\ outcome = "answered"
        BY <1>0, <4>1 DEF BusOK, WriteOK, OutcomeOK
      <4>3. /\ Len(twi_masterBuffer) = length /\ twi_masterBufferLength = length
            /\ twi_masterBufferIndex <= length
            /\ acked = SubSeq(twi_masterBuffer, 1, twi_masterBufferIndex)
            /\ message = twi_masterBuffer
        BY <1>0, <2>4, <4>1 DEF WriteOK, MessageOK
      <4>4. twi_masterBufferIndex = Len(twi_masterBuffer)
        BY <1>0, <4>1, <4>3, Sizes DEF MasterOK, MessageOK
      <4>5. acked = message
        BY <1>0, <4>3, <4>4, AllBytes DEF MasterOK
      <4>6. Result' = 0
        BY <4>1, <4>2 DEF Result
      <4> QED
        BY <4>2, <4>5, <4>6 DEF Code
    <3>3. CASE IsrFailed
      <4>1. /\ status \in {"MT_SLA_NACK", "MT_DATA_NACK", "MR_SLA_NACK", "ARB_LOST", "BUS_ERROR"}
            /\ status # "MR_SLA_NACK" => twi_error' = status
        BY <3>3 DEF IsrFailed, Isr
      <4>2. status # "MR_SLA_NACK"
        BY <1>0, <3>1 DEF StatusOK, Modes, Role
      <4>3. \/ status = "MT_SLA_NACK" /\ outcome = "address_refused"
            \/ status = "MT_DATA_NACK" /\ outcome = "data_refused"
            \/ status \in {"ARB_LOST", "BUS_ERROR"} /\ outcome = "lost"
        BY <1>0, <3>1, <4>1, <4>2 DEF OutcomeOK
      <4> QED
        BY <4>1, <4>2, <4>3 DEF Result, Code
    <3>4. CASE ~IsrSentAll /\ ~IsrFailed
      <4>1. UNCHANGED twi_error
        BY <1>2, <3>4, HandlerDoes
      <4>2. ~InProgress
        <5>1. CASE UNCHANGED twi_state
          BY <2>1, <2>4, <5>1 DEF InProgress
        <5>2. CASE ~UNCHANGED twi_state
          <6>1. IsrRelease
            <7>1. \A answer \in Answers : ~SlaveTransmitter(answer)
              BY <1>0, <3>1, HandlerFor
            <7>2. ~IsrReceiveLast /\ ~SlaveStop /\ ~IsrSlaveReceiver /\ ~IsrSlaveLast
              BY <1>0, <3>1, HandlerFor
            <7> QED
              BY <1>2, <3>4, <5>2, <7>1, <7>2 DEF HandlerRuns, IsrStart, IsrSend, IsrReceive,
                 IsrSlaveData, IsrSlaveDataNack, IsrSlaveNext, driver
          <6>2. twi_state = "READY"
            BY <1>0, <6>1, HandlerFor
          <6> QED
            BY <6>2 DEF InProgress, Busy
        <5> QED
          BY <5>1, <5>2
      <4> QED
        BY <1>0, <2>4, <4>1, <4>2 DEF OutcomeOK, Result
    <3> QED
      BY <3>2, <3>3, <3>4
  <2> QED
    BY <2>1, <2>2, <2>3, <2>4 DEF OutcomeOK
<1>3. CASE (BusGoesOn \/ BusIsAddressed) /\ UNCHANGED wireVars
  <2>1. UNCHANGED <<pc, call, twi_state, twi_error, message>> /\ (disturbed => disturbed')
    BY <1>0, <1>3, BusLeaves DEF Bits, driver, sketch, wireVars
  <2>2. status = "NO_INFO" /\ status' # "NO_INFO" /\ role # "start"
    BY <1>0, <1>3, BusWaits
  <2>3. ASSUME pc = "wait_done", call = "write", ~InProgress', ~disturbed'
        PROVE  Result' = Code[outcome'] /\ (Result' = 0 => acked' = message')
    <3>1. ~InProgress /\ ~disturbed
      BY <2>1, <2>3 DEF InProgress
    <3>2. role \notin {"mt_addr", "mr_addr", "mt", "mr"}
      BY <1>0, <3>1 DEF BusOK
    <3>3. UNCHANGED <<acked, outcome>>
      BY <1>0, <1>3, <2>2, <3>2 DEF BusGoesOn, BusIsAddressed, BusStart, BusAddressAnswered,
         BusAddressRefused, BusByteAcked, BusByteRefused, BusByteRead, BusByteSentHere, BusLost,
         BusStop, BusByteReadHere, BusAddressed, history, Modes, Role
    <3> QED
      BY <1>0, <2>1, <2>3, <3>1, <3>3 DEF OutcomeOK, Result
  <2>4. /\ status' = "MT_SLA_NACK" => outcome' = "address_refused"
        /\ status' = "MT_DATA_NACK" => outcome' = "data_refused"
    BY <1>3 DEF BusGoesOn, BusIsAddressed, BusStart, BusAddressAnswered,
       BusAddressRefused, BusByteAcked, BusByteRefused, BusByteRead, BusByteSentHere, BusLost,
       BusStop, BusByteReadHere, BusAddressed, Report
  <2>5. status' \in {"ARB_LOST", "BUS_ERROR"} /\ role' \notin {"sr", "st"} => outcome' = "lost"
    BY <1>3 DEF BusGoesOn, BusIsAddressed, BusStart, BusAddressAnswered,
       BusAddressRefused, BusByteAcked, BusByteRefused, BusByteRead, BusByteSentHere, BusLost,
       BusStop, BusByteReadHere, BusAddressed, Report
  <2>6. status' \in {"NO_INFO", "MT_SLA_ACK", "MT_DATA_ACK"} /\ role' = "mt" => outcome' = "answered"
    BY <1>0, <1>3, <2>2 DEF BusGoesOn, BusIsAddressed, BusStart, BusAddressAnswered,
       BusAddressRefused, BusByteAcked, BusByteRefused, BusByteRead, BusByteSentHere, BusLost,
       BusStop, BusByteReadHere, BusAddressed, Report, OutcomeOK
  <2> QED
    BY <2>1, <2>3, <2>4, <2>5, <2>6 DEF OutcomeOK
<1> QED
  BY <1>1, <1>2, <1>3 DEF Next

\* Bytes come in in order, as many as were asked for.
LEMMA ReadStep ==
  ASSUME Inv, Next, Untimely = {}
  PROVE  ReadOK'
<1>0. /\ Bits /\ Modes /\ StatusOK /\ BusOK /\ ThreadOK /\ MessageOK /\ MasterOK /\ StartOK
      /\ OutcomeOK /\ ReadOK
  BY DEF Inv, Flags
<1>types. /\ L \in 1 .. 255 /\ length \in Nat /\ length <= L
          /\ twi_masterBufferIndex \in Nat /\ twi_masterBufferLength \in Nat
          /\ twi_masterBuffer \in Seq(Byte) /\ twdr \in Byte
  BY <1>0, Sizes DEF MessageOK, MasterOK
<1>1. CASE Setup(SubSeq(txBuffer, 1, length)) /\ UNCHANGED wireVars
  <2>1. role' # "mr" /\ pc' = "twcr" /\ UNCHANGED <<call, length>> /\ pc = "setup"
    BY <1>0, <1>1, CallsWait DEF InCall, CallGoesOn, Setup, At
  <2>2. ASSUME call = "read"
        PROVE  /\ length > 0 /\ twi_masterBufferLength' = length - 1
               /\ twi_masterBufferIndex' = Len(twi_masterBuffer')
               /\ twi_masterBufferIndex' <= length
    <3>1. length > 0
      BY <1>0, <2>1, <2>2 DEF ReadOK
    <3>2. length \in 1 .. 255
      BY <1>types, <3>1
    <3>3. (length - 1) % 256 = length - 1
      BY ONLY <3>2
    <3>4. twi_masterBufferLength' = length - 1
      BY <1>1, <2>2, <3>3 DEF Setup
    <3>5. twi_masterBuffer' = << >> /\ twi_masterBufferIndex' = 0
      BY <1>1, <2>2 DEF Setup
    <3>6. Len(twi_masterBuffer') = 0
      BY <3>5, NoBytes
    <3> QED
      BY <3>2, <3>4, <3>5, <3>6
  <2> QED
    BY <2>1, <2>2 DEF ReadOK
<1>2. CASE SketchCalls \/ (InCall /\ ~(Setup(SubSeq(txBuffer, 1, length)) /\ UNCHANGED wireVars))
  <2>1. role' # "mr"
    BY <1>0, <1>2, CallsWait
  <2>2. CASE WriteTwcr
    <3>1. /\ pc = "twcr" /\ pc' = "wait_done" /\ status' = "NO_INFO"
          /\ UNCHANGED <<call, length, masterVars, history>>
      BY <2>2 DEF WriteTwcr, At
    <3>2. UNCHANGED <<twi_masterBuffer, twi_masterBufferIndex, twi_masterBufferLength, fetched,
                      outcome>>
      BY <3>1 DEF masterVars, history
    <3>3. fetched = << >> /\ outcome = "unanswered" /\ twi_masterBufferIndex = 0
      BY <1>0, <3>1 DEF StartOK, ThreadOK
    <3>4. call = "read" =>
            /\ length > 0 /\ twi_masterBufferLength = length - 1
            /\ twi_masterBufferIndex = Len(twi_masterBuffer)
            /\ twi_masterBufferIndex <= length
      BY <1>0, <3>1 DEF ReadOK
    <3>5. call = "read" => twi_masterBuffer = << >>
      BY <1>types, <3>3, <3>4, EmptySeq
    <3> QED
      BY <2>1, <3>1, <3>2, <3>3, <3>4, <3>5 DEF ReadOK
  <2>3. ASSUME NEW quantity \in Quantities, NEW stop \in BOOLEAN, RequestFrom(quantity, stop)
        PROVE  ReadOK'
    <3>1. pc' = "wait_ready" /\ length' = IF quantity > L THEN L ELSE quantity
      BY <2>3 DEF RequestFrom, Enter, L
    <3>2. quantity \in Nat /\ quantity > 0
      BY Sizes
    <3>3. length' > 0
      BY <1>types, <3>1, <3>2
    <3> QED
      BY <2>1, <3>1, <3>3 DEF ReadOK
  <2>4. CASE WaitReady
    BY <1>0, <2>1, <2>4 DEF WaitReady, At, ReadOK
  <2>5. CASE /\ ~WriteTwcr /\ ~WaitReady
             /\ \A quantity \in Quantities, stop \in BOOLEAN : ~RequestFrom(quantity, stop)
    <3>1. pc' \in {"idle", "read_return"} \/ (pc' = "wait_ready" /\ call' = "write")
      BY <1>2, <2>5 DEF SketchCalls, InCall, CallGoesOn, BeginTransmission, Write, EndTransmission,
         Enter, Read, ReturnWrite, ReadCopy, ReadReturn, EndOfCall, At, twiVars, sketch
    <3> QED
      BY <2>1, <3>1 DEF ReadOK
  <2> QED
    BY <2>2, <2>3, <2>4, <2>5
<1>3. CASE HandlerRuns
  <2>1. UNCHANGED <<pc, call, length, twi_masterBufferLength, fetched, outcome>>
    BY <1>3, HandlerLeaves DEF history
  <2>2. status' \in {"NO_INFO", "REP_START"}
    BY <1>3, HandlerDoes
  <2> DEFINE b == twi_masterBuffer
             i == twi_masterBufferIndex
             n == twi_masterBufferLength
  <2>3. CASE IsrReceive
    <3>1. role = "mr" /\ status \in {"MR_SLA_ACK", "MR_DATA_ACK"}
      BY <1>0, <2>3, HandlerFor
    <3>2. pc = "wait_done" /\ call = "read"
      BY <1>0, <3>1 DEF BusOK, InProgress
    <3>3. role' = "mr" /\ status' = "NO_INFO" /\ (twea' <=> i' < n)
      BY <2>3, <3>1 DEF IsrReceive, Reply
    <3>4. length > 0 /\ n = length - 1 /\ i = Len(b) /\ i <= n
      BY <1>0, <3>1, <3>2 DEF ReadOK
    <3>5. CASE status = "MR_SLA_ACK"
      <4>1. b' = b /\ i' = i
        BY <2>3, <3>5 DEF IsrReceive
      <4>2. fetched = b
        BY <1>0, <3>2, <3>5 DEF ReadOK
      <4>3. i' = Len(b') /\ i' <= n /\ i' <= length /\ fetched' = b' /\ n' = length' - 1 /\ length' > 0
        BY <1>types, <2>1, <3>4, <4>1, <4>2
      <4> QED
        BY <2>1, <3>2, <3>3, <4>3 DEF ReadOK
    <3>6. CASE status = "MR_DATA_ACK"
      <4>1. b' = Append(b, twdr) /\ i' = i + 1
        BY <2>3, <3>6 DEF IsrReceive, Keep
      <4>2. fetched = Append(b, twdr) /\ i < n
        BY <1>0, <3>2, <3>6 DEF ReadOK
      <4>3. Len(b') = Len(b) + 1
        BY <1>types, <4>1, OneByteMore
      <4>4. i' = Len(b') /\ i' <= n /\ i' <= length /\ fetched' = b' /\ n' = length' - 1 /\ length' > 0
        BY <1>types, <2>1, <3>4, <4>1, <4>2, <4>3
      <4> QED
        BY <2>1, <3>2, <3>3, <4>4 DEF ReadOK
    <3> QED
      BY <3>1, <3>5, <3>6
  <2>4. CASE IsrReceiveLast
    <3>1. role = "mr" /\ status = "MR_DATA_NACK"
      BY <1>0, <2>4, HandlerFor
    <3>2. pc = "wait_done" /\ call = "read"
      BY <1>0, <3>1 DEF BusOK, InProgress
    <3>3. role' # "mr"
      BY <1>0, <1>3, <3>1, HandlerRole, HandlerFor
    <3>4. b' = Append(b, twdr) /\ i' = i + 1
      BY <2>4 DEF IsrReceiveLast, Keep
    <3>5. length > 0 /\ n = length - 1 /\ i = Len(b) /\ i = n /\ fetched = Append(b, twdr)
      BY <1>0, <3>1, <3>2 DEF ReadOK
    <3>6. Len(b') = Len(b) + 1
      BY <1>types, <3>4, OneByteMore
    <3>7. /\ i' = Len(b') /\ i' = n' + 1 /\ i' <= length' /\ fetched' = b'
          /\ n' = length' - 1 /\ length' > 0
      BY <1>types, <2>1, <3>4, <3>5, <3>6
    <3> QED
      BY <2>1, <2>2, <3>2, <3>3, <3>7 DEF ReadOK
  <2>5. CASE ~IsrReceive /\ ~IsrReceiveLast
    <3>1. role' # "mr" /\ b' = b
      BY <1>0, <1>3, <2>5, HandlerRole, HandlerDoes
    <3>2. ASSUME call = "read", pc \in {"twcr", "wait_done"} PROVE i' = i
      <4>1. ~IsrSend
        BY <1>0, <3>2, HandlerFor DEF BusOK
      <4> QED
        BY <1>3, <2>5, <4>1, HandlerDoes
    <3>3. ASSUME call = "read", pc = "wait_done"
          PROVE  fetched = b /\ (outcome = "answered" => i = n + 1)
      <4>1. CASE role = "mr"
        <5>1. IsrFailed
          BY <1>0, <1>3, <2>5, <4>1, HandlerFor DEF HandlerRuns
        <5>2. status \in {"ARB_LOST", "BUS_ERROR"}
          BY <1>0, <4>1, <5>1 DEF IsrFailed, Isr, StatusOK
        <5>3. outcome = "lost"
          BY <1>0, <4>1, <5>2 DEF OutcomeOK
        <5> QED
          BY <1>0, <3>3, <5>2, <5>3 DEF ReadOK
      <4>2. CASE role # "mr"
        <5>1. status \notin {"MR_DATA_ACK", "MR_DATA_NACK"}
          BY <1>0, <4>2 DEF StatusOK, Modes, Role
        <5> QED
          BY <1>0, <3>3, <4>2, <5>1 DEF ReadOK
      <4> QED
        BY <4>1, <4>2
    <3>4. call = "read" /\ pc \in {"twcr", "wait_done"} =>
            length > 0 /\ n = length - 1 /\ i = Len(b) /\ i <= length
      BY <1>0 DEF ReadOK
    <3>5. call = "read" /\ pc \in {"wait_ready", "setup"} => length > 0
      BY <1>0 DEF ReadOK
    <3> QED
      BY <2>1, <2>2, <3>1, <3>2, <3>3, <3>4, <3>5 DEF ReadOK
  <2> QED
    BY <2>3, <2>4, <2>5
<1>4. CASE BusGoesOn \/ BusIsAddressed
  <2>1. UNCHANGED <<driver, pc, call, length, twea>>
    BY <1>0, <1>4, BusLeaves DEF Bits, sketch
  <2>2. UNCHANGED <<twi_masterBuffer, twi_masterBufferIndex, twi_masterBufferLength>>
    BY <2>1 DEF driver, masterVars
  <2>3. status = "NO_INFO" /\ status' # "NO_INFO" /\ role # "start"
    BY <1>0, <1>4, BusWaits
  <2>4. call = "read" /\ pc = "wait_done" =>
          /\ fetched = twi_masterBuffer
          /\ outcome = "answered" /\ role # "mr" =>
               twi_masterBufferIndex = twi_masterBufferLength + 1
    BY <1>0, <2>3 DEF ReadOK
  <2>5. /\ call = "read" /\ pc \in {"wait_ready", "setup"} => length > 0
        /\ call = "read" /\ pc \in {"twcr", "wait_done"} =>
             /\ length > 0 /\ twi_masterBufferLength = length - 1
             /\ twi_masterBufferIndex = Len(twi_masterBuffer)
             /\ twi_masterBufferIndex <= length
    BY <1>0 DEF ReadOK
  <2>6. CASE BusByteRead
    <3>1. role = "mr" /\ role' = "mr"
      BY <2>6 DEF BusByteRead
    <3>2. pc = "wait_done" /\ call = "read"
      BY <1>0, <3>1 DEF BusOK, InProgress
    <3>3. /\ status' = (IF twea THEN "MR_DATA_ACK" ELSE "MR_DATA_NACK")
          /\ fetched' = Append(twi_masterBuffer, twdr')
      BY <2>4, <2>6, <3>2 DEF BusByteRead, Report
    <3>4. /\ twi_masterBufferIndex <= twi_masterBufferLength
          /\ twea <=> twi_masterBufferIndex < twi_masterBufferLength
      BY <1>0, <2>3, <3>1 DEF ReadOK
    <3>5. /\ status' = "MR_DATA_ACK" => twi_masterBufferIndex < twi_masterBufferLength
          /\ status' = "MR_DATA_NACK" => twi_masterBufferIndex = twi_masterBufferLength
      BY <1>types, <3>3, <3>4
    <3>6. status' \in {"MR_DATA_ACK", "MR_DATA_NACK"}
      BY <3>3
    <3> QED
      BY <2>1, <2>2, <2>5, <3>1, <3>2, <3>3, <3>4, <3>5, <3>6 DEF ReadOK
  <2>7. CASE BusAddressAnswered
    <3>1. role \in {"mt_addr", "mr_addr"} /\ role' = (IF role = "mt_addr" THEN "mt" ELSE "mr")
          /\ status' = (IF role = "mt_addr" THEN "MT_SLA_ACK" ELSE "MR_SLA_ACK")
          /\ UNCHANGED fetched
      BY <2>7 DEF BusAddressAnswered, Report
    <3>2. CASE role = "mt_addr"
      <4>1. call = "write" /\ role' = "mt"
        BY <1>0, <3>1, <3>2 DEF BusOK
      <4> QED
        BY <2>1, <4>1 DEF ReadOK
    <3>3. CASE role = "mr_addr"
      <4>1. call = "read" /\ pc = "wait_done" /\ twi_masterBufferIndex = 0
        BY <1>0, <3>3 DEF BusOK, InProgress, StartOK
      <4>2. role' = "mr" /\ status' = "MR_SLA_ACK" /\ twi_masterBufferIndex <= twi_masterBufferLength
        BY <1>types, <3>1, <3>3, <4>1
      <4> QED
        BY <2>1, <2>2, <2>4, <2>5, <3>1, <4>1, <4>2 DEF ReadOK
    <3> QED
      BY <3>1, <3>2, <3>3
  <2>8. CASE ~BusByteRead /\ ~BusAddressAnswered
    <3>1. UNCHANGED fetched /\ status' \notin {"MR_DATA_ACK", "MR_DATA_NACK", "MR_SLA_ACK"}
      BY <1>4, <2>8 DEF BusGoesOn, BusIsAddressed, BusStart, BusAddressRefused, BusByteAcked,
         BusByteRefused, BusByteSentHere, BusLost, BusStop, BusByteReadHere, BusAddressed, Report,
         history
    <3>2. role' = "mr" => role = "mr"
      BY <1>4, <2>8 DEF BusGoesOn, BusIsAddressed, BusStart, BusAddressRefused, BusByteAcked,
         BusByteRefused, BusByteSentHere, BusLost, BusStop, BusByteReadHere, BusAddressed
    <3>3. outcome' = "answered" /\ role' # "mr" => outcome = "answered" /\ role # "mr"
      BY <1>4, <2>8 DEF BusGoesOn, BusIsAddressed, BusStart, BusAddressRefused, BusByteAcked,
         BusByteRefused, BusByteSentHere, BusLost, BusStop, BusByteReadHere, BusAddressed, history
    <3>4. role = "mr" => twi_masterBufferIndex <= twi_masterBufferLength
      BY <1>0 DEF ReadOK
    <3> QED
      BY <2>1, <2>2, <2>3, <2>4, <2>5, <3>1, <3>2, <3>3, <3>4 DEF ReadOK
  <2> QED
    BY <2>6, <2>7, <2>8
<1> QED
  BY <1>1, <1>2, <1>3, <1>4 DEF Next

\* What twi_readFrom() copies is what came.
LEMMA ReturnStep ==
  ASSUME Inv, Next, Untimely = {}
  PROVE  ReturnOK'
<1>0. /\ Bits /\ Modes /\ StatusOK /\ BusOK /\ ThreadOK /\ MessageOK /\ MasterOK /\ ReadOK
      /\ ReturnOK /\ ReceiverOK
  BY DEF Inv, Flags
<1>types. L \in 1 .. 255 /\ << >> \in Seq(Byte) /\ Len(<< >>) = 0
  BY Sizes, NoBytes
<1>1. CASE ReadCopy
  <2>1. /\ pc = "wait_done" /\ call = "read" /\ ~InProgress /\ pc' = "read_return"
        /\ rxBuffer' = SubSeq(twi_masterBuffer, 1, Received) /\ length' = Received
        /\ UNCHANGED <<unread, twi_masterBufferLength, fetched, outcome>>
    BY <1>1 DEF ReadCopy, Done, At, InProgress, driver, masterVars, history
  <2>2. role # "mr"
    BY <1>0, <2>1 DEF BusOK
  <2>3. status \notin {"MR_DATA_ACK", "MR_DATA_NACK"}
    BY <1>0, <2>2 DEF StatusOK, Modes, Role
  <2>4. /\ fetched = twi_masterBuffer /\ twi_masterBufferIndex = Len(twi_masterBuffer)
        /\ twi_masterBufferIndex <= length
        /\ outcome = "answered" => twi_masterBufferIndex = twi_masterBufferLength + 1
    BY <1>0, <2>1, <2>2, <2>3 DEF ReadOK
  <2>5. Received = Len(twi_masterBuffer)
    <3>1. length \in Nat /\ twi_masterBufferIndex \in Nat
      BY <1>0, Sizes DEF MessageOK, MasterOK
    <3> QED
      BY <2>4, <3>1 DEF Received
  <2>6. rxBuffer' = fetched /\ length' = Len(rxBuffer') /\ rxBuffer' \in Seq(Byte)
    BY <1>0, <2>1, <2>4, <2>5, AllBytes DEF MasterOK
  <2>7. SubSeq(rxBuffer', 1, length') = fetched'
    <3> DEFINE b == rxBuffer'
    <3>1. b \in Seq(Byte) /\ length' = Len(b) /\ fetched' = b
      BY <2>1, <2>6
    <3> HIDE DEF b
    <3>2. SubSeq(b, 1, Len(b)) = b
      BY <3>1, AllBytes
    <3> QED
      BY <3>1, <3>2 DEF b
  <2>8. length' <= Len(rxBuffer')
    <3>1. Len(rxBuffer') \in Nat
      BY <2>6, LenProperties
    <3> QED
      BY <2>6, <3>1
  <2> QED
    BY <1>0, <2>1, <2>4, <2>6, <2>7, <2>8 DEF ReturnOK
<1>2. CASE ReadReturn
  <2>1. unread' = SubSeq(rxBuffer, 1, length) /\ rxBuffer' = << >> /\ pc' = "idle" /\ pc = "read_return"
    BY <1>2 DEF ReadReturn, EndOfCall, At
  <2>2. rxBuffer \in Seq(Byte) /\ length \in 0 .. Len(rxBuffer) /\ length <= L
    <3>1. rxBuffer \in Seq(Byte) /\ length <= Len(rxBuffer) /\ length \in 0 .. L
      BY <1>0, <2>1 DEF ReturnOK, MessageOK
    <3>2. Len(rxBuffer) \in Nat
      BY <3>1, LenProperties
    <3> QED
      BY <1>types, <3>1, <3>2
  <2>3. unread' \in Seq(Byte) /\ Len(unread') = length
    BY <2>1, <2>2, FirstBytes
  <2> QED
    BY <1>types, <2>1, <2>2, <2>3 DEF ReturnOK
<1>3. CASE Read
  <2>1. /\ unread' = Tail(unread) /\ unread # << >> /\ UNCHANGED rxBuffer
        /\ pc' = "idle"
    BY <1>3 DEF Read, At, twiVars, sketch
  <2>2. unread \in Seq(Byte) /\ Len(unread) <= L /\ Len(unread) \in Nat
    BY <1>0, LenProperties DEF ReturnOK
  <2>3. unread' \in Seq(Byte) /\ Len(unread') = Len(unread) - 1
    BY <2>1, <2>2, HeadTailProperties
  <2>4. Len(unread') <= L
    BY <1>types, <2>2, <2>3
  <2> QED
    BY <1>0, <2>1, <2>3, <2>4 DEF ReturnOK
<1>4. CASE (SketchCalls \/ InCall) /\ ~ReadCopy /\ ~ReadReturn /\ ~Read
  <2>1. UNCHANGED <<rxBuffer, unread>> /\ pc' # "read_return"
    BY <1>4 DEF SketchCalls, InCall, CallGoesOn, BeginTransmission, Write, EndTransmission,
       RequestFrom, Enter, WaitReady, Setup, WriteTwcr, ReturnWrite, EndOfCall, At, twiVars, sketch,
       wireVars, rxVars
  <2> QED
    BY <1>0, <2>1 DEF ReturnOK
<1>5. CASE SlaveStop
  <2>1. UNCHANGED <<pc, length, disturbed>> /\ role = "sr"
    BY <1>0, <1>5, HandlerFor, HandlerLeaves DEF HandlerRuns, history
  <2>2. twi_rxBuffer \in Seq(Byte) /\ Len(twi_rxBuffer) <= L
    BY <1>0 DEF ReceiverOK
  <2>3. \/ UNCHANGED <<unread, rxBuffer>>
        \/ /\ \E n \in 0 .. Len(twi_rxBuffer) : unread' = SubSeq(twi_rxBuffer, n + 1, Len(twi_rxBuffer))
           /\ rxBuffer' \in {rxBuffer, Overlay(rxBuffer, twi_rxBuffer)}
    BY <1>5 DEF SlaveStop, onReceiveService, rxVars
  <2>4. unread' \in Seq(Byte) /\ Len(unread') <= L
    <3>1. CASE UNCHANGED unread
      BY <1>0, <3>1 DEF ReturnOK
    <3>2. ASSUME NEW n \in 0 .. Len(twi_rxBuffer), unread' = SubSeq(twi_rxBuffer, n + 1, Len(twi_rxBuffer))
          PROVE  unread' \in Seq(Byte) /\ Len(unread') <= L
      <4> DEFINE k == Len(twi_rxBuffer)
                 m == n + 1
      <4>1. k \in Nat /\ n \in Nat /\ \A j \in 1 .. k : twi_rxBuffer[j] \in Byte
        BY <2>2, LenProperties
      <4>2. m \in Int /\ k \in Int /\ \A j \in m .. k : twi_rxBuffer[j] \in Byte
        BY <4>1
      <4>3. unread' = SubSeq(twi_rxBuffer, m, k)
        BY <3>2
      <4>5. k <= L /\ m >= 1
        BY <2>2, <4>1
      <4> HIDE DEF k, m
      <4>4. unread' \in Seq(Byte) /\ Len(unread') = IF m <= k THEN (k - m) + 1 ELSE 0
        BY <4>2, <4>3, SubSeqProperties
      <4> QED
        BY <1>types, <4>2, <4>4, <4>5
    <3> QED
      BY <2>3, <3>1, <3>2
  <2>5. /\ rxBuffer' \in Seq(Byte)
        /\ pc = "read_return" => length <= Len(rxBuffer')
    <3>1. rxBuffer \in Seq(Byte) /\ (pc = "read_return" => length <= Len(rxBuffer))
      BY <1>0 DEF ReturnOK
    <3>2. /\ Overlay(rxBuffer, twi_rxBuffer) \in Seq(Byte)
          /\ Len(Overlay(rxBuffer, twi_rxBuffer)) \in Nat
          /\ Len(Overlay(rxBuffer, twi_rxBuffer)) >= Len(rxBuffer)
      BY <2>2, <3>1, OverlayIs
    <3>3. length \in Nat /\ Len(rxBuffer) \in Nat
      BY <1>0, <3>1, LenProperties, Sizes DEF MessageOK
    <3> QED
      BY <2>3, <3>1, <3>2, <3>3
  <2>6. pc = "read_return" => disturbed
    BY <1>0, <2>1 DEF ThreadOK
  <2> QED
    BY <2>1, <2>4, <2>5, <2>6 DEF ReturnOK
<1>6. CASE HandlerRuns /\ ~SlaveStop
  <2>1. UNCHANGED <<pc, length, twi_masterBufferLength, fetched, outcome, disturbed>>
    BY <1>6, HandlerLeaves DEF history
  <2>2. UNCHANGED <<rxBuffer, unread>>
    BY <1>6 DEF HandlerRuns, SlaveTransmitter, wireVars, rxVars
  <2> QED
    BY <1>0, <2>1, <2>2 DEF ReturnOK
<1>7. CASE (BusGoesOn \/ BusIsAddressed) /\ UNCHANGED wireVars
  <2>1. /\ UNCHANGED <<pc, length, twi_masterBufferLength, rxBuffer, unread>>
        /\ disturbed => disturbed'
    BY <1>0, <1>7, BusLeaves DEF Bits, driver, masterVars, sketch, wireVars, rxVars
  <2>2. ASSUME pc = "read_return" PROVE UNCHANGED <<fetched, outcome>>
    <3>1. role \notin {"mt_addr", "mr_addr", "mt", "mr"}
      BY <1>0, <2>2 DEF BusOK, InProgress
    <3>2. role # "start"
      BY <1>0, <1>7, BusWaits
    <3> QED
      BY <1>0, <1>7, <3>1, <3>2 DEF Modes, Role, BusGoesOn, BusIsAddressed, BusStart, BusAddressAnswered,
         BusAddressRefused, BusByteAcked, BusByteRefused, BusByteRead, BusByteSentHere, BusLost,
         BusStop, BusByteReadHere, BusAddressed, history
  <2> QED
    BY <1>0, <2>1, <2>2 DEF ReturnOK
<1> QED
  BY <1>1, <1>2, <1>3, <1>4, <1>5, <1>6, <1>7 DEF Next

\* What is kept of an incoming transmission, byte by byte.
LEMMA TakeIs ==
  ASSUME NEW s \in Seq(Byte)
  PROVE  /\ Len(s) <= L => Take(s, L) = s
         /\ Len(s) > L => Take(s, L) = SubSeq(s, 1, L)
<1>1. Len(s) \in Nat /\ L \in Nat
  BY LenProperties, Sizes
<1>2. ASSUME Len(s) <= L PROVE Take(s, L) = s
  <2>1. Take(s, L) = SubSeq(s, 1, Len(s))
    BY <1>1, <1>2 DEF Take
  <2> QED
    BY <2>1, AllBytes
<1>3. Len(s) > L => Take(s, L) = SubSeq(s, 1, L)
  BY <1>1 DEF Take
<1> QED
  BY <1>2, <1>3

\* What another master sends is kept as far as there is room.
LEMMA ReceiverStep ==
  ASSUME Inv, Next, Untimely = {}
  PROVE  ReceiverOK'
<1>0. Bits /\ Modes /\ StatusOK /\ BusOK /\ ThreadOK /\ MasterOK /\ ReceiverOK
  BY DEF Inv, Flags
<1>types. /\ L \in 1 .. 255 /\ Len(incoming) \in Nat /\ Len(twi_rxBuffer) \in Nat
          /\ Len(twi_rxBuffer) <= L /\ twi_rxBuffer \in Seq(Byte) /\ incoming \in Seq(Byte)
          /\ << >> \in Seq(Byte) /\ Len(<< >>) = 0
  BY <1>0, Sizes, NoBytes, LenProperties DEF ReceiverOK
<1>1. CASE SketchCalls \/ InCall
  <2>1. UNCHANGED <<twi_rxBuffer, incoming, twdr>>
    BY <1>1, CallsLeave DEF slaveVars
  <2>2. UNCHANGED <<role, status, twea>> \/ role' # "sr"
    BY <1>0, <1>1, CallsWait
  <2> QED
    BY <1>0, <2>1, <2>2 DEF ReceiverOK
<1>2. CASE HandlerRuns
  <2>1. UNCHANGED incoming
    BY <1>2, HandlerLeaves DEF history
  <2>2. CASE IsrSlaveReceiver
    <3>1. twi_rxBuffer' = << >> /\ status' = "NO_INFO" /\ twea' = TRUE
      BY <2>2 DEF IsrSlaveReceiver, Reply
    <3>2. incoming = << >>
      BY <1>0, <2>2, HandlerFor DEF ReceiverOK
    <3>3. Len(incoming) = 0
      BY <1>types, <3>2
    <3>4. Len(incoming) <= L
      BY <1>types, <3>3
    <3>5. Take(incoming, L) = << >>
      BY <1>types, <3>2, <3>4, TakeIs
    <3> QED
      BY <1>types, <2>1, <3>1, <3>3, <3>4, <3>5 DEF ReceiverOK
  <2>3. CASE IsrSlaveData
    <3> DEFINE n == Len(incoming)
    <3>1. role = "sr" /\ status = "SR_DATA_ACK"
      BY <1>0, <2>3, HandlerFor
    <3>2. /\ n \in 1 .. L + 1 /\ twi_rxBuffer = SubSeq(incoming, 1, n - 1)
          /\ twdr = incoming[n] /\ twdr \in Byte
      BY <1>0, <3>1 DEF ReceiverOK, MasterOK
    <3>3. Len(twi_rxBuffer) = n - 1
      <4> DEFINE m == n - 1
      <4>1. m \in 0 .. Len(incoming)
        BY <1>types, <3>2
      <4> HIDE DEF m
      <4>2. Len(SubSeq(incoming, 1, m)) = m
        BY <1>types, <4>1, FirstBytes
      <4> QED
        BY <3>2, <4>2 DEF m
    <3>4. CASE Len(twi_rxBuffer) < L
      <4>1. twi_rxBuffer' = Append(twi_rxBuffer, twdr) /\ status' = "NO_INFO" /\ twea' = TRUE
        BY <2>3, <3>4 DEF IsrSlaveData, Reply, L
      <4>2. n <= L /\ n \in 1 .. Len(incoming)
        BY <1>types, <3>2, <3>3, <3>4
      <4>3. twi_rxBuffer' = incoming
        BY <1>types, <3>2, <4>1, <4>2, NextByte, AllBytes
      <4>4. Take(incoming, L) = incoming
        BY <1>types, <4>2, TakeIs
      <4>5. n <= L + 1 /\ twi_rxBuffer' \in Seq(Byte) /\ Len(twi_rxBuffer') <= L
        BY <1>types, <3>2, <4>2, <4>3
      <4> QED
        BY <1>types, <2>1, <4>1, <4>2, <4>3, <4>4, <4>5 DEF ReceiverOK
    <3>5. CASE ~(Len(twi_rxBuffer) < L)
      <4>1. UNCHANGED twi_rxBuffer /\ status' = "NO_INFO" /\ twea' = FALSE
        BY <2>3, <3>5 DEF IsrSlaveData, Reply, L
      <4>2. n = L + 1 /\ n > L /\ n - 1 = L /\ ~(n <= L) /\ n <= L + 1
        BY <1>types, <3>2, <3>3, <3>5
      <4>3. Take(incoming, L) = twi_rxBuffer
        BY <1>types, <3>2, <4>2, TakeIs
      <4> QED
        BY <1>types, <2>1, <4>1, <4>2, <4>3 DEF ReceiverOK
    <3> QED
      BY <3>4, <3>5
  <2>4. CASE ~IsrSlaveReceiver /\ ~IsrSlaveData
    <3>1. role' # "sr"
      BY <1>0, <1>2, <2>4, HandlerRole
    <3>2. twi_rxBuffer' \in {twi_rxBuffer, << >>}
      BY <1>2, <2>4 DEF HandlerRuns, SlaveStop, SlaveTransmitter, IsrStart, IsrSend, IsrSentAll,
         IsrFailed, IsrReceive, IsrReceiveLast, IsrSlaveDataNack, IsrRelease, IsrSlaveNext,
         IsrSlaveLast, IsrSlaveStop, IsrSlaveTransmitter, driver, slaveVars
    <3>3. twi_rxBuffer' \in Seq(Byte) /\ Len(twi_rxBuffer') <= L
      <4>1. CASE twi_rxBuffer' = twi_rxBuffer
        BY <1>types, <4>1
      <4>2. CASE twi_rxBuffer' = << >>
        BY <1>types, <4>2
      <4> QED
        BY <3>2, <4>1, <4>2
    <3> QED
      BY <1>types, <2>1, <3>1, <3>3 DEF ReceiverOK
  <2> QED
    BY <2>2, <2>3, <2>4
<1>3. CASE BusGoesOn \/ BusIsAddressed
  <2>1. UNCHANGED <<twi_rxBuffer, twea>>
    BY <1>0, <1>3, BusLeaves DEF Bits, driver, slaveVars
  <2>2. status = "NO_INFO" /\ status' # "NO_INFO"
    BY <1>0, <1>3, BusWaits
  <2>3. role = "sr" => /\ Len(incoming) <= L + 1
                       /\ twi_rxBuffer = Take(incoming, L)
                       /\ twea <=> Len(incoming) <= L
    BY <1>0, <2>2 DEF ReceiverOK
  <2>4. CASE BusByteSentHere
    <3>1. /\ role = "sr" /\ incoming' = Append(incoming, twdr')
          /\ status' = (IF twea THEN "SR_DATA_ACK" ELSE "SR_DATA_NACK")
      BY <2>4 DEF BusByteSentHere, Report
    <3>2. twdr' \in Byte
      BY MasterStep DEF MasterOK
    <3>3. /\ incoming' \in Seq(Byte) /\ Len(incoming') = Len(incoming) + 1
          /\ incoming'[Len(incoming) + 1] = twdr'
      BY <1>types, <3>1, <3>2, OneByteMore
    <3>4. CASE twea
      <4>1. Len(incoming) <= L /\ twi_rxBuffer = incoming
        BY <1>types, <2>3, <3>1, <3>4, TakeIs
      <4>2. Len(incoming') \in 1 .. L + 1 /\ twdr' = incoming'[Len(incoming')]
        BY <1>types, <3>3, <4>1
      <4>3. twi_rxBuffer' = SubSeq(incoming', 1, Len(incoming') - 1)
        <5> DEFINE t == incoming'
                   n == Len(incoming)
        <5>1. SubSeq(t, 1, n) = incoming
          <6>1. t \in Seq(Byte) /\ n \in 0 .. Len(t) /\ \A i \in 1 .. n : t[i] = incoming[i]
            BY <1>types, <3>1, <3>2, <3>3, OneByteMore
          <6> HIDE DEF t
          <6>2. SubSeq(t, 1, n) \in Seq(Byte) /\ Len(SubSeq(t, 1, n)) = n
                /\ \A i \in 1 .. n : SubSeq(t, 1, n)[i] = t[i]
            BY <6>1, FirstBytes
          <6> DEFINE u == SubSeq(t, 1, n)
          <6>3. u \in Seq(Byte) /\ Len(u) = Len(incoming) /\ \A i \in 1 .. Len(u) : u[i] = incoming[i]
            BY <6>1, <6>2
          <6> HIDE DEF u
          <6>4. u = incoming
            BY <1>types, <6>3, SeqEqual
          <6> QED
            BY <6>4 DEF u
        <5>2. Len(t) - 1 = n
          BY <1>types, <3>3
        <5> QED
          BY <2>1, <4>1, <5>1, <5>2
      <4>4. status' = "SR_DATA_ACK"
        BY <3>1, <3>4
      <4> QED
        BY <1>types, <2>1, <3>3, <4>2, <4>3, <4>4 DEF ReceiverOK
    <3>5. CASE ~twea
      <4>1. Len(incoming') > L + 1 /\ status' = "SR_DATA_NACK"
        BY <1>types, <2>3, <3>1, <3>3, <3>5
      <4> QED
        BY <1>types, <2>1, <3>3, <4>1 DEF ReceiverOK
    <3> QED
      BY <3>4, <3>5
  <2>5. CASE BusIsAddressed
    <3>1. /\ incoming' = << >>
          /\ role' = "sr" => status' = "SR_SLA_ACK"
      BY <2>5 DEF BusIsAddressed, BusAddressed, Report
    <3> QED
      BY <1>types, <2>1, <3>1 DEF ReceiverOK
  <2>6. CASE BusGoesOn /\ ~BusByteSentHere
    <3>1. UNCHANGED incoming
      BY <2>6 DEF BusGoesOn, BusStart, BusAddressAnswered, BusAddressRefused, BusByteAcked,
         BusByteRefused, BusByteRead, BusLost, BusStop, BusByteReadHere, history
    <3>2. role' = "sr" => role = "sr" /\ status' \in {"SR_STOP", "BUS_ERROR"}
      BY <2>6 DEF BusGoesOn, BusStart, BusAddressAnswered, BusAddressRefused, BusByteAcked,
         BusByteRefused, BusByteRead, BusLost, BusStop, BusByteReadHere, Report
    <3> QED
      BY <1>types, <2>1, <2>3, <3>1, <3>2 DEF ReceiverOK
  <2> QED
    BY <1>3, <2>4, <2>5, <2>6
<1> QED
  BY <1>1, <1>2, <1>3 DEF Next

\* The answer goes out in order.
LEMMA AnswerStep ==
  ASSUME Inv, Next, Untimely = {}
  PROVE  AnswerOK'
<1>0. Bits /\ Modes /\ StatusOK /\ BusOK /\ ThreadOK /\ MasterOK /\ AnswerOK
  BY DEF Inv, Flags
<1>types. /\ L \in 1 .. 255 /\ twi_txBuffer \in Seq(Byte) /\ Len(twi_txBuffer) \in Nat
          /\ Len(twi_txBuffer) <= L /\ twi_txBufferIndex \in 0 .. Len(twi_txBuffer)
          /\ offer \in Seq(Byte) /\ answered \in Seq(Byte) /\ << >> \in Seq(Byte)
  BY <1>0, Sizes, NoBytes, LenProperties DEF AnswerOK
<1>1. CASE SketchCalls \/ InCall
  <2>1. UNCHANGED <<twi_txBuffer, twi_txBufferIndex, offer, answered, twdr>>
    BY <1>1, CallsLeave DEF slaveVars
  <2>2. UNCHANGED <<role, status, twea>> \/ role' # "st"
    BY <1>0, <1>1, CallsWait
  <2> QED
    BY <1>0, <2>1, <2>2 DEF AnswerOK
<1>2. CASE HandlerRuns
  <2>1. UNCHANGED answered
    BY <1>2, HandlerLeaves DEF history
  <2>2. ASSUME NEW answer \in Answers, SlaveTransmitter(answer) PROVE AnswerOK'
    <3> DEFINE t == twi_txBuffer'
    <3>1. answered = << >>
      BY <1>0, <2>2, HandlerFor DEF AnswerOK
    <3>2. /\ t \in {answer, << >>, <<Zero>>} /\ t # << >> /\ offer' = t
          /\ twi_txBufferIndex' = 1 /\ twdr' = t[1] /\ status' = "NO_INFO"
          /\ twea' <=> 1 < Len(t)
      BY <2>2 DEF SlaveTransmitter, IsrSlaveTransmitter, Reply
    <3>3. t \in Seq(Byte) /\ Len(t) \in 1 .. L
      <4>1. <<Zero>> \in Seq(Byte) /\ Len(<<Zero>>) = 1
        BY Sizes
      <4>2. answer \in Seq(Byte) /\ Len(answer) \in 0 .. L
        BY Sizes
      <4>3. answer # << >> => Len(answer) # 0
        BY <4>2, EmptySeq
      <4>4. CASE t = answer
        BY <1>types, <3>2, <4>2, <4>3, <4>4
      <4>5. CASE t = <<Zero>>
        BY <1>types, <4>1, <4>5
      <4> QED
        BY <3>2, <4>4, <4>5
    <3>4. SubSeq(t, 1, 0) = << >>
      <4> HIDE DEF t
      <4> QED
        BY <3>3, AllBytes
    <3>5. answered' = SubSeq(offer', 1, twi_txBufferIndex' - 1)
      BY <2>1, <3>1, <3>2, <3>4
    <3>6. 1 \in 0 .. Len(t) /\ Len(t) <= L
      BY <1>types, <3>3
    <3>7. /\ twi_txBuffer' \in Seq(Byte) /\ Len(twi_txBuffer') <= L
          /\ twi_txBufferIndex' \in 0 .. Len(twi_txBuffer') /\ twi_txBufferIndex' > 0
          /\ offer' = twi_txBuffer' /\ offer' \in Seq(Byte)
          /\ twea' <=> twi_txBufferIndex' < Len(twi_txBuffer')
          /\ twdr' = offer'[twi_txBufferIndex']
      BY <3>2, <3>3, <3>6
    <3> HIDE DEF t
    <3> QED
      BY <1>types, <2>1, <3>2, <3>5, <3>7 DEF AnswerOK
  <2>3. CASE IsrSlaveNext
    <3> DEFINE i == twi_txBufferIndex
    <3>1. role = "st" /\ status = "ST_DATA_ACK"
      BY <1>0, <2>3, HandlerFor
    <3>2. offer = twi_txBuffer /\ i < Len(twi_txBuffer) /\ answered = SubSeq(offer, 1, i)
      BY <1>0, <3>1 DEF AnswerOK
    <3>3. /\ twdr' = twi_txBuffer[i + 1] /\ i' = i + 1 /\ status' = "NO_INFO"
          /\ UNCHANGED <<twi_txBuffer, offer>>
          /\ twea' <=> i + 1 < Len(twi_txBuffer)
      BY <2>3, <3>2, <1>2 DEF IsrSlaveNext, Reply, HandlerRuns, SlaveStop, SlaveTransmitter,
         IsrSlaveTransmitter, Isr, wireVars
    <3>4. i' \in 0 .. Len(twi_txBuffer') /\ i' > 0 /\ i' - 1 = i
      BY <1>types, <3>2, <3>3
    <3>5. /\ twdr' = offer'[i'] /\ answered' = SubSeq(offer', 1, i' - 1) /\ offer' = twi_txBuffer'
          /\ twea' <=> i' < Len(twi_txBuffer')
      BY <2>1, <3>2, <3>3, <3>4
    <3> QED
      BY <1>types, <2>1, <3>3, <3>4, <3>5 DEF AnswerOK
  <2>4. CASE ~IsrSlaveNext /\ \A answer \in Answers : ~SlaveTransmitter(answer)
    <3>1. role' # "st"
      BY <1>0, <1>2, <2>4, HandlerRole
    <3>2. UNCHANGED <<twi_txBuffer, twi_txBufferIndex, offer>>
      BY <1>2, <2>4 DEF HandlerRuns, SlaveStop, IsrStart, IsrSend, IsrSentAll,
         IsrFailed, IsrReceive, IsrReceiveLast, IsrSlaveReceiver, IsrSlaveData, IsrSlaveDataNack,
         IsrRelease, IsrSlaveLast, IsrSlaveStop, driver, slaveVars, wireVars
    <3> QED
      BY <1>types, <2>1, <3>1, <3>2 DEF AnswerOK
  <2> QED
    BY <2>2, <2>3, <2>4
<1>3. CASE (BusGoesOn \/ BusIsAddressed) /\ UNCHANGED wireVars
  <2>1. UNCHANGED <<twi_txBuffer, twi_txBufferIndex, twea, offer>>
    BY <1>0, <1>3, BusLeaves DEF Bits, driver, slaveVars, wireVars
  <2>2. status = "NO_INFO"
    BY <1>0, <1>3, BusWaits
  <2>3. role = "st" =>
          /\ offer = twi_txBuffer /\ twi_txBufferIndex > 0
          /\ twea <=> twi_txBufferIndex < Len(twi_txBuffer)
          /\ twdr = offer[twi_txBufferIndex]
          /\ answered = SubSeq(offer, 1, twi_txBufferIndex - 1)
    BY <1>0, <2>2 DEF AnswerOK
  <2>4. ASSUME NEW more \in BOOLEAN, BusByteReadHere(more) PROVE AnswerOK'
    <3> DEFINE n == twi_txBufferIndex
    <3>1. /\ role = "st" /\ answered' = Append(answered, twdr)
          /\ status' \in {"ST_DATA_NACK", "ST_DATA_ACK", "ST_LAST_DATA"}
          /\ status' = "ST_DATA_ACK" => twea
          /\ status' = "ST_LAST_DATA" => ~twea
      BY <2>4 DEF BusByteReadHere, Report
    <3>2. n \in 1 .. Len(offer)
      BY <1>types, <2>3, <3>1
    <3> HIDE DEF n
    <3>3. Append(SubSeq(offer, 1, n - 1), offer[n]) = SubSeq(offer, 1, n)
      BY <1>types, <3>2, NextByte
    <3>4. n \in 0 .. Len(offer)
      BY <3>2
    <3>5. SubSeq(offer, 1, n) \in Seq(Byte)
      BY <1>types, <3>4, FirstBytes
    <3>6. answered' = SubSeq(offer, 1, n) /\ answered' \in Seq(Byte)
      BY <2>3, <3>1, <3>3, <3>5 DEF n
    <3> QED
      BY <1>types, <2>1, <2>3, <3>1, <3>6 DEF AnswerOK, n
  <2>5. CASE BusIsAddressed
    <3>1. /\ answered' = << >>
          /\ role' = "st" => status' = "ST_SLA_ACK"
      BY <2>5 DEF BusIsAddressed, BusAddressed, Report
    <3> QED
      BY <1>types, <2>1, <3>1 DEF AnswerOK
  <2>6. CASE BusGoesOn /\ \A more \in BOOLEAN : ~BusByteReadHere(more)
    <3>1. UNCHANGED answered
      BY <2>6 DEF BusGoesOn, BusStart, BusAddressAnswered, BusAddressRefused, BusByteAcked,
         BusByteRefused, BusByteRead, BusByteSentHere, BusLost, BusStop, history
    <3>2. role' = "st" => role = "st" /\ status' = "BUS_ERROR" /\ UNCHANGED twdr
      BY <2>6 DEF BusGoesOn, BusStart, BusAddressAnswered, BusAddressRefused, BusByteAcked,
         BusByteRefused, BusByteRead, BusByteSentHere, BusLost, BusStop, Report
    <3> QED
      BY <1>types, <2>1, <2>3, <3>1, <3>2 DEF AnswerOK
  <2> QED
    BY <1>3, <2>4, <2>5, <2>6
<1> QED
  BY <1>1, <1>2, <1>3 DEF Next

-----------------------------------------------------------------------------
(* The invariant holds *)

LEMMA InitInv == Init => Inv
<1> SUFFICES ASSUME Init PROVE Inv
  OBVIOUS
<1>1. << >> \in Seq(Byte) /\ Len(<< >>) = 0 /\ L \in 1 .. 255 /\ Zero \in Byte
      /\ MaxForeign \in Nat
  BY NoBytes, Sizes
<1>2. Flags
  <2>1. Bits /\ Errors
    BY DEF Init, TwiInit, Bits, Errors, Error, Outcome
  <2>2. Modes
    BY <1>1 DEF Init, TwiInit, Modes, Mode, Role, PC
  <2> QED
    BY <2>1, <2>2 DEF Flags
<1>3. StatusOK /\ BusOK /\ ThreadOK /\ StartOK
  BY <1>1 DEF Init, TwiInit, StatusOK, BusOK, ThreadOK, StartOK, InProgress
<1>4. MessageOK /\ MasterOK /\ WriteOK /\ OutcomeOK /\ ReadOK
  BY <1>1 DEF Init, TwiInit, MessageOK, MasterOK, WriteOK, OutcomeOK, ReadOK, InProgress
<1>5. ReturnOK /\ ReceiverOK /\ AnswerOK
  BY <1>1 DEF Init, TwiInit, ReturnOK, ReceiverOK, AnswerOK
<1> QED
  BY <1>2, <1>3, <1>4, <1>5 DEF Inv

LEMMA NextInv ==
  ASSUME Inv, Next, Untimely = {}
  PROVE  Inv'
BY BitsStep, ModesStep, ErrorsStep, StatusOKStep, BusOKStep, ThreadOKStep, MessageStep, MasterStep,
   StartStep, WriteStep, OutcomeStep, ReadStep, ReturnStep, ReceiverStep, AnswerStep
DEF Inv, Flags

LEMMA StutterInv ==
  ASSUME Inv, UNCHANGED vars
  PROVE  Inv'
<1>1. /\ UNCHANGED <<twi_state, twi_slarw, twi_sendStop, twi_inRepStart, twi_error, twi_masterBuffer,
                     twi_masterBufferIndex, twi_masterBufferLength, twi_txBuffer,
                     twi_txBufferIndex, twi_rxBuffer>>
      /\ UNCHANGED <<pc, call, length, sendStop, servicing, status, twie, twea, twsta, twdr, role,
                     foreign, outcome, acked, fetched, incoming, answered, disturbed>>
      /\ UNCHANGED <<unread, rxBuffer, txBuffer, txBufferLength, transmitting, message, offer>>
  BY DEF vars, twiVars, wireVars, driver, masterVars, slaveVars, sketch, twcr, history, rxVars, txVars
<1>2. Flags' /\ StatusOK' /\ BusOK' /\ ThreadOK' /\ StartOK'
  BY <1>1 DEF Inv, Flags, Bits, Modes, Errors, StatusOK, BusOK, ThreadOK, StartOK, InProgress,
     Deafened
<1>3. MessageOK' /\ MasterOK' /\ WriteOK' /\ ReadOK'
  BY <1>1 DEF Inv, MessageOK, MasterOK, WriteOK, ReadOK, InProgress
<1>4. OutcomeOK' /\ ReturnOK' /\ ReceiverOK' /\ AnswerOK'
  BY <1>1 DEF Inv, OutcomeOK, Result, InProgress, ReturnOK, ReceiverOK, AnswerOK
<1> QED
  BY <1>2, <1>3, <1>4 DEF Inv

THEOREM WireInvariant ==
  ASSUME Untimely = {}
  PROVE  Spec => []Inv
<1>1. Inv /\ [Next]_vars => Inv'
  BY NextInv, StutterInv
<1> QED
  BY <1>1, InitInv, PTL DEF Spec

-----------------------------------------------------------------------------
(* What follows from it *)

\* Buffers, indices and lengths stay within their bounds: no handler writes
\* behind a buffer, whatever other masters send and sketches write.
THEOREM WireTypes ==
  ASSUME Untimely = {}
  PROVE  Spec => []TypeOK
<1>1. ASSUME Inv PROVE TypeOK
  <2>1. L \in 1 .. 255 /\ L = BUFFER_LENGTH
    BY Sizes DEF L
  <2>2. /\ twi_state \in Mode /\ twi_slarw \in {"R", "W"} /\ twi_error \in Error
        /\ pc \in PC /\ call \in {"read", "write"} /\ role \in Role /\ outcome \in Outcome
        /\ twdr \in Byte /\ foreign \in 0 .. MaxForeign
        /\ {twi_sendStop, twi_inRepStart, sendStop, twie, twea, twsta, servicing, disturbed,
            transmitting} \subseteq BOOLEAN
    BY <1>1 DEF Inv, Flags, Bits, Modes, Errors, MasterOK
  <2>3. status \in Status
    BY <1>1 DEF Inv, Flags, Modes, Role, StatusOK, Status
  <2>4. {twi_masterBuffer, twi_txBuffer, twi_rxBuffer, unread, rxBuffer, txBuffer,
         message, offer, acked, fetched, incoming, answered} \subseteq Seq(Byte)
    BY <1>1 DEF Inv, MessageOK, MasterOK, ReturnOK, ReceiverOK, AnswerOK
  <2>5. /\ Len(twi_masterBuffer) \in 0 .. L /\ Len(twi_txBuffer) \in 0 .. L
        /\ Len(twi_rxBuffer) \in 0 .. L /\ Len(unread) \in 0 .. L
    <3>1. /\ Len(twi_masterBuffer) \in Nat /\ Len(twi_txBuffer) \in Nat
          /\ Len(twi_rxBuffer) \in Nat /\ Len(unread) \in Nat
      BY <2>4, LenProperties
    <3>2. /\ Len(twi_masterBuffer) <= L /\ Len(twi_txBuffer) <= L
          /\ Len(twi_rxBuffer) <= L /\ Len(unread) <= L
      BY <1>1 DEF Inv, MasterOK, ReturnOK, ReceiverOK, AnswerOK
    <3> QED
      BY <2>1, <3>1, <3>2
  <2>6. /\ twi_masterBufferIndex \in 0 .. L /\ twi_masterBufferLength \in 0 .. L
        /\ txBufferLength \in 0 .. L /\ length \in 0 .. L
        /\ twi_txBufferIndex \in 0 .. Len(twi_txBuffer)
    BY <1>1 DEF Inv, MessageOK, MasterOK, AnswerOK
  <2>7. /\ twi_masterBufferIndex \in 0 .. 255 /\ twi_masterBufferLength \in 0 .. 255
        /\ txBufferLength \in 0 .. 255 /\ length \in 0 .. 255 /\ twi_txBufferIndex \in 0 .. 255
        /\ twi_masterBufferIndex <= BUFFER_LENGTH /\ twi_txBufferIndex <= Len(twi_txBuffer)
    BY <2>1, <2>5, <2>6
  <2> QED
    BY <2>1, <2>2, <2>3, <2>4, <2>5, <2>6, <2>7 DEF TypeOK
<1> QED
  BY <1>1, WireInvariant, PTL

\* Another master that reads gets the sketch's answer from its first byte on.
THEOREM AnswersAreHonest ==
  ASSUME Untimely = {}
  PROVE  Spec => []AnswerHonest
<1>1. ASSUME Inv PROVE AnswerHonest
  <2> SUFFICES ASSUME role = "st"
               PROVE  /\ IsPrefix(answered, offer)
                      /\ status = "ST_LAST_DATA" => answered = offer
    BY DEF AnswerHonest
  <2>1. offer \in Seq(Byte) /\ Len(offer) \in Nat
    BY <1>1, LenProperties DEF Inv, AnswerOK
  <2>2. \E n \in 0 .. Len(offer) :
          answered = SubSeq(offer, 1, n) /\ (status = "ST_LAST_DATA" => n = Len(offer))
    <3>1. CASE status = "ST_SLA_ACK"
      <4>1. answered = SubSeq(offer, 1, 0)
        BY <1>1, <2>1, <3>1, AllBytes DEF Inv, AnswerOK
      <4> QED
        BY <2>1, <3>1, <4>1
    <3>2. CASE status # "ST_SLA_ACK"
      <4> DEFINE n == twi_txBufferIndex
      <4>1. /\ offer = twi_txBuffer /\ n > 0 /\ n \in 0 .. Len(offer)
            /\ twea <=> n < Len(offer)
            /\ status = "ST_LAST_DATA" => ~twea
        BY <1>1, <3>2 DEF Inv, AnswerOK
      <4>2. CASE status \in {"NO_INFO", "BUS_ERROR"}
        <5>1. answered = SubSeq(offer, 1, n - 1)
          BY <1>1, <3>2, <4>2 DEF Inv, AnswerOK
        <5>2. n - 1 \in 0 .. Len(offer)
          BY <2>1, <4>1
        <5> QED
          BY <4>2, <5>1, <5>2
      <4>3. CASE status \notin {"NO_INFO", "BUS_ERROR"}
        <5>1. answered = SubSeq(offer, 1, n)
          BY <1>1, <3>2, <4>3 DEF Inv, AnswerOK
        <5>2. status = "ST_LAST_DATA" => n = Len(offer)
          BY <2>1, <4>1
        <5> QED
          BY <4>1, <5>1, <5>2
      <4> QED
        BY <4>2, <4>3
    <3> QED
      BY <3>1, <3>2
  <2>3. PICK n \in 0 .. Len(offer) :
          answered = SubSeq(offer, 1, n) /\ (status = "ST_LAST_DATA" => n = Len(offer))
    BY <2>2
  <2>4. Len(answered) = n
    BY <2>1, <2>3, FirstBytes
  <2>5. IsPrefix(answered, offer)
    BY <2>1, <2>3, <2>4 DEF IsPrefix
  <2>6. status = "ST_LAST_DATA" => answered = offer
    BY <2>1, <2>3, AllBytes
  <2> QED
    BY <2>5, <2>6
<1> QED
  BY <1>1, WireInvariant, PTL

\* Between transactions the device answers its address, unless another master
\* has sent two bytes more than the buffer holds.
THEOREM DeviceStaysReachable ==
  ASSUME Untimely = {}
  PROVE  Spec => []NeverDeaf
<1>1. ASSUME Inv PROVE NeverDeaf
  <2> SUFFICES ASSUME pc = "idle", role = "none", ~servicing PROVE Ready \/ Deafened
    BY DEF NeverDeaf, Idle
  <2>1. BusOK /\ ThreadOK /\ Bits /\ StatusOK
    BY <1>1 DEF Inv, Flags
  <2>2. ~twsta
    BY <2>1 DEF BusOK, InProgress
  <2>3. ~twi_inRepStart
    BY <2>1 DEF BusOK, StatusOK
  <2>4. twie
    BY <2>1, <2>3 DEF BusOK
  <2>5. ~twea => Deafened
    BY <2>1, <2>3 DEF BusOK
  <2>6. twea => twi_state = "READY"
    BY <2>1, <2>2 DEF BusOK
  <2> QED
    BY <2>4, <2>5, <2>6 DEF Ready
<1> QED
  BY <1>1, WireInvariant, PTL

-----------------------------------------------------------------------------
(* What a step may hand over *)

\* endTransmission() returns what happened on the bus.
THEOREM WritesAreHonest ==
  ASSUME Untimely = {}
  PROVE  Spec => WriteHonest
<1>1. ASSUME Inv, WriteReturns, ~disturbed
      PROVE  Result = Code[outcome] /\ (Result = 0 => acked = message)
  <2>1. pc = "wait_done" /\ call = "write" /\ ~InProgress
    BY <1>1 DEF WriteReturns, Done, At, InProgress
  <2> QED
    BY <1>1, <2>1 DEF Inv, OutcomeOK
<1>2. Inv /\ [Next]_vars =>
        [WriteReturns /\ ~disturbed =>
           Result = Code[outcome] /\ (Result = 0 => acked = message)]_vars
  BY <1>1
<1> QED
  BY <1>2, WireInvariant, PTL DEF Spec, WriteHonest

\* requestFrom() hands over what the remote device sent, all of it in order.
THEOREM ReadsAreHonest ==
  ASSUME Untimely = {}
  PROVE  Spec => ReadHonest
<1>1. ASSUME Inv, Next, pc = "read_return", pc' = "idle", ~disturbed
      PROVE  /\ unread' = fetched
             /\ outcome = "answered" => Len(fetched) = twi_masterBufferLength + 1
  <2>1. ReadReturn
    <3>1. ~HandlerRuns
      BY <1>1, HandlerLeaves
    <3>2. ~(BusGoesOn \/ BusIsAddressed)
      BY <1>1, BusLeaves DEF Inv, Flags, Bits, sketch
    <3> QED
      BY <1>1, <3>1, <3>2 DEF Next, SketchCalls, InCall, CallGoesOn, BeginTransmission, Write,
         EndTransmission, RequestFrom, Enter, Read, WaitReady, Setup, WriteTwcr, ReturnWrite,
         ReadCopy, Done, At
  <2>2. unread' = SubSeq(rxBuffer, 1, length)
    BY <2>1 DEF ReadReturn
  <2> QED
    BY <1>1, <2>2 DEF Inv, ReturnOK
<1>2. Inv /\ [Next]_vars =>
        [pc = "read_return" /\ pc' = "idle" /\ ~disturbed =>
           /\ unread' = fetched
           /\ outcome = "answered" => Len(fetched) = twi_masterBufferLength + 1]_vars
  BY <1>1
<1> QED
  BY <1>2, WireInvariant, PTL DEF Spec, ReadHonest

LEMMA ReverseIs ==
  ASSUME NEW s \in Seq(Byte)
  PROVE  /\ Reverse(s) \in Seq(Byte) /\ Len(Reverse(s)) = Len(s)
         /\ \A i \in 1 .. Len(s) : Reverse(s)[i] = s[(Len(s) - i) + 1]
<1> DEFINE n == Len(s)
<1>1. n \in Nat /\ \A i \in 1 .. n : s[i] \in Byte
  BY LenProperties
<1>2. \A i \in 1 .. n : (n - i) + 1 \in 1 .. n
  BY <1>1
<1>3. Reverse(s) = [i \in 1 .. n |-> s[(n - i) + 1]]
  BY DEF Reverse
<1> HIDE DEF n
<1>4. Reverse(s) \in [1 .. n -> Byte]
  BY <1>1, <1>2, <1>3
<1>5. Reverse(s) \in Seq(Byte) /\ Len(Reverse(s)) = n
  BY <1>1, <1>4
<1>6. \A i \in 1 .. n : Reverse(s)[i] = s[(n - i) + 1]
  BY <1>3
<1> QED
  BY <1>5, <1>6 DEF n

\* What is left after n bytes were read is a suffix.
LEMMA RestIsSuffix ==
  ASSUME NEW s \in Seq(Byte), NEW n \in 0 .. Len(s)
  PROVE  IsSuffix(SubSeq(s, n + 1, Len(s)), s)
<1> DEFINE k == Len(s)
           m == n + 1
           u == SubSeq(s, m, k)
           h == k - n
<1>1. k \in Nat /\ n \in Nat /\ n <= k /\ \A i \in 1 .. k : s[i] \in Byte
  BY LenProperties
<1>2. m \in Int /\ k \in Int /\ \A j \in m .. k : s[j] \in Byte
  BY <1>1
<1>3. m = n + 1 /\ h = k - n /\ h \in 0 .. k
  BY <1>1
<1> HIDE DEF k, m, h
<1>4. /\ u \in Seq(Byte) /\ Len(u) = (IF m <= k THEN (k - m) + 1 ELSE 0)
      /\ \A i \in 1 .. ((k - m) + 1) : u[i] = s[(m + i) - 1]
  BY <1>2, SubSeqProperties
<1> HIDE DEF u
<1>5. Len(u) = h
  BY <1>1, <1>3, <1>4
<1> DEFINE a == Reverse(u)
           b == Reverse(s)
<1>6. a \in Seq(Byte) /\ Len(a) = h /\ \A i \in 1 .. h : a[i] = u[(h - i) + 1]
  BY <1>4, <1>5, ReverseIs
<1>7. b \in Seq(Byte) /\ Len(b) = k /\ \A i \in 1 .. k : b[i] = s[(k - i) + 1]
  BY ReverseIs DEF k
<1> HIDE DEF a, b
<1>8. ASSUME NEW i \in 1 .. h PROVE a[i] = b[i]
  <2>1. (h - i) + 1 \in 1 .. ((k - m) + 1) /\ (m + ((h - i) + 1)) - 1 = (k - i) + 1 /\ i \in 1 .. k
    BY <1>1, <1>3
  <2>2. a[i] = s[(m + ((h - i) + 1)) - 1]
    BY <1>4, <1>6, <2>1
  <2>3. b[i] = s[(k - i) + 1]
    BY <1>7, <2>1
  <2> QED
    BY <2>1, <2>2, <2>3
<1>9. /\ SubSeq(b, 1, h) \in Seq(Byte) /\ Len(SubSeq(b, 1, h)) = h
      /\ \A i \in 1 .. h : SubSeq(b, 1, h)[i] = b[i]
  <2>1. h \in 0 .. Len(b)
    BY <1>3, <1>7
  <2> QED
    BY <1>7, <2>1, FirstBytes
<1> DEFINE p == SubSeq(b, 1, h)
<1>10. p \in Seq(Byte) /\ Len(p) = Len(a) /\ \A i \in 1 .. Len(p) : p[i] = a[i]
  BY <1>6, <1>8, <1>9
<1>11. p = a
  <2> HIDE DEF p
  <2> QED
    BY <1>6, <1>10, SeqEqual
<1>12. SubSeq(a, 1, Len(a)) = a
  BY <1>6, AllBytes
<1>13. Len(a) <= Len(b) /\ SubSeq(a, 1, Len(a)) = SubSeq(b, 1, Len(a))
  BY <1>1, <1>3, <1>6, <1>7, <1>11, <1>12
<1> QED
  BY <1>13 DEF IsSuffix, IsPrefix, a, b, u, m, k

\* The receive callback gets what another master sent.
THEOREM ReceptionsAreHonest ==
  ASSUME Untimely = {}
  PROVE  Spec => ReceiveHonest
<1>1. ASSUME Inv, Next, ~servicing, servicing', "receive" \in registered
      PROVE  IF unread # << >> THEN unread' = unread
             ELSE /\ twi_rxBuffer = Take(incoming, BUFFER_LENGTH)
                  /\ IsSuffix(unread', twi_rxBuffer)
  <2>1. SlaveStop
    <3>1. ~(SketchCalls \/ InCall)
      BY <1>1, CallsLeave
    <3>2. ~(BusGoesOn \/ BusIsAddressed)
      BY <1>1, BusLeaves DEF Inv, Flags, Bits, sketch
    <3>3. HandlerRuns
      BY <1>1, <3>1, <3>2 DEF Next
    <3> QED
      BY <1>1, <3>3 DEF HandlerRuns, SlaveTransmitter, IsrSlaveTransmitter, IsrStart, IsrSend,
         IsrSentAll, IsrFailed, IsrReceive, IsrReceiveLast, IsrSlaveReceiver, IsrSlaveData,
         IsrSlaveDataNack, IsrRelease, IsrSlaveNext, IsrSlaveLast, sketch
  <2>2. role = "sr" /\ status = "SR_STOP"
    BY <1>1, <2>1, HandlerFor DEF Inv, Flags
  <2>3. twi_rxBuffer = Take(incoming, BUFFER_LENGTH) /\ twi_rxBuffer \in Seq(Byte)
    BY <1>1, <2>2 DEF Inv, ReceiverOK, L
  <2>4. CASE unread # << >>
    BY <2>1, <2>4 DEF SlaveStop, onReceiveService, rxVars
  <2>5. CASE unread = << >>
    <3>1. PICK n \in 0 .. Len(twi_rxBuffer) :
            unread' = SubSeq(twi_rxBuffer, n + 1, Len(twi_rxBuffer))
      BY <1>1, <2>1, <2>5 DEF SlaveStop, onReceiveService
    <3>2. IsSuffix(unread', twi_rxBuffer)
      BY <2>3, <3>1, RestIsSuffix
    <3> QED
      BY <2>3, <2>5, <3>2
  <2> QED
    BY <2>4, <2>5
<1>2. Inv /\ [Next]_vars =>
        [~servicing /\ servicing' /\ "receive" \in registered =>
           IF unread # << >> THEN unread' = unread
           ELSE /\ twi_rxBuffer = Take(incoming, BUFFER_LENGTH)
                /\ IsSuffix(unread', twi_rxBuffer)]_vars
  BY <1>1
<1> QED
  BY <1>2, WireInvariant, PTL DEF Spec, ReceiveHonest
==============================================================================
