------------------------- MODULE SerialSketchProofs -------------------------
(***************************************************************************)
(* Proofs about SerialSketch, for any number of ports, every buffer size,  *)
(* and every length of a frame that fits into an overflow.                 *)
(***************************************************************************)
EXTENDS SerialSketch, TLAPS

-----------------------------------------------------------------------------
(* The inductive invariants *)

\* Who is sampled, who dropped a byte, and who is in a call, is a port.
PortsKnown ==
  /\ recv.on \/ unreported # "no" => active_object \in Port
  /\ ~recv.on => recv = NotReceiving
  /\ pc \in {"begin_tune", "begin_listen", "overflow_clear"} => port \in Port

Types == TypeOK /\ PortsKnown

\* A frame on the listening port that nothing has hidden is being sampled from
\* its start, or the handler is about to begin, or the port has no baud rate.
Seen ==
  ~excused /\ active_object # NoPort /\ line[active_object] > 0 =>
    \/ active_object \notin tuned
    \/ recv.on /\ ~recv.torn /\ recv.left = line[active_object]
    \/ /\ line[active_object] = FrameTicks /\ pcif
       /\ recv.left = 0 /\ sending = 0

\* While an overflow waits, what keeps it waiting ends before the next one.
InTime ==
  tov /\ ~starved =>
    /\ tcnt + sending < TimerTicks
    /\ tcnt + recv.left < TimerTicks

-----------------------------------------------------------------------------
(* Types *)

\* Remainders stay below the divisor.
LEMMA Remainder ==
  ASSUME NEW k \in Nat, NEW d \in Nat \ {0}
  PROVE  k % d \in 0 .. d - 1
OBVIOUS

\* The plain part of what is assumed of the timer.
LEMMA Sizes ==
  /\ TimerTicks \in Nat \ {0} /\ CountMod \in Nat \ {0} /\ MILLIS_INC \in Nat \ {0}
  /\ FRACT_MAX \in Nat \ {0} /\ MillisMod \in Nat \ {0} /\ DelayMod \in Nat \ {0}
  /\ NowMod \in Nat \ {0} /\ FRACT_INC \in 0 .. FRACT_MAX - 1
BY TimerAssumption

LEMMA TickTypes == TimeTypeOK /\ Tick => TimeTypeOK'
<1> SUFFICES ASSUME TimeTypeOK, Tick PROVE TimeTypeOK'
  OBVIOUS
<1>1. TimerTicks \in Nat \ {0} /\ NowMod \in Nat \ {0}
  BY Sizes
<1>2. tcnt + 1 \in Nat /\ now + 1 \in Nat
  BY <1>1 DEF TimeTypeOK
<1>3. tcnt' \in 0 .. TimerTicks - 1
  <2>1. tcnt' = (tcnt + 1) % TimerTicks
    BY DEF Tick
  <2> QED
    BY <1>1, <1>2, <2>1, Remainder
<1>4. now' \in 0 .. NowMod - 1
  <2>1. now' = IF lost' THEN 0 ELSE (now + 1) % NowMod
    BY DEF Tick
  <2>2. (now + 1) % NowMod \in 0 .. NowMod - 1
    BY <1>1, <1>2, Remainder
  <2>3. 0 \in 0 .. NowMod - 1
    BY <1>1
  <2> QED
    BY <2>1, <2>2, <2>3
<1>5. tov' \in BOOLEAN /\ lost' \in BOOLEAN
  BY DEF TimeTypeOK, Tick
<1> QED
  BY <1>3, <1>4, <1>5 DEF TimeTypeOK, Tick, locals

LEMMA OverflowTypes == TimeTypeOK /\ OverflowIsr => TimeTypeOK'
<1> SUFFICES ASSUME TimeTypeOK, OverflowIsr PROVE TimeTypeOK'
  OBVIOUS
<1> DEFINE f == timer0_fract + FRACT_INC
           carry == IF f >= FRACT_MAX THEN 1 ELSE 0
           millis == timer0_millis + MILLIS_INC + carry
<1>1. /\ MillisMod \in Nat \ {0} /\ CountMod \in Nat \ {0}
      /\ MILLIS_INC \in Nat /\ FRACT_MAX \in Nat \ {0}
      /\ FRACT_INC \in 0 .. FRACT_MAX - 1
  BY Sizes
<1>2. /\ timer0_fract' = f - carry * FRACT_MAX
      /\ timer0_millis' = millis % MillisMod
      /\ timer0_overflow_count' = (timer0_overflow_count + 1) % CountMod
      /\ tov' = FALSE
      /\ UNCHANGED <<tcnt, locals, now, lost>>
  BY DEF OverflowIsr
<1>3. timer0_fract' \in 0 .. FRACT_MAX - 1
  <2>1. timer0_fract \in 0 .. FRACT_MAX - 1
    BY DEF TimeTypeOK
  <2>2. CASE f >= FRACT_MAX
    <3>1. timer0_fract' = f - FRACT_MAX
      BY <1>1, <1>2, <2>2
    <3> QED
      BY <1>1, <2>1, <2>2, <3>1
  <2>3. CASE ~(f >= FRACT_MAX)
    <3>1. timer0_fract' = f
      BY <1>1, <1>2, <2>1, <2>3
    <3> QED
      BY <1>1, <2>1, <2>3, <3>1
  <2> QED
    BY <2>2, <2>3
<1>4. timer0_millis' \in 0 .. MillisMod - 1
  <2>1. millis \in Nat
    BY <1>1 DEF TimeTypeOK
  <2> HIDE DEF millis
  <2> QED
    BY <1>1, <1>2, <2>1, Remainder
<1>5. timer0_overflow_count' \in 0 .. CountMod - 1
  BY <1>1, <1>2, Remainder DEF TimeTypeOK
<1> QED
  BY <1>2, <1>3, <1>4, <1>5 DEF TimeTypeOK, locals

LEMMA InitTypes == Init => Types
<1> SUFFICES ASSUME Init PROVE Types
  OBVIOUS
<1>1. TimeTypeOK
  <2>1. /\ 0 \in 0 .. TimerTicks - 1 /\ 0 \in 0 .. CountMod - 1
        /\ 0 \in 0 .. MillisMod - 1 /\ 0 \in 0 .. FRACT_MAX - 1
        /\ 0 \in 0 .. NowMod - 1 /\ 0 \in 0 .. DelayMod + MillisMod
    BY Sizes
  <2>2. /\ tcnt = 0 /\ tov = FALSE
        /\ timer0_overflow_count = 0 /\ timer0_millis = 0 /\ timer0_fract = 0
        /\ m = 0 /\ t = 0 /\ start = 0 /\ ms = 0 /\ now = 0 /\ lost = FALSE
    BY DEF Init, TimeInit
  <2>3. 0 \in Nat
    OBVIOUS
  <2> QED
    BY <2>1, <2>2, <2>3, Zenon DEF TimeTypeOK
<1>2. receive_buffer \in Seq(Data) /\ Len(receive_buffer) < _SS_MAX_RX_BUFF
  BY BufferAssumption DEF Init, SerialInit
<1>3. 0 \in 0 .. FrameTicks
  BY FrameAssumption
<1>4. /\ line \in [Port -> 0 .. FrameTicks]
      /\ recv \in [left : 0 .. FrameTicks, torn : BOOLEAN, on : BOOLEAN]
      /\ sending \in 0 .. FrameTicks
  BY <1>3 DEF Init, SerialInit, NotReceiving
<1> QED
  BY <1>1, <1>2, <1>4
  DEF Init, SerialInit, Types, TypeOK, PortsKnown, PC, NotReceiving

\* What begins to be sampled is a frame, or nothing.
LEMMA SamplingType ==
  ASSUME TypeOK, NEW p \in Port
  PROVE  /\ Sampling(p) \in [left : 0 .. FrameTicks, torn : BOOLEAN, on : BOOLEAN]
         /\ Sampling(p).on
         /\ Sampling(p).torn = ~(p \in tuned /\ InStartBit(p))
         /\ ~Sampling(p).torn => Sampling(p).left = line[p]
         /\ Sampling(p).torn /\ p \notin tuned => Sampling(p).left = 0
<1> DEFINE clean == p \in tuned /\ InStartBit(p)
           l == CASE clean -> line[p] [] p \notin tuned -> 0 [] OTHER -> FrameTicks
<1>1. Sampling(p) = [on |-> TRUE, torn |-> ~clean, left |-> l]
  BY DEF Sampling
<1>2. line[p] \in 0 .. FrameTicks /\ FrameTicks \in 0 .. FrameTicks /\ 0 \in 0 .. FrameTicks
  BY FrameAssumption DEF TypeOK
<1>3. clean \in BOOLEAN /\ (~clean) \in BOOLEAN
  BY DEF InStartBit
<1>4. clean => l = line[p]
  OBVIOUS
<1>5. ~clean /\ p \notin tuned => l = 0
  OBVIOUS
<1>6. ~clean /\ p \in tuned => l = FrameTicks
  OBVIOUS
<1>7. l \in 0 .. FrameTicks
  BY <1>2, <1>4, <1>5, <1>6, Zenon
<1>8. Sampling(p).torn = ~clean /\ Sampling(p).left = l /\ Sampling(p).on
  BY <1>1
<1>9. Sampling(p) \in [left : 0 .. FrameTicks, torn : BOOLEAN, on : BOOLEAN]
  <2> HIDE DEF l, clean
  <2> QED
    BY <1>1, <1>3, <1>7
<1>10. ~Sampling(p).torn => Sampling(p).left = line[p]
  BY <1>4, <1>8
<1>11. Sampling(p).torn /\ p \notin tuned => Sampling(p).left = 0
  BY <1>5, <1>8
<1> QED
  BY <1>8, <1>9, <1>10, <1>11

\* Time and the pins.
LEMMA PinTickTypes ==
  ASSUME TypeOK, PinTick
  PROVE  /\ line' \in [Port -> 0 .. FrameTicks]
         /\ recv' \in [left : 0 .. FrameTicks, torn : BOOLEAN, on : BOOLEAN]
         /\ recv'.on = recv.on /\ recv'.torn = recv.torn
         /\ recv'.left = Less(recv.left)
         /\ sending' \in 0 .. FrameTicks
         /\ pcif' \in BOOLEAN
<1>1. \A k \in 0 .. FrameTicks : Less(k) \in 0 .. FrameTicks
  BY FrameAssumption DEF Less
<1>2. /\ line' = [p \in Port |-> Less(line[p])]
      /\ recv' = [recv EXCEPT !.left = Less(recv.left)]
      /\ sending' = Less(sending)
      /\ \E edge \in BOOLEAN : pcif' = (pcif \/ edge)
  BY DEF PinTick
<1>3. /\ line \in [Port -> 0 .. FrameTicks]
      /\ recv \in [left : 0 .. FrameTicks, torn : BOOLEAN, on : BOOLEAN]
      /\ sending \in 0 .. FrameTicks /\ pcif \in BOOLEAN
  BY DEF TypeOK
<1>4. \A p \in Port : Less(line[p]) \in 0 .. FrameTicks
  BY <1>1, <1>3
<1>5. Less(recv.left) \in 0 .. FrameTicks
  BY <1>1, <1>3
<1> QED
  BY <1>1, <1>2, <1>3, <1>4, <1>5

LEMMA NoTimeTypes ==
  ASSUME TimeTypeOK, UNCHANGED timeVars
  PROVE  TimeTypeOK'
BY DEF TimeTypeOK, timeVars, clock, locals

\* The steps of the calls.
LEMMA CallTypes ==
  ASSUME Types,
         \/ \E p \in Port : Begin(p) \/ OverflowCall(p)
         \/ BeginTunes \/ BeginListens \/ ListenCall \/ EndCall \/ ReadCall
         \/ FlushCall \/ OverflowReturns \/ WriteCall \/ WriteReturns
  PROVE  Types'
<1> USE DEF Types, TypeOK, PortsKnown, PC
<1>t. UNCHANGED timeVars => TimeTypeOK'
  BY NoTimeTypes
<1>h. Hides => excused' \in BOOLEAN
  BY DEF Hides
<1>e. << >> \in Seq(Data) /\ Len(<< >>) < _SS_MAX_RX_BUFF
  BY BufferAssumption
<1>l. ASSUME NEW q \in Port, ListenTo(q), At(pc)
      PROVE  Types'
  <2>1. receive_buffer' \in Seq(Data) /\ Len(receive_buffer') < _SS_MAX_RX_BUFF
    BY <1>l, <1>e DEF ListenTo, BeginListen, Listen
  <2>2. active_object' \in Port /\ buffer_overflow' \in [Port -> BOOLEAN]
    BY <1>l DEF ListenTo, BeginListen, Listen
  <2>3. unreported' \in {"no", "yes", "slipped"}
    BY <1>l DEF ListenTo
  <2>4. ~recv.on
    BY <1>l DEF At, Due
  <2>5. /\ UNCHANGED timeVars /\ Hides
        /\ UNCHANGED <<starved, tuned, pcmsk, pcif, line, recv, sending>>
        /\ pc' = "idle" /\ port' = NoPort /\ ret' = FALSE
    BY <1>l DEF ListenTo, BeginListen, Return, wireVars
  <2> QED
    BY <1>t, <1>h, <2>1, <2>2, <2>3, <2>4, <2>5
<1>1. ASSUME NEW p \in Port, Begin(p) PROVE Types'
  BY <1>1, <1>t, <1>h DEF Begin, BeginUntune, At, Due, Call, wireVars
<1>2. ASSUME NEW p \in Port, OverflowCall(p) PROVE Types'
  BY <1>2, <1>t DEF OverflowCall, At, Due, serialVars, portVars, wireVars, history
<1>3. CASE BeginTunes
  <2>1. tuned' \subseteq Port /\ pcmsk' \subseteq Port
    BY <1>3 DEF BeginTunes, BeginTune, At
  <2>2. /\ UNCHANGED timeVars /\ Hides
        /\ UNCHANGED <<active_object, receive_buffer, buffer_overflow, pcif, line,
                       recv, sending, unreported, starved, ret>>
        /\ pc' = "begin_listen" /\ port' = port /\ pc = "begin_tune" /\ ~recv.on
    BY <1>3 DEF BeginTunes, BeginTune, At, Due, Call, wireVars
  <2> QED
    BY <1>t, <1>h, <2>1, <2>2
<1>4. CASE BeginListens
  BY <1>4, <1>l DEF BeginListens, At
<1>5. CASE ListenCall
  BY <1>5, <1>l DEF ListenCall, At
<1>6. CASE EndCall
  BY <1>6, <1>t, <1>h DEF EndCall, End, At, Due, wireVars, thread
<1>7. CASE ReadCall
  <2>1. receive_buffer' \in Seq(Data) /\ Len(receive_buffer') < _SS_MAX_RX_BUFF
    <3>1. receive_buffer # << >> /\ receive_buffer' = Tail(receive_buffer)
      BY <1>7 DEF ReadCall, Read
    <3> QED
      BY <3>1, BufferAssumption
  <2> QED
    BY <1>7, <1>t, <2>1 DEF ReadCall, Read, At, Due, wireVars, thread, history
<1>8. CASE FlushCall
  BY <1>8, <1>t, <1>e DEF FlushCall, Flush, At, Due, wireVars, thread, history
<1>9. CASE OverflowReturns
  BY <1>9, <1>t DEF OverflowReturns, ClearOverflow, At, Due, Return, wireVars
<1>10. CASE WriteCall
  BY <1>10, <1>t, FrameAssumption
  DEF WriteCall, WriteFrame, At, Due, Call, portVars, history
<1>11. CASE WriteReturns
  BY <1>11, <1>t DEF WriteReturns, At, Due, Return, serialVars, portVars, wireVars, history
<1> QED
  BY <1>1, <1>2, <1>3, <1>4, <1>5, <1>6, <1>7, <1>8, <1>9, <1>10, <1>11

\* The steps of the handlers, of the senders, and of time.
LEMMA RunTypes ==
  ASSUME Types,
         \/ PinChangeIgnored \/ PinChangeReceives \/ PinChangeEnds
         \/ TimerOverflow \/ TimePasses
         \/ \E p \in Port : FrameStarts(p)
  PROVE  Types'
<1> USE DEF Types, TypeOK, PortsKnown, PC
<1>t. UNCHANGED timeVars => TimeTypeOK'
  BY NoTimeTypes
<1>1. CASE PinChangeIgnored
  BY <1>1, <1>t DEF PinChangeIgnored, IsrNotForUs, wireVars, thread, history
<1>2. CASE PinChangeReceives
  <2>1. active_object \in Port /\ recv' = Sampling(active_object)
    BY <1>2 DEF PinChangeReceives, IsrRecv
  <2>2. /\ recv' \in [left : 0 .. FrameTicks, torn : BOOLEAN, on : BOOLEAN]
        /\ recv'.on
    BY <2>1, SamplingType
  <2> QED
    BY <1>2, <1>t, <2>1, <2>2 DEF PinChangeReceives, IsrRecv, thread
<1>3. CASE PinChangeEnds
  <2>1. /\ recv.on /\ active_object \in Port /\ recv' = NotReceiving
        /\ UNCHANGED timeVars
        /\ UNCHANGED <<active_object, tuned, pcmsk, pcif, line, sending, pc, port,
                       ret, excused, starved>>
        /\ unreported' \in {"no", "yes", "slipped"}
    BY <1>3 DEF PinChangeEnds, RecvEnd, thread
  <2>2. /\ NotReceiving \in [left : 0 .. FrameTicks, torn : BOOLEAN, on : BOOLEAN]
        /\ ~NotReceiving.on
    BY FrameAssumption DEF NotReceiving
  <2>3. [port |-> active_object, torn |-> recv.torn] \in Data
    BY <2>1 DEF Data
  <2>4. /\ receive_buffer' \in Seq(Data) /\ Len(receive_buffer') < _SS_MAX_RX_BUFF
        /\ buffer_overflow' \in [Port -> BOOLEAN]
    <3>1. CASE Len(receive_buffer) < _SS_MAX_RX_BUFF - 1
      <4> DEFINE d == [port |-> active_object, torn |-> recv.torn]
      <4>1. receive_buffer' = Append(receive_buffer, d) /\ UNCHANGED buffer_overflow
        BY <1>3, <3>1 DEF PinChangeEnds, RecvEnd
      <4>2. d \in Data
        BY <2>3
      <4> HIDE DEF d
      <4>3. Append(receive_buffer, d) \in Seq(Data)
        BY <4>2
      <4>4. Len(Append(receive_buffer, d)) = Len(receive_buffer) + 1
        BY <4>2
      <4>5. Len(receive_buffer) \in Nat
        OBVIOUS
      <4> QED
        BY <3>1, <4>1, <4>3, <4>4, <4>5, BufferAssumption
    <3>2. CASE ~(Len(receive_buffer) < _SS_MAX_RX_BUFF - 1)
      BY <1>3, <3>2 DEF PinChangeEnds, RecvEnd
    <3> QED
      BY <3>1, <3>2
  <2> QED
    BY <1>t, <2>1, <2>2, <2>4
<1>4. CASE TimerOverflow
  <2>1. TimeTypeOK'
    BY <1>4, OverflowTypes DEF TimerOverflow
  <2> QED
    BY <1>4, <2>1 DEF TimerOverflow, serialVars, portVars, wireVars, thread
<1>5. ASSUME NEW p \in Port, FrameStarts(p) PROVE Types'
  <2>1. line' \in [Port -> 0 .. FrameTicks]
    BY <1>5, FrameAssumption DEF FrameStarts, StartBit
  <2>2. excused' \in BOOLEAN /\ pcif' \in BOOLEAN
    BY <1>5 DEF FrameStarts, StartBit
  <2> QED
    BY <1>5, <1>t, <2>1, <2>2 DEF FrameStarts, StartBit, thread
<1>6. CASE TimePasses
  <2>1. TimeTypeOK'
    BY <1>6, TickTypes DEF TimePasses
  <2>2. PinTick
    BY <1>6 DEF TimePasses
  <2>3. /\ line' \in [Port -> 0 .. FrameTicks]
        /\ recv' \in [left : 0 .. FrameTicks, torn : BOOLEAN, on : BOOLEAN]
        /\ recv'.on = recv.on /\ recv'.torn = recv.torn
        /\ recv'.left = Less(recv.left)
        /\ sending' \in 0 .. FrameTicks
        /\ pcif' \in BOOLEAN
    BY <2>2, PinTickTypes
  <2>4. UNCHANGED <<active_object, receive_buffer, buffer_overflow, tuned, pcmsk>>
    BY <2>2 DEF PinTick
  <2>5. UNCHANGED <<pc, port, ret, unreported, excused, starved>>
    BY <1>6 DEF TimePasses, thread, history
  <2>6. ~recv'.on => recv' = NotReceiving
    <3> SUFFICES ASSUME ~recv.on PROVE recv' = NotReceiving
      BY <2>3
    <3>1. recv = NotReceiving /\ recv' = [recv EXCEPT !.left = Less(recv.left)]
      BY <2>2 DEF PinTick
    <3> QED
      BY <3>1 DEF NotReceiving, Less
  <2> QED
    BY <2>1, <2>3, <2>4, <2>5, <2>6
<1> QED
  BY <1>1, <1>2, <1>3, <1>4, <1>5, <1>6

LEMMA TypesStep == Types /\ [Next]_vars => Types'
<1> SUFFICES ASSUME Types, [Next]_vars PROVE Types'
  OBVIOUS
<1>1. CASE Next
  BY <1>1, CallTypes, RunTypes DEF Next
<1>2. CASE UNCHANGED vars
  <2>1. TimeTypeOK'
    BY <1>2, NoTimeTypes DEF vars, Types, TypeOK
  <2> QED
    BY <1>2, <2>1
    DEF vars, serialVars, portVars, wireVars, thread, history, Types, TypeOK, PortsKnown
<1> QED
  BY <1>1, <1>2

\* The bits and counters of every port and of the clock stay in their ranges,
\* and the receive buffer never holds more than _SS_MAX_RX_BUFF - 1 bytes
\* (SoftwareSerial.cpp:246-259).
THEOREM SketchTypes == Spec => []TypeOK
<1>1. Spec => []Types
  BY InitTypes, TypesStep, PTL DEF Spec
<1>2. Types => TypeOK
  BY DEF Types
<1> QED
  BY <1>1, <1>2, PTL

-----------------------------------------------------------------------------
(* The shared buffer and its flags *)

\* The steps that leave the buffer, its flags and who listens alone.
KeepsBuffer == UNCHANGED <<active_object, receive_buffer, buffer_overflow, unreported>>

\* The steps that leave overflow() alone, or call it.
KeepsOverflow ==
  UNCHANGED thread \/ pc' # "overflow_clear" \/ \E p \in Port : OverflowCall(p)

LEMMA BufferKept ==
  ASSUME Next
  PROVE  \/ (\E p \in Port : ListenTo(p)) \/ BeginListens
         \/ ReadCall \/ FlushCall \/ OverflowReturns \/ PinChangeEnds
         \/ KeepsBuffer /\ KeepsOverflow
<1> USE DEF KeepsBuffer, KeepsOverflow
<1>1. ASSUME NEW p \in Port, Begin(p) PROVE KeepsBuffer /\ KeepsOverflow
  BY <1>1 DEF Begin, BeginUntune, Call
<1>2. ASSUME NEW p \in Port, OverflowCall(p) PROVE KeepsBuffer /\ KeepsOverflow
  BY <1>2 DEF OverflowCall, serialVars, portVars, history
<1>3. ASSUME NEW p \in Port, FrameStarts(p) PROVE KeepsBuffer /\ KeepsOverflow
  BY <1>3 DEF FrameStarts, StartBit
<1>4. ASSUME BeginTunes \/ EndCall \/ WriteCall \/ WriteReturns
      PROVE  KeepsBuffer /\ KeepsOverflow
  BY <1>4 DEF BeginTunes, BeginTune, EndCall, End, WriteCall, WriteFrame, WriteReturns,
              Call, Return, portVars, serialVars, history
<1>5. ASSUME PinChangeIgnored \/ PinChangeReceives \/ TimerOverflow \/ TimePasses
      PROVE  KeepsBuffer /\ KeepsOverflow
  BY <1>5 DEF PinChangeIgnored, IsrNotForUs, PinChangeReceives, IsrRecv, TimerOverflow,
              TimePasses, PinTick, serialVars, portVars, history
<1>6. ListenCall => \E p \in Port : ListenTo(p)
  BY DEF ListenCall
<1> QED
  BY <1>1, <1>2, <1>3, <1>4, <1>5, <1>6 DEF Next

\* A listen() of the port that listens changes nothing; that of another one
\* empties the buffer.
LEMMA ListenCases ==
  ASSUME Types, NEW p, ListenTo(p)
  PROVE  \/ /\ active_object = p
            /\ UNCHANGED <<active_object, receive_buffer, buffer_overflow, unreported>>
         \/ receive_buffer' = << >> /\ unreported' = "no"
<1>1. /\ Listen(p)
      /\ unreported' = IF active_object = p THEN unreported ELSE "no"
  BY DEF ListenTo, BeginListen
<1>2. CASE active_object = p
  <2>1. unreported' = unreported
    BY <1>1, <1>2
  <2> QED
    BY <1>1, <1>2, <2>1 DEF Listen
<1>3. CASE active_object # p
  BY <1>1, <1>3 DEF Listen
<1> QED
  BY <1>2, <1>3

LEMMA OwnBytesStep ==
  Types /\ OwnBytesOnly /\ [Next]_vars => OwnBytesOnly'
<1> SUFFICES ASSUME Types, OwnBytesOnly, [Next]_vars PROVE OwnBytesOnly'
  OBVIOUS
<1>1. receive_buffer \in Seq(Data) /\ active_object \in Port \cup {NoPort}
  BY DEF Types, TypeOK
<1>2. ASSUME receive_buffer' = << >> PROVE OwnBytesOnly'
  BY <1>2 DEF OwnBytesOnly
<1>3. ASSUME UNCHANGED <<active_object, receive_buffer>> PROVE OwnBytesOnly'
  BY <1>3 DEF OwnBytesOnly
<1>4. ASSUME NEW p, ListenTo(p) PROVE OwnBytesOnly'
  BY <1>2, <1>3, <1>4, ListenCases
<1>5. CASE ReadCall
  <2>1. /\ receive_buffer # << >> /\ receive_buffer' = Tail(receive_buffer)
        /\ UNCHANGED active_object
    BY <1>5 DEF ReadCall, Read
  <2>2. /\ Len(receive_buffer') = Len(receive_buffer) - 1
        /\ \A i \in 1 .. Len(receive_buffer') : receive_buffer'[i] = receive_buffer[i + 1]
    BY <1>1, <2>1
  <2>3. ASSUME NEW i \in 1 .. Len(receive_buffer')
        PROVE  receive_buffer'[i].port = active_object'
    <3>1. i + 1 \in 1 .. Len(receive_buffer)
      BY <1>1, <2>2, <2>3
    <3> QED
      BY <2>1, <2>2, <3>1 DEF OwnBytesOnly
  <2> QED
    BY <2>3 DEF OwnBytesOnly
<1>6. CASE FlushCall
  BY <1>2, <1>6 DEF FlushCall, Flush
<1>7. CASE OverflowReturns
  BY <1>3, <1>7 DEF OverflowReturns, ClearOverflow
<1>8. CASE PinChangeEnds
  <2> DEFINE d == [port |-> active_object, torn |-> recv.torn]
  <2>1. UNCHANGED active_object
    BY <1>8 DEF PinChangeEnds, RecvEnd
  <2>2. receive_buffer' = Append(receive_buffer, d) \/ UNCHANGED receive_buffer
    BY <1>8 DEF PinChangeEnds, RecvEnd
  <2>3. CASE receive_buffer' = Append(receive_buffer, d)
    <3>1. d.port = active_object
      OBVIOUS
    <3>2. d \in Data
      BY <1>8 DEF PinChangeEnds, RecvEnd, Data, Types, TypeOK, PortsKnown
    <3> HIDE DEF d
    <3>3. ASSUME NEW i \in 1 .. Len(receive_buffer')
          PROVE  receive_buffer'[i].port = active_object'
      <4>1. receive_buffer'[i] =
               IF i = Len(receive_buffer) + 1 THEN d ELSE receive_buffer[i]
        BY <1>1, <2>3, <3>2
      <4>2. i # Len(receive_buffer) + 1 => i \in 1 .. Len(receive_buffer)
        BY <1>1, <2>3, <3>2
      <4> QED
        BY <2>1, <3>1, <4>1, <4>2 DEF OwnBytesOnly
    <3> QED
      BY <3>3 DEF OwnBytesOnly
  <2> QED
    BY <1>3, <2>1, <2>2, <2>3
<1>9. CASE KeepsBuffer
  BY <1>3, <1>9 DEF KeepsBuffer
<1>10. CASE UNCHANGED vars
  BY <1>3, <1>10 DEF vars, serialVars, portVars
<1> QED
  BY <1>4, <1>5, <1>6, <1>7, <1>8, <1>9, <1>10, BufferKept DEF BeginListens

\* A byte that a port reads came in on that port's own pin, while it was the
\* one that listened: the ports share one buffer, and the handler may run
\* between any two steps of begin(), listen(), read() and overflow()
\* (SoftwareSerial.cpp:179-193, 246-259, 379-413).
THEOREM PortsReadTheirOwn == Spec => []OwnBytesOnly
<1>1. Init => OwnBytesOnly
  BY DEF Init, SerialInit, OwnBytesOnly
<1> QED
  BY <1>1, InitTypes, TypesStep, OwnBytesStep, PTL DEF Spec

\* An overflow() that has loaded FALSE for the listening port finds no drop that
\* is not told, except one that it is itself about to forget.
Loaded ==
  pc = "overflow_clear" /\ port = active_object /\ unreported = "yes" => ret

Told == OverflowReported /\ Loaded

LEMMA ToldStep ==
  Types /\ Told /\ [Next]_vars => Told'
<1> SUFFICES ASSUME Types, Told, [Next]_vars PROVE OverflowReported' /\ Loaded'
  BY DEF Told
<1> USE DEF Told
<1>1. buffer_overflow \in [Port -> BOOLEAN] /\ receive_buffer \in Seq(Data)
  BY DEF Types, TypeOK
<1>2. ASSUME NEW p, ListenTo(p) PROVE OverflowReported' /\ Loaded'
  <2>1. pc' = "idle"
    BY <1>2 DEF ListenTo, Return
  <2> QED
    BY <1>2, <2>1, ListenCases DEF OverflowReported, Loaded
<1>3. CASE ReadCall \/ FlushCall
  BY <1>3 DEF ReadCall, FlushCall, Read, Flush, thread, history, OverflowReported, Loaded
<1>4. CASE OverflowReturns
  <2>1. /\ pc = "overflow_clear" /\ port \in Port /\ pc' = "idle"
        /\ unreported' = IF port = active_object /\ ret THEN "no" ELSE unreported
        /\ buffer_overflow' = [buffer_overflow EXCEPT ![port] = FALSE]
        /\ UNCHANGED active_object
    BY <1>4 DEF OverflowReturns, ClearOverflow, Return, At, Types, PortsKnown
  <2>2. ASSUME unreported' = "yes" PROVE buffer_overflow'[active_object']
    <3>1. unreported = "yes"
      BY <2>1, <2>2
    <3>2. port # active_object
      BY <2>1, <2>2, <3>1 DEF Loaded
    <3>3. buffer_overflow[active_object] /\ active_object \in Port
      BY <3>1 DEF OverflowReported, Types, PortsKnown
    <3>4. buffer_overflow'[active_object] = buffer_overflow[active_object]
      BY <1>1, <2>1, <3>2, <3>3
    <3> QED
      BY <2>1, <3>3, <3>4
  <2> QED
    BY <2>1, <2>2 DEF OverflowReported, Loaded
<1>5. CASE PinChangeEnds
  <2>1. active_object \in Port /\ UNCHANGED <<active_object, pc, port, ret>>
    BY <1>5 DEF PinChangeEnds, RecvEnd, thread, Types, PortsKnown
  <2>2. CASE Len(receive_buffer) < _SS_MAX_RX_BUFF - 1
    <3> DEFINE d == [port |-> active_object, torn |-> recv.torn]
    <3>1. receive_buffer' = Append(receive_buffer, d) /\ UNCHANGED buffer_overflow
      BY <1>5, <2>2 DEF PinChangeEnds, RecvEnd
    <3>2. d \in Data
      BY <2>1 DEF Data, Types, TypeOK
    <3> HIDE DEF d
    <3>3. Len(receive_buffer') = Len(receive_buffer) + 1
      BY <1>1, <3>1, <3>2
    <3>4. receive_buffer' # receive_buffer
      BY <1>1, <3>3
    <3>5. ~(receive_buffer' = receive_buffer)
      BY <3>4
    <3>6. unreported' = "yes" => unreported = "yes"
      BY <1>5, <2>1, <3>5 DEF PinChangeEnds
    <3> QED
      BY <2>1, <3>1, <3>6 DEF OverflowReported, Loaded
  <2>3. CASE ~(Len(receive_buffer) < _SS_MAX_RX_BUFF - 1)
    <3>1. buffer_overflow' = [buffer_overflow EXCEPT ![active_object] = TRUE]
          /\ receive_buffer' = receive_buffer
      BY <1>5, <2>3 DEF PinChangeEnds, RecvEnd
    <3>2. buffer_overflow'[active_object']
      BY <1>1, <2>1, <3>1
    <3>3. pc = "overflow_clear" /\ port = active_object => unreported' = "slipped"
      BY <1>5, <3>1 DEF PinChangeEnds
    <3> QED
      BY <2>1, <3>2, <3>3 DEF OverflowReported, Loaded
  <2> QED
    BY <2>2, <2>3
<1>6. CASE KeepsBuffer /\ KeepsOverflow
  <2>1. OverflowReported'
    BY <1>6 DEF KeepsBuffer, OverflowReported
  <2>2. CASE UNCHANGED thread \/ pc' # "overflow_clear"
    BY <1>6, <2>1, <2>2 DEF KeepsBuffer, thread, Loaded
  <2>3. ASSUME NEW p \in Port, OverflowCall(p) PROVE Loaded'
    BY <1>6, <2>3 DEF OverflowCall, KeepsBuffer, OverflowReported, Loaded
  <2> QED
    BY <1>6, <2>1, <2>2, <2>3 DEF KeepsOverflow
<1>7. CASE UNCHANGED vars
  BY <1>7 DEF vars, serialVars, portVars, thread, history, OverflowReported, Loaded
<1> QED
  BY <1>2, <1>3, <1>4, <1>5, <1>6, <1>7, BufferKept DEF BeginListens

\* A byte that the handler dropped for lack of room, and that no answer has
\* told, will be told by the next overflow() of the listening port; the one
\* exception is a byte dropped between an overflow()'s load and its clearing of
\* the flag (SoftwareSerial.cpp:246-259, SoftwareSerial.h:89).
THEOREM DropsAreTold == Spec => []OverflowReported
<1>1. Init => Told
  BY DEF Init, Told, OverflowReported, Loaded
<1>2. Told => OverflowReported
  BY DEF Told
<1> QED
  BY <1>1, <1>2, InitTypes, TypesStep, ToldStep, PTL DEF Spec

-----------------------------------------------------------------------------
(* How a frame is sampled *)

\* The thread runs only when no handler is due.
LEMMA ThreadRuns ==
  ASSUME Types, NEW l, At(l)
  PROVE  /\ ~recv.on /\ recv = NotReceiving /\ recv.left = 0 /\ sending = 0
         /\ ~pcif /\ ~tov
<1>1. ~recv.on /\ sending = 0
  BY DEF At, Due
<1>2. ~InterruptsOff
  BY <1>1 DEF InterruptsOff, Types, TypeOK
<1>3. recv = NotReceiving
  BY <1>1 DEF Types, PortsKnown
<1> QED
  BY <1>1, <1>2, <1>3 DEF At, Due, NotReceiving

\* The steps that have nothing to do with frames.
KeepsFrames ==
  UNCHANGED <<active_object, tuned, pcif, line, recv, sending, excused>>

LEMMA FramesKept ==
  ASSUME Next
  PROVE  \/ KeepsFrames
         \/ /\ \E l : At(l)
            /\ Hides /\ UNCHANGED <<line, recv>>
         \/ WriteCall
         \/ PinChangeIgnored \/ PinChangeReceives \/ PinChangeEnds
         \/ (\E p \in Port : FrameStarts(p)) \/ TimePasses
<1>1. ASSUME NEW p \in Port, Begin(p)
      PROVE  (\E l : At(l)) /\ Hides /\ UNCHANGED <<line, recv>>
  BY <1>1 DEF Begin, BeginUntune, wireVars
<1>2. ASSUME BeginTunes
      PROVE  (\E l : At(l)) /\ Hides /\ UNCHANGED <<line, recv>>
  BY <1>2 DEF BeginTunes, BeginTune, wireVars
<1>3. ASSUME BeginListens \/ ListenCall
      PROVE  (\E l : At(l)) /\ Hides /\ UNCHANGED <<line, recv>>
  BY <1>3 DEF BeginListens, ListenCall, ListenTo, BeginListen, wireVars
<1>4. ASSUME EndCall
      PROVE  (\E l : At(l)) /\ Hides /\ UNCHANGED <<line, recv>>
  BY <1>4 DEF EndCall, End, wireVars
<1>5. ASSUME ReadCall \/ FlushCall PROVE KeepsFrames
  BY <1>5 DEF ReadCall, Read, FlushCall, Flush, wireVars, history, KeepsFrames
<1>6. ASSUME NEW p \in Port, OverflowCall(p) PROVE KeepsFrames
  BY <1>6 DEF OverflowCall, serialVars, portVars, wireVars, history, KeepsFrames
<1>7. ASSUME OverflowReturns PROVE KeepsFrames
  BY <1>7 DEF OverflowReturns, ClearOverflow, wireVars, KeepsFrames
<1>8. ASSUME WriteReturns \/ TimerOverflow PROVE KeepsFrames
  BY <1>8 DEF WriteReturns, TimerOverflow, serialVars, portVars, wireVars, history,
              KeepsFrames
<1> QED
  BY <1>1, <1>2, <1>3, <1>4, <1>5, <1>6, <1>7, <1>8 DEF Next

\* A frame that Seen speaks of is known to be all there.
LEMMA SeenCases ==
  ASSUME Types, Seen, ~excused, active_object # NoPort, line[active_object] > 0
  PROVE  \/ active_object \notin tuned
         \/ recv.on /\ ~recv.torn /\ recv.left = line[active_object]
         \/ /\ InStartBit(active_object) /\ line[active_object] = FrameTicks /\ pcif
            /\ recv.left = 0 /\ sending = 0
<1>1. FrameTicks >= FrameTicks - StartTicks
  BY FrameAssumption
<1> QED
  BY <1>1 DEF Seen, InStartBit

LEMMA SeenStep ==
  Types /\ Seen /\ [Next]_vars => Seen'
<1> SUFFICES ASSUME Types, Seen, [Next]_vars PROVE Seen'
  OBVIOUS
<1>t. /\ line \in [Port -> 0 .. FrameTicks] /\ sending \in 0 .. FrameTicks
      /\ recv \in [left : 0 .. FrameTicks, torn : BOOLEAN, on : BOOLEAN]
      /\ active_object \in Port \cup {NoPort} /\ excused \in BOOLEAN
  BY DEF Types, TypeOK
<1>1. CASE KeepsFrames
  BY <1>1 DEF KeepsFrames, Seen
<1>2. ASSUME NEW l, At(l), Hides, UNCHANGED <<line, recv>>
      PROVE  Seen'
  <2>1. active_object' \in Port \cup {NoPort}
    <3>1. Types'
      BY TypesStep
    <3> QED
      BY <3>1 DEF Types, TypeOK
  <2>2. ~excused' => \A p \in Port : ~(line'[p] > 0)
    BY <1>2 DEF Hides
  <2> QED
    BY <2>1, <2>2 DEF Seen
<1>3. CASE WriteCall
  <2>1. ~recv.on /\ recv.left = 0 /\ ~pcif
    BY <1>3, ThreadRuns DEF WriteCall
  <2>2. UNCHANGED <<active_object, tuned, pcif, line, recv, excused>>
    BY <1>3 DEF WriteCall, WriteFrame, portVars, history
  <2> QED
    BY <1>t, <2>1, <2>2, SeenCases DEF Seen
<1>4. CASE PinChangeIgnored
  <2>1. ~recv.on /\ (active_object # NoPort => ~InStartBit(active_object))
    BY <1>4 DEF PinChangeIgnored, InterruptsOff, IsrNotForUs
  <2>2. UNCHANGED <<active_object, tuned, line, recv, sending, excused>>
    BY <1>4 DEF PinChangeIgnored, IsrNotForUs, wireVars, history
  <2> QED
    BY <2>1, <2>2, SeenCases DEF Seen
<1>5. CASE PinChangeReceives
  <2>1. /\ ~recv.on /\ active_object \in Port /\ line[active_object] > 0
        /\ recv' = Sampling(active_object)
        /\ UNCHANGED <<active_object, tuned, line, sending, excused>>
    BY <1>t, <1>5 DEF PinChangeReceives, InterruptsOff, IsrRecv
  <2>2. /\ recv'.on
        /\ recv'.torn = ~(active_object \in tuned /\ InStartBit(active_object))
        /\ ~recv'.torn => recv'.left = line[active_object]
    BY <2>1, SamplingType DEF Types
  <2>3. ~excused => active_object \notin tuned \/ InStartBit(active_object)
    BY <2>1, PortAssumption, SeenCases
  <2>4. ~excused /\ active_object \in tuned => ~recv'.torn
    BY <2>2, <2>3, Zenon
  <2> QED
    BY <2>1, <2>2, <2>4 DEF Seen
<1>6. CASE PinChangeEnds
  <2>1. /\ recv.left = 0 /\ recv' = NotReceiving
        /\ UNCHANGED <<active_object, tuned, pcif, line, sending, excused>>
    BY <1>6 DEF PinChangeEnds, RecvEnd
  <2>2. recv'.left = 0
    BY <2>1 DEF NotReceiving
  <2>3. ASSUME ~excused', active_object' # NoPort, line'[active_object'] > 0
        PROVE  \/ active_object \notin tuned
               \/ line[active_object] = FrameTicks /\ pcif /\ sending = 0
    BY <2>1, <2>3, SeenCases
  <2> QED
    BY <2>1, <2>2, <2>3 DEF Seen
<1>7. ASSUME NEW p \in Port, FrameStarts(p) PROVE Seen'
  <2>1. /\ line' = [line EXCEPT ![p] = FrameTicks] /\ pcif' = (pcif \/ p \in pcmsk)
        /\ UNCHANGED <<active_object, tuned, recv, sending>>
        /\ excused' = IF p = active_object
                      THEN recv.left > 0 \/ sending > 0 \/ p \notin pcmsk
                      ELSE excused
    BY <1>7 DEF FrameStarts, StartBit
  <2>2. CASE p = active_object
    <3>1. line'[p] = FrameTicks
      BY <1>t, <2>1
    <3>2. ~excused' => recv.left = 0 /\ sending = 0 /\ pcif'
      <4> SUFFICES ASSUME ~excused' PROVE recv.left = 0 /\ sending = 0 /\ pcif'
        OBVIOUS
      <4>1. ~(recv.left > 0) /\ ~(sending > 0) /\ p \in pcmsk
        BY <2>1, <2>2, Zenon
      <4>2. pcif'
        BY <2>1, <4>1, Zenon
      <4> QED
        BY <1>t, <4>1, <4>2
    <3> QED
      BY <2>1, <2>2, <3>1, <3>2 DEF Seen
  <2>3. CASE p # active_object
    <3>1. active_object # NoPort => line'[active_object] = line[active_object]
      BY <1>t, <2>1, <2>3
    <3>2. excused' = excused /\ (pcif => pcif')
      BY <2>1, <2>3
    <3> QED
      BY <2>1, <3>1, <3>2 DEF Seen
  <2> QED
    BY <2>2, <2>3
<1>8. CASE TimePasses
  <2>1. /\ recv'.on = recv.on /\ recv'.torn = recv.torn /\ recv'.left = Less(recv.left)
        /\ line' = [q \in Port |-> Less(line[q])]
        /\ UNCHANGED <<active_object, tuned, excused>>
    BY <1>8, PinTickTypes DEF TimePasses, PinTick, history, Types
  <2>2. IF recv.on THEN recv.left > 0 ELSE ~Due
    BY <1>8 DEF TimePasses
  <2>3. ~(pcif /\ recv.left = 0 /\ sending = 0)
    BY <1>t, <2>2 DEF Due, InterruptsOff
  <2>4. \A k \in 0 .. FrameTicks : Less(k) > 0 => k > 0
    BY DEF Less
  <2>5. ASSUME ~excused', active_object' # NoPort, line'[active_object'] > 0
        PROVE  \/ active_object \notin tuned
               \/ /\ recv'.on /\ ~recv'.torn
                  /\ recv'.left = line'[active_object]
    <3>1. active_object \in Port /\ line'[active_object] = Less(line[active_object])
      BY <1>t, <2>1, <2>5
    <3>2. line[active_object] > 0
      BY <1>t, <2>1, <2>4, <2>5, <3>1
    <3> QED
      BY <2>1, <2>3, <2>5, <3>1, <3>2, SeenCases
  <2> QED
    BY <2>1, <2>5 DEF Seen
<1>9. CASE UNCHANGED vars
  BY <1>9 DEF vars, serialVars, portVars, wireVars, history, Seen
<1> QED
  BY <1>1, <1>2, <1>3, <1>4, <1>5, <1>6, <1>7, <1>8, <1>9, FramesKept

\* A handler that begins to sample too late was hidden from its start bit, or
\* has no delays.
LEMMA SamplingStep ==
  ASSUME Types, Seen, [Next]_vars, ~recv.on, recv'.on, recv'.torn
  PROVE  excused \/ active_object \notin tuned
<1>1. CASE PinChangeReceives
  <2>1. /\ active_object \in Port /\ line[active_object] > 0
        /\ recv' = Sampling(active_object)
    BY <1>1 DEF PinChangeReceives, IsrRecv, Types, TypeOK
  <2>2. ~(active_object \in tuned /\ InStartBit(active_object))
    <3>1. recv'.torn = ~(active_object \in tuned /\ InStartBit(active_object))
      BY <2>1, SamplingType DEF Types
    <3> QED
      BY <3>1, Zenon
  <2>3. ~excused => active_object \notin tuned \/ InStartBit(active_object)
    BY <2>1, PortAssumption, SeenCases
  <2> QED
    BY <2>2, <2>3
<1>2. ASSUME ~PinChangeReceives PROVE ~recv'.on
  <2>1. UNCHANGED recv => ~recv'.on
    OBVIOUS
  <2>2. PinChangeEnds => ~recv'.on
    BY DEF PinChangeEnds, RecvEnd
  <2>3. TimePasses => ~recv'.on
    BY PinTickTypes DEF TimePasses, Types
  <2>4. WriteCall \/ PinChangeIgnored \/ (\E p \in Port : FrameStarts(p)) => UNCHANGED recv
    BY DEF WriteCall, WriteFrame, PinChangeIgnored, IsrNotForUs, FrameStarts, StartBit,
           wireVars
  <2>5. UNCHANGED vars => UNCHANGED recv
    BY DEF vars, serialVars, wireVars
  <2> QED
    BY <1>2, <2>1, <2>2, <2>3, <2>4, <2>5, FramesKept DEF KeepsFrames
<1> QED
  BY <1>1, <1>2

\* The handler begins to sample a frame too late only if it could not see its
\* start bit, since write() or another frame was going on or the ports were
\* being changed, or if the listening port has no delays (its begin() has just
\* cleared them, was given a rate that is not in the table, or was never
\* called). It is always
\* called in time otherwise, however the calls, the overflow handler and the
\* other ports' frames fall together (SoftwareSerial.cpp:198-260, 379-405,
\* 446-494).
THEOREM FramesAreWhole == Spec => TornOnlyIfHidden
<1>1. Init => Seen
  BY DEF Init, SerialInit, Seen
<1>2. Types /\ Seen /\ [Next]_vars =>
        [~recv.on /\ recv'.on /\ recv'.torn => excused \/ active_object \notin tuned]_vars
  BY SamplingStep
<1> QED
  BY <1>1, <1>2, InitTypes, TypesStep, SeenStep, PTL DEF Spec, TornOnlyIfHidden

-----------------------------------------------------------------------------
(* What frames cost the clock *)

\* The steps that leave timer 0 and what may keep its handler waiting alone, or
\* shorten it.
LEMMA ClockKept ==
  ASSUME Types, Next
  PROVE  \/ /\ UNCHANGED <<tcnt, tov, lost, starved>>
            /\ sending' = sending /\ (recv' = recv \/ recv'.left = 0)
         \/ WriteCall \/ PinChangeReceives \/ TimerOverflow \/ TimePasses
<1> DEFINE Kept == /\ UNCHANGED <<tcnt, tov, lost, starved>>
                   /\ sending' = sending /\ (recv' = recv \/ recv'.left = 0)
<1> USE DEF timeVars, clock
<1>1. ASSUME NEW p \in Port, Begin(p) PROVE Kept
  BY <1>1 DEF Begin, BeginUntune, wireVars
<1>2. ASSUME BeginTunes \/ EndCall PROVE Kept
  BY <1>2 DEF BeginTunes, BeginTune, EndCall, End, wireVars
<1>3. ASSUME BeginListens \/ ListenCall PROVE Kept
  BY <1>3 DEF BeginListens, ListenCall, ListenTo, BeginListen, wireVars
<1>4. ASSUME ReadCall \/ FlushCall PROVE Kept
  BY <1>4 DEF ReadCall, Read, FlushCall, Flush, wireVars, history
<1>5. ASSUME NEW p \in Port, OverflowCall(p) PROVE Kept
  BY <1>5 DEF OverflowCall, serialVars, wireVars, history
<1>6. ASSUME OverflowReturns \/ WriteReturns PROVE Kept
  BY <1>6 DEF OverflowReturns, ClearOverflow, WriteReturns, serialVars, wireVars, history
<1>7. ASSUME PinChangeIgnored PROVE Kept
  BY <1>7 DEF PinChangeIgnored, IsrNotForUs, wireVars, history
<1>8. ASSUME PinChangeEnds PROVE Kept
  BY <1>8 DEF PinChangeEnds, RecvEnd, NotReceiving
<1>9. ASSUME NEW p \in Port, FrameStarts(p) PROVE Kept
  BY <1>9 DEF FrameStarts, StartBit
<1> QED
  BY <1>1, <1>2, <1>3, <1>4, <1>5, <1>6, <1>7, <1>8, <1>9 DEF Next

\* A tick that finds an overflow waiting does not reach the next one.
LEMMA TickInTime ==
  ASSUME Types, InTime, TimePasses
  PROVE  InTime' /\ (lost' /\ ~lost => starved)
<1>1. /\ tcnt \in 0 .. TimerTicks - 1 /\ tov \in BOOLEAN /\ lost \in BOOLEAN
      /\ starved \in BOOLEAN
      /\ sending \in 0 .. FrameTicks /\ recv.left \in 0 .. FrameTicks
  BY DEF Types, TypeOK, TimeTypeOK
<1>2. TimerTicks \in Nat \ {0} /\ FrameTicks \in Nat \ {0} /\ FrameTicks <= TimerTicks
  BY Sizes, FrameAssumption, FrameFits
<1>3. /\ tcnt' = (tcnt + 1) % TimerTicks
      /\ tov' = (tov \/ tcnt' = 0) /\ lost' = (lost \/ (tov /\ tcnt' = 0))
      /\ starved' = starved
  BY DEF TimePasses, Tick, history
<1>4. sending' = Less(sending) /\ recv'.left = Less(recv.left)
  BY PinTickTypes DEF TimePasses, PinTick, Types
<1>5. tov => recv.left > 0 \/ sending > 0
  <2> SUFFICES ASSUME tov PROVE recv.left > 0 \/ sending > 0
    OBVIOUS
  <2>1. IF recv.on THEN recv.left > 0 ELSE ~Due
    BY DEF TimePasses
  <2>2. ~recv.on /\ ~Due => sending > 0
    BY DEF Due, InterruptsOff
  <2> QED
    BY <2>1, <2>2
<1>6. CASE tov /\ ~starved
  <2>1. tcnt + sending < TimerTicks /\ tcnt + recv.left < TimerTicks
    BY <1>6 DEF InTime
  <2>2. tcnt + 1 < TimerTicks
    BY <1>1, <1>2, <1>5, <1>6, <2>1
  <2>3. tcnt' = tcnt + 1
    BY <1>1, <1>2, <1>3, <2>2
  <2>4. tcnt' + sending' < TimerTicks /\ tcnt' + recv'.left < TimerTicks
    BY <1>1, <1>2, <1>4, <2>1, <2>2, <2>3 DEF Less
  <2>5. tcnt' # 0
    BY <1>1, <2>3
  <2>6. lost' => lost
    BY <1>3, <2>5, Zenon
  <2> QED
    BY <2>4, <2>6 DEF InTime
<1>7. CASE ~tov
  <2>1. lost' => lost
    BY <1>3, <1>7, Zenon
  <2>2. tov' => tcnt' = 0
    BY <1>3, <1>7, Zenon
  <2>3. sending' < TimerTicks /\ recv'.left < TimerTicks /\ sending' \in Nat
        /\ recv'.left \in Nat
    BY <1>1, <1>2, <1>4 DEF Less
  <2> QED
    BY <2>1, <2>2, <2>3 DEF InTime
<1>8. CASE starved
  BY <1>3, <1>8 DEF InTime
<1> QED
  BY <1>1, <1>6, <1>7, <1>8

LEMMA InTimeStep ==
  Types /\ InTime /\ [Next]_vars => InTime' /\ (lost' /\ ~lost => starved)
<1> SUFFICES ASSUME Types, InTime, [Next]_vars
             PROVE  InTime' /\ (lost' /\ ~lost => starved)
  OBVIOUS
<1>t. tcnt \in 0 .. TimerTicks - 1 /\ TimerTicks \in Nat \ {0}
  BY Sizes DEF Types, TypeOK, TimeTypeOK
<1>1. ASSUME UNCHANGED <<tcnt, tov, lost, starved>>, sending' = sending,
             recv' = recv \/ recv'.left = 0
      PROVE  InTime' /\ (lost' /\ ~lost => starved)
  BY <1>t, <1>1 DEF InTime
<1>2. CASE WriteCall
  <2>1. ~tov /\ UNCHANGED timeVars
    BY <1>2, ThreadRuns DEF WriteCall
  <2> QED
    BY <2>1 DEF timeVars, clock, InTime
<1>3. CASE PinChangeReceives
  <2>1. starved' = (starved \/ tov) /\ UNCHANGED timeVars
    BY <1>3 DEF PinChangeReceives
  <2>2. ~(tov' /\ ~starved')
    BY <2>1, Zenon DEF timeVars, clock
  <2> QED
    BY <2>1, <2>2 DEF timeVars, InTime
<1>4. CASE TimerOverflow
  BY <1>4 DEF TimerOverflow, OverflowIsr, InTime
<1>5. CASE TimePasses
  BY <1>5, TickInTime
<1>6. CASE UNCHANGED vars
  BY <1>1, <1>6 DEF vars, timeVars, clock, serialVars, wireVars, history
<1> QED
  BY <1>1, <1>2, <1>3, <1>4, <1>5, <1>6, ClockKept

\* No single frame, received or sent, costs the clock an overflow, though it
\* keeps interrupts off nearly as long as the timer takes to overflow: only a
\* frame that the handler begins to sample when an overflow is due already
\* does (wiring.c:44-65, SoftwareSerial.cpp:198-260, 446-494).
THEOREM FramesSpareTheClock == Spec => ClockKeepsTime
<1>1. Init => InTime
  BY DEF Init, TimeInit, InTime
<1>2. Types /\ InTime /\ [Next]_vars => InTime'
  BY InTimeStep
<1>3. Types /\ InTime /\ [Next]_vars => [lost' /\ ~lost => starved]_vars
  BY InTimeStep
<1> QED
  BY <1>1, <1>2, <1>3, InitTypes, TypesStep, PTL DEF Spec, ClockKeepsTime
=============================================================================
