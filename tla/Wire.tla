-------------------------------- MODULE Wire --------------------------------
(***************************************************************************)
(* libraries/Wire/Wire.cpp: class TwoWire over the driver of twi.c.  The   *)
(* sketch writes, requests and reads; the interrupt handler calls          *)
(* onReceiveService() and onRequestService(), and these the sketch's own   *)
(* callbacks, between any two of the sketch's steps.                       *)
(*                                                                         *)
(* A TwoWire method that does not wait for the bus is one step: the device *)
(* may serve a request of another master inside beginTransmission() or     *)
(* write(), and spoil the message as it does just before or just after.    *)
(* Of an array the model keeps what can still be read.                     *)
(***************************************************************************)
EXTENDS TwiBus, SequencesExt

CONSTANTS
  Message,     \* the values of the i-th byte of the sketch's messages
  Quantities,  \* what the sketch asks requestFrom() for
  Callbacks,   \* which callbacks the sketch may have registered in setup()
  Answers      \* what its onRequest callback may write

ASSUME MessageAssumption ==
  Message \in Seq(SUBSET Byte) /\ Len(Message) >= BUFFER_LENGTH
\* A request for nothing is left out: its length, less one, is 255.
ASSUME QuantityAssumption == Quantities \subseteq Nat \ {0}
ASSUME CallbackAssumption == Callbacks \subseteq SUBSET {"receive", "request"}
\* twi_transmit() refuses more than the buffer holds.
ASSUME AnswerAssumption ==
  Answers \subseteq {a \in Seq(Byte) : Len(a) <= BUFFER_LENGTH}

VARIABLES
  unread,                    \* rxBuffer from rxBufferIndex to rxBufferLength
  rxBuffer,                  \* what requestFrom() copied, until it sets these
  txBuffer, txBufferLength,  \* txBufferIndex is always the length
  transmitting,
  registered,                \* the callbacks it did register
  message,                   \* history: what endTransmission() was to send
  offer                      \* history: what the next reader is to get

rxVars   == <<unread, rxBuffer>>
txVars   == <<txBuffer, txBufferLength, transmitting>>
wireVars == <<rxVars, txVars, registered, message, offer>>
vars     == <<twiVars, wireVars>>

PC == {"idle", "wait_ready", "setup", "twcr", "wait_done", "read_return"}

Init ==
  /\ TwiInit
  /\ unread = << >> /\ rxBuffer = << >>
  /\ txBuffer = << >> /\ txBufferLength = 0
  /\ transmitting = FALSE
  /\ registered \in Callbacks
  /\ message = << >> /\ offer = << >>

\* The first n bytes of s, or all.
Take(s, n) == SubSeq(s, 1, IF n < Len(s) THEN n ELSE Len(s))

\* The buffer b once its first slots were overwritten with s.
Overlay(b, s) == s \o SubSeq(b, Len(s) + 1, Len(b))

-----------------------------------------------------------------------------
(* The sketch's calls *)

BeginTransmission ==
  /\ At("idle")
  /\ transmitting' = TRUE
  /\ txBuffer' = << >> /\ txBufferLength' = 0
  /\ UNCHANGED <<twiVars, rxVars, registered, message, offer>>

\* A byte too many sets the write error and is dropped.
Write ==
  /\ At("idle")
  /\ transmitting
  /\ txBufferLength < BUFFER_LENGTH
  /\ \E c \in Message[txBufferLength + 1] :
       txBuffer' = Append(SubSeq(txBuffer, 1, txBufferLength), c)
  /\ txBufferLength' = txBufferLength + 1
  /\ UNCHANGED <<twiVars, rxVars, transmitting, registered, message,
                 offer>>

EndTransmission(stop) ==
  /\ Enter("write", txBufferLength, stop)
  /\ message' = SubSeq(txBuffer, 1, txBufferLength)
  /\ UNCHANGED <<rxVars, txVars, registered, offer>>

\* The quantity is clamped to the buffer.
RequestFrom(quantity, stop) ==
  /\ Enter("read", IF quantity > BUFFER_LENGTH THEN BUFFER_LENGTH ELSE quantity,
           stop)
  /\ UNCHANGED wireVars

\* twi_writeTo() copies the buffer as it is by now.
CallGoesOn ==
  /\ WaitReady \/ Setup(SubSeq(txBuffer, 1, length)) \/ WriteTwcr
  /\ UNCHANGED wireVars

ReturnWrite ==
  /\ Done /\ call = "write"
  /\ txBuffer' = << >> /\ txBufferLength' = 0
  /\ transmitting' = FALSE
  /\ message' = << >>
  /\ EndOfCall
  /\ UNCHANGED <<driver, servicing, twcr, twdr,
                 role, foreign, rxVars, registered, offer>>

\* twi_readFrom() copies what came into rxBuffer, and requestFrom() then sets
\* the index and the length.
ReadCopy ==
  /\ Done /\ call = "read"
  /\ rxBuffer' = SubSeq(twi_masterBuffer, 1, Received)
  /\ length' = Received
  /\ pc' = "read_return"
  /\ UNCHANGED <<driver, call, sendStop, servicing, twcr, twdr, role,
                 foreign, history, unread, txVars,
                 registered, message, offer>>

ReadReturn ==
  /\ At("read_return")
  /\ unread' = SubSeq(rxBuffer, 1, length)
  /\ rxBuffer' = << >>
  /\ EndOfCall
  /\ UNCHANGED <<driver, servicing, twcr, twdr,
                 role, foreign, txVars, registered,
                 message, offer>>

Read ==
  /\ At("idle")
  /\ unread # << >>
  /\ unread' = Tail(unread)
  /\ UNCHANGED <<twiVars, rxBuffer, txVars, registered,
                 message, offer>>

-----------------------------------------------------------------------------
(* Mutant: unread data is overwritten. *)

onReceiveService_Overwrites ==
  IF "receive" \in registered
  THEN unread' = twi_rxBuffer /\ UNCHANGED rxBuffer
  ELSE UNCHANGED rxVars

-----------------------------------------------------------------------------
(* The callbacks *)

\* Data is dropped without a callback, or while earlier data is unread; the
\* sketch's callback reads as many bytes as it likes.
onReceiveService ==
  IF "receive" \in registered /\ unread = << >>
  THEN /\ \E n \in 0 .. Len(twi_rxBuffer) :
            unread' = SubSeq(twi_rxBuffer, n + 1, Len(twi_rxBuffer))
       /\ rxBuffer' = IF pc = "read_return" THEN Overlay(rxBuffer, twi_rxBuffer)
                      ELSE rxBuffer
  ELSE UNCHANGED rxVars

\* What the sketch's callback writes goes to the other master, or, between
\* beginTransmission() and endTransmission(), into the pending message.
onRequestService(answer) ==
  IF "request" \in registered
  THEN /\ txBufferLength' = IF transmitting THEN Len(answer) ELSE 0
       /\ txBuffer' = IF transmitting THEN Overlay(txBuffer, answer) ELSE txBuffer
  ELSE UNCHANGED <<txBuffer, txBufferLength>>

SlaveStop ==
  /\ IsrSlaveStop
  /\ onReceiveService
  /\ UNCHANGED <<txVars, registered, message, offer>>

SlaveTransmitter(answer) ==
  /\ onRequestService(answer)
  /\ LET sent == IF "request" \in registered /\ ~transmitting THEN answer ELSE << >>
     IN /\ IsrSlaveTransmitter(sent)
        /\ offer' = IF sent = << >> THEN <<Zero>> ELSE sent
  /\ UNCHANGED <<rxVars, transmitting, registered, message>>

HandlerRuns ==
  \/ SlaveStop
  \/ \E answer \in Answers : SlaveTransmitter(answer)
  \/ /\ \/ IsrStart \/ IsrSend \/ IsrSentAll \/ IsrFailed
        \/ IsrReceive \/ IsrReceiveLast
        \/ IsrSlaveReceiver \/ IsrSlaveData \/ IsrSlaveDataNack \/ IsrRelease
        \/ IsrSlaveNext \/ IsrSlaveLast
     /\ UNCHANGED wireVars

-----------------------------------------------------------------------------
SketchCalls ==
  \/ BeginTransmission
  \/ Write
  \/ \E stop \in BOOLEAN : EndTransmission(stop)
  \/ \E quantity \in Quantities, stop \in BOOLEAN : RequestFrom(quantity, stop)
  \/ Read

InCall == CallGoesOn \/ ReturnWrite \/ ReadCopy \/ ReadReturn

Next ==
  \/ SketchCalls \/ InCall
  \/ HandlerRuns
  \/ BusGoesOn /\ UNCHANGED wireVars
  \/ BusIsAddressed /\ UNCHANGED wireVars

Spec == Init /\ [][Next]_vars

\* A call that has begun goes on, a pending interrupt is served, and a
\* transaction on the bus ends; nobody has to begin one.
FairSpec ==
  /\ Spec
  /\ WF_vars(InCall) /\ WF_vars(HandlerRuns)
  /\ WF_vars(BusGoesOn /\ UNCHANGED wireVars)

-----------------------------------------------------------------------------
(* Properties *)

TypeOK ==
  /\ twi_state \in Mode /\ twi_slarw \in {"R", "W"} /\ twi_error \in Error
  /\ {twi_sendStop, twi_inRepStart, sendStop, twie, twea, twsta,
      servicing, disturbed, transmitting} \subseteq BOOLEAN
  /\ {twi_masterBuffer, twi_txBuffer, twi_rxBuffer, unread, rxBuffer, txBuffer,
      message, offer, acked, fetched, incoming, answered} \subseteq Seq(Byte)
  /\ {twi_masterBufferIndex, twi_masterBufferLength, twi_txBufferIndex,
      txBufferLength, length} \subseteq 0 .. 255
  /\ pc \in PC /\ call \in {"read", "write"}
  /\ status \in Status /\ role \in Role /\ outcome \in Outcome /\ twdr \in Byte
  /\ foreign \in 0 .. MaxForeign
  /\ twi_masterBufferIndex <= BUFFER_LENGTH
  /\ twi_txBufferIndex <= Len(twi_txBuffer)
  /\ {Len(twi_masterBuffer), Len(twi_txBuffer), Len(twi_rxBuffer),
      Len(unread), txBufferLength} \subseteq 0 .. BUFFER_LENGTH

Code == [unanswered |-> 4, answered |-> 0, address_refused |-> 2,
         data_refused |-> 3, lost |-> 4]

WriteReturns == Done /\ call = "write" /\ pc' = "idle"

\* endTransmission() returns what happened on the bus, and 0 only if the
\* remote device acknowledged the whole message.
WriteHonest ==
  [][WriteReturns /\ ~disturbed =>
       Result = Code[outcome] /\ (Result = 0 => acked = message)]_vars

\* requestFrom() hands over the bytes the remote device sent, all of them in
\* order, and as many as asked for unless the transfer was cut short.
ReadHonest ==
  [][pc = "read_return" /\ pc' = "idle" /\ ~disturbed =>
       /\ unread' = fetched
       /\ outcome = "answered" => Len(fetched) = twi_masterBufferLength + 1]_vars

\* The receive callback gets what another master sent, cut to the buffer's
\* length, unless earlier data is unread; the sketch reads it from there on.
ReceiveHonest ==
  [][~servicing /\ servicing' /\ "receive" \in registered =>
       IF unread # << >> THEN unread' = unread
       ELSE /\ twi_rxBuffer = Take(incoming, BUFFER_LENGTH)
            /\ IsSuffix(unread', twi_rxBuffer)]_vars

\* Another master that reads from the device gets the answer of the request
\* callback from its first byte on, and no byte is left out when it takes all.
AnswerHonest ==
  role = "st" =>
    /\ IsPrefix(answered, offer)
    /\ status = "ST_LAST_DATA" => answered = offer

Deafened == Len(incoming) > BUFFER_LENGTH + 1

Idle == pc = "idle" /\ role = "none" /\ ~servicing

Ready == twea /\ twie /\ twi_state = "READY"

\* When the sketch is in no call and nothing goes on on the bus, the device
\* answers its address and the next call will not wait; unless another
\* master has sent two bytes more than the buffer holds.
NeverDeaf == Idle => Ready \/ Deafened

\* endTransmission() and requestFrom() return, with the same exception.
CallsReturn == pc # "idle" ~> pc = "idle" \/ Deafened
=============================================================================
