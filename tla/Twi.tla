-------------------------------- MODULE Twi --------------------------------
(***************************************************************************)
(* libraries/Wire/utility/twi.c: the two-wire (I2C) driver.  twi_writeTo() *)
(* and twi_readFrom() run in the sketch's thread and wait for the handler  *)
(* of the TWI interrupt, which runs the transaction, as master or, when    *)
(* another master addresses this device, as slave.                         *)
(*                                                                         *)
(* Addresses are left out: every call and every other master finds the     *)
(* device it means, or nobody answers.  A pending interrupt is served      *)
(* before the sketch's next step.  These actions say nothing of the        *)
(* variables of Wire.cpp: module Wire completes them.                      *)
(***************************************************************************)
EXTENDS Integers, Sequences

CONSTANTS
  BUFFER_LENGTH,  \* TWI_BUFFER_LENGTH and BUFFER_LENGTH, 32 in the source
  Byte,           \* the values a data byte can take
  Zero            \* the byte 0x00

ASSUME BufferAssumption == BUFFER_LENGTH \in 1 .. 255
ASSUME ZeroAssumption == Zero \in Byte

VARIABLES
  twi_state, twi_slarw, twi_sendStop, twi_inRepStart, twi_error,
  twi_masterBuffer,        \* what was put into it by the transaction
  twi_masterBufferIndex, twi_masterBufferLength,
  twi_txBuffer,            \* as long as twi_txBufferLength
  twi_txBufferIndex,
  twi_rxBuffer,            \* as long as twi_rxBufferIndex
  pc, call,                \* the sketch's next step, and in which function
  length, sendStop,        \* its arguments
  status,                  \* TWSR
  twie, twea, twsta,       \* bits of TWCR
  twdr, role,              \* TWDR; what the peripheral is doing
  servicing,               \* the handler is in the callback of TW_SR_STOP
  foreign,                 \* how often another master addressed this device
  outcome,                 \* history: how the remote device answered the call
  acked, fetched,          \* history: bytes it acknowledged, bytes it sent
  incoming, answered,      \* history: bytes another master sent, or was sent
  disturbed                \* history: another master got in the call's way

masterVars == <<twi_masterBuffer, twi_masterBufferIndex, twi_masterBufferLength>>
slaveVars  == <<twi_txBuffer, twi_txBufferIndex, twi_rxBuffer>>
twcr       == <<status, twie, twea, twsta>>
driver     == <<twi_state, twi_slarw, twi_sendStop, twi_inRepStart, twi_error,
                masterVars, slaveVars>>
sketch     == <<pc, call, length, sendStop, servicing>>
history    == <<outcome, acked, fetched, incoming, answered, disturbed>>
twiVars    == <<driver, sketch, twcr, twdr, role, foreign, history>>

Mode    == {"READY", "MRX", "MTX", "SRX", "STX"}
Error   == {"none", "MT_SLA_NACK", "MT_DATA_NACK", "ARB_LOST", "BUS_ERROR"}
Role    == {"none", "start", "mt_addr", "mr_addr", "mt", "mr", "sr", "st"}
Status  == {"NO_INFO", "START", "REP_START", "MT_SLA_ACK", "MT_SLA_NACK",
            "MT_DATA_ACK", "MT_DATA_NACK", "ARB_LOST", "BUS_ERROR",
            "MR_SLA_ACK", "MR_SLA_NACK", "MR_DATA_ACK", "MR_DATA_NACK",
            "SR_SLA_ACK", "SR_DATA_ACK", "SR_DATA_NACK", "SR_STOP",
            "ST_SLA_ACK", "ST_DATA_ACK", "ST_DATA_NACK", "ST_LAST_DATA"}
Outcome == {"unanswered", "answered", "address_refused", "data_refused", "lost"}

\* twi_init(): answers its address, no transaction.
TwiInit ==
  /\ twi_state = "READY" /\ twi_slarw = "W" /\ twi_sendStop = TRUE
  /\ twi_inRepStart = FALSE /\ twi_error = "none"
  /\ twi_masterBuffer = << >> /\ twi_masterBufferIndex = 0
  /\ twi_masterBufferLength = 0
  /\ twi_txBuffer = << >> /\ twi_txBufferIndex = 0 /\ twi_rxBuffer = << >>
  /\ pc = "idle" /\ call = "write" /\ length = 0 /\ sendStop = TRUE
  /\ status = "NO_INFO" /\ twie = TRUE /\ twea = TRUE /\ twsta = FALSE
  /\ twdr = Zero /\ role = "none" /\ foreign = 0 /\ servicing = FALSE
  /\ outcome = "unanswered" /\ acked = << >> /\ fetched = << >>
  /\ incoming = << >> /\ answered = << >> /\ disturbed = FALSE

-----------------------------------------------------------------------------
(* twi_writeTo() and twi_readFrom() *)

\* The peripheral has something to report, and waits: TWINT.
twint == status # "NO_INFO"

At(p) == pc = p /\ ~(twint /\ twie) /\ ~servicing

Busy(c) == IF c = "write" THEN "MTX" ELSE "MRX"

\* Mutant: a read expects one byte too many.
Setup_OneTooMany(data) ==
  /\ At("setup")
  /\ pc' = "twcr"
  /\ twi_state' = Busy(call)
  /\ twi_slarw' = IF call = "write" THEN "W" ELSE "R"
  /\ twi_sendStop' = sendStop
  /\ twi_error' = "none"
  /\ twi_masterBufferIndex' = 0
  /\ twi_masterBufferLength' = length
  /\ twi_masterBuffer' = IF call = "write" THEN data ELSE << >>
  /\ UNCHANGED <<twi_inRepStart, slaveVars, call, length, sendStop, servicing,
                 twcr, twdr, role, foreign, history>>

Enter(c, n, stop) ==
  /\ At("idle")
  /\ pc' = "wait_ready"
  /\ call' = c /\ length' = n /\ sendStop' = stop
  /\ UNCHANGED <<driver, twcr, twdr, role, servicing, foreign, history>>

\* The test of twi_state and the assignment after it are two steps.
WaitReady ==
  /\ At("wait_ready")
  /\ twi_state = "READY"
  /\ pc' = "setup"
  /\ UNCHANGED <<driver, call, length, sendStop, servicing, twcr, twdr,
                 role, foreign, history>>

\* data is what twi_writeTo() copies.  A read acknowledges all bytes but the
\* last; twi_masterBufferLength is 8 bits wide.
Setup(data) ==
  /\ At("setup")
  /\ pc' = "twcr"
  /\ twi_state' = Busy(call)
  /\ twi_slarw' = IF call = "write" THEN "W" ELSE "R"
  /\ twi_sendStop' = sendStop
  /\ twi_error' = "none"
  /\ twi_masterBufferIndex' = 0
  /\ twi_masterBufferLength' = IF call = "write" THEN length ELSE (length - 1) % 256
  /\ twi_masterBuffer' = IF call = "write" THEN data ELSE << >>
  /\ UNCHANGED <<twi_inRepStart, slaveVars, call, length, sendStop, servicing,
                 twcr, twdr, role, foreign, history>>

\* The device is addressing the remote one.
Addressing == role' = IF twi_slarw = "W" THEN "mt_addr" ELSE "mr_addr"

\* After a repeated START (which is on the bus by now, as the source hopes)
\* the address goes out at once; otherwise a START is asked for.
WriteTwcr ==
  /\ At("twcr")
  /\ pc' = "wait_done"
  /\ status' = "NO_INFO" /\ twie' = TRUE /\ twea' = TRUE
  /\ twsta' = ~twi_inRepStart
  /\ IF twi_inRepStart THEN Addressing ELSE UNCHANGED role
  /\ twi_inRepStart' = FALSE
  /\ UNCHANGED <<twi_state, twi_slarw, twi_sendStop, twi_error, masterVars,
                 slaveVars, call, length, sendStop, servicing, twdr,
                 foreign, history>>

\* The locals and the histories of a call end with it.
EndOfCall ==
  /\ pc' = "idle" /\ call' = "write" /\ length' = 0 /\ sendStop' = TRUE
  /\ outcome' = "unanswered" /\ acked' = << >> /\ fetched' = << >>
  /\ disturbed' = FALSE
  /\ UNCHANGED <<incoming, answered>>

Done == At("wait_done") /\ twi_state # Busy(call)

\* What twi_writeTo() returns.
Result ==
  CASE twi_error = "none"         -> 0
    [] twi_error = "MT_SLA_NACK"  -> 2
    [] twi_error = "MT_DATA_NACK" -> 3
    [] OTHER                      -> 4

\* How many bytes twi_readFrom() returns.
Received == IF twi_masterBufferIndex < length THEN twi_masterBufferIndex ELSE length

-----------------------------------------------------------------------------
(* The interrupt handler *)

Isr(s) == twint /\ twie /\ status \in s /\ ~servicing

\* twi_reply(): the peripheral goes on, acknowledging or not.
Reply(ack) == status' = "NO_INFO" /\ twie' = TRUE /\ twea' = ack /\ twsta' = FALSE

\* twi_stop(), or twi_releaseBus(): off the bus.
OffTheBus == Reply(TRUE) /\ role' = "none" /\ twi_state' = "READY"

\* Mutant: after a repeated START the driver is not ready.
EndOfTransaction_NotReady ==
  IF twi_sendStop
  THEN OffTheBus /\ UNCHANGED twi_inRepStart
  ELSE /\ twi_inRepStart' = TRUE
       /\ UNCHANGED twi_state
       /\ status' = "REP_START" /\ role' = "start"
       /\ twie' = FALSE /\ twea' = FALSE /\ twsta' = TRUE

\* Mutant: a refused data byte is no error.
IsrFailed_NoError ==
  /\ Isr({"MT_SLA_NACK", "MT_DATA_NACK", "MR_SLA_NACK", "ARB_LOST", "BUS_ERROR"})
  /\ twi_error' = IF status \in {"MR_SLA_NACK", "MT_DATA_NACK"} THEN twi_error
                  ELSE status
  /\ OffTheBus
  /\ UNCHANGED <<twi_slarw, twi_sendStop, twi_inRepStart, masterVars, slaveVars,
                 sketch, twdr, foreign, history>>

\* Mutant: the last byte of a read is not kept.
IsrReceiveLast_Drops ==
  /\ Isr({"MR_DATA_NACK"})
  /\ OffTheBus
  /\ UNCHANGED <<twi_slarw, twi_sendStop, twi_inRepStart, twi_error, masterVars,
                 slaveVars, sketch, twdr, foreign, history>>

\* Mutant: the last byte of an answer is acknowledged as if more followed.
IsrSlaveTransmitter_AcksLast(answer) ==
  /\ Isr({"ST_SLA_ACK"})
  /\ twi_state' = "STX"
  /\ twi_txBuffer' = IF answer = << >> THEN <<Zero>> ELSE answer
  /\ twdr' = twi_txBuffer'[1]
  /\ twi_txBufferIndex' = 1
  /\ Reply(TRUE)
  /\ UNCHANGED <<twi_slarw, twi_sendStop, twi_inRepStart, twi_error, masterVars,
                 twi_rxBuffer, sketch, role, foreign, history>>

\* Mutant: a slave transmitter that is done does not acknowledge its address.
IsrSlaveLast_Deaf ==
  /\ Isr({"ST_DATA_NACK", "ST_LAST_DATA"})
  /\ Reply(FALSE) /\ role' = "none" /\ twi_state' = "READY"
  /\ UNCHANGED <<twi_slarw, twi_sendStop, twi_inRepStart, twi_error, masterVars,
                 slaveVars, sketch, twdr, foreign, history>>

\* The transaction is over: STOP, or a repeated START whose interrupt waits
\* for the next transaction.
EndOfTransaction ==
  IF twi_sendStop
  THEN OffTheBus /\ UNCHANGED twi_inRepStart
  ELSE /\ twi_inRepStart' = TRUE
       /\ twi_state' = "READY"
       /\ status' = "REP_START" /\ role' = "start"
       /\ twie' = FALSE /\ twea' = FALSE /\ twsta' = TRUE

IsrStart ==
  /\ Isr({"START", "REP_START"})
  /\ Reply(TRUE)
  /\ Addressing
  /\ UNCHANGED <<driver, sketch, twdr, foreign, history>>

IsrSend ==
  /\ Isr({"MT_SLA_ACK", "MT_DATA_ACK"})
  /\ twi_masterBufferIndex < twi_masterBufferLength
  /\ twdr' = twi_masterBuffer[twi_masterBufferIndex + 1]
  /\ twi_masterBufferIndex' = twi_masterBufferIndex + 1
  /\ Reply(TRUE)
  /\ UNCHANGED <<twi_state, twi_slarw, twi_sendStop, twi_inRepStart, twi_error,
                 twi_masterBuffer, twi_masterBufferLength, slaveVars, sketch,
                 role, foreign, history>>

IsrSentAll ==
  /\ Isr({"MT_SLA_ACK", "MT_DATA_ACK"})
  /\ twi_masterBufferIndex >= twi_masterBufferLength
  /\ EndOfTransaction
  /\ UNCHANGED <<twi_slarw, twi_sendStop, twi_error, masterVars, slaveVars,
                 sketch, twdr, foreign, history>>

\* A refusal, a lost arbitration or a bus error ends the transaction; a read
\* address that is refused is no error.
IsrFailed ==
  /\ Isr({"MT_SLA_NACK", "MT_DATA_NACK", "MR_SLA_NACK", "ARB_LOST", "BUS_ERROR"})
  /\ twi_error' = IF status = "MR_SLA_NACK" THEN twi_error ELSE status
  /\ OffTheBus
  /\ UNCHANGED <<twi_slarw, twi_sendStop, twi_inRepStart, masterVars, slaveVars,
                 sketch, twdr, foreign, history>>

Keep == /\ twi_masterBuffer' = Append(twi_masterBuffer, twdr)
        /\ twi_masterBufferIndex' = twi_masterBufferIndex + 1

\* Acknowledge the next byte if more than that one is expected.
IsrReceive ==
  /\ Isr({"MR_SLA_ACK", "MR_DATA_ACK"})
  /\ IF status = "MR_DATA_ACK"
     THEN Keep
     ELSE UNCHANGED <<twi_masterBuffer, twi_masterBufferIndex>>
  /\ Reply(twi_masterBufferIndex' < twi_masterBufferLength)
  /\ UNCHANGED <<twi_state, twi_slarw, twi_sendStop, twi_inRepStart, twi_error,
                 twi_masterBufferLength, slaveVars, sketch, twdr, role,
                 foreign, history>>

IsrReceiveLast ==
  /\ Isr({"MR_DATA_NACK"})
  /\ Keep
  /\ EndOfTransaction
  /\ UNCHANGED <<twi_slarw, twi_sendStop, twi_error, twi_masterBufferLength,
                 slaveVars, sketch, twdr, foreign, history>>

IsrSlaveReceiver ==
  /\ Isr({"SR_SLA_ACK"})
  /\ twi_state' = "SRX"
  /\ twi_rxBuffer' = << >>
  /\ Reply(TRUE)
  /\ UNCHANGED <<twi_slarw, twi_sendStop, twi_inRepStart, twi_error, masterVars,
                 twi_txBuffer, twi_txBufferIndex, sketch, twdr, role,
                 foreign, history>>

IsrSlaveData ==
  /\ Isr({"SR_DATA_ACK"})
  /\ IF Len(twi_rxBuffer) < BUFFER_LENGTH
     THEN twi_rxBuffer' = Append(twi_rxBuffer, twdr) /\ Reply(TRUE)
     ELSE UNCHANGED twi_rxBuffer /\ Reply(FALSE)
  /\ UNCHANGED <<twi_state, twi_slarw, twi_sendStop, twi_inRepStart, twi_error,
                 masterVars, twi_txBuffer, twi_txBufferIndex, sketch, twdr, role, foreign, history>>

\* The peripheral has refused a byte: it now ignores the rest of the
\* transmission, the STOP included, and, without TWEA, its own address.
IsrSlaveDataNack ==
  /\ Isr({"SR_DATA_NACK"})
  /\ Reply(FALSE)
  /\ role' = "none"
  /\ UNCHANGED <<driver, sketch, twdr, foreign, history>>

\* twi_stop() and the callback with twi_rxBuffer, which may take long.
IsrSlaveStop ==
  /\ Isr({"SR_STOP"})
  /\ OffTheBus
  /\ servicing' = TRUE
  /\ UNCHANGED <<twi_slarw, twi_sendStop, twi_inRepStart, twi_error, masterVars,
                 slaveVars, pc, call, length, sendStop, twdr, foreign,
                 history>>

\* twi_releaseBus() clears TWINT, even one that came up during the callback.
IsrRelease ==
  /\ servicing
  /\ servicing' = FALSE
  /\ twi_rxBuffer' = << >>
  /\ Reply(TRUE)
  /\ twi_state' = "READY"
  /\ UNCHANGED <<twi_slarw, twi_sendStop, twi_inRepStart, twi_error, masterVars,
                 twi_txBuffer, twi_txBufferIndex, pc, call, length, sendStop,
                 twdr, role, foreign, history>>

\* The callback has handed answer to twi_transmit(); a single 0x00 goes out
\* if there is none.
IsrSlaveTransmitter(answer) ==
  /\ Isr({"ST_SLA_ACK"})
  /\ twi_state' = "STX"
  /\ twi_txBuffer' = IF answer = << >> THEN <<Zero>> ELSE answer
  /\ twdr' = twi_txBuffer'[1]
  /\ twi_txBufferIndex' = 1
  /\ Reply(1 < Len(twi_txBuffer'))
  /\ UNCHANGED <<twi_slarw, twi_sendStop, twi_inRepStart, twi_error, masterVars,
                 twi_rxBuffer, sketch, role, foreign, history>>

\* If the sketch has set TWEA meanwhile, the handler sends what happens to be
\* behind the answer.
IsrSlaveNext ==
  /\ Isr({"ST_DATA_ACK"})
  /\ twdr' \in IF twi_txBufferIndex < Len(twi_txBuffer)
              THEN {twi_txBuffer[twi_txBufferIndex + 1]} ELSE Byte
  /\ twi_txBufferIndex' = twi_txBufferIndex + 1
  /\ Reply(twi_txBufferIndex' < Len(twi_txBuffer))
  /\ UNCHANGED <<twi_state, twi_slarw, twi_sendStop, twi_inRepStart, twi_error,
                 masterVars, twi_txBuffer, twi_rxBuffer, sketch, role,
                 foreign, history>>

IsrSlaveLast ==
  /\ Isr({"ST_DATA_NACK", "ST_LAST_DATA"})
  /\ OffTheBus
  /\ UNCHANGED <<twi_slarw, twi_sendStop, twi_inRepStart, twi_error, masterVars,
                 slaveVars, sketch, twdr, foreign, history>>
=============================================================================
