------------------------------- MODULE TwiBus -------------------------------
(***************************************************************************)
(* What twi.c drives and what drives it: the TWI peripheral with the bus   *)
(* behind it.  No code of the repository: modelled from the status codes   *)
(* that the handler of twi.c takes and the bits of TWCR that it sets.      *)
(*                                                                         *)
(* A remote slave may refuse its address or any byte.  Another master may  *)
(* win an arbitration and address this device then, or whenever the device *)
(* is idle; it sends and reads as many bytes as it wants.  A misplaced     *)
(* START or STOP, a bus error, may come at any point of a transaction.     *)
(* Left out: another master that addresses the device between a call's     *)
(* test of twi_state and its START; the driver is not made for that.       *)
(***************************************************************************)
EXTENDS Twi

CONSTANTS
  Remote,       \* the values of the i-th byte a remote device sends
  Incoming,     \* the same for what another master sends to this device; the
                \* length of Incoming bounds that of one transmission
  MaxForeign,   \* bound: how often another master addresses this device
  Untimely      \* when the device may be addressed although twi.c is not ready:
                \* "callback", while the receive callback runs

ASSUME TrafficAssumption ==
  /\ Remote \in Seq(SUBSET Byte) /\ Len(Remote) >= BUFFER_LENGTH
  /\ Incoming \in Seq(SUBSET Byte)
ASSUME ForeignAssumption == MaxForeign \in Nat
ASSUME UntimelyAssumption == Untimely \subseteq {"callback"}

\* The peripheral reports s, and stretches the clock until TWINT is cleared.
Report(s) ==
  /\ ~twint
  /\ status' = s
  /\ UNCHANGED <<driver, sketch, twie, twea, twsta>>

BusStart ==
  /\ role = "none" /\ twsta
  /\ role' = "start"
  /\ Report("START")
  /\ UNCHANGED <<twdr, foreign, history>>

BusAddressAnswered ==
  /\ role \in {"mt_addr", "mr_addr"}
  /\ role' = IF role = "mt_addr" THEN "mt" ELSE "mr"
  /\ Report(IF role = "mt_addr" THEN "MT_SLA_ACK" ELSE "MR_SLA_ACK")
  /\ outcome' = "answered"
  /\ UNCHANGED <<twdr, foreign, acked, fetched, incoming, answered, disturbed>>

BusAddressRefused ==
  /\ role \in {"mt_addr", "mr_addr"}
  /\ Report(IF role = "mt_addr" THEN "MT_SLA_NACK" ELSE "MR_SLA_NACK")
  /\ outcome' = "address_refused"
  /\ UNCHANGED <<twdr, role, foreign, acked, fetched, incoming, answered,
                 disturbed>>

BusByteAcked ==
  /\ role = "mt"
  /\ Report("MT_DATA_ACK")
  /\ acked' = Append(acked, twdr)
  /\ UNCHANGED <<twdr, role, foreign, outcome, fetched, incoming, answered,
                 disturbed>>

BusByteRefused ==
  /\ role = "mt"
  /\ Report("MT_DATA_NACK")
  /\ outcome' = "data_refused"
  /\ UNCHANGED <<twdr, role, foreign, acked, fetched, incoming, answered,
                 disturbed>>

BusByteRead ==
  /\ role = "mr"
  /\ Report(IF twea THEN "MR_DATA_ACK" ELSE "MR_DATA_NACK")
  /\ twdr' \in Remote[Len(fetched) + 1]
  /\ fetched' = Append(fetched, twdr')
  /\ UNCHANGED <<role, foreign, outcome, acked, incoming, answered, disturbed>>

BusLost(s) ==
  /\ \/ s = "ARB_LOST" /\ role \in {"mt_addr", "mr_addr", "mt", "mr"}
     \/ s = "BUS_ERROR" /\ role # "none"
  /\ Report(s)
  /\ outcome' = IF role \in {"sr", "st"} THEN outcome ELSE "lost"
  /\ UNCHANGED <<twdr, role, foreign, acked, fetched, incoming, answered,
                 disturbed>>

\* Another master addresses this device, out of the blue or having won the
\* arbitration for the address byte.
BusAddressed(r) ==
  /\ twea
  /\ foreign < MaxForeign /\ foreign' = foreign + 1
  /\ role \in {"none", "mt_addr", "mr_addr"}
  /\ servicing => "callback" \in Untimely
  /\ pc \notin {"setup", "twcr"}
  /\ r \in {"sr", "st"} /\ role' = r
  /\ Report(IF r = "sr" THEN "SR_SLA_ACK" ELSE "ST_SLA_ACK")
  /\ incoming' = << >> /\ answered' = << >>
  /\ disturbed' = (disturbed \/ pc # "idle")
  /\ UNCHANGED <<twdr, outcome, acked, fetched>>

BusByteSentHere ==
  /\ role = "sr"
  /\ Len(incoming) < Len(Incoming)
  /\ Report(IF twea THEN "SR_DATA_ACK" ELSE "SR_DATA_NACK")
  /\ twdr' \in Incoming[Len(incoming) + 1]
  /\ incoming' = Append(incoming, twdr')
  /\ UNCHANGED <<role, foreign, outcome, acked, fetched, answered, disturbed>>

BusStop ==
  /\ role = "sr"
  /\ Report("SR_STOP")
  /\ UNCHANGED <<twdr, role, foreign, history>>

\* The other master wants more, or not; without TWEA the device is done.
BusByteReadHere(more) ==
  /\ role = "st"
  /\ Report(IF ~more THEN "ST_DATA_NACK"
            ELSE IF twea THEN "ST_DATA_ACK" ELSE "ST_LAST_DATA")
  /\ answered' = Append(answered, twdr)
  /\ UNCHANGED <<twdr, role, foreign, outcome, acked, fetched, incoming,
                 disturbed>>

\* What goes on by itself, once a transaction has begun.
BusGoesOn ==
  \/ BusStart \/ BusAddressAnswered \/ BusAddressRefused
  \/ BusByteAcked \/ BusByteRefused
  \/ BusByteRead \/ BusByteSentHere
  \/ \E s \in {"ARB_LOST", "BUS_ERROR"} : BusLost(s)
  \/ BusStop
  \/ \E more \in BOOLEAN : BusByteReadHere(more)

BusIsAddressed == \E r \in {"sr", "st"} : BusAddressed(r)
=============================================================================
