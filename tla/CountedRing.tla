----------------------------- MODULE CountedRing -----------------------------
(***************************************************************************)
(* RingBuff_t of arduino-usbserial/Lib/LightweightRingBuff.h: an array     *)
(* with a storage location (In), a retrieval location (Out) and a Count of *)
(* its own.  Nothing in it keeps In from running over Out: whoever inserts *)
(* has to test IsFull first.  In and Out are indices here, pointers there. *)
(***************************************************************************)
EXTENDS Integers, Sequences

CONSTANTS
  BUFFER_SIZE,  \* bytes of a ring: 128 in the source
  CountMod,     \* values of a RingBuff_Count_t: 256 in the source
  Byte,         \* the values a data byte can take
  NoByte        \* what a slot holds before its first use

ASSUME RingAssumption == BUFFER_SIZE \in Nat \ {0, 1}
ASSUME CountAssumption ==
  /\ CountMod \in Nat
  /\ BUFFER_SIZE < CountMod
  /\ CountMod % BUFFER_SIZE = 0
ASSUME EmptySlotAssumption == NoByte \notin Byte

Slot == 0 .. BUFFER_SIZE - 1

RingBuff == [Buffer : [Slot -> Byte \cup {NoByte}],
             In : Slot, Out : Slot, Count : 0 .. CountMod - 1]

\* RingBuffer_InitBuffer() at start-up, over memory that C has cleared.
InitBuffer == [Buffer |-> [i \in Slot |-> NoByte], In |-> 0, Out |-> 0, Count |-> 0]

\* Mutant: the location runs one slot too far before it wraps.
Advance_Late(i) == IF i = BUFFER_SIZE THEN 0 ELSE i + 1

\* A location is moved on, and wraps.
Advance(i) == IF i + 1 = BUFFER_SIZE THEN 0 ELSE i + 1

IsFull(r)  == r.Count = BUFFER_SIZE
IsEmpty(r) == r.Count = 0

\* RingBuffer_Insert() by a party that nothing can interrupt.
Insert(r, c) == [r EXCEPT !.Buffer[r.In] = c,
                          !.In = Advance(r.In),
                          !.Count = (r.Count + 1) % CountMod]

\* RingBuffer_Remove() returns the byte at Out; it moves Out, and counts
\* only after that.
Front(r)      == r.Buffer[r.Out]
OutMoved(r)   == [r EXCEPT !.Out = Advance(r.Out)]
Discounted(r) == [r EXCEPT !.Count = (r.Count + CountMod - 1) % CountMod]
Remove(r)     == Discounted(OutMoved(r))

\* What the next n removals return.
NextBytes(r, n) == [k \in 1 .. n |-> r.Buffer[(r.Out + k - 1) % BUFFER_SIZE]]
=============================================================================
