------------------------ MODULE HardwareSerialProofs ------------------------
(***************************************************************************)
(* Safety of HardwareSerial for every buffer size, every byte alphabet,    *)
(* every number of bytes, and both values of LongIsr and Rebegin.          *)
(***************************************************************************)
EXTENDS HardwareSerial, SequenceTheorems, TLAPS

-----------------------------------------------------------------------------
(* The ring: what its operations do to the sequence of its unread bytes *)

N == SERIAL_BUFFER_SIZE

\* An index below twice the size wraps once at most: the only remainders
\* HardwareSerial.cpp computes.
LEMMA Wrap ==
  ASSUME NEW x \in 0 .. 2 * N - 1
  PROVE  /\ x % N = IF x < N THEN x ELSE x - N
         /\ x % N \in Slot
BY BufferSizeAssumption, SMTT(30) DEF N, Slot

LEMMA AdvanceSlot ==
  ASSUME NEW i \in Slot
  PROVE  /\ Advance(i) \in Slot
         /\ Advance(i) = IF i = N - 1 THEN 0 ELSE i + 1
<1> DEFINE x == i + 1
<1>1. x \in 0 .. 2 * N - 1
  BY BufferSizeAssumption DEF Slot, N
<1> HIDE DEF x
<1>2. x % N = IF x < N THEN x ELSE x - N
  BY <1>1, Wrap
<1> QED
  BY <1>2, BufferSizeAssumption DEF Advance, Slot, N, x

\* available() counts the slots from tail up to head, around the end.
LEMMA CountIs ==
  ASSUME NEW r \in Ring
  PROVE  /\ Count(r) \in 0 .. N - 1
         /\ Count(r) = IF r.tail <= r.head THEN r.head - r.tail
                                           ELSE N + r.head - r.tail
         /\ Count(r) = 0 <=> IsEmpty(r)
         /\ Count(r) = N - 1 <=> IsFull(r)
<1> DEFINE x == N + r.head - r.tail
<1>1. r.head \in Slot /\ r.tail \in Slot
  BY DEF Ring
<1>2. x \in 0 .. 2 * N - 1
  BY <1>1, BufferSizeAssumption DEF Slot, N
<1>3. x % N = IF x < N THEN x ELSE x - N
  BY <1>2, Wrap
<1>4. Count(r) = x % N
  BY DEF Count, N
<1>5. Count(r) = IF r.tail <= r.head THEN r.head - r.tail ELSE N + r.head - r.tail
  BY <1>1, <1>3, <1>4, BufferSizeAssumption DEF Slot, N
<1>6. Advance(r.head) = IF r.head = N - 1 THEN 0 ELSE r.head + 1
  BY <1>1, AdvanceSlot
<1> QED
  BY <1>1, <1>5, <1>6, BufferSizeAssumption DEF Slot, N, IsEmpty, IsFull

\* The k-th unread byte stands k - 1 slots after the tail.
LEMMA ContentsIs ==
  ASSUME NEW r \in Ring
  PROVE  /\ Contents(r) \in Seq(Byte \cup {NoByte})
         /\ Len(Contents(r)) = Count(r)
         /\ \A k \in 1 .. Count(r) :
              /\ r.tail + k - 1 \in 0 .. 2 * N - 1
              /\ Contents(r)[k] = r.buffer[(r.tail + k - 1) % N]
<1>1. Count(r) \in Nat /\ Count(r) <= N - 1
  BY CountIs, BufferSizeAssumption DEF N
<1>2. ASSUME NEW k \in 1 .. Count(r)
      PROVE  /\ r.tail + k - 1 \in 0 .. 2 * N - 1
             /\ r.buffer[(r.tail + k - 1) % N] \in Byte \cup {NoByte}
  <2>1. r.tail + k - 1 \in 0 .. 2 * N - 1
    BY <1>1, BufferSizeAssumption DEF Ring, Slot, N
  <2>2. (r.tail + k - 1) % N \in Slot
    BY <2>1, Wrap
  <2> QED
    BY <2>1, <2>2 DEF Ring
<1>3. Contents(r) \in [1 .. Count(r) -> Byte \cup {NoByte}]
  BY <1>2 DEF Contents, N
<1>4. Contents(r) \in Seq(Byte \cup {NoByte}) /\ Len(Contents(r)) = Count(r)
  BY <1>1, <1>3
<1> QED
  BY <1>2, <1>4 DEF Contents, N

\* Storing a byte in the free slot does not show until head moves.
LEMMA StoredIs ==
  ASSUME NEW r \in Ring, NEW c \in Byte \cup {NoByte}
  PROVE  /\ Stored(r, c) \in Ring
         /\ Stored(r, c).head = r.head
         /\ Stored(r, c).tail = r.tail
         /\ Stored(r, c).buffer[r.head] = c
         /\ Contents(Stored(r, c)) = Contents(r)
<1> DEFINE s == Stored(r, c)
<1>1. s \in Ring /\ s.head = r.head /\ s.tail = r.tail /\ s.buffer[r.head] = c
  BY DEF Ring, Stored
<1>2. Count(s) = Count(r)
  BY <1>1 DEF Count
<1>3. ASSUME NEW k \in 1 .. Count(r)
      PROVE  s.buffer[(r.tail + k - 1) % N] = r.buffer[(r.tail + k - 1) % N]
  <2> DEFINE x == r.tail + k - 1
  <2>1. x \in 0 .. 2 * N - 1
    BY ContentsIs
  <2>2. x % N \in Slot /\ x % N = IF x < N THEN x ELSE x - N
    BY <2>1, Wrap
  <2>3. Count(r) = IF r.tail <= r.head THEN r.head - r.tail ELSE N + r.head - r.tail
    BY CountIs
  <2>4. x % N # r.head
    BY <2>2, <2>3, BufferSizeAssumption DEF Ring, Slot, N
  <2> QED
    BY <2>2, <2>4 DEF Stored, Ring
<1> QED
  BY <1>1, <1>2, <1>3 DEF Contents, N

\* Moving head shows the byte in the free slot, last in the queue.
LEMMA PublishedIs ==
  ASSUME NEW r \in Ring, ~IsFull(r)
  PROVE  /\ Published(r) \in Ring
         /\ Published(r).tail = r.tail
         /\ Count(Published(r)) = Count(r) + 1
         /\ Contents(Published(r)) = Append(Contents(r), r.buffer[r.head])
<1> DEFINE s == Published(r)
<1>1. r.head \in Slot /\ r.tail \in Slot
  BY DEF Ring
<1>2. Advance(r.head) \in Slot
      /\ Advance(r.head) = IF r.head = N - 1 THEN 0 ELSE r.head + 1
  BY <1>1, AdvanceSlot
<1>3. /\ s \in Ring /\ s.buffer = r.buffer
      /\ s.head = Advance(r.head) /\ s.tail = r.tail
  BY <1>2 DEF Ring, Published
<1> HIDE DEF s
<1>4. /\ Count(r) = IF r.tail <= r.head THEN r.head - r.tail ELSE N + r.head - r.tail
      /\ Count(r) \in 0 .. N - 1
  BY CountIs
<1>5. Count(s) = IF s.tail <= s.head THEN s.head - s.tail ELSE N + s.head - s.tail
  BY <1>3, CountIs
<1>6. Count(s) = Count(r) + 1
  BY <1>1, <1>2, <1>3, <1>4, <1>5, BufferSizeAssumption DEF Slot, N, IsFull
<1>7. /\ Contents(r) \in Seq(Byte \cup {NoByte}) /\ Len(Contents(r)) = Count(r)
      /\ \A k \in 1 .. Count(r) :
           /\ r.tail + k - 1 \in 0 .. 2 * N - 1
           /\ Contents(r)[k] = r.buffer[(r.tail + k - 1) % N]
  BY ContentsIs
<1>8. /\ Contents(s) \in Seq(Byte \cup {NoByte}) /\ Len(Contents(s)) = Count(s)
      /\ \A k \in 1 .. Count(s) :
           /\ s.tail + k - 1 \in 0 .. 2 * N - 1
           /\ Contents(s)[k] = s.buffer[(s.tail + k - 1) % N]
  BY <1>3, ContentsIs
<1>9. (r.tail + (Count(r) + 1) - 1) % N = r.head
  <2> DEFINE x == r.tail + (Count(r) + 1) - 1
  <2>1. x \in 0 .. 2 * N - 1
    BY <1>3, <1>4, <1>6, <1>8
  <2>2. x % N = IF x < N THEN x ELSE x - N
    BY <2>1, Wrap
  <2> QED
    BY <1>1, <1>4, <2>2, BufferSizeAssumption DEF Slot, N
<1> DEFINE a == Append(Contents(r), r.buffer[r.head])
<1>10. r.buffer[r.head] \in Byte \cup {NoByte}
  BY <1>1 DEF Ring
<1>11. a \in Seq(Byte \cup {NoByte}) /\ Len(a) = Count(r) + 1
  BY <1>7, <1>10
<1>12. ASSUME NEW k \in 1 .. Count(r) + 1
       PROVE  Contents(s)[k] = a[k]
  <2>1. CASE k = Count(r) + 1
    <3>1. Contents(s)[k] = r.buffer[r.head]
      BY <2>1, <1>3, <1>4, <1>6, <1>8, <1>9
    <3> QED
      BY <2>1, <3>1, <1>7
  <2>2. CASE k \in 1 .. Count(r)
    BY <2>2, <1>3, <1>6, <1>7, <1>8
  <2>3. k = Count(r) + 1 \/ k \in 1 .. Count(r)
    BY <1>4, BufferSizeAssumption DEF N
  <2> HIDE DEF a
  <2> QED
    BY <2>1, <2>2, <2>3
<1>13. Contents(s) = a
  BY <1>6, <1>8, <1>11, <1>12
<1> QED
  BY <1>3, <1>6, <1>13 DEF s

\* Moving tail removes the oldest byte.
LEMMA PoppedIs ==
  ASSUME NEW r \in Ring, ~IsEmpty(r)
  PROVE  /\ Popped(r) \in Ring
         /\ Popped(r).head = r.head
         /\ Count(Popped(r)) = Count(r) - 1
         /\ Contents(r) # << >>
         /\ Front(r) = Head(Contents(r))
         /\ Contents(Popped(r)) = Tail(Contents(r))
<1> DEFINE s == Popped(r)
<1>1. r.head \in Slot /\ r.tail \in Slot
  BY DEF Ring
<1>2. Advance(r.tail) \in Slot
      /\ Advance(r.tail) = IF r.tail = N - 1 THEN 0 ELSE r.tail + 1
  BY <1>1, AdvanceSlot
<1>3. /\ s \in Ring /\ s.buffer = r.buffer
      /\ s.head = r.head /\ s.tail = Advance(r.tail)
  BY <1>2 DEF Ring, Popped
<1> HIDE DEF s
<1>4. /\ Count(r) = IF r.tail <= r.head THEN r.head - r.tail ELSE N + r.head - r.tail
      /\ Count(r) \in 1 .. N - 1
  BY CountIs, BufferSizeAssumption DEF N
<1>5. Count(s) = IF s.tail <= s.head THEN s.head - s.tail ELSE N + s.head - s.tail
  BY <1>3, CountIs
<1>6. Count(s) = Count(r) - 1
  BY <1>1, <1>2, <1>3, <1>4, <1>5, BufferSizeAssumption DEF Slot, N, IsEmpty
<1>7. /\ Contents(r) \in Seq(Byte \cup {NoByte}) /\ Len(Contents(r)) = Count(r)
      /\ \A k \in 1 .. Count(r) :
           /\ r.tail + k - 1 \in 0 .. 2 * N - 1
           /\ Contents(r)[k] = r.buffer[(r.tail + k - 1) % N]
  BY ContentsIs
<1>8. /\ Contents(s) \in Seq(Byte \cup {NoByte}) /\ Len(Contents(s)) = Count(s)
      /\ \A k \in 1 .. Count(s) :
           /\ s.tail + k - 1 \in 0 .. 2 * N - 1
           /\ Contents(s)[k] = s.buffer[(s.tail + k - 1) % N]
  BY <1>3, ContentsIs
<1>9. Front(r) = Contents(r)[1]
  <2>1. r.tail % N = r.tail
    BY <1>1, Wrap, BufferSizeAssumption DEF Slot, N
  <2>2. Contents(r)[1] = r.buffer[(r.tail + 1 - 1) % N]
    BY <1>4, <1>7, BufferSizeAssumption DEF N
  <2> QED
    BY <1>1, <2>1, <2>2, BufferSizeAssumption DEF Front, Slot, N
<1>10. ASSUME NEW k \in 1 .. Count(r) - 1
       PROVE  Contents(s)[k] = Contents(r)[k + 1]
  <2> DEFINE x == r.tail + (k + 1) - 1
             y == s.tail + k - 1
  <2>1. x \in 0 .. 2 * N - 1 /\ Contents(r)[k + 1] = r.buffer[x % N]
    <3> DEFINE j == k + 1
    <3>1. j \in 1 .. Count(r)
      BY ONLY <1>4, BufferSizeAssumption, k \in 1 .. Count(r) - 1, SMT DEF N
    <3>2. ASSUME NEW i \in 1 .. Count(r), i = j
          PROVE  /\ r.tail + i - 1 \in 0 .. 2 * N - 1
                 /\ Contents(r)[i] = r.buffer[(r.tail + i - 1) % N]
      BY <1>7
    <3> QED
      BY <3>1, <3>2
  <2>2. y \in 0 .. 2 * N - 1 /\ Contents(s)[k] = r.buffer[y % N]
    BY <1>3, <1>6, <1>8
  <2>3. x % N = IF x < N THEN x ELSE x - N
    BY <2>1, Wrap
  <2>4. y % N = IF y < N THEN y ELSE y - N
    BY <2>2, Wrap
  <2>5. x % N = y % N
    BY <1>1, <1>2, <1>3, <1>4, <2>3, <2>4, BufferSizeAssumption DEF Slot, N
  <2> QED
    BY <2>1, <2>2, <2>5
<1>11. Contents(r) # << >> /\ Head(Contents(r)) = Contents(r)[1]
  BY <1>4, <1>7, BufferSizeAssumption DEF N
<1>12. Contents(s) = Tail(Contents(r))
  BY <1>4, <1>6, <1>7, <1>8, <1>10, BufferSizeAssumption DEF N
<1> QED
  BY <1>3, <1>6, <1>9, <1>11, <1>12 DEF s

\* A ring with no unread byte means the empty sequence, and conversely.
LEMMA EmptyIs ==
  ASSUME NEW r \in Ring
  PROVE  Contents(r) = << >> <=> IsEmpty(r)
BY ContentsIs, CountIs

LEMMA EmptyRingIs == EmptyRing \in Ring /\ IsEmpty(EmptyRing)
BY BufferSizeAssumption DEF EmptyRing, Ring, IsEmpty, Slot

\* end() empties the receive ring by moving head back to tail.
LEMMA ClearedIs ==
  ASSUME NEW r \in Ring
  PROVE  [r EXCEPT !.head = r.tail] \in Ring /\ IsEmpty([r EXCEPT !.head = r.tail])
BY DEF Ring, IsEmpty

\* store_char() appends the byte or, on a full ring, drops it; the byte that
\* read() returns next does not change.
LEMMA store_charIs ==
  ASSUME NEW r \in Ring, NEW c \in Byte \cup {NoByte}
  PROVE  /\ store_char(c, r) \in Ring
         /\ Contents(store_char(c, r)) =
              IF IsFull(r) THEN Contents(r) ELSE Append(Contents(r), c)
         /\ Count(r) <= Count(store_char(c, r))
         /\ ~IsEmpty(r) => /\ ~IsEmpty(store_char(c, r))
                           /\ Front(store_char(c, r)) = Front(r)
<1>1. CASE IsFull(r)
  BY <1>1, CountIs, BufferSizeAssumption DEF store_char, N
<1>2. CASE ~IsFull(r)
  <2> DEFINE s == Stored(r, c)
             t == Published(s)
  <2>1. /\ s \in Ring /\ s.head = r.head /\ s.tail = r.tail
        /\ s.buffer[s.head] = c /\ Contents(s) = Contents(r)
    BY StoredIs
  <2>2. Count(s) = Count(r) /\ ~IsFull(s)
    BY <1>2, <2>1 DEF Count, IsFull
  <2> HIDE DEF s
  <2>3. /\ t \in Ring /\ t.tail = s.tail /\ Count(t) = Count(s) + 1
        /\ Contents(t) = Append(Contents(s), s.buffer[s.head])
    BY <2>1, <2>2, PublishedIs
  <2>4. store_char(c, r) = t
    BY <1>2 DEF store_char, s
  <2>5. ASSUME ~IsEmpty(r)
        PROVE  ~IsEmpty(t) /\ Front(t) = Front(r)
    <3>1. r.tail # r.head /\ r.tail \in Slot /\ r.head \in Slot
      BY <2>5 DEF IsEmpty, Ring
    <3>2. t.buffer = s.buffer
      BY DEF Published
    <3>3. s.buffer[r.tail] = r.buffer[r.tail]
      BY <3>1 DEF s, Stored, Ring
    <3>4. ~IsEmpty(t)
      BY <2>1, <2>2, <2>3, CountIs, BufferSizeAssumption DEF N
    <3> QED
      BY <2>1, <2>3, <3>2, <3>3, <3>4 DEF Front
  <2>6. Count(r) \in Nat
    BY CountIs, BufferSizeAssumption DEF N
  <2> HIDE DEF t
  <2> QED
    BY <1>2, <2>1, <2>2, <2>3, <2>4, <2>5, <2>6
<1> QED
  BY <1>1, <1>2

-----------------------------------------------------------------------------
(* Concatenation *)

LEMMA ConcatAppend ==
  ASSUME NEW S, NEW p \in Seq(S), NEW q \in Seq(S), NEW e \in S
  PROVE  p \o Append(q, e) = Append(p \o q, e)
<1>1. Append(q, e) = q \o <<e>> /\ <<e>> \in Seq(S)
  BY AppendIsConcat
<1>2. p \o q \in Seq(S)
  BY ConcatProperties
<1>3. Append(p \o q, e) = (p \o q) \o <<e>>
  BY <1>2, AppendIsConcat
<1> QED
  BY <1>1, <1>3, ConcatAssociative

LEMMA MoveHead ==
  ASSUME NEW S, NEW p \in Seq(S), NEW q \in Seq(S), q # << >>
  PROVE  p \o q = (p \o <<Head(q)>>) \o Tail(q)
<1>1. Head(q) \in S /\ Tail(q) \in Seq(S)
  BY HeadTailProperties
<1>2. <<Head(q)>> \in Seq(S) /\ <<Head(q)>> \o Tail(q) \in Seq(S)
  BY <1>1, ConcatProperties
<1>3. q = <<Head(q)>> \o Tail(q)
  BY <1>1, <1>2, HeadTailProperties, ConcatProperties, SeqEqual
<1> QED
  BY <1>1, <1>2, <1>3, ConcatAssociative

-----------------------------------------------------------------------------
(* The inductive invariant *)

\* What the sketch's thread knows where it stands in a method: nothing that
\* a handler does in between undoes it.
ThreadKnows ==
  /\ then \in {"idle", "end_clear", "write_txc"}
  /\ pc \in {"rmw_load", "rmw_store"} => todo # << >>
  /\ pc \in {"write_wait", "write_store", "write_publish", "read_pop"} =>
       byte \in Byte
  /\ pc \in {"write_store", "write_publish"} => ~IsFull(tx)
  /\ pc = "write_publish" => tx.buffer[tx.head] = byte
  /\ pc = "read_pop" => ~IsEmpty(rx) /\ Front(rx) = byte

\* An unread slot holds a byte that was stored there.
LiveSlots == Contents(tx) \in Seq(Byte) /\ Contents(rx) \in Seq(Byte)

IInv == TypeOK /\ LiveSlots /\ ThreadKnows /\ TxFifo /\ AnswersHold

\* The strengthened invariant holds at the start: both rings are empty.
LEMMA InitIInv == Init => IInv
<1> SUFFICES ASSUME Init PROVE IInv
  OBVIOUS
<1>1. EmptyRing \in Ring /\ IsEmpty(EmptyRing) /\ Contents(EmptyRing) = << >>
  BY EmptyRingIs, EmptyIs
<1>2. Count(EmptyRing) = 0
  BY <1>1, CountIs
<1>3. TypeOK
  <2>1. << >> \in Seq(Op) /\ << >> \in Seq(Frame) /\ << >> \in Seq(Byte)
    OBVIOUS
  <2>2. 0 \in 0 .. SERIAL_BUFFER_SIZE - 1
    BY BufferSizeAssumption
  <2>3. /\ transmitting \in BOOLEAN /\ open \in BOOLEAN /\ txc \in BOOLEAN
        /\ idleSince \in BOOLEAN /\ reg \subseteq Bit /\ ucsrb \subseteq Bit
    BY DEF Init
  <2> QED
    BY <1>1, <2>1, <2>2, <2>3 DEF Init, TypeOK, PC
<1>4. << >> \in Seq(Byte) /\ << >> \o << >> = << >>
  BY EmptySeq, ConcatEmptySeq
<1> QED
  BY <1>1, <1>2, <1>3, <1>4
  DEF Init, IInv, LiveSlots, ThreadKnows, TxFifo, AnswersHold
\* Steps that leave the rings and the answers given alone, and neither create
\* nor lose a byte on its way through the transmitter.
LEMMA QuietStep ==
  ASSUME IInv, TypeOK', ThreadKnows',
         UNCHANGED <<tx, rx, written, promised, peeked>>,
         ((line \o shift) \o udr)' = (line \o shift) \o udr
  PROVE  IInv'
BY DEF IInv, LiveSlots, TxFifo, AnswersHold

\* A call of the sketch begins, or is over at once: it may only set an answer
\* of available() or peek(), and the rings stay as they are.
LEMMA CallStep ==
  ASSUME IInv, Call
  PROVE  IInv'
<1> USE DEF software, sketch, hardware, history, txHist, rxHist
<1>type. TypeOK /\ ThreadKnows
  BY DEF IInv
<1>1. ASSUME NEW withConfig \in BOOLEAN, Begin(withConfig)
      PROVE  IInv'
  <2>1. TypeOK'
    <3>1. BeginOps \in Seq(Op)
      BY DEF BeginOps, Op, Bit
    <3>2. transmitting' \in BOOLEAN /\ idleSince' \in BOOLEAN /\ open' \in BOOLEAN
      BY <1>1 DEF Begin
    <3> QED
      BY <1>1, <1>type, <3>1, <3>2 DEF Begin, Start, TypeOK, PC
  <2>2. ThreadKnows'
    BY <1>1, <1>type DEF Begin, Start, ThreadKnows, BeginOps
  <2> QED
    BY <1>1, <2>1, <2>2, QuietStep DEF Begin
<1>2. CASE End
  <2>1. TypeOK' /\ ThreadKnows'
    BY <1>2, <1>type DEF End, TypeOK, PC, ThreadKnows
  <2> QED
    BY <1>2, <2>1, QuietStep DEF End
<1>3. CASE Available
  <2>1. Count(rx) \in 0 .. SERIAL_BUFFER_SIZE - 1
    BY <1>type, CountIs DEF TypeOK, N
  <2>2. TypeOK' /\ ThreadKnows'
    BY <1>3, <1>type, <2>1 DEF Available, TypeOK, ThreadKnows
  <2> QED
    BY <1>3, <2>1, <2>2
    DEF Available, IInv, LiveSlots, TxFifo, AnswersHold
<1>4. CASE Peek
  <2>1. Front(rx) \in Byte \cup {NoByte}
    BY <1>type DEF TypeOK, Ring, Front
  <2>2. TypeOK' /\ ThreadKnows'
    BY <1>4, <1>type, <2>1 DEF Peek, TypeOK, ThreadKnows
  <2> QED
    BY <1>4, <2>1, <2>2 DEF Peek, IInv, LiveSlots, TxFifo, AnswersHold
<1>5. CASE Read
  <2>1. Front(rx) \in Byte
    <3>1. Contents(rx) # << >> /\ Front(rx) = Head(Contents(rx))
      BY <1>5, <1>type, PoppedIs DEF Read, TypeOK
    <3> QED
      BY <3>1, HeadTailProperties DEF IInv, LiveSlots
  <2>2. TypeOK' /\ ThreadKnows'
    BY <1>5, <1>type, <2>1 DEF Read, TypeOK, PC, ThreadKnows
  <2> QED
    BY <1>5, <2>2, QuietStep DEF Read
<1>6. CASE Flush
  <2>1. TypeOK' /\ ThreadKnows'
    BY <1>6, <1>type DEF Flush, Goto, TypeOK, PC, ThreadKnows
  <2> QED
    BY <1>6, <2>1, QuietStep DEF Flush, Goto
<1>7. ASSUME NEW c \in Byte, Write(c)
      PROVE  IInv'
  <2>1. TypeOK' /\ ThreadKnows'
    BY <1>7, <1>type DEF Write, TypeOK, PC, ThreadKnows
  <2> QED
    BY <1>7, <2>1, QuietStep DEF Write
<1> QED
  BY <1>1, <1>2, <1>3, <1>4, <1>5, <1>6, <1>7 DEF Call

LEMMA InCallStep ==
  ASSUME IInv, InCall
  PROVE  IInv'
<1> USE DEF software, sketch, hardware, history, txHist, rxHist
<1>type. TypeOK /\ ThreadKnows
  BY DEF IInv
<1>1. CASE RmwLoad
  <2>1. TypeOK' /\ ThreadKnows'
    BY <1>1, <1>type DEF RmwLoad, TypeOK, PC, ThreadKnows
  <2> QED
    BY <1>1, <2>1, QuietStep DEF RmwLoad
<1>2. CASE RmwStore
  <2>1. TypeOK'
    <3>1. Head(todo) \in Op /\ Tail(todo) \in Seq(Op)
      BY <1>2, <1>type DEF RmwStore, TypeOK, ThreadKnows
    <3>2. ucsrb' \subseteq Bit
      BY <1>2, <1>type, <3>1 DEF RmwStore, Apply, TypeOK, Op
    <3>3. urx' \in Seq(Frame) /\ Len(urx') <= 2
      BY <1>2, <1>type DEF RmwStore, TypeOK
    <3> QED
      BY <1>2, <1>type, <3>1, <3>2, <3>3 DEF RmwStore, TypeOK, PC
  <2>2. ThreadKnows'
    BY <1>2, <1>type DEF RmwStore, ThreadKnows
  <2> QED
    BY <1>2, <2>1, <2>2, QuietStep DEF RmwStore
<1>3. CASE EndWait
  <2>1. TypeOK' /\ ThreadKnows'
    <3>1. EndOps \in Seq(Op) /\ EndOps # << >>
      BY DEF EndOps, Op, Bit
    <3> QED
      BY <1>3, <1>type, <3>1 DEF EndWait, Start, TypeOK, PC, ThreadKnows
  <2> QED
    BY <1>3, <2>1, QuietStep DEF EndWait
<1>4. CASE EndClear
  <2>1. rx' \in Ring /\ IsEmpty(rx') /\ Contents(rx') = << >> /\ Count(rx') = 0
    BY <1>4, <1>type, ClearedIs, EmptyIs, CountIs DEF EndClear, TypeOK
  <2>2. TypeOK' /\ ThreadKnows'
    BY <1>4, <1>type, <2>1, BufferSizeAssumption
    DEF EndClear, TypeOK, PC, ThreadKnows
  <2> QED
    BY <1>4, <2>1, <2>2 DEF EndClear, IInv, LiveSlots, TxFifo, AnswersHold
<1>5. CASE ReadPop
  <2>1. /\ rx' \in Ring /\ Count(rx') = Count(rx) - 1
        /\ Contents(rx) # << >> /\ Contents(rx') = Tail(Contents(rx))
    BY <1>5, <1>type, PoppedIs DEF ReadPop, TypeOK, ThreadKnows
  <2>2. Contents(rx') \in Seq(Byte)
    BY <2>1, HeadTailProperties DEF IInv, LiveSlots
  <2>3. Count(rx) \in Nat /\ Count(rx') \in Nat
    BY <1>type, <2>1, CountIs, BufferSizeAssumption DEF TypeOK, N
  <2>4. TypeOK' /\ ThreadKnows'
    <3>1. returned' \in Seq(Byte)
      BY <1>5, <1>type, AppendProperties DEF ReadPop, TypeOK, ThreadKnows
    <3>2. promised' \in 0 .. SERIAL_BUFFER_SIZE - 1
      BY <1>5, <1>type, BufferSizeAssumption DEF ReadPop, TypeOK
    <3> QED
      BY <1>5, <1>type, <2>1, <3>1, <3>2 DEF ReadPop, TypeOK, PC, ThreadKnows
  <2>5. AnswersHold'
    BY <1>5, <1>type, <2>1, <2>3 DEF ReadPop, IInv, AnswersHold, TypeOK
  <2> QED
    BY <1>5, <2>2, <2>4, <2>5 DEF ReadPop, IInv, LiveSlots, TxFifo
<1>6. CASE FlushWait
  <2>1. TypeOK' /\ ThreadKnows'
    BY <1>6, <1>type DEF FlushWait, TypeOK, PC, ThreadKnows
  <2> QED
    BY <1>6, <2>1, QuietStep DEF FlushWait
<1>7. CASE WriteWait
  <2>1. TypeOK' /\ ThreadKnows'
    BY <1>7, <1>type DEF WriteWait, Goto, TypeOK, PC, ThreadKnows
  <2> QED
    BY <1>7, <2>1, QuietStep DEF WriteWait, Goto
<1>8. CASE WriteStore
  <2>1. /\ tx' \in Ring /\ Contents(tx') = Contents(tx)
        /\ tx'.head = tx.head /\ tx'.tail = tx.tail
        /\ tx'.buffer[tx.head] = byte
    BY <1>8, <1>type, StoredIs DEF WriteStore, TypeOK
  <2>2. TypeOK' /\ ThreadKnows'
    BY <1>8, <1>type, <2>1 DEF WriteStore, TypeOK, PC, ThreadKnows, IsFull
  <2> QED
    BY <1>8, <2>1, <2>2 DEF WriteStore, IInv, LiveSlots, TxFifo, AnswersHold
<1>9. CASE WritePublish
  <2>1. byte \in Byte /\ tx' \in Ring /\ Contents(tx') = Append(Contents(tx), byte)
    BY <1>9, <1>type, PublishedIs DEF WritePublish, TypeOK, ThreadKnows
  <2>2. TypeOK' /\ ThreadKnows'
    <3>1. WriteOps \in Seq(Op) /\ WriteOps # << >>
      BY DEF WriteOps, Op, Bit
    <3>2. written' \in Seq(Byte)
      BY <1>9, <1>type, <2>1, AppendProperties DEF WritePublish, TypeOK
    <3> QED
      BY <1>9, <1>type, <2>1, <3>1, <3>2
      DEF WritePublish, Start, TypeOK, PC, ThreadKnows
  <2>3. Contents(tx') \in Seq(Byte)
    BY <2>1, AppendProperties DEF IInv, LiveSlots
  <2>4. TxFifo'
    <3> DEFINE sent == (line \o shift) \o udr
    <3>1. sent \in Seq(Byte)
      BY <1>type, ConcatProperties DEF TypeOK
    <3> HIDE DEF sent
    <3>2. sent \o Append(Contents(tx), byte) = Append(sent \o Contents(tx), byte)
      BY <2>1, <3>1, ConcatAppend DEF IInv, LiveSlots
    <3> QED
      BY <1>9, <2>1, <3>2 DEF WritePublish, IInv, TxFifo, sent
  <2> QED
    BY <1>9, <2>2, <2>3, <2>4 DEF WritePublish, IInv, LiveSlots, AnswersHold
<1>10. CASE WriteTxc
  <2>1. TypeOK' /\ ThreadKnows'
    BY <1>10, <1>type DEF WriteTxc, TypeOK, PC, ThreadKnows
  <2> QED
    BY <1>10, <2>1, QuietStep DEF WriteTxc
<1> QED
  BY <1>1, <1>2, <1>3, <1>4, <1>5, <1>6, <1>7, <1>8, <1>9, <1>10 DEF InCall
\* The handlers and the hardware.  What the sketch's thread knows survives
\* them: a receive only adds behind the byte it is reading, a transmission
\* only frees slots behind the one it is writing.
LEMMA HandlerStep ==
  ASSUME IInv, RxIsr \/ UdreIsr
  PROVE  IInv'
<1> USE DEF software, sketch, hardware, history, txHist, rxHist
<1>type. TypeOK /\ ThreadKnows
  BY DEF IInv
<1>1. CASE RxIsr /\ Head(urx).parityError
  <2>1. TypeOK' /\ ThreadKnows'
    <3>1. urx' \in Seq(Frame) /\ Len(urx') <= 2
      BY <1>1, <1>type, HeadTailProperties DEF RxIsr, TypeOK
    <3> QED
      BY <1>1, <1>type, <3>1 DEF RxIsr, TypeOK, ThreadKnows
  <2> QED
    BY <1>1, <2>1, QuietStep DEF RxIsr
<1>2. CASE RxIsr /\ ~Head(urx).parityError
  <2> DEFINE c == Head(urx).c
  <2>1. c \in Byte
    <3>1. Head(urx) \in Frame
      BY <1>2, <1>type, HeadTailProperties DEF RxIsr, TypeOK
    <3> QED
      BY <3>1 DEF Frame
  <2> HIDE DEF c
  <2>2. rx' = store_char(c, rx) /\ taken' = taken + 1
    BY <1>2 DEF RxIsr, c
  <2>3. /\ rx' \in Ring
        /\ Contents(rx') = IF IsFull(rx) THEN Contents(rx) ELSE Append(Contents(rx), c)
        /\ Count(rx) <= Count(rx')
        /\ ~IsEmpty(rx) => ~IsEmpty(rx') /\ Front(rx') = Front(rx)
    BY <1>type, <2>1, <2>2, store_charIs DEF TypeOK
  <2>4. Contents(rx') \in Seq(Byte)
    BY <2>1, <2>3, AppendProperties DEF IInv, LiveSlots
  <2>5. TypeOK' /\ ThreadKnows'
    <3>1. urx' \in Seq(Frame) /\ Len(urx') <= 2
      BY <1>2, <1>type, HeadTailProperties DEF RxIsr, TypeOK
    <3> QED
      BY <1>2, <1>type, <2>2, <2>3, <3>1 DEF RxIsr, TypeOK, ThreadKnows
  <2>6. AnswersHold'
    <3>1. Count(rx) \in Nat /\ Count(rx') \in Nat
      BY <1>type, <2>3, CountIs, BufferSizeAssumption DEF TypeOK, N
    <3> QED
      BY <1>2, <1>type, <2>3, <3>1 DEF RxIsr, IInv, AnswersHold, TypeOK
  <2> QED
    BY <1>2, <2>4, <2>5, <2>6 DEF RxIsr, IInv, LiveSlots, TxFifo
<1>3. CASE UdreIsrEmpty
  <2>1. TypeOK' /\ ThreadKnows'
    BY <1>3, <1>type DEF UdreIsrEmpty, TypeOK, ThreadKnows
  <2> QED
    BY <1>3, <2>1, QuietStep DEF UdreIsrEmpty
<1>4. CASE UdreIsrSend
  <2> DEFINE q == Contents(tx)
  <2>1. /\ tx' \in Ring /\ tx'.head = tx.head /\ Count(tx') = Count(tx) - 1
        /\ q # << >> /\ Front(tx) = Head(q) /\ Contents(tx') = Tail(q)
    BY <1>4, <1>type, PoppedIs DEF UdreIsrSend, TypeOK
  <2>2. q \in Seq(Byte)
    BY DEF IInv, LiveSlots
  <2> HIDE DEF q
  <2>3. Head(q) \in Byte /\ Tail(q) \in Seq(Byte)
    BY <2>1, <2>2, HeadTailProperties
  <2>4. ~IsFull(tx')
    BY <1>type, <2>1, CountIs, BufferSizeAssumption DEF TypeOK, N
  <2>5. tx'.buffer = tx.buffer
    BY <1>4, <1>type DEF UdreIsrSend, Popped, TypeOK, Ring
  <2>6. TypeOK'
    <3>1. udr' \in Seq(Byte) /\ Len(udr') <= 1
      BY <1>4, <2>1, <2>3 DEF UdreIsrSend
    <3> QED
      BY <1>4, <1>type, <2>1, <3>1 DEF UdreIsrSend, TypeOK
  <2>7. ThreadKnows'
    BY <1>4, <1>type, <2>1, <2>4, <2>5 DEF UdreIsrSend, ThreadKnows
  <2>8. TxFifo'
    <3> DEFINE sent == line \o shift
    <3>1. sent \in Seq(Byte)
      BY <1>type, ConcatProperties DEF TypeOK
    <3> HIDE DEF sent
    <3>2. (sent \o << >>) \o q = (sent \o <<Head(q)>>) \o Tail(q)
      BY <2>1, <2>2, <3>1, ConcatEmptySeq, MoveHead
    <3> QED
      BY <1>4, <2>1, <3>2 DEF UdreIsrSend, IInv, TxFifo, sent, q
  <2> QED
    BY <1>4, <2>1, <2>3, <2>6, <2>7, <2>8
    DEF UdreIsrSend, IInv, LiveSlots, AnswersHold
<1> QED
  BY <1>1, <1>2, <1>3, <1>4 DEF UdreIsr

LEMMA UsartStep ==
  ASSUME IInv, TxLoad \/ FrameEnd \/ \E f \in Frame : Arrive(f)
  PROVE  IInv'
<1> USE DEF software, sketch, hardware, history, txHist, rxHist
<1>type. TypeOK /\ ThreadKnows
  BY DEF IInv
<1>1. CASE TxLoad
  <2>1. TypeOK' /\ ThreadKnows'
    BY <1>1, <1>type DEF TxLoad, TypeOK, ThreadKnows
  <2>2. (line \o udr) \o << >> = (line \o << >>) \o udr
    <3>1. line \o udr \in Seq(Byte)
      BY <1>type, ConcatProperties DEF TypeOK
    <3> QED
      BY <1>type, <3>1, ConcatEmptySeq DEF TypeOK
  <2> QED
    BY <1>1, <2>1, <2>2, QuietStep DEF TxLoad
<1>2. CASE FrameEnd
  <2>1. line \o shift \in Seq(Byte)
    BY <1>type, ConcatProperties DEF TypeOK
  <2>2. TypeOK' /\ ThreadKnows'
    <3>1. txc' \in BOOLEAN
      BY <1>2 DEF FrameEnd
    <3> QED
      BY <1>2, <1>type, <2>1, <3>1 DEF FrameEnd, TypeOK, ThreadKnows
  <2>3. ((line \o shift) \o << >>) \o udr = (line \o shift) \o udr
    BY <2>1, ConcatEmptySeq
  <2> QED
    BY <1>2, <2>2, <2>3, QuietStep DEF FrameEnd
<1>3. ASSUME NEW f \in Frame, Arrive(f)
      PROVE  IInv'
  <2>1. urx' \in Seq(Frame) /\ Len(urx') <= 2
    BY <1>3, <1>type, AppendProperties DEF Arrive, TypeOK
  <2>2. TypeOK' /\ ThreadKnows'
    BY <1>3, <1>type, <2>1 DEF Arrive, TypeOK, ThreadKnows
  <2> QED
    BY <1>3, <2>2, QuietStep DEF Arrive
<1> QED
  BY <1>1, <1>2, <1>3

LEMMA NextIInv == IInv /\ [Next]_vars => IInv'
<1> SUFFICES ASSUME IInv, [Next]_vars PROVE IInv'
  OBVIOUS
<1>1. CASE UNCHANGED vars
  BY <1>1 DEF vars, software, sketch, hardware, history, txHist, rxHist, IInv,
     TypeOK, LiveSlots, ThreadKnows, TxFifo, AnswersHold
<1> QED
  BY <1>1, CallStep, InCallStep, HandlerStep, UsartStep DEF Next

-----------------------------------------------------------------------------
(* What holds of every behaviour *)

LEMMA Invariance == Spec => []IInv
BY InitIInv, NextIInv, PTL DEF Spec

\* The state stays within its types: no index leaves its ring, and neither
\* UDR nor the receiver's FIFO is ever overfilled.
THEOREM TypeCorrect == Spec => []TypeOK
<1>1. IInv => TypeOK
  BY DEF IInv
<1> QED
  BY <1>1, Invariance, PTL

\* The port sends what write() was given, in order, without loss and without
\* repetition: what is not on the line yet is in the shift register, in UDR
\* or in the ring.
THEOREM SendsInOrder == Spec => []TxFifo
<1>1. IInv => TxFifo
  BY DEF IInv
<1> QED
  BY <1>1, Invariance, PTL

\* available() and peek() make promises that no interrupt breaks.
THEOREM AnswersStayTrue == Spec => []AnswersHold
<1>1. IInv => AnswersHold
  BY DEF IInv
<1> QED
  BY <1>1, Invariance, PTL
-----------------------------------------------------------------------------
(* The port implements SerialPort *)

outq == shift \o udr \o Contents(tx)
inq  == Contents(rx)

LEMMA QueueTypes ==
  ASSUME IInv
  PROVE  /\ outq \in Seq(Byte) /\ inq \in Seq(Byte)
         /\ Len(outq) = Len(shift) + Len(udr) + Count(tx)
         /\ Len(inq) = Count(rx)
         /\ Count(tx) \in 0 .. N - 1 /\ Count(rx) \in 0 .. N - 1
<1>1. /\ shift \in Seq(Byte) /\ udr \in Seq(Byte)
      /\ Contents(tx) \in Seq(Byte) /\ inq \in Seq(Byte)
      /\ tx \in Ring /\ rx \in Ring
  BY DEF IInv, TypeOK, LiveSlots, inq
<1>2. Len(Contents(tx)) = Count(tx) /\ Len(inq) = Count(rx)
  BY <1>1, ContentsIs DEF inq
<1>3. shift \o udr \in Seq(Byte) /\ Len(shift \o udr) = Len(shift) + Len(udr)
  BY <1>1, ConcatProperties
<1>4. /\ outq \in Seq(Byte)
      /\ Len(outq) = Len(shift \o udr) + Len(Contents(tx))
  BY <1>1, <1>3, ConcatProperties DEF outq
<1> QED
  BY <1>1, <1>2, <1>3, <1>4, CountIs

\* Steps that the abstract port does not see.
LEMMA Unseen ==
  ASSUME UNCHANGED <<line, taken, returned>>, outq' = outq, inq' = inq
  PROVE  UNCHANGED Port!vars
BY DEF Port!vars, outq, inq

LEMMA CallRefines ==
  ASSUME IInv, Call
  PROVE  UNCHANGED Port!vars
<1> USE DEF software, sketch, hardware, history, txHist, rxHist
<1>1. UNCHANGED <<line, taken, returned, shift, udr, tx, rx>>
  BY DEF Call, Begin, End, Available, Peek, Read, Flush, Goto, Write
<1> QED
  BY <1>1, Unseen DEF outq, inq

LEMMA InCallRefines ==
  ASSUME IInv, InCall
  PROVE  [Port!Next]_Port!vars
<1> USE DEF software, sketch, hardware, history, txHist, rxHist
<1>type. TypeOK /\ ThreadKnows
  BY DEF IInv
<1>1. CASE RmwLoad \/ RmwStore \/ EndWait \/ FlushWait \/ WriteWait \/ WriteTxc
  <2>1. UNCHANGED <<line, taken, returned, shift, udr, tx, rx>>
    BY <1>1 DEF RmwLoad, RmwStore, EndWait, FlushWait, WriteWait, Goto, WriteTxc
  <2> QED
    BY <2>1, Unseen DEF outq, inq
<1>2. CASE EndClear
  <2>1. inq' = << >>
    BY <1>2, <1>type, ClearedIs, EmptyIs DEF EndClear, TypeOK, inq
  <2>2. outq' = outq /\ UNCHANGED <<line, taken, returned>>
    BY <1>2 DEF EndClear, outq
  <2>3. Port!Discard
    BY <2>1, <2>2 DEF Port!Discard, outq, inq
  <2> QED
    BY <2>3 DEF Port!Next
<1>3. CASE ReadPop
  <2>1. inq # << >> /\ byte = Head(inq) /\ inq' = Tail(inq)
    BY <1>3, <1>type, PoppedIs DEF ReadPop, ThreadKnows, TypeOK, inq
  <2>2. outq' = outq /\ UNCHANGED <<line, taken>> /\ returned' = Append(returned, byte)
    BY <1>3 DEF ReadPop, outq
  <2>3. Port!Read
    BY <2>1, <2>2 DEF Port!Read, outq, inq
  <2> QED
    BY <2>3 DEF Port!Next
<1>4. CASE WriteStore
  <2>1. Contents(tx') = Contents(tx)
    BY <1>4, <1>type, StoredIs DEF WriteStore, TypeOK
  <2> QED
    BY <1>4, <2>1, Unseen DEF WriteStore, outq, inq
<1>5. CASE WritePublish
  <2>1. byte \in Byte /\ Contents(tx') = Append(Contents(tx), byte)
    BY <1>5, <1>type, PublishedIs DEF WritePublish, TypeOK, ThreadKnows
  <2>2. Len(outq) < SERIAL_BUFFER_SIZE + 1
    <3>1. Count(tx) # N - 1
      BY <1>5, <1>type, CountIs DEF WritePublish, TypeOK, ThreadKnows
    <3>2. Len(shift) \in Nat /\ Len(shift) <= 1 /\ Len(udr) \in Nat /\ Len(udr) <= 1
      BY <1>type, LenProperties DEF TypeOK
    <3> QED
      BY <3>1, <3>2, QueueTypes, BufferSizeAssumption DEF N
  <2>3. outq' = Append(outq, byte)
    <3>1. shift \o udr \in Seq(Byte)
      BY <1>type, ConcatProperties DEF TypeOK
    <3>2. (shift \o udr) \o Append(Contents(tx), byte)
            = Append((shift \o udr) \o Contents(tx), byte)
      BY <2>1, <3>1, ConcatAppend DEF IInv, LiveSlots
    <3> QED
      BY <1>5, <2>1, <3>2 DEF WritePublish, outq
  <2>4. inq' = inq /\ UNCHANGED <<line, taken, returned>>
    BY <1>5 DEF WritePublish, inq
  <2>5. Port!Write(byte)
    BY <2>2, <2>3, <2>4 DEF Port!Write, outq, inq
  <2> QED
    BY <2>1, <2>5 DEF Port!Next
<1> QED
  BY <1>1, <1>2, <1>3, <1>4, <1>5 DEF InCall

LEMMA HandlerRefines ==
  ASSUME IInv, RxIsr \/ UdreIsr
  PROVE  [Port!Next]_Port!vars
<1> USE DEF software, sketch, hardware, history, txHist, rxHist
<1>type. TypeOK /\ ThreadKnows
  BY DEF IInv
<1>1. CASE (RxIsr /\ Head(urx).parityError) \/ UdreIsrEmpty
  BY <1>1, Unseen DEF RxIsr, UdreIsrEmpty, outq, inq
<1>2. CASE RxIsr /\ ~Head(urx).parityError
  <2> DEFINE c == Head(urx).c
  <2>1. c \in Byte
    <3>1. Head(urx) \in Frame
      BY <1>2, <1>type, HeadTailProperties DEF RxIsr, TypeOK
    <3> QED
      BY <3>1 DEF Frame
  <2> HIDE DEF c
  <2>2. rx' = store_char(c, rx) /\ taken' = taken + 1
    BY <1>2 DEF RxIsr, c
  <2>3. inq' = IF IsFull(rx) THEN inq ELSE Append(inq, c)
    BY <1>type, <2>1, <2>2, store_charIs DEF TypeOK, inq
  <2>4. IsFull(rx) <=> ~(Len(inq) < SERIAL_BUFFER_SIZE - 1)
    BY <1>type, QueueTypes, CountIs, BufferSizeAssumption DEF TypeOK, N
  <2>5. outq' = outq /\ UNCHANGED <<line, returned>>
    BY <1>2 DEF RxIsr, outq
  <2>6. inq' = IF Len(inq) < SERIAL_BUFFER_SIZE - 1 THEN Append(inq, c) ELSE inq
    BY <2>3, <2>4
  <2>7. Port!Receive(c)
    BY <2>2, <2>5, <2>6 DEF Port!Receive, outq, inq
  <2> QED
    BY <2>1, <2>7 DEF Port!Next
<1>3. CASE UdreIsrSend
  <2> DEFINE q == Contents(tx)
  <2>1. q # << >> /\ Front(tx) = Head(q) /\ Contents(tx') = Tail(q)
    BY <1>3, <1>type, PoppedIs DEF UdreIsrSend, TypeOK
  <2>2. q \in Seq(Byte)
    BY DEF IInv, LiveSlots
  <2> HIDE DEF q
  <2>3. (shift \o << >>) \o q = (shift \o <<Head(q)>>) \o Tail(q)
    BY <1>type, <2>1, <2>2, ConcatEmptySeq, MoveHead DEF TypeOK
  <2>4. outq' = outq
    BY <1>3, <2>1, <2>3 DEF UdreIsrSend, outq, q
  <2> QED
    BY <1>3, <2>4, Unseen DEF UdreIsrSend, inq
<1> QED
  BY <1>1, <1>2, <1>3 DEF UdreIsr

LEMMA UsartRefines ==
  ASSUME IInv, TxLoad \/ FrameEnd \/ \E f \in Frame : Arrive(f)
  PROVE  [Port!Next]_Port!vars
<1> USE DEF software, sketch, hardware, history, txHist, rxHist
<1>type. TypeOK
  BY DEF IInv
<1>1. CASE TxLoad
  <2>1. udr \o << >> = << >> \o udr
    BY <1>type, ConcatEmptySeq DEF TypeOK
  <2>2. outq' = outq
    BY <1>1, <2>1 DEF TxLoad, outq
  <2> QED
    BY <1>1, <2>2, Unseen DEF TxLoad, inq
<1>2. CASE FrameEnd
  <2> DEFINE rest == udr \o Contents(tx)
             h == Head(shift)
  <2>1. /\ udr \in Seq(Byte) /\ Contents(tx) \in Seq(Byte)
        /\ shift \in Seq(Byte) /\ line \in Seq(Byte)
    BY <1>type DEF IInv, TypeOK, LiveSlots
  <2>2. rest \in Seq(Byte)
    BY <2>1, ConcatProperties
  <2>3. h \in Byte /\ shift = <<h>>
    <3>1. shift # << >> /\ Len(shift) <= 1
      BY <1>2, <1>type DEF FrameEnd, TypeOK
    <3>2. Len(shift) = 1
      <4>1. Len(shift) \in Nat /\ Len(shift) # 0
        BY <2>1, <3>1, EmptySeq
      <4> QED
        BY <3>1, <4>1
    <3>3. shift[1] \in Byte /\ shift = <<shift[1]>>
      BY <2>1, <3>2
    <3> QED
      BY <3>3
  <2>4. outq = <<h>> \o rest
    <3>1. (shift \o udr) \o Contents(tx) = shift \o rest
      BY <2>1, ConcatAssociative
    <3> QED
      BY <2>3, <3>1 DEF outq
  <2>5. outq' = rest
    BY <1>2, <2>1, ConcatEmptySeq DEF FrameEnd, outq
  <2>6. line' = Append(line, h)
    BY <1>2, <2>1, <2>3, AppendIsConcat DEF FrameEnd
  <2> HIDE DEF rest, h
  <2>7. outq # << >> /\ Head(outq) = h /\ Tail(outq) = rest
    <3>1. <<h>> \in Seq(Byte) /\ Len(<<h>>) = 1
      BY <2>3
    <3>2. /\ outq \in Seq(Byte) /\ Len(outq) = Len(rest) + 1
          /\ \A i \in 1 .. Len(rest) + 1 :
               outq[i] = IF i <= 1 THEN <<h>>[i] ELSE rest[i - 1]
      BY <2>2, <2>4, <3>1, ConcatProperties
    <3>3. Len(rest) \in Nat
      BY <2>2, LenProperties
    <3>4. outq # << >> /\ Head(outq) = h
      BY <3>2, <3>3
    <3>5. /\ Tail(outq) \in Seq(Byte) /\ Len(Tail(outq)) = Len(rest)
          /\ \A i \in 1 .. Len(rest) : Tail(outq)[i] = rest[i]
      BY <3>2, <3>3, <3>4, HeadTailProperties
    <3> QED
      BY <2>2, <3>4, <3>5, SeqEqual
  <2>8. inq' = inq /\ UNCHANGED <<taken, returned>>
    BY <1>2 DEF FrameEnd, inq
  <2>9. Port!Send
    BY <2>5, <2>6, <2>7, <2>8 DEF Port!Send, outq, inq
  <2> QED
    BY <2>9 DEF Port!Next
<1>3. ASSUME NEW f \in Frame, Arrive(f)
      PROVE  UNCHANGED Port!vars
  BY <1>3, Unseen DEF Arrive, outq, inq
<1> QED
  BY <1>1, <1>2, <1>3

\* The port is a pair of queues to its user: the outgoing one loses nothing,
\* the incoming one loses a byte only when SERIAL_BUFFER_SIZE - 1 are unread.
THEOREM Refinement == Spec => Implements
<1>1. Init => Port!Init
  <2> SUFFICES ASSUME Init PROVE Port!Init
    OBVIOUS
  <2>1. Contents(EmptyRing) = << >>
    BY EmptyRingIs, EmptyIs
  <2>2. << >> \o << >> = << >>
    OBVIOUS
  <2> QED
    BY <2>1, <2>2 DEF Init, Port!Init
<1>2. IInv /\ [Next]_vars => [Port!Next]_Port!vars
  <2> SUFFICES ASSUME IInv, [Next]_vars PROVE [Port!Next]_Port!vars
    OBVIOUS
  <2>1. CASE UNCHANGED vars
    BY <2>1, Unseen DEF vars, software, sketch, hardware, history, txHist, rxHist,
       outq, inq
  <2> QED
    BY <2>1, CallRefines, InCallRefines, HandlerRefines, UsartRefines DEF Next
<1> QED
  BY <1>1, <1>2, Invariance, PTL DEF Spec, Implements, Port!Spec
=============================================================================
