-------------------------- MODULE UsbSerialProofs --------------------------
(***************************************************************************)
(* Proofs about the USB-serial bridge, for every size of its rings, every  *)
(* width of their counts that is a multiple of the size, and any traffic.  *)
(***************************************************************************)
EXTENDS UsbSerial, TLAPS

B == BUFFER_SIZE
C == CountMod
N == Numbers

-----------------------------------------------------------------------------
(* The inductive invariants *)

\* A flush counts its bytes down to one.
Counted ==
  pc \in {"take", "discount", "send"} => BufferCount > 0

Types == TypeOK /\ Counted

\* The k-th byte from r's retrieval location on.
Waiting(r, k) == r.Buffer[(r.Out + k - 1) % B]

\* The number of the k-th of u bytes, f being the next one's.
Num(f, u, k) == (f + 2 * N - u + k - 1) % N

\* The number of the k-th byte that waits for the host, and for the board.
ForHost(k)  == Num(fromBoard, Unread, k)
ForBoard(k) == (toBoard + k - 1) % N

\* The bytes promised to the flush are there, less the one that is taken.
HostInOrder ==
  ~disorder =>
    /\ Unread <= B
    /\ \A k \in 1 .. Unread : Waiting(toUsb, k) = ForHost(k)
    /\ pc = "discount" => byte = ForHost(0)
    /\ pc = "take" => Unread > 0 /\ BufferCount <= Unread
    /\ pc \in {"discount", "send"} => BufferCount - 1 <= Unread

\* The ring that belongs to the main loop alone, with its locations aligned.
BoardInOrder ==
  /\ toUsart.Count <= B
  /\ (toUsart.Out + toUsart.Count) % B = toUsart.In
  /\ \A k \in 1 .. toUsart.Count : Waiting(toUsart, k) = ForBoard(k)
  /\ (toBoard + toUsart.Count) % N = fromHost

-----------------------------------------------------------------------------
(* Arithmetic *)

\* A remainder is the only number below the divisor that is a multiple away.
LEMMA Multiple ==
  ASSUME NEW d \in Nat \ {0}, NEW k \in Nat \ {0}
  PROVE  d * k >= d
<1>1. d * k = d * (k - 1) + d
  OBVIOUS
<1>2. k - 1 \in Nat
  OBVIOUS
<1>3. ASSUME NEW a \in Nat, NEW b \in Nat PROVE a * b >= 0
  BY <1>3
<1>4. d * (k - 1) >= 0
  BY <1>2, <1>3
<1>5. d * (k - 1) \in Int
  BY <1>2
<1> QED
  BY <1>1, <1>4, <1>5

LEMMA RemainderIs ==
  ASSUME NEW d \in Nat \ {0}, NEW q \in Nat, NEW r \in 0 .. d - 1
  PROVE  (d * q + r) % d = r
<1> DEFINE x == d * q + r
           p == x \div d
           s == x % d
<1>1. x \in Int
  OBVIOUS
<1> HIDE DEF x
<1>2. p \in Int /\ s \in 0 .. d - 1 /\ x = d * p + s
  BY <1>1
<1> HIDE DEF p, s
<1>3. d * q + r = d * p + s
  BY <1>2 DEF x
<1>4. CASE p = q
  BY <1>2, <1>3, <1>4 DEF s, x
<1>5. CASE p > q
  <2>1. p - q \in Nat \ {0}
    BY <1>2, <1>5
  <2>2. d * (p - q) >= d
    BY <2>1, Multiple
  <2>3. d * (p - q) = d * p - d * q
    BY <1>2
  <2> QED
    BY <1>2, <1>3, <2>2, <2>3
<1>6. CASE p < q
  <2>1. q - p \in Nat \ {0}
    BY <1>2, <1>6
  <2>2. d * (q - p) >= d
    BY <2>1, Multiple
  <2>3. d * (q - p) = d * q - d * p
    BY <1>2
  <2> QED
    BY <1>2, <1>3, <2>2, <2>3
<1> QED
  BY <1>2, <1>4, <1>5, <1>6

LEMMA Sizes ==
  /\ B \in Nat /\ B > 1 /\ C \in Nat /\ B < C /\ C % B = 0
  /\ N \in Nat /\ N > B /\ Byte = 0 .. N - 1 /\ Slot = 0 .. B - 1
BY RingAssumption, CountAssumption, NumbersAssumption DEF B, C, N, Slot

\* An index below twice the size, and a number below three times the period,
\* wrap at most once and twice.
LEMMA WrapSlot ==
  ASSUME NEW x \in 0 .. 2 * B - 1
  PROVE  /\ x % B = IF x < B THEN x ELSE x - B
         /\ x % B \in Slot
<1>1. CASE x < B
  <2>1. (B * 0 + x) % B = x
    BY <1>1, Sizes, RemainderIs
  <2> QED
    BY <1>1, <2>1, Sizes
<1>2. CASE x >= B
  <2>1. x - B \in 0 .. B - 1
    BY <1>2, Sizes
  <2>2. (B * 1 + (x - B)) % B = x - B
    BY <2>1, Sizes, RemainderIs
  <2> QED
    BY <1>2, <2>1, <2>2, Sizes
<1> QED
  BY <1>1, <1>2, Sizes

LEMMA WrapNumber ==
  ASSUME NEW x \in 0 .. 3 * N - 1
  PROVE  /\ x % N = IF x < N THEN x ELSE IF x < 2 * N THEN x - N ELSE x - 2 * N
         /\ x % N \in Byte
<1>1. CASE x < N
  <2>1. (N * 0 + x) % N = x
    BY <1>1, Sizes, RemainderIs
  <2> QED
    BY <1>1, <2>1, Sizes
<1>2. CASE x >= N /\ x < 2 * N
  <2>1. x - N \in 0 .. N - 1
    BY <1>2, Sizes
  <2>2. (N * 1 + (x - N)) % N = x - N
    BY <2>1, Sizes, RemainderIs
  <2> QED
    BY <1>2, <2>1, <2>2, Sizes
<1>3. CASE x >= 2 * N
  <2>1. x - 2 * N \in 0 .. N - 1
    BY <1>3, Sizes
  <2>2. (N * 2 + (x - 2 * N)) % N = x - 2 * N
    BY <2>1, Sizes, RemainderIs
  <2> QED
    BY <1>3, <2>1, <2>2, Sizes
<1> QED
  BY <1>1, <1>2, <1>3, Sizes

LEMMA WrapCount ==
  ASSUME NEW x \in 0 .. 2 * C - 1
  PROVE  /\ x % C = IF x < C THEN x ELSE x - C
         /\ x % C \in 0 .. C - 1
<1>1. CASE x < C
  <2>1. (C * 0 + x) % C = x
    BY <1>1, Sizes, RemainderIs
  <2> QED
    BY <1>1, <2>1, Sizes
<1>2. CASE x >= C
  <2>1. x - C \in 0 .. C - 1
    BY <1>2, Sizes
  <2>2. (C * 1 + (x - C)) % C = x - C
    BY <2>1, Sizes, RemainderIs
  <2> QED
    BY <1>2, <2>1, <2>2, Sizes
<1> QED
  BY <1>1, <1>2, Sizes

\* Every number is a multiple of the size and its remainder.
LEMMA Split ==
  ASSUME NEW x \in Nat
  PROVE  \E q \in Nat : x = B * q + (x % B) /\ x % B \in 0 .. B - 1
<1> DEFINE q == x \div B
           r == x % B
<1>1. x = B * q + r /\ r \in 0 .. B - 1 /\ q \in Int
  BY Sizes
<1> HIDE DEF q, r
<1>2. q >= 0
  <2> SUFFICES ASSUME q < 0 PROVE FALSE
    BY <1>1
  <2>1. -q \in Nat \ {0}
    BY <1>1
  <2>2. B * (-q) >= B
    BY <2>1, Sizes, Multiple
  <2>3. B * (-q) = -(B * q) /\ B * q \in Int
    BY <1>1, Sizes
  <2> QED
    BY <1>1, <2>2, <2>3, Sizes
<1>3. q \in Nat
  BY <1>1, <1>2
<1> QED
  BY <1>1, <1>3 DEF r

\* Next location, next number: what follows on an aligned index.
LEMMA NextSlot ==
  ASSUME NEW x \in Nat
  PROVE  (x + 1) % B = Advance(x % B)
<1> DEFINE r == x % B
<1>1. PICK q \in Nat : x = B * q + r /\ r \in 0 .. B - 1
  BY Split
<1> HIDE DEF r
<1>2. r \in 0 .. B - 1 /\ x = B * q + r
  BY <1>1
<1>3. CASE r + 1 < B
  <2>1. (B * q + (r + 1)) % B = r + 1
    BY <1>2, <1>3, Sizes, RemainderIs
  <2>2. B * q \in Nat /\ x + 1 = B * q + (r + 1)
    BY <1>2, Sizes
  <2> QED
    BY <1>2, <1>3, <2>1, <2>2, Sizes DEF Advance, r, B
<1>4. CASE r + 1 = B
  <2>1. (B * (q + 1) + 0) % B = 0
    BY Sizes, RemainderIs
  <2>2. B * (q + 1) = B * q + B
    BY Sizes
  <2>3. B * q \in Nat /\ x + 1 = B * (q + 1) + 0
    BY <1>2, <1>4, <2>2, Sizes
  <2> QED
    BY <1>4, <2>1, <2>3 DEF Advance, r, B
<1> QED
  BY <1>2, <1>3, <1>4, Sizes

-----------------------------------------------------------------------------
(* The operations on a ring *)

LEMMA AdvanceIs ==
  ASSUME NEW i \in Slot
  PROVE  /\ Advance(i) \in Slot
         /\ Advance(i) = IF i = B - 1 THEN 0 ELSE i + 1
BY Sizes DEF Advance, B

LEMMA CountTypes ==
  ASSUME NEW c \in 0 .. C - 1
  PROVE  /\ (c + 1) % C = IF c = C - 1 THEN 0 ELSE c + 1
         /\ (c + 1) % C \in 0 .. C - 1
         /\ (c + C - 1) % C = IF c = 0 THEN C - 1 ELSE c - 1
         /\ (c + C - 1) % C \in 0 .. C - 1
<1> DEFINE x == c + 1
           y == c + C - 1
<1>1. x \in 0 .. 2 * C - 1 /\ y \in 0 .. 2 * C - 1
  BY Sizes
<1>2. x < C <=> c # C - 1
  BY Sizes
<1>3. y < C <=> c = 0
  BY Sizes
<1>4. (x - C = 0 <=> c = C - 1) /\ y - C = c - 1
  BY Sizes
<1> HIDE DEF x, y
<1>5. x % C = (IF x < C THEN x ELSE x - C) /\ x % C \in 0 .. C - 1
  BY <1>1, WrapCount
<1>6. y % C = (IF y < C THEN y ELSE y - C) /\ y % C \in 0 .. C - 1
  BY <1>1, WrapCount
<1>7. x % C = IF c = C - 1 THEN 0 ELSE x
  BY <1>2, <1>4, <1>5
<1>8. y % C = IF c = 0 THEN y ELSE c - 1
  BY <1>3, <1>4, <1>6
<1>9. c = 0 => y = C - 1
  BY Sizes DEF y
<1>10. x = c + 1 /\ y = c + C - 1
  BY DEF x, y
<1> QED
  BY <1>5, <1>6, <1>7, <1>8, <1>9, <1>10, Zenon

\* What each operation does to a ring of the right shape.
LEMMA InsertIs ==
  ASSUME NEW r \in RingBuff, NEW c \in Byte
  PROVE  LET s == Insert(r, c)
         IN  /\ s \in RingBuff
             /\ s.Buffer = [r.Buffer EXCEPT ![r.In] = c]
             /\ s.In = Advance(r.In) /\ s.Out = r.Out
             /\ s.Count = (r.Count + 1) % C
<1>1. /\ r.In \in Slot /\ r.Count \in 0 .. C - 1
      /\ r.Buffer \in [Slot -> Byte \cup {NoByte}] /\ r.Out \in Slot
  BY DEF RingBuff, C
<1>r. r = [Buffer |-> r.Buffer, In |-> r.In, Out |-> r.Out, Count |-> r.Count]
  BY DEF RingBuff
<1>2. Advance(r.In) \in Slot
  BY <1>1, AdvanceIs
<1>3. (r.Count + 1) % C \in 0 .. C - 1
  BY <1>1, CountTypes
<1> DEFINE b == [r.Buffer EXCEPT ![r.In] = c]
           a == Advance(r.In)
           n == (r.Count + 1) % C
<1>4. b \in [Slot -> Byte \cup {NoByte}]
  BY <1>1
<1>5. Insert(r, c) = [Buffer |-> b, In |-> a, Out |-> r.Out, Count |-> n]
  <2>1. Insert(r, c) = [[[r EXCEPT !.Buffer = b] EXCEPT !.In = a] EXCEPT !.Count = n]
    BY DEF Insert, RingBuff, C
  <2> HIDE DEF b, a, n
  <2> QED
    BY <1>r, <2>1
<1> HIDE DEF b, a, n
<1>6. Insert(r, c) \in RingBuff
  BY <1>1, <1>2, <1>3, <1>4, <1>5 DEF RingBuff, a, n, C
<1> QED
  BY <1>5, <1>6 DEF a, b, n

LEMMA OutMovedIs ==
  ASSUME NEW r \in RingBuff
  PROVE  LET s == OutMoved(r)
         IN  /\ s \in RingBuff
             /\ s.Buffer = r.Buffer /\ s.In = r.In /\ s.Count = r.Count
             /\ s.Out = Advance(r.Out)
<1>1. Advance(r.Out) \in Slot
  BY AdvanceIs DEF RingBuff
<1> QED
  BY <1>1 DEF OutMoved, RingBuff

LEMMA DiscountedIs ==
  ASSUME NEW r \in RingBuff
  PROVE  LET s == Discounted(r)
         IN  /\ s \in RingBuff
             /\ s.Buffer = r.Buffer /\ s.In = r.In /\ s.Out = r.Out
             /\ s.Count = (r.Count + C - 1) % C
<1>1. (r.Count + C - 1) % C \in 0 .. C - 1
  BY CountTypes DEF RingBuff, C
<1> DEFINE n == (r.Count + C - 1) % C
<1>2. Discounted(r) = [r EXCEPT !.Count = n]
  BY DEF Discounted, C
<1>3. n \in 0 .. CountMod - 1
  BY <1>1 DEF C
<1> HIDE DEF n
<1> QED
  BY <1>2, <1>3 DEF RingBuff, n

\* Once round the ring, and once round the count, is no move.
LEMMA Round ==
  ASSUME NEW x \in Nat
  PROVE  (x + B) % B = x % B /\ (x + C) % B = x % B
<1> DEFINE r == x % B
<1>1. PICK q \in Nat : x = B * q + r /\ r \in 0 .. B - 1
  BY Split
<1>2. PICK p \in Nat : C = B * p + (C % B)
  BY Sizes, Split
<1>3. C = B * p
  BY <1>2, Sizes
<1> HIDE DEF r
<1>4. (B * (q + 1) + r) % B = r /\ (B * (q + p) + r) % B = r
  BY <1>1, Sizes, RemainderIs
<1>5. B * (q + 1) = B * q + B /\ B * (q + p) = B * q + B * p
  BY Sizes
<1>6. B * q \in Nat /\ B * p \in Nat
  BY Sizes
<1>7. x + B = B * (q + 1) + r
  BY <1>1, <1>5, <1>6, Sizes
<1>8. x + C = B * (q + p) + r
  BY <1>1, <1>3, <1>5, <1>6
<1> QED
  BY <1>4, <1>7, <1>8 DEF r

\* n unread bytes between Out and In: one more, or one fewer, and the
\* locations are aligned again, even where the count wraps.
LEMMA OneMore ==
  ASSUME NEW r \in RingBuff, NEW n \in 0 .. C - 1, (r.Out + n) % B = r.In
  PROVE  (r.Out + ((n + 1) % C)) % B = Advance(r.In)
<1> DEFINE k == (n + 1) % C
           x == r.Out + k
           y == r.Out + n
<1>1. k = (IF n = C - 1 THEN 0 ELSE n + 1) /\ k \in 0 .. C - 1 /\ r.Out \in Slot
  BY CountTypes DEF RingBuff
<1> HIDE DEF k
<1>2. x \in Nat /\ y \in Nat /\ (y + 1 = x \/ y + 1 = x + C)
  <2> DEFINE o == r.Out
  <2>1. C \in Nat /\ o \in Nat /\ n \in Nat /\ k \in Nat
    BY <1>1, Sizes
  <2>2. k = (IF n = C - 1 THEN 0 ELSE n + 1)
    BY <1>1
  <2> HIDE DEF o
  <2>3. o + k \in Nat /\ o + n \in Nat
        /\ (((o + n) + 1 = o + k) \/ ((o + n) + 1 = (o + k) + C))
    BY ONLY <2>1, <2>2
  <2> QED
    BY <2>3 DEF o
<1>3. y % B = r.In
  OBVIOUS
<1> HIDE DEF x, y
<1>4. (y + 1) % B = Advance(r.In)
  BY <1>2, <1>3, NextSlot
<1>5. x % B = Advance(r.In)
  BY <1>2, <1>4, Round
<1> QED
  BY <1>5 DEF x, k

LEMMA OneFewer ==
  ASSUME NEW r \in RingBuff, NEW n \in 0 .. C - 1, (r.Out + n) % B = r.In
  PROVE  (Advance(r.Out) + ((n + C - 1) % C)) % B = r.In
<1> DEFINE k == (n + C - 1) % C
           p == r.Out
           o == Advance(p)
           x == o + k
           y == p + n
<1>1. k = (IF n = 0 THEN C - 1 ELSE n - 1) /\ k \in 0 .. C - 1 /\ n \in 0 .. C - 1
  BY CountTypes
<1>2. p \in Slot /\ o \in Slot /\ o = IF p = B - 1 THEN 0 ELSE p + 1
  BY AdvanceIs DEF RingBuff
<1>3. y % B = r.In
  OBVIOUS
<1>4. C \in Nat /\ B \in Nat /\ Slot = 0 .. B - 1
  BY Sizes
<1> HIDE DEF k, p, o
<1>5. k \in Nat /\ n \in Nat /\ p \in Nat /\ o \in Nat
  BY ONLY <1>1, <1>2, <1>4
<1>6. x \in Nat /\ y \in Nat
  BY ONLY <1>5
<1>7. x = y \/ x = y + C \/ x + B = y \/ x + B = y + C
  <2>1. k = n - 1 \/ k = (n + C) - 1
    BY ONLY <1>1, <1>4, <1>5
  <2>2. o = p + 1 \/ o + B = p + 1
    BY ONLY <1>2, <1>4, <1>5
  <2> QED
    BY ONLY <1>4, <1>5, <2>1, <2>2
<1> HIDE DEF x, y
<1>8. x % B = y % B
  BY <1>6, <1>7, Round
<1> QED
  BY <1>3, <1>8 DEF x, k, o, p

-----------------------------------------------------------------------------
(* Types *)

LEMMA InitTypes == Init => Types
<1> SUFFICES ASSUME Init PROVE Types
  OBVIOUS
<1>1. InitBuffer \in RingBuff
  BY Sizes DEF InitBuffer, RingBuff, B, C
<1>2. 0 \in Byte /\ 0 \in 0 .. CountMod - 1
  BY Sizes DEF C
<1>3. 0 \in 0 .. ReceiveFifo /\ 0 \in 0 .. OutEndpoint
  BY EndpointAssumption
<1> QED
  BY <1>1, <1>2, <1>3 DEF Init, Types, TypeOK, Counted, PC

LEMMA Next1Type ==
  ASSUME NEW n \in Byte
  PROVE  Next1(n) \in Byte
BY Sizes DEF Next1, N

\* The steps of the main loop that move bytes.
LEMMA LoopTypes == Types /\ Loop => Types'
<1> SUFFICES ASSUME Types, Loop PROVE Types'
  OBVIOUS
<1> USE DEF Types, TypeOK, Counted, PC
<1>1. CASE ReceiveByte
  <2>1. toUsart' \in RingBuff /\ fromHost' \in Byte
    BY <1>1, InsertIs, Next1Type DEF ReceiveByte
  <2>2. waiting' \in 0 .. OutEndpoint
    BY <1>1, EndpointAssumption DEF ReceiveByte
  <2> QED
    BY <1>1, <2>1, <2>2 DEF ReceiveByte
<1>2. CASE FetchCount
  <2>1. toUsb.Count \in 0 .. CountMod - 1
    BY DEF RingBuff
  <2>2. disorder' \in BOOLEAN
    BY <1>2 DEF FetchCount
  <2>3. /\ tov0' \in BOOLEAN /\ BufferCount' \in 0 .. CountMod - 1
        /\ (pc' = "transmit" \/ (pc' = "take" /\ BufferCount' > 0))
    <3>1. \/ /\ tov0' = FALSE /\ BufferCount' = toUsb.Count
             /\ pc' = IF toUsb.Count = 0 THEN "transmit" ELSE "take"
          \/ pc' = "transmit" /\ UNCHANGED tov0 /\ UNCHANGED BufferCount
      BY <1>2 DEF FetchCount, IsEmpty
    <3>2. toUsb.Count # 0 => toUsb.Count > 0
      BY <2>1
    <3> QED
      BY <2>1, <3>1, <3>2
  <2>4. UNCHANGED <<rings, byte, configured, urx, udre, waiting, reset, fromHost,
                    toBoard, fromBoard>>
    BY <1>2 DEF FetchCount
  <2> QED
    BY <2>2, <2>3, <2>4 DEF rings
<1>3. CASE TakeByte
  <2>1. toUsb' \in RingBuff
    BY <1>3, OutMovedIs DEF TakeByte
  <2>2. byte' \in Byte \cup {NoByte}
    BY <1>3 DEF TakeByte, Front, RingBuff
  <2>3. disorder' \in BOOLEAN
    BY <1>3 DEF TakeByte
  <2> QED
    BY <1>3, <2>1, <2>2, <2>3 DEF TakeByte, outside
<1>4. CASE Discount
  <2>1. toUsb' \in RingBuff
    BY <1>4, DiscountedIs DEF Discount
  <2>2. disorder' \in BOOLEAN
    BY <1>4 DEF Discount
  <2> QED
    BY <1>4, <2>1, <2>2 DEF Discount, outside
<1>5. CASE SendByte
  <2>1. BufferCount \in 1 .. CountMod - 1 /\ CountMod \in Nat
    BY <1>5, CountAssumption DEF SendByte
  <2>2. /\ BufferCount' \in 0 .. CountMod - 1 /\ byte' = NoByte
        /\ (pc' = "transmit" \/ (pc' = "take" /\ BufferCount' > 0))
    BY <1>5, <2>1 DEF SendByte
  <2>3. UNCHANGED <<rings, outside, history>>
    BY <1>5 DEF SendByte
  <2> QED
    BY <2>2, <2>3 DEF rings, outside, history
<1>6. CASE TransmitByte
  <2>1. toUsart' \in RingBuff
    BY <1>6, OutMovedIs, DiscountedIs DEF TransmitByte, Remove
  <2>2. toBoard' \in Byte
    BY <1>6, Next1Type DEF TransmitByte
  <2> QED
    BY <1>6, <2>1, <2>2 DEF TransmitByte
<1>7. CASE NothingToTransmit \/ Task
  BY <1>7 DEF NothingToTransmit, Task, rings, outside, history
<1>8. CASE ConfigurationChanged
  BY <1>8, EndpointAssumption DEF ConfigurationChanged, rings, history
<1>9. CASE LineEncodingChanged
  BY <1>9, EndpointAssumption DEF LineEncodingChanged, rings, history
<1>10. CASE ControLineStateChanged
  BY <1>10 DEF ControLineStateChanged, rings, history
<1> QED
  BY <1>1, <1>2, <1>3, <1>4, <1>5, <1>6, <1>7, <1>8, <1>9, <1>10 DEF Loop

LEMMA TypesStep == Types /\ [Next]_vars => Types'
<1> SUFFICES ASSUME Types, [Next]_vars PROVE Types'
  OBVIOUS
<1> USE DEF Types, TypeOK, Counted, PC
<1>1. CASE Loop
  BY <1>1, LoopTypes
<1>2. CASE RxIsr
  <2>1. toUsb' \in RingBuff /\ fromBoard' \in Byte
    BY <1>2, InsertIs, Next1Type DEF RxIsr
  <2>2. disorder' \in BOOLEAN
    BY <1>2 DEF RxIsr
  <2>3. urx' \in 0 .. ReceiveFifo
    BY <1>2, EndpointAssumption DEF RxIsr
  <2> QED
    BY <1>2, <2>1, <2>2, <2>3 DEF RxIsr, loop
<1>3. CASE BoardSends
  BY <1>3, EndpointAssumption DEF BoardSends, rings, loop, history
<1>4. CASE HostSends
  BY <1>4, EndpointAssumption DEF HostSends, rings, loop, history
<1>5. CASE Disconnect \/ TimerOverflow \/ UsartReady
  BY <1>5 DEF Disconnect, TimerOverflow, UsartReady, rings, loop, history
<1>6. CASE UNCHANGED vars
  BY <1>6 DEF vars, rings, loop, outside, history
<1> QED
  BY <1>1, <1>2, <1>3, <1>4, <1>5, <1>6 DEF Next

\* Locations, counts and the bytes a flush has still to send stay in their
\* ranges, past any overrun (LightweightRingBuff.h:76-197,
\* Arduino-usbserial.c:92-133, 222-228).
THEOREM BridgeTypes == Spec => []TypeOK
<1>1. Types => TypeOK
  BY DEF Types
<1> QED
  BY <1>1, InitTypes, TypesStep, PTL DEF Spec

-----------------------------------------------------------------------------
(* The ring two parties share *)

LEMMA UnreadType ==
  ASSUME Types
  PROVE  /\ toUsb \in RingBuff /\ toUsb.Count \in 0 .. C - 1
         /\ toUsb.In \in Slot /\ toUsb.Out \in Slot
         /\ Unread \in 0 .. C - 1
         /\ Unread = IF pc = "discount" THEN (toUsb.Count + C - 1) % C ELSE toUsb.Count
<1>1. toUsb \in RingBuff /\ toUsb.Count \in 0 .. C - 1
      /\ toUsb.In \in Slot /\ toUsb.Out \in Slot
  BY DEF Types, TypeOK, RingBuff, C
<1> QED
  BY <1>1, CountTypes DEF Unread, C

\* The byte that is taken is off the unread ones at once; discounting it
\* changes only how they are counted.
LEMMA UnreadTaken ==
  ASSUME Types, TakeByte
  PROVE  /\ Unread' = (Unread + C - 1) % C
         /\ toUsb'.Out = Advance(toUsb.Out) /\ toUsb'.In = toUsb.In
         /\ toUsb'.Buffer = toUsb.Buffer
<1>1. pc = "take" /\ pc' = "discount" /\ toUsb' = OutMoved(toUsb)
  BY DEF TakeByte
<1>2. /\ toUsb'.Count = toUsb.Count /\ toUsb'.Buffer = toUsb.Buffer
      /\ toUsb'.Out = Advance(toUsb.Out) /\ toUsb'.In = toUsb.In
  BY <1>1, UnreadType, OutMovedIs
<1> QED
  BY <1>1, <1>2 DEF Unread, C

LEMMA UnreadDiscounted ==
  ASSUME Types, Discount
  PROVE  /\ Unread' = Unread
         /\ toUsb'.Out = toUsb.Out /\ toUsb'.In = toUsb.In
         /\ toUsb'.Buffer = toUsb.Buffer
<1>1. pc = "discount" /\ pc' = "send" /\ toUsb' = Discounted(toUsb)
  BY DEF Discount
<1>2. /\ toUsb'.Count = (toUsb.Count + C - 1) % C /\ toUsb'.Buffer = toUsb.Buffer
      /\ toUsb'.Out = toUsb.Out /\ toUsb'.In = toUsb.In
  BY <1>1, UnreadType, DiscountedIs
<1> QED
  BY <1>1, <1>2 DEF Unread, C

LEMMA UnreadInserted ==
  ASSUME Types, RxIsr, configured
  PROVE  /\ Unread' = (Unread + 1) % C
         /\ toUsb'.Out = toUsb.Out /\ toUsb'.In = Advance(toUsb.In)
         /\ toUsb'.Buffer = [toUsb.Buffer EXCEPT ![toUsb.In] = fromBoard]
<1>1. UNCHANGED pc /\ toUsb' = Insert(toUsb, fromBoard) /\ fromBoard \in Byte
  BY DEF RxIsr, loop, Types, TypeOK
<1>2. /\ toUsb'.Count = (toUsb.Count + 1) % C
      /\ toUsb'.Out = toUsb.Out /\ toUsb'.In = Advance(toUsb.In)
      /\ toUsb'.Buffer = [toUsb.Buffer EXCEPT ![toUsb.In] = fromBoard]
  BY <1>1, UnreadType, InsertIs
<1>3. CASE pc # "discount"
  BY <1>1, <1>2, <1>3 DEF Unread
<1>4. CASE pc = "discount"
  <2> DEFINE k == toUsb.Count
             k1 == (k + 1) % C
             u == (k + C - 1) % C
             u1 == (k1 + C - 1) % C
  <2>1. k \in 0 .. C - 1 /\ C \in Nat /\ C > 1
    BY UnreadType, Sizes
  <2>2. k1 = (IF k = C - 1 THEN 0 ELSE k + 1) /\ k1 \in 0 .. C - 1
    BY <2>1, CountTypes
  <2>3. u = (IF k = 0 THEN C - 1 ELSE k - 1) /\ u \in 0 .. C - 1
    BY <2>1, CountTypes
  <2>4. u1 = IF k1 = 0 THEN C - 1 ELSE k1 - 1
    BY <2>2, CountTypes
  <2>5. (u + 1) % C = IF u = C - 1 THEN 0 ELSE u + 1
    BY <2>3, CountTypes
  <2>6. Unread = u /\ Unread' = u1
    BY <1>1, <1>2, <1>4 DEF Unread, C
  <2> HIDE DEF k, k1, u, u1
  <2>7. u1 = IF u = C - 1 THEN 0 ELSE u + 1
    BY <2>1, <2>2, <2>3, <2>4
  <2> QED
    BY <1>2, <2>5, <2>6, <2>7
<1> QED
  BY <1>2, <1>3, <1>4

\* Every other step leaves the ring and its reader alone.
LEMMA UnreadKept ==
  ASSUME Types, [Next]_vars
  PROVE  \/ TakeByte \/ Discount \/ (RxIsr /\ configured)
         \/ /\ UNCHANGED <<toUsb, fromBoard>> /\ Unread' = Unread
            /\ \/ FetchCount \/ SendByte
               \/ /\ UNCHANGED <<byte, BufferCount, disorder>>
                  /\ pc' \notin {"take", "discount", "send"} \/ UNCHANGED pc
<1> USE DEF Unread
<1> DEFINE Kept == /\ UNCHANGED <<toUsb, fromBoard>> /\ Unread' = Unread
                   /\ UNCHANGED <<byte, BufferCount, disorder>>
                   /\ pc' \notin {"take", "discount", "send"} \/ UNCHANGED pc
<1>1. ReceiveByte => Kept
  BY DEF ReceiveByte
<1>2. ASSUME FetchCount PROVE UNCHANGED <<toUsb, fromBoard>> /\ Unread' = Unread
  BY <1>2 DEF FetchCount, rings
<1>3. ASSUME SendByte PROVE UNCHANGED <<toUsb, fromBoard>> /\ Unread' = Unread
  BY <1>3 DEF SendByte, rings, history
<1>4. TransmitByte => Kept
  BY DEF TransmitByte
<1>5. NothingToTransmit \/ Task => Kept
  BY DEF NothingToTransmit, Task, rings, outside, history
<1>6. ConfigurationChanged \/ LineEncodingChanged \/ ControLineStateChanged => Kept
  BY DEF ConfigurationChanged, LineEncodingChanged, ControLineStateChanged, rings, history
<1>7. RxIsr /\ ~configured => Kept
  BY DEF RxIsr, loop
<1>8. BoardSends \/ HostSends \/ Disconnect \/ TimerOverflow \/ UsartReady => Kept
  BY DEF BoardSends, HostSends, Disconnect, TimerOverflow, UsartReady, rings, loop, history
<1>9. UNCHANGED vars => Kept
  BY DEF vars, rings, loop, history
<1> QED
  BY <1>1, <1>2, <1>3, <1>4, <1>5, <1>6, <1>7, <1>8, <1>9 DEF Next, Loop

LEMMA InitAligned == Init => Aligned
<1> SUFFICES ASSUME Init PROVE (toUsb.Out + Unread) % B = toUsb.In
  BY DEF Aligned, B
<1>1. toUsb.Out = 0 /\ Unread = 0 /\ toUsb.In = 0
  BY DEF Init, InitBuffer, Unread
<1>2. 0 % B = 0
  BY Sizes
<1> QED
  BY <1>1, <1>2

LEMMA AlignedStep == Types /\ Aligned /\ [Next]_vars => Aligned'
<1> SUFFICES ASSUME Types, (toUsb.Out + Unread) % B = toUsb.In, [Next]_vars
             PROVE  (toUsb'.Out + Unread') % B = toUsb'.In
  BY DEF Aligned, B
<1>1. CASE TakeByte
  BY <1>1, UnreadType, UnreadTaken, OneFewer
<1>2. CASE Discount
  BY <1>2, UnreadDiscounted
<1>3. CASE RxIsr /\ configured
  BY <1>3, UnreadType, UnreadInserted, OneMore
<1>4. CASE UNCHANGED toUsb /\ Unread' = Unread
  BY <1>4
<1> QED
  BY <1>1, <1>2, <1>3, <1>4, UnreadKept

\* In, Out and Count never drift apart, though the handler and the main loop
\* move them one by one, past any overrun and past the wrap of the count:
\* its 256 values are a multiple of the ring's size
\* (LightweightRingBuff.h:76-197, Arduino-usbserial.c:92-133, 222-228).
THEOREM BridgeAligned == Spec => []Aligned
BY InitTypes, InitAligned, TypesStep, AlignedStep, PTL DEF Spec

-----------------------------------------------------------------------------
(* The order of the bytes *)

\* In a ring with room the byte inserted is the last that waits.
LEMMA LastWaits ==
  ASSUME NEW r \in RingBuff, NEW s, NEW c \in Byte, NEW n \in 0 .. B - 1,
         (r.Out + n) % B = r.In,
         s.Out = r.Out, s.Buffer = [r.Buffer EXCEPT ![r.In] = c]
  PROVE  /\ \A k \in 1 .. n : Waiting(s, k) = Waiting(r, k)
         /\ Waiting(s, n + 1) = c
<1>1. /\ r.Buffer \in [Slot -> Byte \cup {NoByte}]
      /\ r.In \in Slot /\ r.Out \in Slot /\ r.Out \in 0 .. B - 1
      /\ B \in Nat
  BY Sizes DEF RingBuff
<1>2. ASSUME NEW k \in 1 .. n PROVE Waiting(s, k) = Waiting(r, k)
  <2> DEFINE x == r.Out + k - 1
             y == r.Out + n
  <2>1. x \in 0 .. 2 * B - 1 /\ y \in 0 .. 2 * B - 1 /\ x < y /\ y < x + B
    BY <1>1
  <2>2. y % B = r.In
    OBVIOUS
  <2> HIDE DEF x, y
  <2>3. /\ x % B \in Slot /\ x % B = IF x < B THEN x ELSE x - B
        /\ y % B = IF y < B THEN y ELSE y - B
    BY <2>1, WrapSlot
  <2>4. x % B # r.In
    BY <1>1, <2>1, <2>2, <2>3
  <2>5. s.Buffer[x % B] = r.Buffer[x % B]
    BY <1>1, <2>3, <2>4
  <2> QED
    BY <2>5 DEF Waiting, x
<1>3. Waiting(s, n + 1) = c
  <2>1. r.Out + (n + 1) - 1 = r.Out + n
    BY <1>1
  <2>2. s.Buffer[r.In] = c
    BY <1>1
  <2> QED
    BY <2>1, <2>2 DEF Waiting
<1> QED
  BY <1>2, <1>3

\* Moving Out, the second that waits becomes the first.
LEMMA FirstLeaves ==
  ASSUME NEW r \in RingBuff, NEW s, NEW n \in 1 .. B,
         s.Out = Advance(r.Out), s.Buffer = r.Buffer
  PROVE  /\ \A k \in 1 .. n - 1 : Waiting(s, k) = Waiting(r, k + 1)
         /\ Waiting(r, 1) = Front(r)
<1>1. r.Out \in Slot /\ r.Out \in 0 .. B - 1 /\ B \in Nat
  BY Sizes DEF RingBuff
<1>2. s.Out \in 0 .. B - 1 /\ s.Out = IF r.Out = B - 1 THEN 0 ELSE r.Out + 1
  BY <1>1, AdvanceIs, Sizes
<1>3. ASSUME NEW k \in 1 .. n - 1 PROVE Waiting(s, k) = Waiting(r, k + 1)
  <2> DEFINE x == s.Out + k - 1
             y == r.Out + (k + 1) - 1
  <2>1. x \in 0 .. 2 * B - 1 /\ y \in 0 .. 2 * B - 1 /\ (x = y \/ (x < B /\ y = x + B))
    BY <1>1, <1>2
  <2> HIDE DEF x, y
  <2>2. x % B = (IF x < B THEN x ELSE x - B) /\ y % B = (IF y < B THEN y ELSE y - B)
    BY <2>1, WrapSlot
  <2>3. x % B = y % B
    BY <1>1, <2>1, <2>2
  <2> QED
    BY <2>3 DEF Waiting, x, y
<1>4. Waiting(r, 1) = Front(r)
  <2> DEFINE x == r.Out + 1 - 1
  <2>1. x = r.Out /\ x \in 0 .. 2 * B - 1
    BY <1>1
  <2> HIDE DEF x
  <2>2. x % B = r.Out
    BY <1>1, <2>1, WrapSlot
  <2> QED
    BY <2>2 DEF Waiting, Front, x
<1> QED
  BY <1>3, <1>4

LEMMA Next1Is ==
  ASSUME NEW f \in Byte
  PROVE  Next1(f) = (IF f = N - 1 THEN 0 ELSE f + 1) /\ Next1(f) \in Byte
<1> DEFINE x == f + 1
<1>1. x \in 0 .. 3 * N - 1 /\ f \in 0 .. N - 1 /\ x < 2 * N /\ N \in Nat
  BY Sizes
<1>2. x = f + 1
  OBVIOUS
<1> HIDE DEF x
<1>3. x % N = IF x < N THEN x ELSE IF x < 2 * N THEN x - N ELSE x - 2 * N
  BY <1>1, WrapNumber
<1>4. x % N = IF f = N - 1 THEN 0 ELSE f + 1
  BY <1>1, <1>2, <1>3
<1> QED
  BY <1>4, Next1Type DEF Next1, N, x

LEMMA NumNext ==
  ASSUME NEW f \in Byte, NEW u \in 0 .. B - 1
  PROVE  /\ \A k \in 0 .. u : Num(Next1(f), u + 1, k) = Num(f, u, k)
         /\ Num(Next1(f), u + 1, u + 1) = f
<1> DEFINE g == Next1(f)
<1>1. /\ f \in 0 .. N - 1 /\ N \in Nat /\ B \in Nat /\ N > B
      /\ g = IF f = N - 1 THEN 0 ELSE f + 1
  BY Sizes, Next1Is
<1> HIDE DEF g
<1>2. ASSUME NEW k \in 0 .. u PROVE Num(g, u + 1, k) = Num(f, u, k)
  <2> DEFINE x == g + 2 * N - (u + 1) + k - 1
             y == f + 2 * N - u + k - 1
  <2>1. /\ x \in 0 .. 3 * N - 1 /\ y \in 0 .. 3 * N - 1
        /\ x = y \/ y = x + N
    BY <1>1
  <2> HIDE DEF x, y
  <2>2. /\ x % N = IF x < N THEN x ELSE IF x < 2 * N THEN x - N ELSE x - 2 * N
        /\ y % N = IF y < N THEN y ELSE IF y < 2 * N THEN y - N ELSE y - 2 * N
    BY <2>1, WrapNumber
  <2>3. x % N = y % N
    BY <1>1, <2>1, <2>2
  <2> QED
    BY <2>3 DEF Num, x, y
<1>3. Num(g, u + 1, u + 1) = f
  <2> DEFINE x == g + 2 * N - (u + 1) + (u + 1) - 1
  <2>1. x \in 0 .. 3 * N - 1 /\ x = g + 2 * N - 1
    BY <1>1
  <2> HIDE DEF x
  <2>2. x % N = IF x < N THEN x ELSE IF x < 2 * N THEN x - N ELSE x - 2 * N
    BY <2>1, WrapNumber
  <2>3. x % N = f
    BY <1>1, <2>1, <2>2
  <2> QED
    BY <2>3 DEF Num, x
<1> QED
  BY <1>2, <1>3 DEF g

LEMMA NumTaken ==
  ASSUME NEW f \in Byte, NEW u \in 1 .. B, NEW k \in 0 .. B
  PROVE  Num(f, u - 1, k) = Num(f, u, k + 1)
<1>1. f \in Int /\ N \in Int /\ B \in Int
  BY Sizes
<1>2. f + 2 * N - (u - 1) + k - 1 = f + 2 * N - u + (k + 1) - 1
  BY <1>1
<1> QED
  BY <1>2 DEF Num

\* The receive handler: room or disorder.
LEMMA RxInOrder ==
  ASSUME Types, Aligned, HostInOrder, RxIsr, configured
  PROVE  HostInOrder'
<1> DEFINE u == Unread
<1>1. /\ toUsb \in RingBuff /\ (toUsb.Out + u) % B = toUsb.In
      /\ u \in 0 .. C - 1 /\ fromBoard \in Byte /\ C \in Nat /\ B \in Nat /\ B < C
  BY UnreadType, Sizes DEF Aligned, Types, TypeOK, B
<1>2. /\ UNCHANGED <<pc, byte, BufferCount>> /\ fromBoard' = Next1(fromBoard)
      /\ disorder' = (disorder \/ u >= B)
  BY DEF RxIsr, loop, B
<1>3. /\ Unread' = (u + 1) % C /\ toUsb'.Out = toUsb.Out
      /\ toUsb'.Buffer = [toUsb.Buffer EXCEPT ![toUsb.In] = fromBoard]
  BY UnreadInserted
<1>4. SUFFICES ASSUME ~disorder'
               PROVE  /\ Unread' <= B
                      /\ \A k \in 1 .. Unread' : Waiting(toUsb', k) = ForHost(k)'
                      /\ pc' = "discount" => byte' = ForHost(0)'
                      /\ pc' = "take" => Unread' > 0 /\ BufferCount' <= Unread'
                      /\ pc' \in {"discount", "send"} => BufferCount' - 1 <= Unread'
  BY DEF HostInOrder, Waiting
<1>5. ~disorder /\ u \in 0 .. B - 1
  <2>1. ~disorder /\ ~(u >= B)
    BY <1>2, <1>4, Zenon
  <2> QED
    BY <1>1, <2>1
<1>6. Unread' = u + 1
  BY <1>1, <1>3, <1>5, CountTypes
<1>7. /\ \A k \in 1 .. u : Waiting(toUsb, k) = Num(fromBoard, u, k)
      /\ pc = "discount" => byte = Num(fromBoard, u, 0)
      /\ pc = "take" => u > 0 /\ BufferCount <= u
      /\ pc \in {"discount", "send"} => BufferCount - 1 <= u
  BY <1>5 DEF HostInOrder, ForHost
<1> HIDE DEF u
<1>8. /\ \A k \in 1 .. u : Waiting(toUsb', k) = Waiting(toUsb, k)
      /\ Waiting(toUsb', u + 1) = fromBoard
  BY <1>1, <1>3, <1>5, LastWaits
<1>9. /\ \A k \in 0 .. u : Num(fromBoard', u + 1, k) = Num(fromBoard, u, k)
      /\ Num(fromBoard', u + 1, u + 1) = fromBoard
  BY <1>1, <1>2, <1>5, NumNext
<1>10. ASSUME NEW k \in 1 .. u + 1
       PROVE  Waiting(toUsb', k) = Num(fromBoard', u + 1, k)
  <2>1. k \in 1 .. u \/ k = u + 1
    BY <1>5
  <2> QED
    BY <1>5, <1>7, <1>8, <1>9, <2>1
<1>11. 0 \in 0 .. u /\ BufferCount \in Int
  BY <1>5 DEF Types, TypeOK
<1> QED
  BY <1>1, <1>2, <1>5, <1>6, <1>7, <1>9, <1>10, <1>11 DEF ForHost

\* The flush takes the first byte that waits.
LEMMA TakeInOrder ==
  ASSUME Types, HostInOrder, TakeByte
  PROVE  HostInOrder'
<1> DEFINE u == Unread
<1>1. /\ toUsb \in RingBuff /\ u \in 0 .. C - 1 /\ fromBoard \in Byte
      /\ C \in Nat /\ B \in Nat /\ BufferCount \in Int
  BY UnreadType, Sizes DEF Types, TypeOK
<1>2. /\ pc = "take" /\ pc' = "discount" /\ byte' = Front(toUsb)
      /\ disorder' = (disorder \/ u = 0) /\ UNCHANGED <<fromBoard, BufferCount>>
  BY DEF TakeByte, history
<1>3. /\ Unread' = (u + C - 1) % C
      /\ toUsb'.Out = Advance(toUsb.Out) /\ toUsb'.Buffer = toUsb.Buffer
  BY UnreadTaken
<1>4. SUFFICES ASSUME ~disorder'
               PROVE  /\ Unread' <= B
                      /\ \A k \in 1 .. Unread' : Waiting(toUsb', k) = ForHost(k)'
                      /\ byte' = ForHost(0)'
                      /\ BufferCount' - 1 <= Unread'
  BY <1>2 DEF HostInOrder, Waiting
<1>5. ~disorder
  BY <1>2, <1>4, Zenon
<1>6. /\ u <= B /\ u > 0 /\ BufferCount <= u
      /\ \A k \in 1 .. u : Waiting(toUsb, k) = Num(fromBoard, u, k)
  BY <1>2, <1>5 DEF HostInOrder, ForHost
<1> HIDE DEF u
<1>7. Unread' = u - 1 /\ u \in 1 .. B
  BY <1>1, <1>3, <1>6, CountTypes
<1>8. /\ \A k \in 1 .. u - 1 : Waiting(toUsb', k) = Waiting(toUsb, k + 1)
      /\ Waiting(toUsb, 1) = Front(toUsb)
  BY <1>1, <1>3, <1>7, FirstLeaves
<1>9. \A k \in 0 .. B : Num(fromBoard, u - 1, k) = Num(fromBoard, u, k + 1)
  BY <1>1, <1>7, NumTaken
<1>10. ASSUME NEW k \in 1 .. u - 1
       PROVE  Waiting(toUsb', k) = Num(fromBoard, u - 1, k)
  <2>1. k + 1 \in 1 .. u /\ k \in 0 .. B
    BY <1>1, <1>7
  <2> QED
    BY <1>6, <1>8, <1>9, <2>1
<1>11. byte' = Num(fromBoard, u - 1, 0)
  <2>1. 1 \in 1 .. u /\ 0 \in 0 .. B /\ 0 + 1 = 1
    BY <1>1, <1>7
  <2> QED
    BY <1>2, <1>6, <1>8, <1>9, <2>1
<1> QED
  BY <1>1, <1>2, <1>6, <1>7, <1>10, <1>11 DEF ForHost

LEMMA HostInOrderStep ==
  Types /\ Aligned /\ HostInOrder /\ [Next]_vars => HostInOrder'
<1> SUFFICES ASSUME Types, Aligned, HostInOrder, [Next]_vars PROVE HostInOrder'
  OBVIOUS
<1>t. Unread \in 0 .. C - 1 /\ C \in Nat /\ B \in Nat /\ B > 0 /\ BufferCount \in Int
  BY UnreadType, Sizes DEF Types, TypeOK
<1> USE DEF HostInOrder, ForHost, Waiting
<1>1. CASE TakeByte
  BY <1>1, TakeInOrder
<1>2. CASE RxIsr /\ configured
  BY <1>2, RxInOrder
<1>3. CASE Discount
  <2>1. /\ Unread' = Unread /\ toUsb'.Out = toUsb.Out /\ toUsb'.Buffer = toUsb.Buffer
    BY <1>3, UnreadDiscounted
  <2>2. /\ pc = "discount" /\ pc' = "send" /\ UNCHANGED <<fromBoard, BufferCount>>
        /\ disorder' = (disorder /\ ~(Unread = 0 /\ BufferCount = 1))
    BY <1>3 DEF Discount, history
  <2>3. CASE Unread = 0 /\ BufferCount = 1
    BY <1>t, <2>1, <2>2, <2>3
  <2>4. CASE ~(Unread = 0 /\ BufferCount = 1)
    <3>1. disorder' = disorder
      BY <2>2, <2>4 DEF Types, TypeOK
    <3> QED
      BY <2>1, <2>2, <3>1
  <2> QED
    BY <2>3, <2>4
<1>4. CASE /\ UNCHANGED <<toUsb, fromBoard>> /\ Unread' = Unread
           /\ FetchCount
  <2>1. /\ pc = "count"
        /\ \/ pc' = "transmit"
           \/ pc' = "take" /\ BufferCount' = toUsb.Count /\ toUsb.Count # 0
        /\ disorder' = (disorder /\ ~(toUsb.Count = 0))
    BY <1>4 DEF FetchCount, IsEmpty
  <2>2. Unread = toUsb.Count
    BY <2>1 DEF Unread
  <2>3. CASE toUsb.Count = 0
    BY <1>t, <1>4, <2>1, <2>2, <2>3
  <2>4. CASE toUsb.Count # 0
    <3>1. disorder' = disorder
      BY <2>1, <2>4 DEF Types, TypeOK
    <3> QED
      BY <1>t, <1>4, <2>1, <2>2, <3>1
  <2> QED
    BY <2>3, <2>4
<1>5. CASE /\ UNCHANGED <<toUsb, fromBoard>> /\ Unread' = Unread
           /\ SendByte
  <2>1. /\ pc = "send" /\ BufferCount' = BufferCount - 1 /\ UNCHANGED disorder
        /\ pc' = IF BufferCount = 1 THEN "transmit" ELSE "take"
    BY <1>5 DEF SendByte, history
  <2>2. BufferCount > 0
    BY <2>1 DEF Types, Counted
  <2> QED
    BY <1>t, <1>5, <2>1, <2>2
<1>6. CASE /\ UNCHANGED <<toUsb, fromBoard>> /\ Unread' = Unread
           /\ UNCHANGED <<byte, BufferCount, disorder>>
           /\ (pc' \notin {"take", "discount", "send"} \/ UNCHANGED pc)
  BY <1>6
<1> QED
  BY <1>1, <1>2, <1>3, <1>4, <1>5, <1>6, UnreadKept

LEMMA ReceiveInOrder ==
  ASSUME Types, BoardInOrder, ReceiveByte
  PROVE  BoardInOrder'
<1> DEFINE n == toUsart.Count
<1>1. /\ toUsart \in RingBuff /\ fromHost \in Byte /\ fromHost \in 0 .. N - 1
      /\ toBoard \in 0 .. N - 1
      /\ C \in Nat /\ B \in Nat /\ B > 0 /\ B < C /\ N \in Nat /\ N > B
  BY Sizes DEF Types, TypeOK
<1>2. /\ n \in 0 .. B /\ n \in 0 .. C - 1
      /\ (toUsart.Out + n) % B = toUsart.In
      /\ \A k \in 1 .. n : Waiting(toUsart, k) = ForBoard(k)
      /\ (toBoard + n) % N = fromHost
  BY <1>1 DEF BoardInOrder, RingBuff, C
<1>3. UNCHANGED toBoard
  BY DEF ReceiveByte
<1>4. CASE UNCHANGED <<toUsart, fromHost>>
  BY <1>3, <1>4 DEF BoardInOrder, Waiting, ForBoard
<1>5. CASE /\ ~IsFull(toUsart) /\ toUsart' = Insert(toUsart, fromHost)
           /\ fromHost' = Next1(fromHost)
  <2>1. /\ toUsart'.Buffer = [toUsart.Buffer EXCEPT ![toUsart.In] = fromHost]
        /\ toUsart'.In = Advance(toUsart.In) /\ toUsart'.Out = toUsart.Out
        /\ toUsart'.Count = (n + 1) % C
    BY <1>1, <1>5, InsertIs
  <2>2. n # B
    BY <1>5 DEF IsFull, B
  <2> HIDE DEF n
  <2>3. n \in 0 .. B - 1
    BY <1>1, <1>2, <2>2
  <2>4. toUsart'.Count = n + 1
    BY <1>1, <1>2, <2>1, <2>3, CountTypes
  <2>5. (toUsart.Out + ((n + 1) % C)) % B = toUsart'.In
    BY <1>1, <1>2, <2>1, OneMore
  <2>6. (toUsart'.Out + toUsart'.Count) % B = toUsart'.In
    BY <2>1, <2>5
  <2>7. /\ \A k \in 1 .. n : Waiting(toUsart', k) = Waiting(toUsart, k)
        /\ Waiting(toUsart', n + 1) = fromHost
    BY <1>1, <1>2, <2>1, <2>3, LastWaits
  <2>8. ASSUME NEW k \in 1 .. n + 1
        PROVE  Waiting(toUsart', k) = (toBoard + k - 1) % N
    <3>1. CASE k \in 1 .. n
      BY <1>2, <2>7, <3>1 DEF ForBoard
    <3>2. CASE k = n + 1
      <4>1. toBoard + k - 1 = toBoard + n
        BY <1>1, <2>3, <3>2
      <4> QED
        BY <1>2, <2>7, <3>2, <4>1
    <3> QED
      BY <2>3, <3>1, <3>2
  <2>9. (toBoard + (n + 1)) % N = fromHost'
    <3> DEFINE x == toBoard + n
               y == toBoard + (n + 1)
    <3>1. /\ x \in 0 .. 3 * N - 1 /\ y \in 0 .. 3 * N - 1 /\ y = x + 1
          /\ x < 2 * N - 1 /\ x % N = fromHost
      BY <1>1, <1>2, <2>3
    <3> HIDE DEF x, y
    <3>2. /\ x % N = IF x < N THEN x ELSE IF x < 2 * N THEN x - N ELSE x - 2 * N
          /\ y % N = IF y < N THEN y ELSE IF y < 2 * N THEN y - N ELSE y - 2 * N
      BY <3>1, WrapNumber
    <3>3. Next1(fromHost) = IF fromHost = N - 1 THEN 0 ELSE fromHost + 1
      BY <1>1, Next1Is
    <3>4. y % N = Next1(fromHost)
      BY <1>1, <3>1, <3>2, <3>3
    <3> QED
      BY <1>5, <3>4 DEF y
  <2>10. n + 1 <= B
    BY <1>1, <2>3
  <2> QED
    BY <1>3, <2>4, <2>6, <2>8, <2>9, <2>10 DEF BoardInOrder, ForBoard, Waiting
<1> QED
  BY <1>4, <1>5 DEF ReceiveByte

LEMMA TransmitInOrder ==
  ASSUME Types, BoardInOrder, TransmitByte
  PROVE  BoardInOrder'
<1> DEFINE n == toUsart.Count
<1>1. /\ toUsart \in RingBuff /\ toBoard \in Byte /\ toBoard \in 0 .. N - 1
      /\ C \in Nat /\ B \in Nat /\ B > 0 /\ B < C /\ N \in Nat /\ N > B
  BY Sizes DEF Types, TypeOK
<1>2. /\ n \in 0 .. B /\ n \in 0 .. C - 1
      /\ (toUsart.Out + n) % B = toUsart.In
      /\ \A k \in 1 .. n : Waiting(toUsart, k) = ForBoard(k)
      /\ (toBoard + n) % N = fromHost
  BY <1>1 DEF BoardInOrder, RingBuff, C
<1>3. /\ UNCHANGED fromHost /\ toBoard' = Next1(toBoard)
      /\ n # 0 /\ toUsart' = Discounted(OutMoved(toUsart))
  BY DEF TransmitByte, IsEmpty, Remove
<1>4. /\ toUsart'.Buffer = toUsart.Buffer /\ toUsart'.In = toUsart.In
      /\ toUsart'.Out = Advance(toUsart.Out) /\ toUsart'.Count = (n + C - 1) % C
  BY <1>1, <1>3, OutMovedIs, DiscountedIs
<1> HIDE DEF n
<1>5. n \in 1 .. B /\ toUsart'.Count = n - 1
  BY <1>1, <1>2, <1>3, <1>4, CountTypes
<1>6. (Advance(toUsart.Out) + ((n + C - 1) % C)) % B = toUsart.In
  BY <1>1, <1>2, OneFewer
<1>7. \A k \in 1 .. n - 1 : Waiting(toUsart', k) = Waiting(toUsart, k + 1)
  BY <1>1, <1>4, <1>5, FirstLeaves
<1>8. toBoard' = IF toBoard = N - 1 THEN 0 ELSE toBoard + 1
  BY <1>1, <1>3, Next1Is
<1>9. ASSUME NEW i \in 0 .. B
      PROVE  (toBoard' + i) % N = (toBoard + (i + 1)) % N
  <2> DEFINE x == toBoard' + i
             y == toBoard + (i + 1)
  <2>1. /\ x \in 0 .. 3 * N - 1 /\ y \in 0 .. 3 * N - 1 /\ (x = y \/ y = x + N)
        /\ y < 2 * N
    BY <1>1, <1>8
  <2> HIDE DEF x, y
  <2>2. /\ x % N = IF x < N THEN x ELSE IF x < 2 * N THEN x - N ELSE x - 2 * N
        /\ y % N = IF y < N THEN y ELSE IF y < 2 * N THEN y - N ELSE y - 2 * N
    BY <2>1, WrapNumber
  <2>3. x % N = y % N
    BY <1>1, <2>1, <2>2
  <2> QED
    BY <2>3 DEF x, y
<1>10. ASSUME NEW k \in 1 .. n - 1
       PROVE  Waiting(toUsart', k) = (toBoard' + k - 1) % N
  <2>1. k + 1 \in 1 .. n /\ k - 1 \in 0 .. B
    BY <1>1, <1>5
  <2>2. Waiting(toUsart', k) = (toBoard + (k + 1) - 1) % N
    BY <1>2, <1>7, <2>1 DEF ForBoard
  <2>3. (toBoard' + (k - 1)) % N = (toBoard + ((k - 1) + 1)) % N
    BY <1>9, <2>1
  <2>4. /\ toBoard + (k + 1) - 1 = toBoard + ((k - 1) + 1)
        /\ toBoard' + (k - 1) = toBoard' + k - 1
    BY <1>1, <1>8
  <2> QED
    BY <2>2, <2>3, <2>4
<1>11. (toBoard' + (n - 1)) % N = fromHost
  <2>1. n - 1 \in 0 .. B /\ (n - 1) + 1 = n
    BY <1>1, <1>5
  <2>2. (toBoard' + (n - 1)) % N = (toBoard + ((n - 1) + 1)) % N
    BY <1>9, <2>1
  <2> QED
    BY <1>2, <2>1, <2>2
<1>12. n - 1 <= B
  BY <1>1, <1>5
<1> QED
  BY <1>3, <1>4, <1>5, <1>6, <1>10, <1>11, <1>12 DEF BoardInOrder, ForBoard, Waiting

LEMMA BoardInOrderStep ==
  Types /\ BoardInOrder /\ [Next]_vars => BoardInOrder'
<1> SUFFICES ASSUME Types, BoardInOrder, [Next]_vars PROVE BoardInOrder'
  OBVIOUS
<1>1. CASE ReceiveByte
  BY <1>1, ReceiveInOrder
<1>2. CASE TransmitByte
  BY <1>2, TransmitInOrder
<1>3. ASSUME UNCHANGED <<toUsart, fromHost, toBoard>> PROVE BoardInOrder'
  BY <1>3 DEF BoardInOrder, Waiting, ForBoard
<1>4. ASSUME FetchCount \/ TakeByte \/ Discount \/ SendByte \/ NothingToTransmit \/ Task
      PROVE  UNCHANGED <<toUsart, fromHost, toBoard>>
  BY <1>4 DEF FetchCount, TakeByte, Discount, SendByte, NothingToTransmit, Task, rings,
              history
<1>5. ASSUME ConfigurationChanged \/ LineEncodingChanged \/ ControLineStateChanged
      PROVE  UNCHANGED <<toUsart, fromHost, toBoard>>
  BY <1>5 DEF ConfigurationChanged, LineEncodingChanged, ControLineStateChanged, rings,
              history
<1>6. ASSUME RxIsr \/ BoardSends \/ HostSends \/ Disconnect \/ TimerOverflow \/ UsartReady
      PROVE  UNCHANGED <<toUsart, fromHost, toBoard>>
  BY <1>6 DEF RxIsr, BoardSends, HostSends, Disconnect, TimerOverflow, UsartReady, rings,
              history
<1>7. CASE UNCHANGED vars
  BY <1>3, <1>7 DEF vars, rings, history
<1> QED
  BY <1>1, <1>2, <1>3, <1>4, <1>5, <1>6, <1>7 DEF Next, Loop

LEMMA InitInOrder == Init => HostInOrder /\ BoardInOrder
<1> SUFFICES ASSUME Init PROVE HostInOrder /\ BoardInOrder
  OBVIOUS
<1>1. /\ toUsb.Count = 0 /\ toUsart.Count = 0 /\ toUsart.Out = 0 /\ toUsart.In = 0
      /\ Unread = 0 /\ pc = "read" /\ toBoard = 0 /\ fromHost = 0
  BY DEF Init, InitBuffer, Unread
<1>2. 0 % B = 0 /\ 0 % N = 0 /\ 0 <= B
  BY Sizes
<1> QED
  BY <1>1, <1>2 DEF HostInOrder, BoardInOrder

LEMMA InOrderShown == Types /\ HostInOrder /\ BoardInOrder => InOrder
<1> SUFFICES ASSUME Types, HostInOrder, BoardInOrder PROVE InOrder
  OBVIOUS
<1>1. ToBoardInOrder
  BY DEF BoardInOrder, ToBoardInOrder, NextBytes, Waiting, ForBoard, B, N
<1>2. ToHostInOrder
  BY DEF HostInOrder, ToHostInOrder, NextBytes, Waiting, ForHost, Num, B, N
<1> QED
  BY <1>1, <1>2 DEF InOrder

\* Both directions deliver complete and in order: to the board always, through
\* any number of disconnections and new configurations; to the host except
\* for the bytes of an overrun, until the ring was empty once. And the count
\* fetched before a flush is a promise: the flush, although the handler
\* inserts at any moment, never removes from an empty ring
\* (Arduino-usbserial.c:92-133, 222-228).
THEOREM BridgeInOrder == Spec => []InOrder
BY InitTypes, InitAligned, InitInOrder, TypesStep, AlignedStep, HostInOrderStep,
     BoardInOrderStep, InOrderShown, PTL DEF Spec
============================================================================
