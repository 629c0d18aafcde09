-------------------------- MODULE UsbSketchProofs --------------------------
(***************************************************************************)
(* Proofs about a sketch on a board with USB, for every size of the banks  *)
(* from two bytes on, any length of a write() and any number of tries.     *)
(***************************************************************************)
EXTENDS UsbSketch, SequenceTheorems, TLAPS

-----------------------------------------------------------------------------
(* The inductive invariant, in four parts *)

\* The device and the host's settings.
LineOK ==
  /\ _usbConfiguration \in BOOLEAN /\ enabled \in BOOLEAN /\ watchdog \in BOOLEAN
  /\ lineState \in 0 .. 2 /\ dwDTERate \in {"1200", "other"}

\* What the host sends: at most two banks, in order, the byte that peek() took
\* before them; and what the sketch was told of them.
OutOK ==
  /\ received \in Seq(Seq(Int)) /\ Len(received) <= 2
  /\ \A i \in 1 .. Len(received) : Len(received[i]) <= BankSize
  /\ peek_buffer \in {-1, 0} /\ promised \in 0 .. BankSize + 1
  /\ Unread = Numbers(0, Len(Unread))
  /\ AnswersHold

Sending == pc \in {"send_space", "send_fill"}

\* The call that is under way, and the endpoint that it relies on.
CallOK ==
  /\ pc \in PC /\ ep \in InEP /\ part \in {"bytes", "id", "body", "orphan"}
  /\ len \in 0 .. MaxWrite /\ n \in 0 .. len /\ timeout \in 0 .. SendTries
  /\ UENUM \in {0, CDC_TX, HID_TX, AnyEP}
  /\ pc \notin {"flush_count", "flush_release"} => UENUM = AnyEP
  /\ ep = CDC_TX <=> part = "bytes"
  /\ ep = HID_TX => Sending /\ len = 1
  /\ Sending => len > 0
  /\ pc = "send_fill" => n > 0

\* A string of the right shape in the bank at hand and in the released ones.
BanksOK(e, Item) ==
  /\ bank[e] \in Seq(Item) /\ packets[e] \in Seq(Seq(Item))
  /\ Len(packets[e]) <= 2
  /\ Len(bank[e]) < BankSize
  /\ Len(packets[e]) = 2 => bank[e] = << >>
  /\ \A i \in 1 .. Len(packets[e]) : Len(packets[e][i]) <= BankSize

\* The bytes of the port: what USB_Send() found to be free still is.
BytesOK ==
  /\ BanksOK(CDC_TX, Int)
  /\ pc = "send_fill" /\ ep = CDC_TX => n + Len(bank[CDC_TX]) <= BankSize
  /\ data \in Nat
  /\ Sending /\ ep = CDC_TX => data = Len(Unsent)
  /\ Unsent = Numbers(0, Len(Unsent))

Part == {"id", "body", "orphan"}

\* The reports: an id is in the bank only while its body is under way, or
\* where the next configuration will take it away; flush() never finds it.
ReportsOK ==
  /\ BanksOK(HID_TX, Part)
  /\ ReportsWhole
  /\ \/ bank[HID_TX] = << >> /\ part # "body"
     \/ /\ bank[HID_TX] = <<"id">> /\ enabled
        /\ UENUM # HID_TX
        /\ part = "body" \/ (part = "bytes" /\ ~_usbConfiguration)

\* The arrays of the endpoints.
EndpointsOK == DOMAIN bank = InEP /\ DOMAIN packets = InEP

-----------------------------------------------------------------------------
(* Numbered bytes, in banks *)

LEMMA NumbersIs ==
  ASSUME NEW f \in Int, NEW c \in Nat
  PROVE  /\ Numbers(f, c) \in Seq(Int) /\ Len(Numbers(f, c)) = c
         /\ \A i \in 1 .. c : Numbers(f, c)[i] = f + i - 1
<1>1. Numbers(f, c) \in [1 .. c -> Int]
  BY DEF Numbers
<1> QED
  BY <1>1 DEF Numbers

LEMMA JoinAssociates ==
  ASSUME NEW s \in Seq(Int), NEW t \in Seq(Int), NEW u \in Seq(Int)
  PROVE  s \o (t \o u) = (s \o t) \o u
BY ConcatAssociative

\* Two strings of numbers, end to end, are one; and the other way round.
LEMMA NumbersJoin ==
  ASSUME NEW s \in Seq(Int), NEW t \in Seq(Int), NEW f \in Int
  PROVE  s \o t = Numbers(f, Len(s \o t)) <=>
           s = Numbers(f, Len(s)) /\ t = Numbers(f + Len(s), Len(t))
<1> DEFINE a == Len(s)
           b == Len(t)
           g == f + a
           u == s \o t
<1>1. /\ a \in Nat /\ b \in Nat /\ g \in Int /\ u \in Seq(Int) /\ Len(u) = a + b
      /\ \A i \in 1 .. a + b : u[i] = IF i <= a THEN s[i] ELSE t[i - a]
  BY ConcatProperties
<1>2. /\ Numbers(f, a) \in Seq(Int) /\ Len(Numbers(f, a)) = a
      /\ \A i \in 1 .. a : Numbers(f, a)[i] = f + i - 1
  BY <1>1, NumbersIs
<1>3. /\ Numbers(g, b) \in Seq(Int) /\ Len(Numbers(g, b)) = b
      /\ \A i \in 1 .. b : Numbers(g, b)[i] = g + i - 1
  BY <1>1, NumbersIs
<1>4. /\ Numbers(f, a + b) \in Seq(Int) /\ Len(Numbers(f, a + b)) = a + b
      /\ \A i \in 1 .. a + b : Numbers(f, a + b)[i] = f + i - 1
  <2>1. a + b \in Nat
    BY <1>1
  <2> HIDE DEF a, b
  <2> QED
    BY <2>1, NumbersIs
<1>5. ASSUME u = Numbers(f, a + b) PROVE s = Numbers(f, a) /\ t = Numbers(g, b)
  <2>1. \A i \in 1 .. a : s[i] = Numbers(f, a)[i]
    BY <1>1, <1>2, <1>4, <1>5
  <2>2. ASSUME NEW i \in 1 .. b PROVE t[i] = Numbers(g, b)[i]
    <3>1. i + a \in 1 .. a + b /\ ~(i + a <= a) /\ (i + a) - a = i
      BY <1>1
    <3>2. u[i + a] = t[i]
      BY <1>1, <3>1
    <3>3. u[i + a] = f + (i + a) - 1
      BY <1>4, <1>5, <3>1
    <3> QED
      BY <1>1, <1>3, <3>2, <3>3
  <2> QED
    BY <1>1, <1>2, <1>3, <2>1, <2>2, SeqEqual
<1>6. ASSUME s = Numbers(f, a), t = Numbers(g, b) PROVE u = Numbers(f, a + b)
  <2>1. ASSUME NEW i \in 1 .. a + b PROVE u[i] = Numbers(f, a + b)[i]
    <3>1. CASE i <= a
      BY <1>1, <1>2, <1>4, <1>6, <3>1
    <3>2. CASE ~(i <= a)
      <4>1. i - a \in 1 .. b
        BY <1>1, <3>2
      <4>2. t[i - a] = g + (i - a) - 1
        BY <1>3, <1>6, <4>1
      <4> QED
        BY <1>1, <1>4, <3>2, <4>2
    <3> QED
      BY <3>1, <3>2
  <2> QED
    BY <1>1, <1>4, <2>1, SeqEqual
<1> QED
  BY <1>1, <1>5, <1>6

LEMMA OlderIs ==
  ASSUME NEW s \in Seq(Int), NEW k \in Int
  PROVE  /\ Older(s, k) \in Seq(Int) /\ Len(Older(s, k)) = Len(s)
         /\ \A i \in 1 .. Len(s) : Older(s, k)[i] = s[i] - k
<1>1. Len(s) \in Nat /\ Older(s, k) \in [1 .. Len(s) -> Int]
  BY DEF Older
<1> QED
  BY <1>1 DEF Older

LEMMA OlderConcat ==
  ASSUME NEW s \in Seq(Int), NEW t \in Seq(Int), NEW k \in Int
  PROVE  Older(s \o t, k) = Older(s, k) \o Older(t, k)
<1> DEFINE u == s \o t
           v == Older(s, k) \o Older(t, k)
           a == Len(s)
           b == Len(t)
<1>1. /\ a \in Nat /\ b \in Nat /\ u \in Seq(Int) /\ Len(u) = a + b
      /\ \A i \in 1 .. a + b : u[i] = IF i <= a THEN s[i] ELSE t[i - a]
  BY ConcatProperties
<1>2. /\ Older(s, k) \in Seq(Int) /\ Len(Older(s, k)) = a
      /\ \A i \in 1 .. a : Older(s, k)[i] = s[i] - k
      /\ Older(t, k) \in Seq(Int) /\ Len(Older(t, k)) = b
      /\ \A i \in 1 .. b : Older(t, k)[i] = t[i] - k
  BY OlderIs
<1>3. /\ v \in Seq(Int) /\ Len(v) = a + b
      /\ \A i \in 1 .. a + b :
           v[i] = IF i <= a THEN Older(s, k)[i] ELSE Older(t, k)[i - a]
  <2> DEFINE x == Older(s, k)
             y == Older(t, k)
  <2>1. x \in Seq(Int) /\ y \in Seq(Int) /\ Len(x) = a /\ Len(y) = b
    BY <1>2
  <2> HIDE DEF x, y, a, b
  <2>2. /\ x \o y \in Seq(Int) /\ Len(x \o y) = a + b
        /\ \A i \in 1 .. a + b : (x \o y)[i] = IF i <= a THEN x[i] ELSE y[i - a]
    BY <2>1, ConcatProperties
  <2> QED
    BY <2>2 DEF x, y
<1> HIDE DEF u, v, a, b
<1>4. /\ Older(u, k) \in Seq(Int) /\ Len(Older(u, k)) = a + b
      /\ \A i \in 1 .. a + b : Older(u, k)[i] = u[i] - k
  BY <1>1, OlderIs
<1>5. ASSUME NEW i \in 1 .. a + b PROVE Older(u, k)[i] = v[i]
  <2>1. CASE i <= a
    <3>1. i \in 1 .. a
      BY <1>1, <2>1
    <3>2. u[i] = s[i] /\ v[i] = Older(s, k)[i]
      BY <1>1, <1>3, <2>1
    <3> QED
      BY <1>2, <1>4, <3>1, <3>2
  <2>2. CASE ~(i <= a)
    <3>1. i - a \in 1 .. b
      BY <1>1, <2>2
    <3>2. u[i] = t[i - a] /\ v[i] = Older(t, k)[i - a]
      BY <1>1, <1>3, <2>2
    <3> QED
      BY <1>2, <1>4, <3>1, <3>2
  <2> QED
    BY <2>1, <2>2
<1>6. Older(u, k) = v
  BY <1>3, <1>4, <1>5, SeqEqual
<1> QED
  BY <1>6 DEF u, v

LEMMA OlderNumbers ==
  ASSUME NEW f \in Int, NEW c \in Nat, NEW k \in Int
  PROVE  Older(Numbers(f, c), k) = Numbers(f - k, c)
<1> DEFINE s == Numbers(f, c)
           t == Numbers(f - k, c)
<1>1. /\ s \in Seq(Int) /\ Len(s) = c /\ \A i \in 1 .. c : s[i] = f + i - 1
  BY NumbersIs
<1>2. f - k \in Int
  OBVIOUS
<1>3. /\ t \in Seq(Int) /\ Len(t) = c /\ \A i \in 1 .. c : t[i] = (f - k) + i - 1
  BY <1>2, NumbersIs
<1> HIDE DEF s, t
<1>4. /\ Older(s, k) \in Seq(Int) /\ Len(Older(s, k)) = c
      /\ \A i \in 1 .. c : Older(s, k)[i] = s[i] - k
  BY <1>1, OlderIs
<1>5. \A i \in 1 .. c : Older(s, k)[i] = t[i]
  BY <1>1, <1>3, <1>4
<1>6. Older(s, k) = t
  BY <1>3, <1>4, <1>5, SeqEqual
<1> QED
  BY <1>6 DEF s, t

\* When the first bytes have reached the other side, the rest is numbered anew.
LEMMA Renumbered ==
  ASSUME NEW s \in Seq(Int), NEW t \in Seq(Int), s \o t = Numbers(0, Len(s \o t))
  PROVE  Older(t, Len(s)) = Numbers(0, Len(t))
<1>1. Len(s) \in Nat /\ Len(t) \in Nat /\ 0 \in Int
  OBVIOUS
<1>2. t = Numbers(0 + Len(s), Len(t))
  BY <1>1, NumbersJoin
<1>3. 0 + Len(s) = Len(s) /\ Len(s) - Len(s) = 0 /\ Len(s) \in Int
  BY <1>1
<1>4. Older(Numbers(Len(s), Len(t)), Len(s)) = Numbers(Len(s) - Len(s), Len(t))
  BY <1>1, <1>3, OlderNumbers
<1> QED
  BY <1>2, <1>3, <1>4

LEMMA OlderBanksIs ==
  ASSUME NEW b \in Seq(Seq(Int)), NEW k \in Int
  PROVE  /\ OlderBanks(b, k) \in Seq(Seq(Int)) /\ Len(OlderBanks(b, k)) = Len(b)
         /\ \A i \in 1 .. Len(b) : /\ OlderBanks(b, k)[i] = Older(b[i], k)
                                   /\ Len(OlderBanks(b, k)[i]) = Len(b[i])
<1>1. Len(b) \in Nat
  OBVIOUS
<1>2. \A i \in 1 .. Len(b) : /\ Older(b[i], k) \in Seq(Int)
                             /\ Len(Older(b[i], k)) = Len(b[i])
  BY OlderIs
<1>3. OlderBanks(b, k) \in [1 .. Len(b) -> Seq(Int)]
  BY <1>2 DEF OlderBanks
<1> QED
  BY <1>1, <1>2, <1>3 DEF OlderBanks

LEMMA UpToTwo ==
  ASSUME NEW k \in Nat
  PROVE  /\ k <= 2 => k \in {0, 1, 2}
         /\ k <= 1 => k \in {0, 1}
         /\ k < 2 <=> k <= 2 /\ k # 2
         /\ k < 2 <=> k <= 1
OBVIOUS

LEMMA SumBelow ==
  ASSUME NEW a \in Nat, NEW b \in Nat, NEW c \in Nat, NEW d \in Nat, a <= c, c + b <= d
  PROVE  a + b <= d
OBVIOUS

LEMMA TwoBanks ==
  ASSUME NEW S, NEW b \in Seq(S), Len(b) <= 2
  PROVE  /\ Len(b) \in {0, 1, 2} /\ (b = << >> <=> Len(b) = 0)
         /\ Len(b) >= 1 => b[1] \in S /\ Head(b) = b[1]
         /\ Len(b) = 2 => b[2] \in S
<1>1. Len(b) \in Nat /\ (b = << >> <=> Len(b) = 0)
  BY EmptySeq, LenProperties
<1>2. Len(b) \in {0, 1, 2}
  BY <1>1, UpToTwo
<1>3. \A i \in 1 .. Len(b) : b[i] \in S
  BY ElementOfSeq
<1>4. Len(b) >= 1 => 1 \in 1 .. Len(b)
  BY <1>1
<1>5. Len(b) = 2 => 2 \in 1 .. Len(b)
  BY <1>1
<1>6. Len(b) >= 1 => Head(b) = b[1]
  BY <1>1
<1> QED
  BY <1>1, <1>2, <1>3, <1>4, <1>5, <1>6

LEMMA FlatIs ==
  ASSUME NEW b \in Seq(Seq(Int)), Len(b) <= 2
  PROVE  /\ Flat(b) \in Seq(Int)
         /\ Len(b) = 0 => Flat(b) = << >>
         /\ Len(b) = 1 => Flat(b) = b[1]
         /\ Len(b) = 2 => Flat(b) = b[1] \o b[2]
<1>1. /\ Len(b) \in {0, 1, 2} /\ (b = << >> <=> Len(b) = 0)
      /\ Len(b) >= 1 => b[1] \in Seq(Int)
      /\ Len(b) = 2 => b[2] \in Seq(Int)
  BY TwoBanks
<1>2. CASE Len(b) = 0
  <2>1. Flat(b) = << >> /\ << >> \in Seq(Int)
    BY <1>1, <1>2, EmptySeq DEF Flat
  <2> QED
    BY <1>2, <2>1
<1>3. CASE Len(b) = 1
  <2> DEFINE x == b[1]
  <2>1. x \in Seq(Int)
    BY <1>1, <1>3
  <2>2. Flat(b) = x \o << >>
    BY <1>1, <1>3 DEF Flat
  <2> HIDE DEF x
  <2>3. x \o << >> = x
    BY <2>1, ConcatEmptySeq
  <2> QED
    BY <1>3, <2>1, <2>2, <2>3 DEF x
<1>4. CASE Len(b) = 2
  <2> DEFINE x == b[1]
             y == b[2]
  <2>1. x \in Seq(Int) /\ y \in Seq(Int)
    BY <1>1, <1>4
  <2>2. Flat(b) = x \o y
    BY <1>1, <1>4 DEF Flat
  <2> HIDE DEF x, y
  <2>3. x \o y \in Seq(Int)
    BY <2>1, ConcatProperties
  <2> QED
    BY <1>4, <2>1, <2>2, <2>3 DEF x, y
<1> QED
  BY <1>1, <1>2, <1>3, <1>4

LEMMA FlatAppend ==
  ASSUME NEW b \in Seq(Seq(Int)), Len(b) <= 1, NEW s \in Seq(Int)
  PROVE  Flat(Append(b, s)) = Flat(b) \o s
<1> DEFINE c == Append(b, s)
<1>1. /\ c \in Seq(Seq(Int)) /\ Len(c) = Len(b) + 1 /\ c[Len(b) + 1] = s
      /\ \A i \in 1 .. Len(b) : c[i] = b[i]
  BY AppendProperties
<1>2. Len(b) \in Nat
  BY LenProperties
<1>3. Len(b) <= 2 /\ Len(c) <= 2 /\ Len(b) \in {0, 1}
  <2>1. Len(b) \in {0, 1}
    BY <1>2, UpToTwo
  <2> QED
    BY <1>1, <2>1
<1> HIDE DEF c
<1>4. /\ Len(c) = 1 => Flat(c) = c[1]
      /\ Len(c) = 2 => Flat(c) = c[1] \o c[2]
      /\ Len(b) = 0 => Flat(b) = << >>
      /\ Len(b) = 1 => Flat(b) = b[1]
  BY <1>1, <1>3, FlatIs
<1>5. CASE Len(b) = 0
  <2>1. Flat(c) = s /\ Flat(b) = << >>
    BY <1>1, <1>4, <1>5
  <2>2. << >> \o s = s
    BY ConcatEmptySeq
  <2> QED
    BY <2>1, <2>2 DEF c
<1>6. CASE Len(b) = 1
  <2>1. c[1] = b[1] /\ c[2] = s /\ Len(c) = 2
    BY <1>1, <1>6
  <2> QED
    BY <1>4, <1>6, <2>1 DEF c
<1> QED
  BY <1>3, <1>5, <1>6

LEMMA FlatTail ==
  ASSUME NEW b \in Seq(Seq(Int)), Len(b) <= 2, b # << >>
  PROVE  /\ Flat(b) = b[1] \o Flat(Tail(b))
         /\ Tail(b) \in Seq(Seq(Int)) /\ Len(Tail(b)) = Len(b) - 1
         /\ \A i \in 1 .. Len(Tail(b)) : Tail(b)[i] = b[i + 1]
         /\ b[1] \in Seq(Int) /\ Head(b) = b[1]
<1> DEFINE c == Tail(b)
           x == b[1]
<1>1. /\ c \in Seq(Seq(Int)) /\ Len(c) = Len(b) - 1
      /\ \A i \in 1 .. Len(c) : c[i] = b[i + 1]
  BY HeadTailProperties
<1>2. Len(b) \in {1, 2} /\ x \in Seq(Int) /\ Head(b) = x
  BY TwoBanks
<1>3. Len(c) \in {0, 1} /\ Len(c) <= 2
  BY <1>1, <1>2
<1> HIDE DEF c
<1>4. /\ Len(c) = 0 => Flat(c) = << >>
      /\ Len(c) = 1 => Flat(c) = c[1]
      /\ Len(b) = 1 => Flat(b) = x
      /\ Len(b) = 2 => Flat(b) = x \o b[2]
  BY <1>1, <1>3, FlatIs
<1>5. Flat(b) = x \o Flat(c)
  <2>1. CASE Len(b) = 1
    <3> HIDE DEF x
    <3>1. Flat(b) = x /\ Flat(c) = << >> /\ x \o << >> = x
      BY <1>1, <1>2, <1>4, <2>1, ConcatEmptySeq
    <3> QED
      BY <3>1
  <2>2. CASE Len(b) = 2
    <3>1. Len(c) = 1 /\ c[1] = b[2]
      BY <1>1, <2>2
    <3> QED
      BY <1>4, <2>2, <3>1
  <2> QED
    BY <1>2, <2>1, <2>2
<1> QED
  BY <1>1, <1>2, <1>5 DEF c

LEMMA FlatOlder ==
  ASSUME NEW b \in Seq(Seq(Int)), Len(b) <= 2, NEW k \in Int
  PROVE  Flat(OlderBanks(b, k)) = Older(Flat(b), k)
<1> DEFINE c == OlderBanks(b, k)
<1>1. /\ c \in Seq(Seq(Int)) /\ Len(c) = Len(b)
      /\ \A i \in 1 .. Len(b) : c[i] = Older(b[i], k)
  BY OlderBanksIs
<1>2. /\ Len(b) \in {0, 1, 2} /\ (Len(b) >= 1 => b[1] \in Seq(Int))
      /\ Len(b) = 2 => b[2] \in Seq(Int)
  BY TwoBanks
<1> HIDE DEF c
<1>3. /\ Len(c) = 0 => Flat(c) = << >>
      /\ Len(c) = 1 => Flat(c) = c[1]
      /\ Len(c) = 2 => Flat(c) = c[1] \o c[2]
      /\ Len(b) = 0 => Flat(b) = << >>
      /\ Len(b) = 1 => Flat(b) = b[1]
      /\ Len(b) = 2 => Flat(b) = b[1] \o b[2]
  BY <1>1, FlatIs
<1>4. CASE Len(b) = 0
  <2>1. Older(<< >>, k) = << >>
    <3>1. << >> \in Seq(Int) /\ Len(<< >>) = 0
      BY EmptySeq
    <3>2. Older(<< >>, k) \in Seq(Int) /\ Len(Older(<< >>, k)) = 0
      BY <3>1, OlderIs
    <3> QED
      BY <3>2, EmptySeq
  <2> QED
    BY <1>1, <1>3, <1>4, <2>1 DEF c
<1>5. CASE Len(b) = 1
  BY <1>1, <1>3, <1>5 DEF c
<1>6. CASE Len(b) = 2
  <2> DEFINE x == b[1]
             y == b[2]
  <2>1. x \in Seq(Int) /\ y \in Seq(Int)
    BY <1>2, <1>6
  <2>2. Flat(c) = Older(x, k) \o Older(y, k) /\ Flat(b) = x \o y
    BY <1>1, <1>3, <1>6
  <2> HIDE DEF x, y
  <2>3. Older(x \o y, k) = Older(x, k) \o Older(y, k)
    BY <2>1, OlderConcat
  <2> QED
    BY <2>2, <2>3 DEF c
<1> QED
  BY <1>2, <1>4, <1>5, <1>6

LEMMA OneItem ==
  ASSUME NEW S, NEW e \in S
  PROVE  <<e>> \in Seq(S) /\ Len(<<e>>) = 1 /\ <<e>>[1] = e
OBVIOUS

LEMMA TwoItems ==
  ASSUME NEW S, NEW a \in S, NEW b \in S
  PROVE  <<a, b>> \in Seq(S) /\ <<a>> \o <<b>> = <<a, b>> /\ << >> \o <<a>> = <<a>>
<1>1. <<a, b>> \in Seq(S) /\ Len(<<a, b>>) = 2 /\ <<a, b>>[1] = a /\ <<a, b>>[2] = b
  OBVIOUS
<1> DEFINE x == <<a>>
           y == <<b>>
           t == <<a, b>>
<1>2. x \in Seq(S) /\ y \in Seq(S) /\ Len(x) = 1 /\ Len(y) = 1 /\ x[1] = a /\ y[1] = b
  BY OneItem
<1>3. t \in Seq(S) /\ Len(t) = 2 /\ t[1] = a /\ t[2] = b
  BY <1>1
<1> HIDE DEF x, y, t
<1>4. << >> \o x = x
  BY <1>2, ConcatEmptySeq
<1> DEFINE u == x \o y
<1>5. /\ u \in Seq(S) /\ Len(u) = Len(x) + Len(y)
      /\ \A i \in 1 .. Len(x) + Len(y) : u[i] = IF i <= Len(x) THEN x[i] ELSE y[i - Len(x)]
  BY <1>2, ConcatProperties
<1> HIDE DEF u
<1>6. Len(u) = 2 /\ u[1] = a /\ u[2] = b
  BY <1>2, <1>5
<1>7. \A i \in 1 .. Len(u) : u[i] = t[i]
  BY <1>3, <1>6
<1>8. u = t
  BY <1>3, <1>5, <1>6, <1>7, SeqEqual
<1> QED
  BY <1>1, <1>4, <1>8 DEF u, x, y, t

LEMMA FirstAndRest ==
  ASSUME NEW s \in Seq(Int), s # << >>
  PROVE  /\ Len(s) \in Nat \ {0} /\ s[1] \in Int
         /\ Tail(s) \in Seq(Int) /\ Len(Tail(s)) = Len(s) - 1
         /\ <<s[1]>> \in Seq(Int) /\ Len(<<s[1]>>) = 1
         /\ s = <<s[1]>> \o Tail(s)
<1> DEFINE x == <<s[1]>>
           t == Tail(s)
<1>1. Len(s) \in Nat \ {0}
  BY EmptySeq
<1>2. s[1] \in Int
  BY <1>1, ElementOfSeq
<1>3. /\ t \in Seq(Int) /\ Len(t) = Len(s) - 1
      /\ \A i \in 1 .. Len(t) : t[i] = s[i + 1]
  BY HeadTailProperties
<1>4. x \in Seq(Int) /\ Len(x) = 1 /\ x[1] = s[1]
  BY <1>2, OneItem
<1> HIDE DEF x, t
<1>5. /\ x \o t \in Seq(Int) /\ Len(x \o t) = Len(x) + Len(t)
      /\ \A i \in 1 .. Len(x) + Len(t) :
           (x \o t)[i] = IF i <= Len(x) THEN x[i] ELSE t[i - Len(x)]
  <2>1. x \in Seq(Int) /\ t \in Seq(Int)
    BY <1>3, <1>4
  <2> QED
    BY ONLY <2>1, ConcatProperties
<1>6. Len(x \o t) = Len(s)
  BY <1>1, <1>3, <1>4, <1>5
<1>7. ASSUME NEW i \in 1 .. Len(s) PROVE (x \o t)[i] = s[i]
  <2>1. CASE i = 1
    BY <1>1, <1>3, <1>4, <1>5, <2>1
  <2>2. CASE i # 1
    <3>1. i - 1 \in 1 .. Len(t) /\ (i - 1) + 1 = i /\ ~(i <= Len(x))
      BY <1>1, <1>3, <1>4, <2>2
    <3>2. t[i - 1] = s[i]
      BY <1>3, <3>1
    <3>3. i \in 1 .. Len(x) + Len(t)
      BY <1>1, <1>3, <1>4
    <3> QED
      BY <1>4, <1>5, <3>1, <3>2, <3>3
  <2> QED
    BY <2>1, <2>2
<1>8. x \o t = s
  BY <1>5, <1>6, <1>7, SeqEqual
<1> QED
  BY <1>1, <1>2, <1>3, <1>4, <1>8 DEF x, t

LEMMA FlatCons ==
  ASSUME NEW b \in Seq(Seq(Int)), Len(b) <= 1, NEW s \in Seq(Int)
  PROVE  /\ <<s>> \o b \in Seq(Seq(Int)) /\ Len(<<s>> \o b) = Len(b) + 1
         /\ (<<s>> \o b)[1] = s
         /\ \A i \in 2 .. Len(b) + 1 : (<<s>> \o b)[i] = b[i - 1]
         /\ Flat(<<s>> \o b) = s \o Flat(b)
<1> DEFINE x == <<s>>
<1>1. x \in Seq(Seq(Int)) /\ Len(x) = 1 /\ x[1] = s
  BY OneItem
<1> HIDE DEF x
<1> DEFINE c == x \o b
<1>2. /\ c \in Seq(Seq(Int)) /\ Len(c) = Len(x) + Len(b)
      /\ \A i \in 1 .. Len(x) + Len(b) :
           c[i] = IF i <= Len(x) THEN x[i] ELSE b[i - Len(x)]
  BY <1>1, ConcatProperties
<1> HIDE DEF c
<1>3. Len(b) \in {0, 1} /\ Len(b) <= 2
  <2>1. Len(b) \in Nat
    BY LenProperties
  <2>2. Len(b) \in {0, 1}
    BY <2>1, UpToTwo
  <2> QED
    BY <2>2
<1>4. Len(c) = Len(b) + 1 /\ Len(c) <= 2
  BY <1>1, <1>2, <1>3
<1>5. c[1] = s
  BY <1>1, <1>2, <1>3
<1>6. \A i \in 2 .. Len(b) + 1 : c[i] = b[i - 1]
  BY <1>1, <1>2, <1>3
<1>7. /\ Len(c) = 1 => Flat(c) = c[1]
      /\ Len(c) = 2 => Flat(c) = c[1] \o c[2]
      /\ Len(b) = 0 => Flat(b) = << >>
      /\ Len(b) = 1 => Flat(b) = b[1]
  BY <1>2, <1>3, <1>4, FlatIs
<1>8. Flat(c) = s \o Flat(b)
  <2>1. CASE Len(b) = 0
    <3>1. s \o << >> = s
      BY ConcatEmptySeq
    <3> QED
      BY <1>4, <1>5, <1>7, <2>1, <3>1
  <2>2. CASE Len(b) = 1
    <3>1. Len(c) = 2 /\ c[2] = b[1]
      BY <1>4, <1>6, <2>2
    <3> QED
      BY <1>5, <1>7, <2>2, <3>1
  <2> QED
    BY <1>3, <2>1, <2>2
<1> QED
  BY <1>2, <1>4, <1>5, <1>6, <1>8 DEF c, x

\* What is left after USB_Recv() took a byte.
LEMMA RestIs ==
  ASSUME received \in Seq(Seq(Int)), Len(received) <= 2, received # << >>,
         Len(Head(received)) > 0,
         \A i \in 1 .. Len(received) : Len(received[i]) <= BankSize
  PROVE  /\ Rest \in Seq(Seq(Int)) /\ Len(Rest) <= 2
         /\ \A i \in 1 .. Len(Rest) : Len(Rest[i]) <= BankSize
         /\ received[1][1] \in Int
         /\ Flat(received) = <<received[1][1]>> \o Flat(Rest)
         /\ (IF Rest = << >> THEN 0 ELSE Len(Head(Rest))) >= Len(Head(received)) - 1
<1> DEFINE x == received[1]
           y == Tail(x)
           c == Tail(received)
           h == <<x[1]>>
<1>1. /\ Flat(received) = x \o Flat(c)
      /\ c \in Seq(Seq(Int)) /\ Len(c) = Len(received) - 1
      /\ \A i \in 1 .. Len(c) : c[i] = received[i + 1]
      /\ x \in Seq(Int) /\ Head(received) = x
  BY FlatTail
<1>2. Len(received) \in {1, 2} /\ Len(c) <= 1 /\ Len(c) <= 2 /\ Len(c) \in {0, 1}
  <2>1. Len(received) \in {0, 1, 2} /\ (received = << >> <=> Len(received) = 0)
    BY TwoBanks
  <2> QED
    BY <1>1, <2>1
<1>3. /\ Len(x) \in Nat \ {0} /\ x[1] \in Int
      /\ y \in Seq(Int) /\ Len(y) = Len(x) - 1
      /\ h \in Seq(Int) /\ Len(h) = 1
      /\ x = h \o y
  <2>1. x # << >>
    BY <1>1, EmptySeq
  <2> HIDE DEF x
  <2> QED
    BY <1>1, <2>1, FirstAndRest
<1>4. Flat(c) \in Seq(Int)
  BY <1>1, <1>2, FlatIs
<1>5. \A i \in 1 .. Len(c) : Len(c[i]) <= BankSize
  BY <1>1, <1>2
<1>6. Len(x) <= BankSize /\ BankSize \in Nat
  BY <1>2, EndpointAssumption
<1>7. Rest = (IF y = << >> THEN << >> ELSE <<y>>) \o c
  BY <1>1 DEF Rest
<1> HIDE DEF x, y, c, h
<1>8. CASE y = << >>
  <2>1. Rest = c
    <3>1. << >> \o c = c
      BY <1>1, ConcatEmptySeq
    <3> QED
      BY <1>7, <1>8, <3>1
  <2>2. Len(y) = 0 /\ h \o << >> = h
    BY <1>3, <1>8, EmptySeq, ConcatEmptySeq
  <2>3. x = h /\ Len(x) = 1
    BY <1>3, <1>8, <2>2
  <2>4. (IF Rest = << >> THEN 0 ELSE Len(Head(Rest))) >= Len(x) - 1
    <3>1. c # << >> => Head(c) \in Seq(Int)
      BY <1>1, HeadTailProperties
    <3>2. c # << >> => Len(Head(c)) \in Nat
      BY <3>1, LenProperties
    <3> QED
      BY <2>1, <2>3, <3>2
  <2>5. Flat(received) = h \o Flat(Rest)
    BY <1>1, <2>1, <2>3
  <2> QED
    BY <1>1, <1>2, <1>3, <1>5, <2>1, <2>4, <2>5 DEF x, h
<1>9. CASE y # << >>
  <2>1. /\ <<y>> \o c \in Seq(Seq(Int)) /\ Len(<<y>> \o c) = Len(c) + 1
        /\ (<<y>> \o c)[1] = y
        /\ \A i \in 2 .. Len(c) + 1 : (<<y>> \o c)[i] = c[i - 1]
        /\ Flat(<<y>> \o c) = y \o Flat(c)
    BY <1>1, <1>2, <1>3, FlatCons
  <2>2. Rest = <<y>> \o c
    BY <1>7, <1>9
  <2>3. /\ Rest \in Seq(Seq(Int)) /\ Len(Rest) = Len(c) + 1 /\ Rest[1] = y
        /\ \A i \in 2 .. Len(c) + 1 : Rest[i] = c[i - 1]
        /\ Flat(Rest) = y \o Flat(c)
    BY <2>1, <2>2
  <2>4. Len(Rest) <= 2
    BY <1>2, <2>3
  <2>5. ASSUME NEW i \in 1 .. Len(Rest) PROVE Len(Rest[i]) <= BankSize
    <3>1. CASE i = 1
      BY <1>3, <1>6, <2>3, <3>1
    <3>2. CASE i # 1
      <4>1. i \in 2 .. Len(c) + 1 /\ i - 1 \in 1 .. Len(c)
        BY <1>2, <2>3, <3>2
      <4> QED
        BY <1>5, <2>3, <4>1
    <3> QED
      BY <3>1, <3>2
  <2>6. Flat(received) = h \o Flat(Rest)
    <3>1. h \in Seq(Int) /\ y \in Seq(Int)
      BY <1>3
    <3>2. (h \o y) \o Flat(c) = h \o (y \o Flat(c))
      BY ONLY <1>4, <3>1, ConcatAssociative
    <3> QED
      BY <1>1, <1>3, <2>3, <3>2
  <2>7. Rest # << >> /\ Head(Rest) = y
    <3> DEFINE r == Rest
    <3>1. r \in Seq(Seq(Int)) /\ Len(r) <= 2 /\ Len(r) >= 1 /\ r[1] = y
      BY <1>2, <2>3, <2>4
    <3> HIDE DEF r
    <3>2. r # << >> /\ Head(r) = y
      BY <3>1, TwoBanks
    <3> QED
      BY <3>2 DEF r
  <2>8. (IF Rest = << >> THEN 0 ELSE Len(Head(Rest))) >= Len(x) - 1
    BY <1>3, <2>7
  <2> QED
    BY <1>1, <1>3, <2>3, <2>4, <2>5, <2>6, <2>8 DEF x, h
<1> QED
  BY <1>8, <1>9

-----------------------------------------------------------------------------
(* What the host sends *)

\* The bytes in the bank at hand.
Waiting(banks) == IF banks = << >> THEN 0 ELSE Len(Head(banks))

LEMMA FifoIs == FifoByteCount(CDC_RX) = Waiting(received)
BY EndpointAssumption DEF FifoByteCount, Waiting, InEP

LEMMA NextFifoIs == FifoByteCount(CDC_RX)' = Waiting(received')
BY EndpointAssumption DEF FifoByteCount, Waiting, InEP

LEMMA WaitingIs ==
  ASSUME NEW b \in Seq(Seq(Int)), NEW m \in Nat,
         \A i \in 1 .. Len(b) : Len(b[i]) <= m
  PROVE  /\ Waiting(b) \in 0 .. m
         /\ b = << >> => Waiting(b) = 0
         /\ b # << >> => Waiting(b) = Len(Head(b)) /\ Head(b) = b[1]
<1>1. ASSUME b # << >> PROVE Head(b) = b[1] /\ Len(Head(b)) \in 0 .. m
  <2>1. Len(b) \in Nat \ {0}
    BY <1>1, EmptySeq
  <2>2. b[1] \in Seq(Int) /\ Len(b[1]) <= m
    BY <2>1
  <2>3. Head(b) = b[1]
    BY <1>1
  <2>4. Len(b[1]) \in Nat
    BY <2>2, LenProperties
  <2> QED
    BY <2>2, <2>3, <2>4
<1> QED
  BY <1>1 DEF Waiting

LEMMA WaitingNat ==
  ASSUME NEW b \in Seq(Seq(Int))
  PROVE  Waiting(b) \in Nat
<1>1. CASE b = << >>
  BY <1>1 DEF Waiting
<1>2. CASE b # << >>
  <2>1. Head(b) \in Seq(Int)
    BY <1>2, HeadTailProperties
  <2>2. Len(Head(b)) \in Nat
    BY <2>1, LenProperties
  <2> QED
    BY <1>2, <2>2 DEF Waiting
<1> QED
  BY <1>1, <1>2

\* When the bytes of s are read, the banks behind it are numbered anew.
LEMMA OlderRest ==
  ASSUME NEW b \in Seq(Seq(Int)), Len(b) <= 2, NEW s \in Seq(Int), NEW m \in Nat,
         \A i \in 1 .. Len(b) : Len(b[i]) <= m,
         s \o Flat(b) = Numbers(0, Len(s \o Flat(b)))
  PROVE  /\ OlderBanks(b, Len(s)) \in Seq(Seq(Int)) /\ Len(OlderBanks(b, Len(s))) <= 2
         /\ \A i \in 1 .. Len(OlderBanks(b, Len(s))) : Len(OlderBanks(b, Len(s))[i]) <= m
         /\ << >> \o Flat(OlderBanks(b, Len(s)))
              = Numbers(0, Len(<< >> \o Flat(OlderBanks(b, Len(s)))))
         /\ Waiting(OlderBanks(b, Len(s))) = Waiting(b)
<1> DEFINE k == Len(s)
           c == OlderBanks(b, k)
           t == Flat(b)
<1>1. k \in Nat /\ k \in Int
  BY LenProperties
<1>2. /\ c \in Seq(Seq(Int)) /\ Len(c) = Len(b)
      /\ \A i \in 1 .. Len(b) : c[i] = Older(b[i], k) /\ Len(c[i]) = Len(b[i])
  BY <1>1, OlderBanksIs
<1>3. Flat(c) = Older(t, k)
  BY <1>1, FlatOlder
<1>4. t \in Seq(Int) /\ Len(t) \in Nat
  <2>1. t \in Seq(Int)
    BY FlatIs
  <2> QED
    BY <2>1, LenProperties
<1>5. Older(t, k) = Numbers(0, Len(t)) /\ Older(t, k) \in Seq(Int)
      /\ Len(Older(t, k)) = Len(t)
  <2> HIDE DEF t
  <2>1. s \o t = Numbers(0, Len(s \o t))
    BY DEF t
  <2>2. Older(t, Len(s)) = Numbers(0, Len(t))
    BY ONLY <1>4, <2>1, s \in Seq(Int), Renumbered
  <2> QED
    BY <1>1, <1>4, <2>2, OlderIs
<1>6. << >> \o Flat(c) = Flat(c) /\ Flat(c) = Numbers(0, Len(Flat(c)))
  BY <1>3, <1>5, ConcatEmptySeq
<1>7. Waiting(c) = Waiting(b)
  <2>1. Len(b) \in Nat /\ (b = << >> <=> Len(b) = 0) /\ (c = << >> <=> Len(c) = 0)
    BY <1>2, EmptySeq, LenProperties
  <2>2. CASE b = << >>
    BY <1>2, <2>1, <2>2 DEF Waiting
  <2>3. CASE b # << >>
    <3>1. 1 \in 1 .. Len(b) /\ c # << >>
      BY <1>2, <2>1, <2>3
    <3>2. Len(c[1]) = Len(b[1])
      BY <1>2, <3>1
    <3>3. Head(b) = b[1] /\ Head(c) = c[1]
      BY <1>2, <2>3, <3>1
    <3> QED
      BY <2>3, <3>1, <3>2, <3>3 DEF Waiting
  <2> QED
    BY <2>2, <2>3
<1> HIDE DEF c
<1>8. \A i \in 1 .. Len(c) : Len(c[i]) <= m
  BY <1>2
<1> QED
  BY <1>2, <1>6, <1>7, <1>8 DEF c, k

LEMMA OneNumber ==
  /\ << >> \in Seq(Int) /\ Len(<< >>) = 0 /\ Numbers(0, 0) = << >>
  /\ <<0>> \in Seq(Int) /\ Len(<<0>>) = 1 /\ Numbers(0, 1) = <<0>>
<1>1. << >> \in Seq(Int) /\ Len(<< >>) = 0
  BY EmptySeq
<1>2. <<0>> \in Seq(Int) /\ Len(<<0>>) = 1 /\ <<0>>[1] = 0
  BY OneItem
<1>3. Numbers(0, 0) = << >>
  BY DEF Numbers
<1>4. Numbers(0, 1) = <<0>>
  <2> DEFINE s == Numbers(0, 1)
             t == <<0>>
  <2>1. 0 \in Int /\ 1 \in Nat
    OBVIOUS
  <2>2. s \in Seq(Int) /\ Len(s) = 1 /\ \A i \in 1 .. 1 : s[i] = 0 + i - 1
    BY <2>1, NumbersIs
  <2> HIDE DEF s, t
  <2>3. t \in Seq(Int) /\ Len(t) = 1 /\ t[1] = 0
    BY <1>2 DEF t
  <2>4. \A i \in 1 .. Len(s) : s[i] = t[i]
    BY <2>2, <2>3
  <2>5. s = t
    BY <2>2, <2>3, <2>4, SeqEqual
  <2> QED
    BY <2>5 DEF s, t
<1> QED
  BY <1>1, <1>2, <1>3, <1>4

LEMMA OutFacts ==
  ASSUME OutOK
  PROVE  /\ Peeked \in Seq(Int) /\ Len(Peeked) \in {0, 1}
         /\ peek_buffer < 0 => Peeked = << >> /\ Len(Peeked) = 0
         /\ peek_buffer >= 0 => Len(Peeked) = 1
         /\ Peeked = Numbers(0, Len(Peeked))
         /\ Flat(received) \in Seq(Int) /\ Unread \in Seq(Int) /\ Len(Unread) \in Nat
         /\ Waiting(received) \in 0 .. BankSize
         /\ promised <= Len(Peeked) + Waiting(received)
<1>1. (peek_buffer = -1 => Peeked = << >>) /\ (peek_buffer = 0 => Peeked = <<0>>)
      /\ peek_buffer \in {-1, 0}
  BY DEF Peeked, OutOK
<1>3. Flat(received) \in Seq(Int)
  BY FlatIs DEF OutOK
<1>4. Peeked \in Seq(Int) /\ Len(Peeked) \in {0, 1} /\ Peeked = Numbers(0, Len(Peeked))
      /\ (peek_buffer < 0 => Peeked = << >> /\ Len(Peeked) = 0)
      /\ (peek_buffer >= 0 => Len(Peeked) = 1)
  <2>1. CASE peek_buffer = -1
    <3>1. Peeked = << >>
      BY <1>1, <2>1
    <3> QED
      BY <2>1, <3>1, OneNumber
  <2>2. CASE peek_buffer = 0
    <3>1. Peeked = <<0>>
      BY <1>1, <2>2
    <3> QED
      BY <2>2, <3>1, OneNumber
  <2> QED
    BY <1>1, <2>1, <2>2
<1>5. Unread \in Seq(Int) /\ Len(Unread) \in Nat
  <2>1. Unread \in Seq(Int)
    BY <1>3, <1>4, ConcatProperties DEF Unread
  <2> QED
    BY <2>1, LenProperties
<1>6. Waiting(received) \in 0 .. BankSize
  <2>1. BankSize \in Nat
    BY EndpointAssumption
  <2> QED
    BY <2>1, WaitingIs DEF OutOK
<1>7. promised <= Len(Peeked) + Waiting(received)
  BY FifoIs DEF OutOK, AnswersHold
<1> QED
  BY <1>3, <1>4, <1>5, <1>6, <1>7

LEMMA OutFrom ==
  ASSUME /\ received' \in Seq(Seq(Int)) /\ Len(received') <= 2
         /\ \A i \in 1 .. Len(received') : Len(received'[i]) <= BankSize
         /\ peek_buffer' \in {-1, 0} /\ promised' \in Nat
         /\ Unread' = Numbers(0, Len(Unread'))
         /\ promised' <= Len(Peeked') + Waiting(received')
  PROVE  OutOK'
<1>1. BankSize \in Nat
  BY EndpointAssumption
<1>2. Waiting(received') \in 0 .. BankSize
  BY <1>1, WaitingIs
<1>3. Len(Peeked') \in {0, 1}
  BY OneNumber DEF Peeked
<1>4. promised' \in 0 .. BankSize + 1
  <2> DEFINE w == Waiting(received')
             l == Len(Peeked')
  <2>1. w \in 0 .. BankSize /\ l \in {0, 1} /\ promised' \in Nat /\ promised' <= l + w
    BY <1>2, <1>3
  <2> HIDE DEF w, l
  <2> QED
    BY <1>1, <2>1
<1>5. AnswersHold'
  BY NextFifoIs DEF AnswersHold
<1> QED
  BY <1>4, <1>5 DEF OutOK

\* No byte of the host's moves, and no more is told.
LEMMA OutKeeps ==
  ASSUME OutOK, UNCHANGED <<received, peek_buffer>>, promised' = promised \/ promised' = 0
  PROVE  OutOK'
<1>1. /\ Peeked' = Peeked /\ Unread' = Unread
  BY DEF Peeked, Unread
<1>2. promised' <= Len(Peeked') + Waiting(received')
  BY <1>1, OutFacts
<1>3. promised' \in Nat
  BY EndpointAssumption DEF OutOK
<1> QED
  BY <1>1, <1>2, <1>3, OutFrom DEF OutOK

LEMMA OutBegin ==
  ASSUME OutOK, Begin
  PROVE  OutOK'
<1>1. /\ Peeked \in Seq(Int) /\ Len(Peeked) \in Nat
      /\ Peeked \o Flat(received) = Numbers(0, Len(Peeked \o Flat(received)))
      /\ received \in Seq(Seq(Int)) /\ Len(received) <= 2 /\ BankSize \in Nat
      /\ \A i \in 1 .. Len(received) : Len(received[i]) <= BankSize
  BY OutFacts, EndpointAssumption DEF OutOK, Unread
<1>2. Peeked' = << >> /\ received' = OlderBanks(received, Len(Peeked)) /\ promised' = 0
  BY DEF Begin, Peeked
<1>3. /\ received' \in Seq(Seq(Int)) /\ Len(received') <= 2
      /\ \A i \in 1 .. Len(received') : Len(received'[i]) <= BankSize
      /\ Unread' = Numbers(0, Len(Unread'))
  BY <1>1, <1>2, OlderRest DEF Unread
<1>4. Waiting(received') \in Nat /\ Len(Peeked') = 0
  BY <1>2, <1>3, WaitingNat, OneNumber
<1> QED
  BY <1>2, <1>3, <1>4, OutFrom DEF Begin

LEMMA OutAvailable ==
  ASSUME OutOK, Available
  PROVE  OutOK'
<1>1. Peeked' = Peeked /\ Unread' = Unread /\ received' = received
  BY DEF Available, Peeked, Unread, coreVars
<1>2. promised' = Len(Peeked) + Waiting(received)
  BY FifoIs DEF Available
<1>3. promised' \in Nat
  BY <1>2, OutFacts, EndpointAssumption
<1> QED
  BY <1>1, <1>2, <1>3, OutFrom DEF OutOK, Available

LEMMA OutReadPeeked ==
  ASSUME OutOK, ReadPeeked
  PROVE  OutOK'
<1>1. /\ Peeked \in Seq(Int) /\ Len(Peeked) = 1
      /\ Peeked \o Flat(received) = Numbers(0, Len(Peeked \o Flat(received)))
      /\ received \in Seq(Seq(Int)) /\ Len(received) <= 2 /\ BankSize \in Nat
      /\ \A i \in 1 .. Len(received) : Len(received[i]) <= BankSize
  BY OutFacts, EndpointAssumption DEF OutOK, Unread, ReadPeeked
<1>2. /\ Peeked' = << >> /\ received' = OlderBanks(received, Len(Peeked))
      /\ promised' = IF promised > 1 THEN promised - 1 ELSE 0
  BY <1>1 DEF ReadPeeked, Peeked, Keep
<1>3. /\ received' \in Seq(Seq(Int)) /\ Len(received') <= 2
      /\ \A i \in 1 .. Len(received') : Len(received'[i]) <= BankSize
      /\ Unread' = Numbers(0, Len(Unread'))
      /\ Waiting(received') = Waiting(received)
  BY <1>1, <1>2, OlderRest DEF Unread
<1>4. /\ promised \in Nat /\ promised <= Len(Peeked) + Waiting(received)
      /\ Waiting(received) \in Nat /\ Len(Peeked') = 0
  BY <1>1, <1>2, OutFacts, OneNumber, EndpointAssumption DEF OutOK
<1>5. promised' \in Nat /\ promised' <= Len(Peeked') + Waiting(received')
  BY <1>1, <1>2, <1>3, <1>4
<1> QED
  BY <1>3, <1>5, OutFrom DEF ReadPeeked

\* The facts of USB_Recv(), which Peek and Read share.
LEMMA RecvIs ==
  ASSUME OutOK, CanRecv, peek_buffer < 0
  PROVE  /\ Rest \in Seq(Seq(Int)) /\ Len(Rest) <= 2 /\ BankSize \in Nat
         /\ \A i \in 1 .. Len(Rest) : Len(Rest[i]) <= BankSize
         /\ received[1][1] = 0 /\ <<0>> \in Seq(Int) /\ Len(<<0>>) = 1
         /\ <<0>> \o Flat(Rest) = Numbers(0, Len(<<0>> \o Flat(Rest)))
         /\ Waiting(Rest) \in Nat /\ Waiting(Rest) >= Waiting(received) - 1
         /\ promised \in Nat /\ promised <= Waiting(received) /\ Waiting(received) > 0
<1> DEFINE b == received[1][1]
           r == Rest
           x == <<b>>
           y == Flat(r)
<1>1. Waiting(received) > 0 /\ received # << >> /\ Waiting(received) = Len(Head(received))
  <2>1. Waiting(received) > 0
    BY FifoIs DEF CanRecv
  <2> QED
    BY <2>1 DEF Waiting
<1>2. /\ r \in Seq(Seq(Int)) /\ Len(r) <= 2 /\ BankSize \in Nat
      /\ \A i \in 1 .. Len(r) : Len(r[i]) <= BankSize
      /\ b \in Int /\ Flat(received) = x \o y
      /\ Waiting(r) >= Waiting(received) - 1
  BY <1>1, RestIs, EndpointAssumption DEF OutOK, Waiting
<1>3. /\ Peeked = << >> /\ Flat(received) \in Seq(Int) /\ Len(Peeked) = 0
      /\ promised <= Waiting(received) /\ promised \in Nat /\ Waiting(received) \in Nat
  BY <1>1, OutFacts, EndpointAssumption DEF OutOK
<1>4. Unread = x \o y
  <2>1. << >> \o Flat(received) = Flat(received)
    BY <1>3, ConcatEmptySeq
  <2> QED
    BY <1>2, <1>3, <2>1 DEF Unread
<1>5. x \in Seq(Int) /\ Len(x) = 1 /\ x[1] = b
  BY <1>2, OneItem
<1>6. y \in Seq(Int)
  BY <1>2, FlatIs
<1>7. x \o y = Numbers(0, Len(x \o y))
  BY <1>4 DEF OutOK
<1>8. x = Numbers(0, Len(x))
  <2> HIDE DEF x, y
  <2> QED
    BY ONLY <1>5, <1>6, <1>7, 0 \in Int, NumbersJoin
<1>9. x = <<0>> /\ b = 0
  <2>1. x = <<0>>
    <3> HIDE DEF x
    <3> QED
      BY <1>5, <1>8, OneNumber
  <2>2. <<0>>[1] = 0
    OBVIOUS
  <2> HIDE DEF x
  <2> QED
    BY <1>5, <2>1, <2>2
<1>10. Waiting(r) \in Nat
  <2> HIDE DEF r
  <2>1. Waiting(r) \in 0 .. BankSize
    BY <1>2, WaitingIs
  <2> QED
    BY <1>2, <2>1
<1> HIDE DEF x, y, b
<1>11. <<0>> \o y = Numbers(0, Len(<<0>> \o y))
  BY <1>7, <1>9
<1> QED
  BY <1>1, <1>2, <1>3, <1>5, <1>9, <1>10, <1>11, OneNumber DEF b, y

LEMMA OutPeek ==
  ASSUME OutOK, Peek
  PROVE  OutOK'
<1>1. peek_buffer < 0 /\ CanRecv /\ received' = Rest /\ peek_buffer' = received[1][1]
      /\ promised' = IF promised > 0 THEN promised ELSE 1
  BY DEF Peek, Recv
<1>2. /\ received' \in Seq(Seq(Int)) /\ Len(received') <= 2
      /\ \A i \in 1 .. Len(received') : Len(received'[i]) <= BankSize
      /\ peek_buffer' = 0
      /\ <<0>> \o Flat(received') = Numbers(0, Len(<<0>> \o Flat(received')))
      /\ Waiting(received') \in Nat /\ Waiting(received') >= Waiting(received) - 1
      /\ promised \in Nat /\ promised <= Waiting(received) /\ Waiting(received) > 0
  BY <1>1, RecvIs
<1>3. Peeked' = <<0>> /\ Len(Peeked') = 1
  BY <1>2, OneNumber DEF Peeked
<1>4. Unread' = Numbers(0, Len(Unread'))
  BY <1>2, <1>3 DEF Unread
<1>5. Waiting(received) \in Nat
  BY OutFacts, EndpointAssumption
<1>6. promised' \in Nat /\ promised' <= Len(Peeked') + Waiting(received')
  BY <1>1, <1>2, <1>3, <1>5
<1> QED
  BY <1>2, <1>4, <1>6, OutFrom

LEMMA OutRead ==
  ASSUME OutOK, Read
  PROVE  OutOK'
<1>1. /\ peek_buffer < 0 /\ CanRecv /\ received' = OlderBanks(Rest, 1)
      /\ peek_buffer' = peek_buffer
      /\ promised' = IF promised > 1 THEN promised - 1 ELSE 0
  BY DEF Read, Recv, Keep
<1>2. /\ Rest \in Seq(Seq(Int)) /\ Len(Rest) <= 2 /\ BankSize \in Nat
      /\ \A i \in 1 .. Len(Rest) : Len(Rest[i]) <= BankSize
      /\ <<0>> \in Seq(Int) /\ Len(<<0>>) = 1
      /\ <<0>> \o Flat(Rest) = Numbers(0, Len(<<0>> \o Flat(Rest)))
      /\ Waiting(Rest) \in Nat /\ Waiting(Rest) >= Waiting(received) - 1
      /\ promised \in Nat /\ promised <= Waiting(received) /\ Waiting(received) > 0
  BY <1>1, RecvIs
<1>3. Peeked' = << >> /\ Len(Peeked') = 0
  <2>1. Peeked' = << >>
    BY <1>1 DEF Peeked, OutOK
  <2> QED
    BY <2>1, OneNumber
<1>4. /\ received' \in Seq(Seq(Int)) /\ Len(received') <= 2
      /\ \A i \in 1 .. Len(received') : Len(received'[i]) <= BankSize
      /\ << >> \o Flat(received') = Numbers(0, Len(<< >> \o Flat(received')))
      /\ Waiting(received') = Waiting(Rest)
  <2> DEFINE r == Rest
             s == <<0>>
  <2>1. /\ r \in Seq(Seq(Int)) /\ Len(r) <= 2 /\ BankSize \in Nat
        /\ \A i \in 1 .. Len(r) : Len(r[i]) <= BankSize
        /\ s \in Seq(Int) /\ Len(s) = 1 /\ s \o Flat(r) = Numbers(0, Len(s \o Flat(r)))
    BY <1>2
  <2>2. received' = OlderBanks(r, Len(s))
    BY <1>1, <2>1
  <2> HIDE DEF r, s
  <2>3. /\ received' \in Seq(Seq(Int)) /\ Len(received') <= 2
        /\ \A i \in 1 .. Len(received') : Len(received'[i]) <= BankSize
        /\ << >> \o Flat(received') = Numbers(0, Len(<< >> \o Flat(received')))
        /\ Waiting(received') = Waiting(r)
    BY <2>1, <2>2, OlderRest
  <2> QED
    BY <2>3 DEF r
<1>5. Unread' = Numbers(0, Len(Unread'))
  BY <1>3, <1>4 DEF Unread
<1>6. Waiting(received) \in Nat
  BY OutFacts, EndpointAssumption
<1>7. promised' \in Nat /\ promised' <= Len(Peeked') + Waiting(received')
  BY <1>1, <1>2, <1>3, <1>4, <1>6
<1> QED
  BY <1>1, <1>4, <1>5, <1>7, OutFrom DEF OutOK

LEMMA OutHostSends ==
  ASSUME OutOK, NEW k \in 0 .. BankSize, HostSends(k)
  PROVE  OutOK'
<1> DEFINE t == Numbers(Len(Unread), k)
           f == Flat(received)
<1>1. /\ Peeked \in Seq(Int) /\ Len(Peeked) \in {0, 1} /\ Unread \in Seq(Int)
      /\ Len(Unread) \in Nat /\ f \in Seq(Int)
      /\ promised <= Len(Peeked) + Waiting(received)
      /\ Waiting(received) \in Nat /\ BankSize \in Nat
  BY OutFacts, EndpointAssumption
<1>2. t \in Seq(Int) /\ Len(t) = k
  BY <1>1, NumbersIs
<1>3. received \in Seq(Seq(Int)) /\ Len(received) <= 1 /\ Len(received) \in Nat
  <2>1. received \in Seq(Seq(Int)) /\ Len(received) < 2
    BY DEF OutOK, HostSends
  <2>2. Len(received) \in Nat
    BY <2>1, LenProperties
  <2> QED
    BY <2>1, <2>2
<1> HIDE DEF t
<1>4. /\ received' = Append(received, t) /\ Peeked' = Peeked /\ promised' = promised
      /\ peek_buffer' = peek_buffer
  BY DEF HostSends, t, cdcVars, Peeked
<1>5. /\ received' \in Seq(Seq(Int)) /\ Len(received') = Len(received) + 1
      /\ \A i \in 1 .. Len(received) : received'[i] = received[i]
      /\ received'[Len(received) + 1] = t
  BY <1>2, <1>3, <1>4, AppendProperties
<1>6. ASSUME NEW i \in 1 .. Len(received') PROVE Len(received'[i]) <= BankSize
  <2>1. CASE i = Len(received) + 1
    BY <1>1, <1>2, <1>5, <2>1
  <2>2. CASE i # Len(received) + 1
    <3>1. i \in 1 .. Len(received)
      BY <1>3, <1>5, <2>2
    <3> QED
      BY <1>5, <3>1 DEF OutOK
  <2> QED
    BY <2>1, <2>2
<1>7. Unread' = Unread \o t
  <2>1. Flat(received') = f \o t
    BY <1>2, <1>3, <1>4, FlatAppend
  <2> HIDE DEF f
  <2>2. Peeked \o (f \o t) = (Peeked \o f) \o t
    <3>1. f \in Seq(Int) /\ Peeked \in Seq(Int)
      BY <1>1
    <3> QED
      BY ONLY <1>2, <3>1, JoinAssociates
  <2> QED
    BY <1>4, <2>1, <2>2 DEF Unread, f
<1>8. Unread' = Numbers(0, Len(Unread'))
  <2> DEFINE u == Unread
  <2>1. u \in Seq(Int) /\ Len(u) \in Nat /\ 0 + Len(u) = Len(u) /\ u = Numbers(0, Len(u))
    BY <1>1 DEF OutOK
  <2>2. t = Numbers(0 + Len(u), Len(t))
    BY <1>2, <2>1 DEF t
  <2> HIDE DEF u
  <2>3. u \o t = Numbers(0, Len(u \o t))
    BY ONLY <1>2, <2>1, <2>2, 0 \in Int, NumbersJoin
  <2> QED
    BY <1>7, <2>3 DEF u
<1>9. Waiting(received') >= Waiting(received)
  <2>1. CASE received = << >>
    <3>1. Waiting(received) = 0
      BY <2>1 DEF Waiting
    <3>2. Waiting(received') \in Nat
      BY <1>5, WaitingNat
    <3> QED
      BY <3>1, <3>2
  <2>2. CASE received # << >>
    <3>1. Head(received') = Head(received) /\ received' # << >>
      BY <1>3, <1>4, <2>2, HeadTailAppend, AppendProperties, <1>2
    <3> QED
      BY <1>1, <2>2, <3>1 DEF Waiting
  <2> QED
    BY <2>1, <2>2
<1>10. promised' \in Nat /\ promised' <= Len(Peeked') + Waiting(received')
  <2>1. Waiting(received') \in Nat
    BY <1>5, WaitingNat
  <2> QED
    BY <1>1, <1>4, <1>9, <2>1 DEF OutOK
<1>11. Len(received') <= 2
  BY <1>3, <1>5
<1> QED
  BY <1>4, <1>5, <1>6, <1>8, <1>10, <1>11, OutFrom DEF OutOK

\* The banks are empty; the byte that peek() took is still there.
LEMMA OutLost ==
  ASSUME OutOK, received' = << >>,
         \/ peek_buffer' = peek_buffer /\ promised' = LesserOf(promised, Len(Peeked))
         \/ peek_buffer' = -1 /\ promised' = 0
  PROVE  OutOK'
<1>1. << >> \in Seq(Seq(Int)) /\ Len(<< >>) = 0
  BY EmptySeq
<1>2. Flat(received') = << >> /\ Waiting(received') = 0
  BY DEF Flat, Waiting
<1>3. Peeked' = Numbers(0, Len(Peeked')) /\ Peeked' \in Seq(Int) /\ promised' \in Nat
      /\ promised' <= Len(Peeked') /\ Len(Peeked') \in Nat
  <2>1. CASE peek_buffer' = peek_buffer /\ promised' = LesserOf(promised, Len(Peeked))
    <3>1. Peeked' = Peeked
      BY <2>1 DEF Peeked
    <3> QED
      BY <2>1, <3>1, OutFacts DEF LesserOf, OutOK
  <2>2. CASE peek_buffer' = -1 /\ promised' = 0
    <3>1. Peeked' = << >>
      BY <2>2 DEF Peeked
    <3> QED
      BY <2>2, <3>1, OneNumber
  <2> QED
    BY <2>1, <2>2
<1>4. Unread' = Peeked'
  BY <1>2, <1>3, ConcatEmptySeq DEF Unread
<1> QED
  BY <1>1, <1>2, <1>3, <1>4, OutFrom DEF OutOK

LEMMA OutInit ==
  ASSUME Init
  PROVE  OutOK
<1>1. received = << >> /\ peek_buffer = -1 /\ promised = 0
  BY DEF Init, CoreInit
<1>2. /\ Flat(received) = << >> /\ Waiting(received) = 0 /\ Peeked = << >>
      /\ << >> \in Seq(Seq(Int)) /\ << >> \in Seq(Int) /\ Len(<< >>) = 0
  BY <1>1, EmptySeq DEF Flat, Waiting, Peeked
<1>3. Unread = << >>
  BY <1>2, ConcatEmptySeq DEF Unread
<1>4. AnswersHold
  BY <1>1, <1>2, FifoIs DEF AnswersHold
<1>5. BankSize \in Nat
  BY EndpointAssumption
<1> QED
  BY <1>1, <1>2, <1>3, <1>4, <1>5, OneNumber DEF OutOK

\* Every step keeps the order of what the host sends, and what was told of it.
LEMMA OutNext ==
  ASSUME OutOK, [Next]_vars
  PROVE  OutOK'
<1>1. CASE Begin
  BY <1>1, OutBegin
<1>2. CASE Available
  BY <1>2, OutAvailable
<1>3. CASE Peek
  BY <1>3, OutPeek
<1>4. CASE ReadPeeked
  BY <1>4, OutReadPeeked
<1>5. CASE Read
  BY <1>5, OutRead
<1>6. CASE (\E size \in 1 .. MaxWrite : Write(size)) \/ SendReport
  BY <1>6, OutKeeps DEF Write, SendReport, coreVars
<1>7. CASE Flush \/ FlushCall
  BY <1>7, OutKeeps DEF Flush, FlushSelect, FlushCall, FlushCounts, FlushReleases,
                        FlushRelease, cdcVars
<1>8. CASE SendCall
  BY <1>8, OutKeeps DEF SendCall, SendLooks, SendFills, SendLooksAgain, Fill, cdcVars,
                        coreVars
<1>9. CASE Reset \/ Configure
  BY <1>9, OutLost DEF Reset, EndOfReset, Configure, SetConfiguration, EmptyBanks,
                       BanksLost
<1>10. CASE Frame \/ OtherRequest
  BY <1>10, OutKeeps DEF Frame, StartOfFrame, OtherRequest, ControlRequest, cdcVars
<1>11. CASE \/ \E state \in 0 .. 1 : SetControlLineState(state)
            \/ \E rate \in {"1200", "other"} : SetLineCoding(rate)
  BY <1>11, OutKeeps DEF SetControlLineState, SetLineCoding, ControlRequest, cdcVars
<1>12. CASE WatchdogBites
  BY <1>12, OutLost DEF WatchdogBites, EmptyBanks
<1>13. CASE HostFetchesBytes \/ HostFetchesReport
  BY <1>13, OutKeeps DEF HostFetchesBytes, HostFetchesReport, cdcVars
<1>14. CASE \E k \in 0 .. BankSize : HostSends(k)
  BY <1>14, OutHostSends
<1>15. CASE UNCHANGED vars
  BY <1>15, OutKeeps DEF vars, coreVars, cdcVars
<1> QED
  BY <1>1, <1>2, <1>3, <1>4, <1>5, <1>6, <1>7, <1>8, <1>9, <1>10, <1>11, <1>12,
     <1>13, <1>14, <1>15 DEF Next

-----------------------------------------------------------------------------
(* The device, and the call that is under way *)

LEMMA LineKeeps ==
  ASSUME LineOK, UNCHANGED <<_usbConfiguration, enabled, lineVars>>
  PROVE  LineOK'
BY DEF LineOK, lineVars

LEMMA LineNext ==
  ASSUME LineOK, [Next]_vars
  PROVE  LineOK'
<1>1. CASE Begin \/ Available \/ Peek \/ ReadPeeked \/ Read
  BY <1>1, LineKeeps DEF Begin, Available, Peek, ReadPeeked, Read, Recv, coreVars
<1>2. CASE (\E size \in 1 .. MaxWrite : Write(size)) \/ SendReport
  BY <1>2, LineKeeps DEF Write, SendReport, coreVars
<1>3. CASE Flush \/ FlushCall
  BY <1>3, LineKeeps DEF Flush, FlushSelect, FlushCall, FlushCounts, FlushReleases,
                         FlushRelease
<1>4. CASE SendCall
  <2>1. UNCHANGED <<_usbConfiguration, enabled>> /\ UNCHANGED lineVars
    BY <1>4 DEF SendCall, SendLooks, SendFills, SendLooksAgain, Fill, coreVars
  <2> QED
    BY <2>1, LineKeeps
<1>5. CASE Reset \/ Configure
  <2>1. UNCHANGED lineVars /\ _usbConfiguration' \in BOOLEAN /\ enabled' \in BOOLEAN
    BY <1>5 DEF Reset, EndOfReset, Configure, SetConfiguration, BanksLost
  <2> QED
    BY <2>1 DEF LineOK, lineVars
<1>6. CASE Frame \/ OtherRequest
  BY <1>6, LineKeeps DEF Frame, StartOfFrame, OtherRequest, ControlRequest
<1>7. CASE \E state \in 0 .. 1 : SetControlLineState(state)
  <2>1. watchdog' \in BOOLEAN
    BY <1>7 DEF SetControlLineState, LineOK, DTR
  <2>2. lineState' \in 0 .. 2
    BY <1>7 DEF SetControlLineState
  <2> QED
    BY <1>7, <2>1, <2>2 DEF SetControlLineState, ControlRequest, LineOK
<1>8. CASE \E rate \in {"1200", "other"} : SetLineCoding(rate)
  <2>1. dwDTERate' \in {"1200", "other"}
    BY <1>8 DEF SetLineCoding
  <2>2. UNCHANGED <<_usbConfiguration, enabled, lineState, watchdog>>
    BY <1>8 DEF SetLineCoding, ControlRequest
  <2> QED
    BY <2>1, <2>2 DEF LineOK
<1>9. CASE WatchdogBites
  <2>1. /\ _usbConfiguration' \in BOOLEAN /\ enabled' \in BOOLEAN /\ watchdog' \in BOOLEAN
        /\ dwDTERate' \in {"1200", "other"} /\ lineState' = 0
    BY <1>9 DEF WatchdogBites
  <2> QED
    BY <2>1 DEF LineOK
<1>10. CASE \/ HostFetchesBytes \/ HostFetchesReport
            \/ \E k \in 0 .. BankSize : HostSends(k)
  BY <1>10, LineKeeps DEF HostFetchesBytes, HostFetchesReport, HostSends
<1>11. CASE UNCHANGED vars
  BY <1>11, LineKeeps DEF vars, coreVars
<1> QED
  BY <1>1, <1>2, <1>3, <1>4, <1>5, <1>6, <1>7, <1>8, <1>9, <1>10, <1>11 DEF Next

LEMMA Sizes ==
  /\ BankSize \in Nat /\ BankSize >= 2 /\ MaxWrite \in Nat /\ MaxWrite >= 1
  /\ SendTries \in Nat /\ SendTries >= 1
  /\ CDC_TX # HID_TX /\ CDC_TX # AnyEP /\ HID_TX # AnyEP /\ 0 # AnyEP
  /\ CDC_TX # 0 /\ HID_TX # 0
  /\ CDC_TX \in InEP /\ HID_TX \in InEP /\ \A e \in InEP : e = CDC_TX \/ e = HID_TX
BY EndpointAssumption, WriteAssumption DEF InEP

\* USB_SendSpace() finds what is free in the bank at hand.
LEMMA SpaceIs ==
  ASSUME NEW e \in InEP, NEW Item, BanksOK(e, Item)
  PROVE  /\ Len(bank[e]) \in Nat /\ SendSpace(e) \in Nat
         /\ SendSpace(e) + Len(bank[e]) <= BankSize
         /\ SendSpace(e) > 0 <=> HasBank(e)
<1>1. Len(bank[e]) \in Nat /\ Len(bank[e]) < BankSize
  BY LenProperties DEF BanksOK
<1>2. CASE HasBank(e)
  <2>1. SendSpace(e) = BankSize - Len(bank[e])
    BY <1>1, <1>2 DEF SendSpace, ReadWriteAllowed
  <2> QED
    BY <1>1, <1>2, <2>1, Sizes
<1>3. CASE ~HasBank(e)
  <2>1. SendSpace(e) = 0
    BY <1>3 DEF SendSpace, ReadWriteAllowed
  <2> QED
    BY <1>1, <1>3, <2>1, Sizes
<1> QED
  BY <1>2, <1>3

LEMMA SendSpaceIs ==
  ASSUME CallOK, BytesOK, ReportsOK
  PROVE  /\ Len(bank[ep]) \in Nat /\ SendSpace(ep) \in Nat
         /\ SendSpace(ep) + Len(bank[ep]) <= BankSize
         /\ SendSpace(ep) > 0 <=> HasBank(ep)
<1>1. CASE ep = CDC_TX
  BY <1>1, SpaceIs, Sizes DEF BytesOK
<1>2. CASE ep = HID_TX
  BY <1>2, SpaceIs, Sizes DEF ReportsOK
<1> QED
  BY <1>1, <1>2, Sizes DEF CallOK

LEMMA CallSelect ==
  ASSUME CallOK, NEW e \in {0, CDC_TX, HID_TX}, Select(e),
         UNCHANGED <<pc, ep, len, n, timeout>>,
         part' = IF part = "body" THEN "orphan" ELSE part
  PROVE  CallOK'
BY Sizes DEF CallOK, Select, Sending

LEMMA CallSelectOnly ==
  ASSUME CallOK, NEW e \in {0, CDC_TX, HID_TX}, Select(e),
         UNCHANGED <<pc, ep, len, n, timeout, part>>
  PROVE  CallOK'
BY Sizes DEF CallOK, Select, Sending

LEMMA CallKeeps ==
  ASSUME CallOK, UNCHANGED <<pc, ep, len, n, timeout, part, UENUM>>
  PROVE  CallOK'
BY DEF CallOK, Sending

LEMMA CallIdle ==
  ASSUME Idle, UENUM' = AnyEP
  PROVE  CallOK'
BY Sizes DEF CallOK, Idle, PC, Sending

LEMMA CallStarts ==
  ASSUME NEW e \in InEP, NEW size \in 1 .. MaxWrite, NEW what,
         UsbSend(e, size, what), UENUM' = AnyEP,
         \/ e = CDC_TX /\ what = "bytes"
         \/ e = HID_TX /\ what \in {"id", "body", "orphan"} /\ size = 1
  PROVE  CallOK'
BY Sizes DEF CallOK, UsbSend, PC, Sending

LEMMA CallAfter ==
  ASSUME NEW what \in {"body", "orphan"}, AfterSend(what), UENUM' = AnyEP
  PROVE  CallOK'
<1>1. 1 \in 1 .. MaxWrite
  BY Sizes
<1>2. CASE part = "id" /\ _usbConfiguration
  <2>1. UsbSend(HID_TX, 1, what)
    BY <1>2 DEF AfterSend
  <2> QED
    BY <1>1, <2>1, Sizes, CallStarts
<1>3. CASE ~(part = "id" /\ _usbConfiguration)
  BY <1>3, CallIdle DEF AfterSend
<1> QED
  BY <1>2, <1>3

LEMMA CallLooks ==
  ASSUME CallOK, BytesOK, ReportsOK, SendLooks
  PROVE  CallOK'
<1> DEFINE space == SendSpace(ep)
<1>1. space \in Nat
  BY SendSpaceIs
<1>2. /\ pc = "send_space" /\ UENUM = AnyEP /\ UENUM' = AnyEP
      /\ timeout \in Nat /\ len \in Nat /\ len > 0
  BY Sizes DEF SendLooks, CallOK, Sending, coreVars
<1> HIDE DEF space
<1>3. CASE space > 0
  <2>1. /\ n' = LesserOf(space, len) /\ pc' = "send_fill"
        /\ UNCHANGED <<ep, len, timeout, data, part>>
    BY <1>3 DEF SendLooks, space
  <2>2. n' \in 0 .. len /\ n' > 0
    BY <1>1, <1>2, <1>3, <2>1 DEF LesserOf
  <2> QED
    BY <1>2, <2>1, <2>2 DEF CallOK, PC, Sending
<1>4. CASE space = 0 /\ timeout > 1
  <2>1. timeout' = timeout - 1 /\ UNCHANGED <<pc, ep, len, n, data, part>>
    BY <1>4 DEF SendLooks, space
  <2>2. timeout' \in 0 .. SendTries
    BY <1>4, <2>1, Sizes DEF CallOK
  <2> QED
    BY <1>2, <2>1, <2>2 DEF CallOK, Sending
<1>5. CASE space = 0 /\ ~(timeout > 1)
  <2>1. AfterSend("orphan")
    BY <1>5 DEF SendLooks, space
  <2> QED
    BY <1>2, <2>1, CallAfter
<1> QED
  BY <1>1, <1>3, <1>4, <1>5

LEMMA CallFills ==
  ASSUME CallOK, SendFills
  PROVE  CallOK'
<1>1. /\ pc = "send_fill" /\ UENUM' = AnyEP /\ n \in Nat /\ n > 0 /\ n <= len
      /\ len \in 0 .. MaxWrite /\ MaxWrite \in Nat
  BY Sizes DEF SendFills, CallOK, Sending, Fill
<1>2. CASE len > n
  <2>1. /\ pc' = "send_space" /\ len' = len - n /\ n' = 0
        /\ UNCHANGED <<ep, timeout, part>>
    BY <1>2 DEF SendFills
  <2>2. len' \in 1 .. MaxWrite /\ ep # HID_TX
    BY <1>1, <1>2, <2>1 DEF CallOK
  <2> QED
    BY <1>1, <2>1, <2>2 DEF CallOK, PC, Sending
<1>3. CASE ~(len > n)
  BY <1>1, <1>3, CallAfter DEF SendFills
<1> QED
  BY <1>2, <1>3

LEMMA CallNext ==
  ASSUME CallOK, BytesOK, ReportsOK, [Next]_vars
  PROVE  CallOK'
<1>1. CASE Begin \/ Available \/ Peek \/ ReadPeeked \/ Read
  BY <1>1, CallKeeps DEF Begin, Available, Peek, ReadPeeked, Read, Recv, coreVars, sendVars
<1>2. ASSUME NEW size \in 1 .. MaxWrite, Write(size) PROVE CallOK'
  <2>1. UENUM' = AnyEP
    BY <1>2 DEF Write, CallOK, coreVars
  <2> QED
    BY <1>2, <2>1, CallStarts, Sizes DEF Write
<1>3. CASE SendReport
  <2>1. UENUM' = AnyEP /\ 1 \in 1 .. MaxWrite
    BY <1>3, Sizes DEF SendReport, CallOK, coreVars
  <2> QED
    BY <1>3, <2>1, CallStarts, Sizes DEF SendReport
<1>4. CASE Flush
  BY <1>4, Sizes DEF Flush, FlushSelect, CallOK, Sending, PC
<1>5. CASE SendLooks
  BY <1>5, CallLooks
<1>6. CASE SendFills
  BY <1>6, CallFills
<1>7. CASE SendLooksAgain
  <2>1. 0 \in 0 .. len
    BY Sizes DEF CallOK
  <2> QED
    BY <1>7, <2>1 DEF SendLooksAgain, CallOK, Sending, PC, coreVars
<1>8. CASE FlushCounts
  BY <1>8, Sizes DEF FlushCounts, CallOK, Sending, PC
<1>9. CASE FlushReleases
  BY <1>9, Sizes DEF FlushReleases, FlushRelease, CallOK, Sending, PC
<1>10. CASE Reset
  BY <1>10, CallSelect DEF Reset, EndOfReset, BanksLost
<1>11. CASE Configure
  BY <1>11, CallSelect DEF Configure, SetConfiguration, BanksLost
<1>12. CASE Frame
  BY <1>12, CallSelectOnly DEF Frame, StartOfFrame, sendVars
<1>13. CASE \/ OtherRequest
            \/ \E state \in 0 .. 1 : SetControlLineState(state)
            \/ \E rate \in {"1200", "other"} : SetLineCoding(rate)
  BY <1>13, CallSelectOnly DEF OtherRequest, SetControlLineState, SetLineCoding,
                               ControlRequest, sendVars
<1>14. CASE WatchdogBites
  BY <1>14, CallIdle DEF WatchdogBites
<1>15. CASE \/ HostFetchesBytes \/ HostFetchesReport
            \/ \E k \in 0 .. BankSize : HostSends(k)
  BY <1>15, CallKeeps DEF HostFetchesBytes, HostFetchesReport, HostSends, sendVars
<1>16. CASE UNCHANGED vars
  BY <1>16, CallKeeps DEF vars, coreVars, sendVars
<1> QED
  BY <1>1, <1>2, <1>3, <1>4, <1>5, <1>6, <1>7, <1>8, <1>9, <1>10, <1>11, <1>12,
     <1>13, <1>14, <1>15, <1>16 DEF Next, SendCall, FlushCall

-----------------------------------------------------------------------------
(* The banks of the IN endpoints *)

LEMMA BanksFrom ==
  ASSUME NEW e \in InEP, NEW Item, NEW b \in Seq(Item), NEW p \in Seq(Seq(Item)),
         bank'[e] = b, packets'[e] = p, Len(p) <= 2, Len(b) < BankSize,
         Len(p) = 2 => b = << >>, \A i \in 1 .. Len(p) : Len(p[i]) <= BankSize
  PROVE  BanksOK(e, Item)'
BY DEF BanksOK

\* A bank that is released joins those that the host may fetch.
LEMMA ReleasedIs ==
  ASSUME NEW e \in InEP, NEW Item, NEW content \in Seq(Item),
         EndpointsOK, BanksOK(e, Item), HasBank(e), Len(content) <= BankSize,
         ReleaseTX(e, content)
  PROVE  /\ EndpointsOK' /\ BanksOK(e, Item)'
         /\ packets'[e] = Append(packets[e], content) /\ bank'[e] = << >>
         /\ Len(packets[e]) <= 1
         /\ \A o \in InEP \ {e} : packets'[o] = packets[o] /\ bank'[o] = bank[o]
<1> DEFINE p == packets[e]
           q == Append(p, content)
<1>1. p \in Seq(Seq(Item)) /\ Len(p) < 2 /\ \A i \in 1 .. Len(p) : Len(p[i]) <= BankSize
  BY DEF BanksOK, HasBank
<1>2. Len(p) \in Nat
  BY <1>1, LenProperties
<1> HIDE DEF p
<1>3. /\ q \in Seq(Seq(Item)) /\ Len(q) = Len(p) + 1
      /\ \A i \in 1 .. Len(p) : q[i] = p[i]
      /\ q[Len(p) + 1] = content
  BY <1>1, AppendProperties
<1> HIDE DEF q
<1>4. ASSUME NEW i \in 1 .. Len(q) PROVE Len(q[i]) <= BankSize
  <2>1. CASE i \in 1 .. Len(p)
    BY <1>1, <1>3, <2>1
  <2>2. CASE i = Len(p) + 1
    BY <1>3, <2>2
  <2> QED
    BY <1>2, <1>3, <2>1, <2>2
<1>5. /\ packets' = [packets EXCEPT ![e] = q] /\ bank' = [bank EXCEPT ![e] = << >>]
  BY DEF ReleaseTX, p, q
<1>6. /\ DOMAIN packets' = InEP /\ DOMAIN bank' = InEP
      /\ packets'[e] = q /\ bank'[e] = << >>
      /\ \A o \in InEP \ {e} : packets'[o] = packets[o] /\ bank'[o] = bank[o]
  BY <1>5 DEF EndpointsOK
<1>7. << >> \in Seq(Item) /\ Len(<< >>) = 0 /\ 0 < BankSize
  BY EmptySeq, Sizes
<1>8. Len(q) <= 2
  BY <1>1, <1>2, <1>3
<1>9. BanksOK(e, Item)'
  BY <1>3, <1>4, <1>6, <1>7, <1>8 DEF BanksOK
<1> QED
  BY <1>1, <1>2, <1>6, <1>9 DEF EndpointsOK, p, q

\* The locked part of USB_Send() adds the bytes to the bank at hand, and
\* releases it when it is full or the report is complete.
LEMMA FilledIs ==
  ASSUME NEW e \in InEP, NEW Item, NEW d \in Seq(Item), NEW release,
         EndpointsOK, BanksOK(e, Item), Len(bank[e]) + Len(d) <= BankSize,
         Fill(e, d, release)
  PROVE  /\ EndpointsOK' /\ BanksOK(e, Item)'
         /\ \/ /\ Len(bank[e] \o d) >= BankSize \/ release
               /\ packets'[e] = Append(packets[e], bank[e] \o d) /\ bank'[e] = << >>
               /\ Len(packets[e]) <= 1
            \/ /\ Len(bank[e] \o d) < BankSize /\ ~release
               /\ packets'[e] = packets[e] /\ bank'[e] = bank[e] \o d
         /\ bank[e] \o d \in Seq(Item)
         /\ \A o \in InEP \ {e} : packets'[o] = packets[o] /\ bank'[o] = bank[o]
<1> DEFINE content == bank[e] \o d
<1>1. bank[e] \in Seq(Item)
  BY DEF BanksOK
<1>2. content \in Seq(Item) /\ Len(content) = Len(bank[e]) + Len(d)
  BY <1>1, ConcatProperties
<1>3. Len(content) \in Nat /\ Len(content) <= BankSize /\ HasBank(e) /\ BankSize \in Nat
  BY <1>2, LenProperties, Sizes DEF Fill, ReadWriteAllowed
<1>4. IF Len(content) >= BankSize \/ release
      THEN ReleaseTX(e, content)
      ELSE bank' = [bank EXCEPT ![e] = content] /\ UNCHANGED packets
  BY DEF Fill
<1> HIDE DEF content
<1>5. CASE Len(content) >= BankSize \/ release
  <2>1. ReleaseTX(e, content)
    BY <1>4, <1>5
  <2>2. /\ EndpointsOK' /\ BanksOK(e, Item)'
        /\ packets'[e] = Append(packets[e], content) /\ bank'[e] = << >>
        /\ Len(packets[e]) <= 1
        /\ \A o \in InEP \ {e} : packets'[o] = packets[o] /\ bank'[o] = bank[o]
    BY <1>2, <1>3, <2>1, ReleasedIs
  <2> QED
    BY <1>2, <1>5, <2>2 DEF content
<1>6. CASE ~(Len(content) >= BankSize \/ release)
  <2>1. bank' = [bank EXCEPT ![e] = content] /\ packets' = packets
    BY <1>4, <1>6
  <2>2. /\ bank'[e] = content /\ DOMAIN bank' = InEP /\ DOMAIN packets' = InEP
        /\ packets'[e] = packets[e]
        /\ \A o \in InEP \ {e} : packets'[o] = packets[o] /\ bank'[o] = bank[o]
    BY <2>1 DEF EndpointsOK
  <2>3. Len(content) < BankSize /\ ~release
    BY <1>3, <1>6
  <2>4. BanksOK(e, Item)'
    <3> DEFINE p == packets[e]
    <3>1. /\ p \in Seq(Seq(Item)) /\ Len(p) <= 2 /\ Len(p) # 2 /\ packets'[e] = p
          /\ \A i \in 1 .. Len(p) : Len(p[i]) <= BankSize
      <4>1. p \in Seq(Seq(Item)) /\ \A i \in 1 .. Len(p) : Len(p[i]) <= BankSize
        BY DEF BanksOK
      <4>2. Len(p) < 2
        BY <1>3 DEF HasBank
      <4>3. packets'[e] = p
        BY <2>2
      <4> HIDE DEF p
      <4>4. Len(p) \in Nat
        BY <4>1, LenProperties
      <4>5. Len(p) <= 2 /\ Len(p) # 2
        BY ONLY <4>2, <4>4, UpToTwo
      <4> QED
        BY <4>1, <4>3, <4>5, Zenon
    <3> HIDE DEF p
    <3> QED
      BY <1>2, <2>2, <2>3, <3>1, BanksFrom
  <2> QED
    BY <1>2, <2>2, <2>3, <2>4 DEF EndpointsOK, content
<1> QED
  BY <1>5, <1>6

LEMMA BanksSame ==
  ASSUME NEW e \in InEP, NEW Item, BanksOK(e, Item),
         packets'[e] = packets[e], bank'[e] = bank[e]
  PROVE  BanksOK(e, Item)'
BY DEF BanksOK

LEMMA EmptyBanksOK ==
  ASSUME EmptyBanks
  PROVE  /\ EndpointsOK'
         /\ \A e \in InEP : bank'[e] = << >> /\ packets'[e] = << >>
         /\ \A e \in InEP : \A Item : BanksOK(e, Item)'
<1>1. /\ DOMAIN packets' = InEP /\ DOMAIN bank' = InEP
      /\ \A e \in InEP : bank'[e] = << >> /\ packets'[e] = << >>
  BY DEF EmptyBanks
<1>2. ASSUME NEW e \in InEP, NEW Item PROVE BanksOK(e, Item)'
  <2>1. /\ << >> \in Seq(Item) /\ << >> \in Seq(Seq(Item)) /\ Len(<< >>) = 0
    BY EmptySeq
  <2>2. \A i \in 1 .. Len(<< >>) : Len(<< >>[i]) <= BankSize
    BY <2>1
  <2> DEFINE o == << >>
  <2>3. bank'[e] = o /\ packets'[e] = o
    BY <1>1
  <2>4. o \in Seq(Item) /\ o \in Seq(Seq(Item)) /\ Len(o) = 0
        /\ \A i \in 1 .. Len(o) : Len(o[i]) <= BankSize
    BY <2>1, <2>2
  <2> HIDE DEF o
  <2>5. Len(o) <= 2 /\ Len(o) < BankSize /\ Len(o) # 2
    BY <2>4, Sizes
  <2> QED
    BY <2>3, <2>4, <2>5, BanksFrom
<1> QED
  BY <1>1, <1>2 DEF EndpointsOK

-----------------------------------------------------------------------------
(* The bytes of the port on their way to the host *)

LEMMA UnsentIs ==
  ASSUME BanksOK(CDC_TX, Int)
  PROVE  /\ bank[CDC_TX] \in Seq(Int) /\ packets[CDC_TX] \in Seq(Seq(Int))
         /\ Flat(packets[CDC_TX]) \in Seq(Int)
         /\ Unsent \in Seq(Int) /\ Len(Unsent) \in Nat /\ Len(bank[CDC_TX]) \in Nat
<1>1. /\ bank[CDC_TX] \in Seq(Int) /\ packets[CDC_TX] \in Seq(Seq(Int))
      /\ Len(packets[CDC_TX]) <= 2
  BY DEF BanksOK
<1>2. Flat(packets[CDC_TX]) \in Seq(Int)
  BY <1>1, FlatIs
<1>3. Unsent \in Seq(Int)
  BY <1>1, <1>2, ConcatProperties DEF Unsent
<1> QED
  BY <1>1, <1>2, <1>3, LenProperties

\* d joins the bank at hand, which may then be released.
LEMMA UnsentFilled ==
  ASSUME BanksOK(CDC_TX, Int), NEW d \in Seq(Int),
         \/ /\ packets'[CDC_TX] = Append(packets[CDC_TX], bank[CDC_TX] \o d)
            /\ bank'[CDC_TX] = << >> /\ Len(packets[CDC_TX]) <= 1
         \/ packets'[CDC_TX] = packets[CDC_TX] /\ bank'[CDC_TX] = bank[CDC_TX] \o d
  PROVE  Unsent' = Unsent \o d
<1> DEFINE p == packets[CDC_TX]
           b == bank[CDC_TX]
           f == Flat(p)
           c == b \o d
<1>1. b \in Seq(Int) /\ p \in Seq(Seq(Int)) /\ f \in Seq(Int)
  BY UnsentIs
<1>2. Unsent = f \o b /\ Unsent' = Flat(packets'[CDC_TX]) \o bank'[CDC_TX]
  BY DEF Unsent
<1> HIDE DEF p, b, f
<1>3. f \o c = (f \o b) \o d
  BY ONLY <1>1, d \in Seq(Int), ConcatAssociative
<1>4. c \in Seq(Int)
  BY <1>1, ConcatProperties
<1> HIDE DEF c
<1>5. f \o c \in Seq(Int)
  BY <1>1, <1>4, ConcatProperties
<1>6. CASE packets'[CDC_TX] = Append(p, c) /\ bank'[CDC_TX] = << >> /\ Len(p) <= 1
  <2>1. Flat(Append(p, c)) = f \o c
    BY <1>1, <1>4, <1>6, FlatAppend DEF f
  <2>2. (f \o c) \o << >> = f \o c
    BY <1>5, ConcatEmptySeq
  <2> QED
    BY <1>2, <1>3, <1>6, <2>1, <2>2
<1>7. CASE packets'[CDC_TX] = p /\ bank'[CDC_TX] = c
  BY <1>2, <1>3, <1>7 DEF f
<1> QED
  BY <1>6, <1>7 DEF p, b, c

LEMMA UnsentReleased ==
  ASSUME BanksOK(CDC_TX, Int), Len(packets[CDC_TX]) <= 1, bank'[CDC_TX] = << >>,
         packets'[CDC_TX] = Append(packets[CDC_TX], bank[CDC_TX])
  PROVE  Unsent' = Unsent
<1> DEFINE b == bank[CDC_TX]
           u == Unsent
<1>1. b \in Seq(Int) /\ u \in Seq(Int) /\ << >> \in Seq(Int)
  BY UnsentIs, EmptySeq
<1>2. b \o << >> = b
  <2> HIDE DEF b
  <2> QED
    BY <1>1, ConcatEmptySeq
<1>3. Unsent' = u \o << >>
  BY <1>1, <1>2, UnsentFilled
<1>4. u \o << >> = u
  <2> HIDE DEF u
  <2> QED
    BY <1>1, ConcatEmptySeq
<1> QED
  BY <1>3, <1>4

\* The host takes the oldest bank: all numbers fall by its length.
LEMMA UnsentFetched ==
  ASSUME BanksOK(CDC_TX, Int), EndpointsOK, HostFetchesBytes,
         Unsent = Numbers(0, Len(Unsent))
  PROVE  /\ BanksOK(CDC_TX, Int)' /\ EndpointsOK'
         /\ Unsent' = Numbers(0, Len(Unsent')) /\ Len(bank'[CDC_TX]) = Len(bank[CDC_TX])
         /\ Len(Unsent') \in Nat
         /\ Len(Unsent) - Len(Head(packets[CDC_TX])) = Len(Unsent')
         /\ packets'[HID_TX] = packets[HID_TX] /\ bank'[HID_TX] = bank[HID_TX]
<1> DEFINE p == packets[CDC_TX]
           b == bank[CDC_TX]
           h == p[1]
           t == Tail(p)
           k == Len(Head(p))
           s == Flat(t) \o b
           q == OlderBanks(t, k)
           c == Older(b, k)
<1>1. /\ b \in Seq(Int) /\ p \in Seq(Seq(Int)) /\ Len(p) <= 2 /\ p # << >>
      /\ Len(b) < BankSize /\ (Len(p) = 2 => b = << >>)
      /\ \A i \in 1 .. Len(p) : Len(p[i]) <= BankSize
  BY DEF BanksOK, HostFetchesBytes
<1>2. packets' = [packets EXCEPT ![CDC_TX] = q] /\ bank' = [bank EXCEPT ![CDC_TX] = c]
  BY DEF HostFetchesBytes
<1>3. /\ DOMAIN packets' = InEP /\ DOMAIN bank' = InEP
      /\ packets'[CDC_TX] = q /\ bank'[CDC_TX] = c
      /\ packets'[HID_TX] = packets[HID_TX] /\ bank'[HID_TX] = bank[HID_TX]
  <2> HIDE DEF q, c
  <2> QED
    BY <1>2, Sizes DEF EndpointsOK
<1>4. Unsent = Flat(p) \o b /\ Unsent' = Flat(q) \o c
  <2> HIDE DEF q, c
  <2> QED
    BY <1>3 DEF Unsent
<1> HIDE DEF p, b
<1>5. /\ Flat(p) = h \o Flat(t) /\ t \in Seq(Seq(Int)) /\ Len(t) = Len(p) - 1
      /\ \A i \in 1 .. Len(t) : t[i] = p[i + 1]
      /\ h \in Seq(Int) /\ Head(p) = h
  BY <1>1, FlatTail
<1> HIDE DEF t, h
<1>6. Len(p) \in {1, 2} /\ Len(t) \in {0, 1} /\ Len(t) <= 2 /\ Len(t) # 2
  <2>1. Len(p) \in {0, 1, 2} /\ (p = << >> <=> Len(p) = 0)
    BY <1>1, TwoBanks
  <2> QED
    BY <1>1, <1>5, <2>1
<1>7. k = Len(h) /\ k \in Nat /\ k \in Int
  BY <1>5, LenProperties
<1>8. Flat(t) \in Seq(Int)
  BY <1>5, <1>6, FlatIs
<1>9. s \in Seq(Int) /\ Len(s) \in Nat
  <2>1. s \in Seq(Int)
    BY <1>1, <1>8, ConcatProperties
  <2> QED
    BY <2>1, LenProperties
<1>10. Unsent = h \o s
  <2> DEFINE f == Flat(t)
  <2>1. h \in Seq(Int) /\ f \in Seq(Int) /\ b \in Seq(Int)
    BY <1>1, <1>5, <1>8
  <2> HIDE DEF f
  <2>2. (h \o f) \o b = h \o (f \o b)
    BY ONLY <2>1, ConcatAssociative
  <2> QED
    BY <1>4, <1>5, <2>2 DEF f
<1>11. Unsent' = Older(s, k)
  <2> DEFINE f == Flat(t)
  <2>1. f \in Seq(Int) /\ Flat(q) = Older(f, k)
    BY <1>5, <1>6, <1>7, <1>8, FlatOlder
  <2> HIDE DEF f, q, k
  <2>2. Older(f \o b, k) = Older(f, k) \o Older(b, k)
    BY <1>1, <1>7, <2>1, OlderConcat
  <2> QED
    BY <1>4, <2>1, <2>2 DEF f
<1>12. Older(s, k) = Numbers(0, Len(s)) /\ Len(Older(s, k)) = Len(s)
  <2> HIDE DEF s, k
  <2>1. h \o s = Numbers(0, Len(h \o s))
    BY <1>10
  <2>2. Older(s, Len(h)) = Numbers(0, Len(s))
    BY ONLY <1>5, <1>9, <2>1, Renumbered
  <2> QED
    BY <1>7, <1>9, <2>2, OlderIs
<1>13. Len(Unsent) = k + Len(s)
  <2> HIDE DEF s, k
  <2> QED
    BY <1>5, <1>7, <1>9, <1>10, ConcatProperties
<1>14. c \in Seq(Int) /\ Len(c) = Len(b)
  <2> HIDE DEF k
  <2> QED
    BY <1>1, <1>7, OlderIs
<1>15. /\ q \in Seq(Seq(Int)) /\ Len(q) = Len(t)
       /\ \A i \in 1 .. Len(t) : Len(q[i]) = Len(t[i])
  <2> HIDE DEF k
  <2> QED
    BY <1>5, <1>7, OlderBanksIs
<1> HIDE DEF q, c, s, k
<1>16. \A i \in 1 .. Len(q) : Len(q[i]) <= BankSize
  <2>1. ASSUME NEW i \in 1 .. Len(q) PROVE Len(q[i]) <= BankSize
    <3>1. i \in 1 .. Len(t) /\ i + 1 \in 1 .. Len(p)
      BY <1>5, <1>6, <1>15
    <3> QED
      BY <1>1, <1>5, <1>15, <3>1
  <2> QED
    BY <2>1
<1>17. BanksOK(CDC_TX, Int)'
  <2>1. Len(q) <= 2 /\ Len(q) # 2 /\ Len(c) < BankSize
    BY <1>1, <1>6, <1>14, <1>15
  <2> QED
    BY <1>3, <1>14, <1>15, <1>16, <2>1, Sizes, BanksFrom
<1>18. Unsent' = Numbers(0, Len(Unsent')) /\ Len(Unsent') = Len(s)
  BY <1>11, <1>12
<1>19. Len(Unsent) - k = Len(Unsent')
  BY <1>7, <1>9, <1>13, <1>18
<1>20. EndpointsOK'
  BY <1>3 DEF EndpointsOK
<1> QED
  BY <1>3, <1>9, <1>14, <1>17, <1>18, <1>19, <1>20 DEF p, b, k

LEMMA BytesKeep ==
  ASSUME BytesOK, packets'[CDC_TX] = packets[CDC_TX], bank'[CDC_TX] = bank[CDC_TX],
         data' \in Nat, Sending' /\ ep' = CDC_TX => data' = Len(Unsent),
         pc' = "send_fill" /\ ep' = CDC_TX => n' + Len(bank[CDC_TX]) <= BankSize
  PROVE  BytesOK'
<1>1. BanksOK(CDC_TX, Int)'
  BY BanksSame, Sizes DEF BytesOK
<1>2. Unsent' = Unsent
  BY DEF Unsent
<1> QED
  BY <1>1, <1>2 DEF BytesOK

\* The start of a frame, or a flush(), releases the bank.
LEMMA BytesRelease ==
  ASSUME CallOK, BytesOK, EndpointsOK, ReleaseTX(CDC_TX, bank[CDC_TX]), data' = data,
         \/ UNCHANGED <<pc, ep, n>>
         \/ pc' = "idle"
  PROVE  /\ EndpointsOK' /\ BytesOK'
         /\ packets'[HID_TX] = packets[HID_TX] /\ bank'[HID_TX] = bank[HID_TX]
<1>1. /\ BanksOK(CDC_TX, Int) /\ Unsent = Numbers(0, Len(Unsent)) /\ data \in Nat
      /\ n \in Nat /\ bank[CDC_TX] \in Seq(Int) /\ Len(bank[CDC_TX]) \in Nat
      /\ Len(bank[CDC_TX]) <= BankSize
  BY UnsentIs, Sizes DEF BytesOK, BanksOK, CallOK
<1>2. CASE HasBank(CDC_TX)
  <2>1. /\ EndpointsOK' /\ BanksOK(CDC_TX, Int)'
        /\ packets'[CDC_TX] = Append(packets[CDC_TX], bank[CDC_TX]) /\ bank'[CDC_TX] = << >>
        /\ Len(packets[CDC_TX]) <= 1
        /\ \A o \in InEP \ {CDC_TX} : packets'[o] = packets[o] /\ bank'[o] = bank[o]
    BY <1>1, <1>2, Sizes, ReleasedIs
  <2>2. Unsent' = Unsent
    BY <1>1, <2>1, UnsentReleased
  <2>3. Len(bank'[CDC_TX]) = 0
    BY <2>1, OneNumber
  <2>4. pc' = "send_fill" /\ ep' = CDC_TX => n' + Len(bank'[CDC_TX]) <= BankSize
    BY <1>1, <2>3, Sizes DEF BytesOK
  <2>5. BytesOK'
    BY <1>1, <2>1, <2>2, <2>4 DEF BytesOK, Sending
  <2> QED
    BY <2>1, <2>5, Sizes
<1>3. CASE ~HasBank(CDC_TX)
  <2>1. packets' = packets /\ bank' = bank
    BY <1>3 DEF ReleaseTX
  <2> QED
    BY <1>1, <2>1, BytesKeep DEF BytesOK, EndpointsOK, Sending
<1> QED
  BY <1>2, <1>3

LEMMA BytesFill ==
  ASSUME CallOK, BytesOK, EndpointsOK, SendFills, ep = CDC_TX
  PROVE  /\ EndpointsOK' /\ BytesOK'
         /\ packets'[HID_TX] = packets[HID_TX] /\ bank'[HID_TX] = bank[HID_TX]
         /\ part = "bytes" /\ part' = "bytes" /\ UENUM' = UENUM
         /\ UNCHANGED <<_usbConfiguration, enabled>>
<1> DEFINE d == Numbers(data, n)
           u == Unsent
<1>1. /\ BanksOK(CDC_TX, Int) /\ u = Numbers(0, Len(u)) /\ data \in Nat /\ data = Len(u)
      /\ n \in Nat /\ pc = "send_fill" /\ n + Len(bank[CDC_TX]) <= BankSize
      /\ u \in Seq(Int) /\ Len(u) \in Nat /\ Len(bank[CDC_TX]) \in Nat /\ part = "bytes"
      /\ len \in Nat
  BY UnsentIs, Sizes DEF BytesOK, CallOK, SendFills, Sending
<1>2. d \in Seq(Int) /\ Len(d) = n
  <2>1. data \in Int /\ n \in Nat
    BY <1>1
  <2> QED
    BY ONLY <2>1, NumbersIs
<1>3. Fill(CDC_TX, d, part \in {"body", "orphan"} /\ len = n)
  BY DEF SendFills, Chunk
<1> HIDE DEF d
<1>4. Len(bank[CDC_TX]) + Len(d) <= BankSize
  BY <1>1, <1>2
<1>5. /\ EndpointsOK' /\ BanksOK(CDC_TX, Int)'
      /\ \/ /\ packets'[CDC_TX] = Append(packets[CDC_TX], bank[CDC_TX] \o d)
            /\ bank'[CDC_TX] = << >> /\ Len(packets[CDC_TX]) <= 1
         \/ packets'[CDC_TX] = packets[CDC_TX] /\ bank'[CDC_TX] = bank[CDC_TX] \o d
      /\ \A o \in InEP \ {CDC_TX} : packets'[o] = packets[o] /\ bank'[o] = bank[o]
  BY <1>1, <1>2, <1>3, <1>4, Sizes, FilledIs
<1>6. Unsent' = u \o d
  BY <1>1, <1>2, <1>5, UnsentFilled
<1>7. u \o d = Numbers(0, Len(u \o d)) /\ Len(u \o d) = data + n
  <2> HIDE DEF u
  <2>1. d = Numbers(0 + Len(u), Len(d))
    BY <1>1, <1>2 DEF d
  <2>2. u \o d = Numbers(0, Len(u \o d))
    BY ONLY <1>1, <1>2, <2>1, 0 \in Int, NumbersJoin
  <2>3. Len(u \o d) = Len(u) + Len(d)
    BY <1>1, <1>2, ConcatProperties
  <2> QED
    BY <1>1, <1>2, <2>2, <2>3
<1> HIDE DEF u
<1>8. /\ data' \in Nat /\ pc' # "send_fill" /\ part' = "bytes"
      /\ Sending' /\ ep' = CDC_TX => data' = data + n
  <2>1. CASE len > n
    BY <1>1, <2>1 DEF SendFills, Sending
  <2>2. CASE ~(len > n)
    <3>1. Idle
      BY <1>1, <2>2 DEF SendFills, AfterSend
    <3> QED
      BY <3>1 DEF Idle, Sending
  <2> QED
    BY <2>1, <2>2
<1>9. BytesOK'
  BY <1>5, <1>6, <1>7, <1>8 DEF BytesOK
<1>10. UNCHANGED <<_usbConfiguration, enabled, UENUM>>
  BY DEF SendFills, Fill
<1> QED
  BY <1>1, <1>5, <1>8, <1>9, <1>10, Sizes

\* Nothing is left of what was to be sent.
LEMMA BytesEmpty ==
  ASSUME EmptyBanks, data' = 0, n' \in Nat,
         pc' = "send_fill" /\ ep' = CDC_TX => n' <= BankSize
  PROVE  EndpointsOK' /\ BytesOK'
<1>1. /\ EndpointsOK' /\ bank'[CDC_TX] = << >> /\ packets'[CDC_TX] = << >>
      /\ BanksOK(CDC_TX, Int)'
  BY EmptyBanksOK, Sizes
<1>2. Unsent' = << >>
  <2>1. Flat(<< >>) = << >> /\ << >> \o << >> = << >>
    BY OneNumber, ConcatEmptySeq DEF Flat
  <2> QED
    BY <1>1, <2>1 DEF Unsent
<1> QED
  BY <1>1, <1>2, OneNumber, Sizes DEF BytesOK

LEMMA BytesLooks ==
  ASSUME CallOK, BytesOK, ReportsOK, EndpointsOK, SendLooks
  PROVE  BytesOK'
<1> DEFINE space == SendSpace(ep)
<1>1. /\ space \in Nat /\ space + Len(bank[ep]) <= BankSize /\ Len(bank[ep]) \in Nat
  BY SendSpaceIs
<1>2. /\ packets' = packets /\ bank' = bank /\ data \in Nat /\ pc = "send_space"
      /\ ep = CDC_TX => data = Len(Unsent)
      /\ timeout \in Nat /\ len \in Nat
  BY Sizes DEF SendLooks, coreVars, BytesOK, Sending, CallOK
<1> HIDE DEF space
<1>3. CASE space > 0
  <2>1. n' = LesserOf(space, len) /\ pc' = "send_fill" /\ ep' = ep /\ data' = data
    BY <1>3 DEF SendLooks, space
  <2>2. n' + Len(bank[ep]) <= BankSize
    <3> DEFINE l == Len(bank[ep])
    <3>1. n' \in Nat /\ n' <= space
      BY <1>1, <1>2, <2>1 DEF LesserOf
    <3>2. l \in Nat /\ space + l <= BankSize
      BY <1>1
    <3> HIDE DEF l
    <3>3. n' + l <= BankSize
      <4>1. space \in Nat /\ BankSize \in Nat
        BY <1>1, Sizes
      <4> QED
        BY <3>1, <3>2, <4>1, SumBelow
    <3> QED
      BY <3>3 DEF l
  <2> QED
    BY <1>2, <2>1, <2>2, BytesKeep
<1>4. CASE space = 0 /\ timeout > 1
  <2>1. UNCHANGED <<pc, ep, data>>
    BY <1>4 DEF SendLooks, space
  <2> QED
    BY <1>2, <2>1, BytesKeep
<1>5. CASE space = 0 /\ ~(timeout > 1)
  <2>1. AfterSend("orphan")
    BY <1>5 DEF SendLooks, space
  <2>2. data' \in Nat /\ pc' # "send_fill" /\ ~(Sending' /\ ep' = CDC_TX)
    BY <2>1, Sizes DEF AfterSend, UsbSend, Idle, Sending
  <2> QED
    BY <1>2, <2>2, BytesKeep
<1> QED
  BY <1>1, <1>3, <1>4, <1>5

LEMMA BytesNext ==
  ASSUME CallOK, EndpointsOK, BytesOK, ReportsOK, [Next]_vars
  PROVE  EndpointsOK' /\ BytesOK'
<1>1. /\ data \in Nat /\ n \in Nat
      /\ Sending /\ ep = CDC_TX => data = Len(Unsent)
      /\ pc = "send_fill" /\ ep = CDC_TX => n + Len(bank[CDC_TX]) <= BankSize
  BY Sizes DEF BytesOK, CallOK
<1>2. ASSUME UNCHANGED <<bank, packets>>, UNCHANGED <<pc, ep, data, n>>
      PROVE  EndpointsOK' /\ BytesOK'
  BY <1>1, <1>2, BytesKeep DEF EndpointsOK, Sending
<1>3. ASSUME UNCHANGED <<bank, packets>>, pc' \in {"idle", "flush_count", "flush_release"},
             data' \in Nat
      PROVE  EndpointsOK' /\ BytesOK'
  BY <1>3, BytesKeep DEF EndpointsOK, Sending
<1>4. CASE Begin \/ Available \/ Peek \/ ReadPeeked \/ Read
  BY <1>4, <1>2 DEF Begin, Available, Peek, ReadPeeked, Read, Recv, coreVars, sendVars
<1>5. CASE (\E size \in 1 .. MaxWrite : Write(size)) \/ SendReport
  <2>1. UNCHANGED <<bank, packets>> /\ pc' # "send_fill"
    BY <1>5 DEF Write, SendReport, UsbSend, coreVars
  <2>2. data' \in Nat /\ (Sending' /\ ep' = CDC_TX => data' = Len(Unsent))
    BY <1>5, UnsentIs, Sizes DEF Write, SendReport, UsbSend, BytesOK
  <2> QED
    BY <2>1, <2>2, BytesKeep DEF EndpointsOK
<1>6. CASE Flush \/ FlushCounts
  BY <1>1, <1>3, <1>6 DEF Flush, FlushSelect, FlushCounts
<1>7. CASE SendLooks
  <2>1. UNCHANGED <<bank, packets>>
    BY <1>7 DEF SendLooks, coreVars
  <2> QED
    BY <1>7, <2>1, BytesLooks DEF EndpointsOK
<1>8. CASE SendFills
  <2>1. CASE ep = CDC_TX
    BY <1>8, <2>1, BytesFill
  <2>2. CASE ep = HID_TX
    <3>1. /\ BanksOK(HID_TX, Part) /\ part \in Part /\ n = 1 /\ len = 1
          /\ Len(bank[HID_TX]) \in Nat /\ Len(bank[HID_TX]) < BankSize
      BY <1>8, <2>2, Sizes, SendSpaceIs
         DEF ReportsOK, BanksOK, CallOK, SendFills, Part, Sending
    <3>2. <<part>> \in Seq(Part) /\ Len(<<part>>) = 1
      BY <3>1, OneItem
    <3>3. Fill(HID_TX, <<part>>, part \in {"body", "orphan"} /\ len = n)
      BY <1>8, <2>2, Sizes DEF SendFills, Chunk
    <3>4. Len(bank[HID_TX]) + Len(<<part>>) <= BankSize
      BY <3>1, <3>2, Sizes
    <3>5. EndpointsOK' /\ packets'[CDC_TX] = packets[CDC_TX] /\ bank'[CDC_TX] = bank[CDC_TX]
      <4>1. /\ EndpointsOK'
            /\ \A o \in InEP \ {HID_TX} : packets'[o] = packets[o] /\ bank'[o] = bank[o]
        BY <3>1, <3>2, <3>3, <3>4, Sizes, FilledIs
      <4> QED
        BY <4>1, Sizes
    <3>6. data' \in Nat /\ pc' # "send_fill" /\ ~(Sending' /\ ep' = CDC_TX)
      <4>1. AfterSend("body")
        BY <1>8, <3>1 DEF SendFills
      <4> QED
        BY <4>1, Sizes DEF AfterSend, UsbSend, Idle, Sending
    <3> QED
      BY <3>5, <3>6, BytesKeep
  <2> QED
    BY <2>1, <2>2, Sizes DEF CallOK
<1>9. CASE SendLooksAgain
  <2>1. UNCHANGED <<bank, packets>> /\ UNCHANGED <<ep, data>> /\ pc' = "send_space"
        /\ pc = "send_fill"
    BY <1>9 DEF SendLooksAgain, coreVars
  <2> QED
    BY <1>1, <2>1, BytesKeep DEF EndpointsOK, Sending
<1>10. CASE FlushReleases
  <2>1. pc' = "idle" /\ data' = data
    BY <1>10 DEF FlushReleases
  <2>2. CASE UENUM = CDC_TX
    <3>1. ReleaseTX(CDC_TX, bank[CDC_TX])
      BY <1>10, <2>2, Sizes DEF FlushReleases, FlushRelease
    <3> QED
      BY <2>1, <3>1, BytesRelease
  <2>3. CASE UENUM = HID_TX
    <3>1. /\ ReleaseTX(HID_TX, bank[HID_TX]) /\ BanksOK(HID_TX, Part)
          /\ bank[HID_TX] \in Seq(Part) /\ Len(bank[HID_TX]) <= BankSize
      <4>1. ReleaseTX(HID_TX, bank[HID_TX]) /\ BanksOK(HID_TX, Part)
        BY <1>10, <2>3, Sizes DEF FlushReleases, FlushRelease, ReportsOK
      <4>2. bank[HID_TX] \in Seq(Part) /\ Len(bank[HID_TX]) < BankSize
        BY <4>1 DEF BanksOK
      <4>3. Len(bank[HID_TX]) \in Nat
        BY <4>2, LenProperties
      <4> QED
        BY <4>1, <4>2, <4>3, Sizes
    <3>2. EndpointsOK' /\ packets'[CDC_TX] = packets[CDC_TX] /\ bank'[CDC_TX] = bank[CDC_TX]
      <4>1. CASE HasBank(HID_TX)
        <5>1. /\ EndpointsOK'
              /\ \A o \in InEP \ {HID_TX} : packets'[o] = packets[o] /\ bank'[o] = bank[o]
          BY <3>1, <4>1, Sizes, ReleasedIs
        <5> QED
          BY <5>1, Sizes
      <4>2. CASE ~HasBank(HID_TX)
        BY <3>1, <4>2 DEF ReleaseTX, EndpointsOK
      <4> QED
        BY <4>1, <4>2
    <3> QED
      BY <1>1, <2>1, <3>2, BytesKeep DEF Sending
  <2>4. CASE UENUM \notin InEP
    <3>1. UNCHANGED <<bank, packets>>
      BY <1>10, <2>4 DEF FlushReleases, FlushRelease
    <3> QED
      BY <1>1, <1>3, <2>1, <3>1
  <2> QED
    BY <2>2, <2>3, <2>4, Sizes
<1>11. CASE Reset \/ Configure
  <2>1. EmptyBanks /\ data' = 0 /\ UNCHANGED <<pc, ep, n>>
    BY <1>11 DEF Reset, EndOfReset, Configure, SetConfiguration, BanksLost
  <2>2. Len(bank[CDC_TX]) \in Nat
    BY UnsentIs DEF BytesOK
  <2> QED
    BY <1>1, <2>1, <2>2, Sizes, BytesEmpty
<1>12. CASE Frame
  <2>1. UNCHANGED <<pc, ep, n, data>>
    BY <1>12 DEF Frame, sendVars
  <2>2. ReleaseTX(CDC_TX, bank[CDC_TX]) \/ UNCHANGED <<packets, bank>>
    BY <1>12 DEF Frame, StartOfFrame
  <2> QED
    BY <1>2, <2>1, <2>2, BytesRelease
<1>13. CASE \/ OtherRequest
            \/ \E state \in 0 .. 1 : SetControlLineState(state)
            \/ \E rate \in {"1200", "other"} : SetLineCoding(rate)
  BY <1>2, <1>13 DEF OtherRequest, SetControlLineState, SetLineCoding, ControlRequest,
                     sendVars
<1>14. CASE WatchdogBites
  <2>1. EmptyBanks /\ data' = 0 /\ n' = 0 /\ pc' = "idle"
    BY <1>14 DEF WatchdogBites, Idle
  <2> QED
    BY <2>1, BytesEmpty
<1>15. CASE HostFetchesBytes
  <2>1. /\ BanksOK(CDC_TX, Int)' /\ EndpointsOK'
        /\ Unsent' = Numbers(0, Len(Unsent')) /\ Len(bank'[CDC_TX]) = Len(bank[CDC_TX])
        /\ Len(Unsent') \in Nat
        /\ Len(Unsent) - Len(Head(packets[CDC_TX])) = Len(Unsent')
    BY <1>15, UnsentFetched DEF BytesOK
  <2>2. /\ data' = IF ep = CDC_TX /\ pc \in {"send_space", "send_fill"}
                   THEN data - Len(Head(packets[CDC_TX])) ELSE 0
        /\ UNCHANGED <<pc, ep, n>>
    BY <1>15 DEF HostFetchesBytes
  <2>3. /\ data' \in Nat
        /\ Sending' /\ ep' = CDC_TX => data' = Len(Unsent')
        /\ pc' = "send_fill" /\ ep' = CDC_TX => n' + Len(bank'[CDC_TX]) <= BankSize
    BY <1>1, <2>1, <2>2 DEF Sending
  <2> QED
    BY <2>1, <2>3 DEF BytesOK
<1>16. CASE HostFetchesReport
  <2>1. /\ packets'[CDC_TX] = packets[CDC_TX] /\ bank'[CDC_TX] = bank[CDC_TX] /\ EndpointsOK'
        /\ UNCHANGED <<pc, ep, n, data>>
    BY <1>16, Sizes DEF HostFetchesReport, EndpointsOK, sendVars
  <2> QED
    BY <1>1, <2>1, BytesKeep DEF Sending
<1>17. CASE (\E k \in 0 .. BankSize : HostSends(k)) \/ UNCHANGED vars
  BY <1>2, <1>17 DEF HostSends, vars, coreVars, sendVars
<1> QED
  BY <1>4, <1>5, <1>6, <1>7, <1>8, <1>9, <1>10, <1>11, <1>12, <1>13, <1>14, <1>15,
     <1>16, <1>17 DEF Next, SendCall, FlushCall

-----------------------------------------------------------------------------
(* The reports *)

ReportPacket == {<<"id", "body">>, <<"orphan">>, << >>}

\* The banks of the reports stay; a report whose id is in the bank stays under
\* way, and no flush() comes to the bank.
LEMMA ReportsKeep ==
  ASSUME ReportsOK, packets'[HID_TX] = packets[HID_TX], bank'[HID_TX] = bank[HID_TX],
         bank[HID_TX] = << >> => part' # "body",
         bank[HID_TX] # << >> => /\ enabled' /\ UENUM' # HID_TX
                                 /\ \/ part' = "body"
                                    \/ part' = "bytes" /\ ~_usbConfiguration'
  PROVE  ReportsOK'
<1>1. BanksOK(HID_TX, Part)'
  BY BanksSame, Sizes DEF ReportsOK
<1>2. ReportsWhole'
  BY DEF ReportsOK, ReportsWhole
<1>3. <<"id">> # << >>
  BY OneItem, EmptySeq
<1> QED
  BY <1>1, <1>2, <1>3 DEF ReportsOK

LEMMA ReportsSame ==
  ASSUME ReportsOK, packets'[HID_TX] = packets[HID_TX], bank'[HID_TX] = bank[HID_TX],
         UNCHANGED <<part, enabled, _usbConfiguration>>,
         UENUM' = UENUM \/ UENUM' # HID_TX
  PROVE  ReportsOK'
BY ReportsKeep DEF ReportsOK

\* The banks of the reports are emptied, or a report leaves nothing in the bank.
LEMMA ReportsNone ==
  ASSUME BanksOK(HID_TX, Part)', ReportsWhole', bank'[HID_TX] = << >>, part' # "body"
  PROVE  ReportsOK'
BY DEF ReportsOK

LEMMA ReportsEmpty ==
  ASSUME EmptyBanks, part' # "body"
  PROVE  ReportsOK'
<1>1. BanksOK(HID_TX, Part)' /\ bank'[HID_TX] = << >> /\ packets'[HID_TX] = << >>
  BY EmptyBanksOK, Sizes
<1>2. ReportsWhole'
  BY <1>1 DEF ReportsWhole
<1> QED
  BY <1>1, <1>2, ReportsNone

\* A packet of the right form joins the released ones.
LEMMA ReportsJoin ==
  ASSUME ReportsOK, NEW content \in ReportPacket,
         packets'[HID_TX] = Append(packets[HID_TX], content)
  PROVE  ReportsWhole'
<1> DEFINE p == packets[HID_TX]
<1>1. p \in Seq(Seq(Part)) /\ \A i \in 1 .. Len(p) : p[i] \in ReportPacket
  BY DEF ReportsOK, ReportsWhole, BanksOK, ReportPacket
<1>2. content \in Seq(Part)
  BY EmptySeq, OneItem, TwoItems DEF ReportPacket, Part
<1> HIDE DEF p
<1> DEFINE q == Append(p, content)
<1>3. /\ Len(q) = Len(p) + 1 /\ q[Len(p) + 1] = content
      /\ \A i \in 1 .. Len(p) : q[i] = p[i]
  BY <1>1, <1>2, AppendProperties
<1>4. Len(p) \in Nat
  BY <1>1, LenProperties
<1> HIDE DEF q
<1>5. \A i \in 1 .. Len(q) : q[i] \in ReportPacket
  BY <1>1, <1>3, <1>4
<1>6. packets'[HID_TX] = q
  BY DEF p, q
<1> QED
  BY <1>5, <1>6 DEF ReportsWhole, ReportPacket

\* SendReport's call looks for space.  It does not give up while the id is in
\* the bank, as there is space behind it.
LEMMA ReportsLook ==
  ASSUME CallOK, BytesOK, ReportsOK, SendLooks
  PROVE  ReportsOK'
<1>1. UNCHANGED <<_usbConfiguration, enabled, UENUM, bank, packets>>
  BY DEF SendLooks, coreVars
<1>2. CASE part' = part
  BY <1>1, <1>2, ReportsSame
<1>3. CASE part' # part
  <2>1. SendSpace(ep) \in Nat /\ (SendSpace(ep) > 0 <=> HasBank(ep))
    BY SendSpaceIs
  <2>2. AfterSend("orphan") /\ ~HasBank(ep)
    <3> DEFINE space == SendSpace(ep)
    <3>1. space \in Nat /\ (space > 0 <=> HasBank(ep))
      BY <2>1
    <3>2. space > 0 => part' = part
      BY DEF SendLooks, space
    <3>3. space = 0 /\ timeout > 1 => part' = part
      BY DEF SendLooks, space
    <3>4. ~(space > 0) /\ ~(space = 0 /\ timeout > 1)
      BY <1>3, <3>2, <3>3
    <3>5. AfterSend("orphan")
      BY <3>4 DEF SendLooks, space
    <3> QED
      BY <3>1, <3>4, <3>5
  <2>3. part' \in {"orphan", "bytes"}
    BY <2>2 DEF AfterSend, UsbSend, Idle
  <2>4. CASE ep = CDC_TX
    BY <1>3, <2>2, <2>4, Sizes DEF CallOK, AfterSend, Idle
  <2>5. CASE ep = HID_TX
    <3>1. bank[HID_TX] = << >>
      <4>1. SUFFICES ASSUME bank[HID_TX] # << >> PROVE FALSE
        OBVIOUS
      <4>2. enabled /\ Len(packets[HID_TX]) <= 2 /\ Len(packets[HID_TX]) # 2
            /\ packets[HID_TX] \in Seq(Seq(Part))
        BY <4>1 DEF ReportsOK, BanksOK
      <4>3. Len(packets[HID_TX]) \in Nat
        BY <4>2, LenProperties
      <4>4. Len(packets[HID_TX]) < 2
        BY ONLY <4>2, <4>3, UpToTwo
      <4> QED
        BY <2>2, <2>5, <4>2, <4>4 DEF HasBank
    <3> QED
      BY <1>1, <2>3, <3>1, ReportsKeep
  <2> QED
    BY <2>4, <2>5, Sizes DEF CallOK
<1> QED
  BY <1>2, <1>3

\* The id stays in the bank until its body comes, which completes the report.
LEMMA ReportsFill ==
  ASSUME CallOK, EndpointsOK, BytesOK, ReportsOK, SendFills
  PROVE  ReportsOK'
<1>1. CASE ep = CDC_TX
  <2>1. /\ packets'[HID_TX] = packets[HID_TX] /\ bank'[HID_TX] = bank[HID_TX]
        /\ part' = part /\ UENUM' = UENUM /\ UNCHANGED <<_usbConfiguration, enabled>>
    BY <1>1, BytesFill
  <2> QED
    BY <2>1, ReportsSame
<1>2. CASE ep = HID_TX
  <2> DEFINE b == bank[HID_TX]
             content == b \o <<part>>
             release == part \in {"body", "orphan"} /\ len = n
  <2>1. /\ BanksOK(HID_TX, Part) /\ part \in Part /\ n = 1 /\ len = 1
        /\ Len(b) \in Nat /\ Len(b) < BankSize /\ UENUM = AnyEP
    BY <1>2, Sizes, SendSpaceIs
       DEF ReportsOK, BanksOK, CallOK, SendFills, Part, Sending
  <2>2. <<part>> \in Seq(Part) /\ Len(<<part>>) = 1
    BY <2>1, OneItem
  <2>3. Fill(HID_TX, <<part>>, release) /\ AfterSend("body")
    BY <1>2, <2>1, Sizes DEF SendFills, Chunk
  <2>4. Len(b) + Len(<<part>>) <= BankSize
    BY <2>1, <2>2, Sizes
  <2>5. UENUM' = AnyEP /\ UNCHANGED <<_usbConfiguration, enabled>> /\ enabled
    BY <2>1, <2>3 DEF Fill, ReadWriteAllowed, HasBank
  <2>6. content \in Seq(Part) /\ (b = << >> => content = <<part>>)
    BY <2>1, <2>2, ConcatProperties, ConcatEmptySeq DEF BanksOK
  <2>7. CASE part = "id"
    <3>1. b = << >> /\ content = <<"id">> /\ Len(content) = 1 /\ ~release
      BY <2>2, <2>6, <2>7 DEF ReportsOK
    <3>2. Fill(HID_TX, <<part>>, FALSE)
      BY <2>3, <3>1 DEF Fill
    <3> HIDE DEF release
    <3>3. /\ BanksOK(HID_TX, Part)'
          /\ \/ Len(content) >= BankSize
             \/ packets'[HID_TX] = packets[HID_TX] /\ bank'[HID_TX] = content
      BY <2>1, <2>2, <2>4, <3>2, Sizes, FilledIs
    <3>4. packets'[HID_TX] = packets[HID_TX] /\ bank'[HID_TX] = <<"id">>
      BY <3>1, <3>3, Sizes
    <3>5. part' = "body" \/ (part' = "bytes" /\ ~_usbConfiguration')
      BY <2>3, <2>5, <2>7 DEF AfterSend, UsbSend, Idle
    <3>6. ReportsWhole'
      BY <3>4 DEF ReportsOK, ReportsWhole
    <3> QED
      BY <2>5, <3>3, <3>4, <3>5, <3>6, Sizes DEF ReportsOK
  <2>8. CASE part = "body" \/ part = "orphan"
    <3>1. content \in ReportPacket /\ release
      <4>1. release
        BY <2>1, <2>8
      <4>2. part = "body" => b = <<"id">>
        BY DEF ReportsOK
      <4>3. part = "orphan" => b = << >>
        BY DEF ReportsOK
      <4>4. <<"id">> \o <<"body">> = <<"id", "body">> /\ << >> \o <<"orphan">> = <<"orphan">>
        <5>1. "id" \in Part /\ "body" \in Part /\ "orphan" \in Part
          BY DEF Part
        <5> QED
          BY <5>1, TwoItems
      <4> QED
        BY <2>8, <4>1, <4>2, <4>3, <4>4 DEF ReportPacket
    <3>2. Fill(HID_TX, <<part>>, TRUE)
      BY <2>3, <3>1 DEF Fill
    <3> HIDE DEF release
    <3>3. /\ BanksOK(HID_TX, Part)' /\ bank'[HID_TX] = << >>
          /\ packets'[HID_TX] = Append(packets[HID_TX], content)
      BY <2>1, <2>2, <2>4, <3>2, Sizes, FilledIs
    <3>4. part' = "bytes"
      BY <2>3, <2>8 DEF AfterSend, Idle
    <3>5. ReportsWhole'
      BY <3>1, <3>3, ReportsJoin
    <3> QED
      BY <3>3, <3>4, <3>5, ReportsNone
  <2> QED
    BY <2>1, <2>7, <2>8 DEF Part
<1> QED
  BY <1>1, <1>2, Sizes DEF CallOK

\* flush() finds the reports' bank empty, if a handler brought it there.
LEMMA ReportsFlush ==
  ASSUME CallOK, EndpointsOK, BytesOK, ReportsOK, FlushReleases
  PROVE  ReportsOK'
<1>1. /\ UENUM' = AnyEP /\ AnyEP # HID_TX
      /\ UNCHANGED <<_usbConfiguration, enabled, part>>
  BY Sizes DEF FlushReleases, FlushRelease
<1>2. CASE UENUM = CDC_TX
  <2>1. /\ ReleaseTX(CDC_TX, bank[CDC_TX]) /\ pc' = "idle" /\ data' = data
    BY <1>2, Sizes DEF FlushReleases, FlushRelease
  <2>2. packets'[HID_TX] = packets[HID_TX] /\ bank'[HID_TX] = bank[HID_TX]
    BY <2>1, BytesRelease
  <2> QED
    BY <1>1, <2>2, ReportsSame
<1>3. CASE UENUM = HID_TX
  <2>1. bank[HID_TX] = << >> /\ part # "body" /\ BanksOK(HID_TX, Part)
    BY <1>3 DEF ReportsOK
  <2>2. ReleaseTX(HID_TX, << >>)
    BY <1>3, <2>1, Sizes DEF FlushReleases, FlushRelease
  <2>3. CASE HasBank(HID_TX)
    <3>1. << >> \in Seq(Part) /\ Len(<< >>) = 0
      BY EmptySeq
    <3>2. Len(<< >>) <= BankSize
      BY <3>1, Sizes
    <3>3. /\ BanksOK(HID_TX, Part)' /\ bank'[HID_TX] = << >>
          /\ packets'[HID_TX] = Append(packets[HID_TX], << >>)
      BY <2>1, <2>2, <2>3, <3>1, <3>2, Sizes, ReleasedIs
    <3>4. ReportsWhole'
      BY <3>3, ReportsJoin DEF ReportPacket
    <3> QED
      BY <1>1, <2>1, <3>3, <3>4, ReportsNone
  <2>4. CASE ~HasBank(HID_TX)
    BY <1>1, <2>2, <2>4, ReportsSame DEF ReleaseTX
  <2> QED
    BY <2>3, <2>4
<1>4. CASE UENUM \notin InEP
  BY <1>1, <1>4, ReportsSame DEF FlushReleases, FlushRelease
<1> QED
  BY <1>2, <1>3, <1>4, Sizes

LEMMA ReportsFetched ==
  ASSUME EndpointsOK, ReportsOK, HostFetchesReport
  PROVE  ReportsOK'
<1> DEFINE p == packets[HID_TX]
           t == Tail(p)
<1>1. /\ p \in Seq(Seq(Part)) /\ p # << >> /\ Len(p) <= 2
      /\ \A i \in 1 .. Len(p) : Len(p[i]) <= BankSize
      /\ \A i \in 1 .. Len(p) : p[i] \in ReportPacket
      /\ bank[HID_TX] \in Seq(Part) /\ Len(bank[HID_TX]) < BankSize
  BY DEF ReportsOK, BanksOK, ReportsWhole, ReportPacket, HostFetchesReport
<1>2. packets'[HID_TX] = t /\ bank'[HID_TX] = bank[HID_TX]
  BY Sizes DEF HostFetchesReport, EndpointsOK
<1> HIDE DEF p
<1>3. /\ t \in Seq(Seq(Part)) /\ Len(t) = Len(p) - 1
      /\ \A i \in 1 .. Len(t) : t[i] = p[i + 1]
  BY <1>1, HeadTailProperties
<1> HIDE DEF t
<1>4. Len(p) \in {1, 2}
  <2>1. Len(p) \in {0, 1, 2} /\ (p = << >> <=> Len(p) = 0)
    BY <1>1, TwoBanks
  <2> QED
    BY <1>1, <2>1
<1>5. Len(t) <= 2 /\ Len(t) # 2
  <2>1. Len(t) = 0 \/ Len(t) = 1
    BY <1>3, <1>4
  <2> QED
    BY <2>1
<1>6. \A i \in 1 .. Len(t) : Len(t[i]) <= BankSize /\ t[i] \in ReportPacket
  BY <1>1, <1>3, <1>4
<1>7. BanksOK(HID_TX, Part)'
  BY <1>1, <1>2, <1>3, <1>5, <1>6, Sizes, BanksFrom
<1>8. ReportsWhole'
  BY <1>2, <1>6 DEF ReportsWhole, ReportPacket
<1>9. UNCHANGED <<_usbConfiguration, enabled, UENUM, part>>
  BY DEF HostFetchesReport, sendVars
<1> QED
  BY <1>2, <1>7, <1>8, <1>9 DEF ReportsOK

LEMMA ReportsNext ==
  ASSUME CallOK, EndpointsOK, BytesOK, ReportsOK, [Next]_vars
  PROVE  ReportsOK'
<1>1. ASSUME UNCHANGED <<bank, packets>>, UNCHANGED <<part, enabled, _usbConfiguration>>,
             UENUM' = UENUM \/ UENUM' # HID_TX
      PROVE  ReportsOK'
  BY <1>1, ReportsSame
<1>2. CASE Begin \/ Available \/ Peek \/ ReadPeeked \/ Read
  BY <1>1, <1>2 DEF Begin, Available, Peek, ReadPeeked, Read, Recv, coreVars, sendVars
<1>3. CASE (\E size \in 1 .. MaxWrite : Write(size)) \/ SendReport
  <2>1. /\ UNCHANGED <<_usbConfiguration, enabled, UENUM, bank, packets>>
        /\ _usbConfiguration /\ pc = "idle" /\ part' \in {"bytes", "id"}
    BY <1>3 DEF Write, SendReport, UsbSend, coreVars
  <2>2. part = "bytes"
    BY <2>1, Sizes DEF CallOK, Sending
  <2>3. bank[HID_TX] = << >>
    BY <2>1, <2>2 DEF ReportsOK
  <2> QED
    BY <2>1, <2>3, ReportsKeep
<1>4. CASE Flush \/ FlushCounts
  <2>1. CDC_TX # HID_TX /\ AnyEP # HID_TX
    BY Sizes
  <2> QED
    BY <1>1, <1>4, <2>1 DEF Flush, FlushSelect, FlushCounts
<1>5. CASE SendLooks
  BY <1>5, ReportsLook
<1>6. CASE SendFills
  BY <1>6, ReportsFill
<1>7. CASE SendLooksAgain
  BY <1>1, <1>7 DEF SendLooksAgain, coreVars
<1>8. CASE FlushReleases
  BY <1>8, ReportsFlush
<1>9. CASE Reset \/ Configure
  <2>1. EmptyBanks /\ part' # "body"
    BY <1>9 DEF Reset, EndOfReset, Configure, SetConfiguration, BanksLost
  <2> QED
    BY <2>1, ReportsEmpty
<1>10. CASE Frame
  <2>1. /\ UNCHANGED <<pc, ep, n, data, part, enabled, _usbConfiguration>>
        /\ UENUM' = UENUM \/ UENUM' # HID_TX
    BY <1>10, Sizes DEF Frame, StartOfFrame, sendVars, Select
  <2>2. ReleaseTX(CDC_TX, bank[CDC_TX]) \/ UNCHANGED <<packets, bank>>
    BY <1>10 DEF Frame, StartOfFrame
  <2>3. packets'[HID_TX] = packets[HID_TX] /\ bank'[HID_TX] = bank[HID_TX]
    BY <2>1, <2>2, BytesRelease
  <2> QED
    BY <2>1, <2>3, ReportsSame
<1>11. CASE \/ OtherRequest
            \/ \E state \in 0 .. 1 : SetControlLineState(state)
            \/ \E rate \in {"1200", "other"} : SetLineCoding(rate)
  <2>1. ControlRequest /\ part' = part
    BY <1>11 DEF OtherRequest, SetControlLineState, SetLineCoding, sendVars
  <2>2. UENUM' = UENUM \/ UENUM' # HID_TX
    BY <2>1, Sizes DEF ControlRequest, Select
  <2> QED
    BY <1>1, <2>1, <2>2 DEF ControlRequest
<1>12. CASE WatchdogBites
  BY <1>12, ReportsEmpty DEF WatchdogBites, Idle
<1>13. CASE HostFetchesBytes
  <2>1. /\ packets'[HID_TX] = packets[HID_TX] /\ bank'[HID_TX] = bank[HID_TX]
    BY <1>13, UnsentFetched DEF BytesOK
  <2> QED
    BY <1>13, <2>1, ReportsSame DEF HostFetchesBytes
<1>14. CASE HostFetchesReport
  BY <1>14, ReportsFetched
<1>15. CASE (\E k \in 0 .. BankSize : HostSends(k)) \/ UNCHANGED vars
  BY <1>1, <1>15 DEF HostSends, vars, coreVars, sendVars
<1> QED
  BY <1>2, <1>3, <1>4, <1>5, <1>6, <1>7, <1>8, <1>9, <1>10, <1>11, <1>12, <1>13,
     <1>14, <1>15 DEF Next, SendCall, FlushCall

-----------------------------------------------------------------------------
(* The theorems *)

\* What host and sketch send, and the call that is under way, in one invariant.
Ports == LineOK /\ OutOK /\ CallOK /\ EndpointsOK /\ BytesOK /\ ReportsOK

LEMMA PortsInit ==
  ASSUME Init
  PROVE  Ports
<1>1. LineOK
  <2>1. /\ _usbConfiguration \in BOOLEAN /\ enabled \in BOOLEAN /\ watchdog \in BOOLEAN
        /\ lineState = 0 /\ dwDTERate = "other"
    BY DEF Init, CoreInit
  <2> QED
    BY <2>1 DEF LineOK
<1>2. CallOK
  BY Sizes DEF Init, CoreInit, CallOK, PC, Sending
<1>3. /\ EndpointsOK
      /\ \A e \in InEP : bank[e] = << >> /\ packets[e] = << >>
  BY DEF Init, CoreInit, EndpointsOK
<1>4. ASSUME NEW e \in InEP, NEW Item PROVE BanksOK(e, Item)
  <2> DEFINE o == << >>
  <2>1. o \in Seq(Item) /\ o \in Seq(Seq(Item)) /\ Len(o) = 0
    BY EmptySeq
  <2>2. bank[e] = o /\ packets[e] = o
    BY <1>3
  <2> HIDE DEF o
  <2>3. Len(o) <= 2 /\ Len(o) < BankSize /\ Len(o) # 2 /\ 1 .. Len(o) = {}
    BY <2>1, Sizes
  <2> QED
    BY <2>1, <2>2, <2>3 DEF BanksOK
<1>5. Unsent = << >>
  <2>1. Flat(<< >>) = << >> /\ << >> \o << >> = << >>
    BY OneNumber, ConcatEmptySeq DEF Flat
  <2> QED
    BY <1>3, <2>1, Sizes DEF Unsent
<1>6. BytesOK
  BY <1>4, <1>5, OneNumber, Sizes DEF BytesOK, Init, Sending
<1>7. ReportsOK
  <2>1. ReportsWhole
    BY <1>3, Sizes DEF ReportsWhole
  <2> QED
    BY <1>3, <1>4, <2>1, Sizes DEF ReportsOK, Init
<1> QED
  BY <1>1, <1>2, <1>3, <1>6, <1>7, OutInit DEF Ports

LEMMA PortsNext ==
  ASSUME Ports, [Next]_vars
  PROVE  Ports'
BY LineNext, OutNext, CallNext, BytesNext, ReportsNext DEF Ports

LEMMA PortsInv == Spec => []Ports
<1>1. Init => Ports
  BY PortsInit
<1>2. Ports /\ [Next]_vars => Ports'
  BY PortsNext
<1> QED
  BY <1>1, <1>2, PTL DEF Spec

LEMMA PortsTypes ==
  ASSUME Ports
  PROVE  TypeOK
<1>1. /\ {_usbConfiguration, enabled, watchdog} \subseteq BOOLEAN
      /\ lineState \in 0 .. 2 /\ dwDTERate \in {"1200", "other"}
  BY DEF Ports, LineOK
<1>2. /\ UENUM \in {0, CDC_TX, HID_TX, AnyEP}
      /\ pc \in PC /\ ep \in InEP /\ part \in {"bytes", "id", "body", "orphan"}
      /\ len \in 0 .. MaxWrite /\ n \in 0 .. len /\ timeout \in 0 .. SendTries
  BY DEF Ports, CallOK
<1>3. /\ Len(received) <= 2
      /\ peek_buffer \in {-1, 0} /\ promised \in 0 .. BankSize + 1
  BY DEF Ports, OutOK
<1>4. data \in Nat
  BY DEF Ports, BytesOK
<1>5. ASSUME NEW e \in InEP, NEW Item, BanksOK(e, Item)
      PROVE  /\ Len(packets[e]) <= 2
             /\ Len(bank[e]) <= (IF Len(packets[e]) = 2 THEN 0 ELSE BankSize - 1)
             /\ \A i \in 1 .. Len(packets[e]) : Len(packets[e][i]) <= BankSize
  <2>1. /\ Len(packets[e]) <= 2 /\ Len(bank[e]) < BankSize /\ bank[e] \in Seq(Item)
        /\ Len(packets[e]) = 2 => bank[e] = << >>
        /\ \A i \in 1 .. Len(packets[e]) : Len(packets[e][i]) <= BankSize
    BY <1>5 DEF BanksOK
  <2> DEFINE l == Len(bank[e])
  <2>2. l \in Nat
    BY <2>1, LenProperties
  <2>3. Len(packets[e]) = 2 => l = 0
    BY <2>1, OneNumber
  <2>4. l < BankSize
    BY <2>1
  <2> HIDE DEF l
  <2>5. l <= BankSize - 1
    BY <2>2, <2>4, Sizes
  <2>6. l <= IF Len(packets[e]) = 2 THEN 0 ELSE BankSize - 1
    BY <2>2, <2>3, <2>5
  <2> QED
    BY <2>1, <2>6 DEF l
<1>6. BanksOK(CDC_TX, Int) /\ BanksOK(HID_TX, Part)
  BY DEF Ports, BytesOK, ReportsOK
<1>7. \A e \in InEP : /\ Len(packets[e]) <= 2
                      /\ Len(bank[e]) <= (IF Len(packets[e]) = 2 THEN 0 ELSE BankSize - 1)
                      /\ \A i \in 1 .. Len(packets[e]) : Len(packets[e][i]) <= BankSize
  BY <1>5, <1>6, Sizes
<1> QED
  BY <1>1, <1>2, <1>3, <1>4, <1>7 DEF TypeOK

\* Every variable keeps its type: above all, no bank ever holds more than it has
\* room for, and no IN endpoint has more than its two banks.
THEOREM UsbTypes == Spec => []TypeOK
<1>1. Ports => TypeOK
  BY PortsTypes
<1> QED
  BY <1>1, PortsInv, PTL

\* Bytes reach the host and the sketch once and in order, although the start of
\* a frame may release the bank between USB_Send()'s look and its locked part,
\* and peek() keeps one byte outside the banks.
THEOREM UsbBytesInOrder == Spec => []InOrder
<1>1. Ports => InOrder
  BY DEF Ports, OutOK, BytesOK, InOrder
<1> QED
  BY <1>1, PortsInv, PTL

\* What available() or peek() have told can be read, unless begin() or a reset
\* came in between.
THEOREM UsbAnswersHold == Spec => []AnswersHold
<1>1. Ports => AnswersHold
  BY DEF Ports, OutOK
<1> QED
  BY <1>1, PortsInv, PTL

\* A report goes out whole; its body goes alone only if the host fetched too
\* slowly for the id, or there was a reset.
THEOREM UsbReportsWhole == Spec => []ReportsWhole
<1>1. Ports => ReportsWhole
  BY DEF Ports, ReportsOK
<1> QED
  BY <1>1, PortsInv, PTL
============================================================================
