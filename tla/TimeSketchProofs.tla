-------------------------- MODULE TimeSketchProofs --------------------------
(***************************************************************************)
(* Proofs about TimeSketch, for a timer and counters of any width, any     *)
(* delay and time-out, and handlers that keep interrupts off for any time. *)
(***************************************************************************)
EXTENDS TimeSketch, TLAPS

T == TimerTicks
C == CountMod
F == MillisMod * FRACT_MAX
P == PerOverflow
D == DelayMod

-----------------------------------------------------------------------------
(* The inductive invariants *)

\* The overflow that waits for its handler.
Pending == IF tov THEN 1 ELSE 0

\* What timer 0 tells: millis() in 1 / FRACT_MAX ms, and micros() in ticks as
\* if the pending overflow had been counted.
Fraction == timer0_millis * FRACT_MAX + timer0_fract
Clock == timer0_overflow_count * T + tcnt + Pending * T

\* q overflows since the true time was last 0; all but the pending one counted.
Exact ==
  ~lost =>
    \E q, i, j \in Int :
      /\ now = q * T + tcnt
      /\ timer0_overflow_count = q - Pending + i * C
      /\ Fraction = (q - Pending) * P + j * F

\* What micros() has read so far is at most a tick old.
Reading ==
  /\ ticked => InMicros
  /\ InMicros => m = timer0_overflow_count /\ (tov => tcnt = 0 /\ ticked)
  /\ pc = "micros_flag" =>
       \/ t = tcnt
       \/ ticked /\ ~tov /\ tcnt = t + 1
       \/ tov /\ t = T - 1

\* Ticks that waited has counted, unless it stands at its bound.
Reached(n) == waited >= n \/ waited = MaxWait

\* a and b are the same in the 16 bits that delay() works with.
Same(a, b) == \E i \in Int : a = b + i * D

\* z ticks have been counted since a, those of a pending overflow among them.
Since(a, z) == Same(Clock, a + z) /\ (tov => z >= tcnt)

\* What is over of the delay, in ticks.
Over == (DelayMs - ms) * TicksPerMs

\* Where delay() is, in the call of micros() before a round of its loop.
Measures(next) ==
  pc \in {"micros", "micros_t", "micros_flag"} /\ caller = next

\* Who waits for delay() knows how long: z ticks since micros() read the time.
DelayBegins ==
  /\ Measures("delay_start") \/ pc = "delay_start" => ms = DelayMs
  /\ pc = "delay_start" /\ ms > 0 =>
       \E z \in Nat : Since(Micros, z) /\ Reached(z)

\* x ticks since the millisecond under way began; a lost overflow takes its
\* ticks from x, never more than x has.
DelayMeasures ==
  Measures("delay_poll") =>
    \E x \in Nat : Since(start, x) /\ (ticked => x >= 1) /\ Reached(x + Over)

\* y of them when micros() read the time, and z since then.
DelayPolls ==
  pc = "delay_poll" =>
    \E y, z \in Nat : /\ Same(Micros, start + y)
                      /\ Since(Micros, z)
                      /\ Reached(y + z + Over)

\* The delay is under way, and a tick in micros() is waited for as well.
DelayGoing ==
  /\ Measures("delay_poll") \/ pc = "delay_poll" => ms > 0
  /\ ms <= DelayMs
  /\ ticked /\ ms > 0 => Reached(1)

\* o overflows handled since timedRead() was called, f into a millisecond.
TimedReadWaits ==
  pc \in {"timed_read", "timed_check"} =>
    \E o \in Nat, f \in 0 .. FRACT_MAX - 1, j \in Int :
      /\ Fraction = start * FRACT_MAX + f + o * P + j * F
      /\ Reached((o + Pending) * T + tcnt - (T - 1))

Types ==
  /\ TimeTypeOK
  /\ pc \in PC /\ caller \in PC /\ ticked \in BOOLEAN
  /\ held \in Nat /\ waited \in Nat
  /\ pc \in {"micros", "micros_t", "micros_flag"} =>
       caller \in {"micros_end", "delay_start", "delay_poll"}

Delay == DelayBegins /\ DelayMeasures /\ DelayPolls /\ DelayGoing

Keeps == Types /\ Exact /\ Reading /\ Delay /\ TimedReadWaits

-----------------------------------------------------------------------------
(* Arithmetic *)

\* The plain part of what is assumed of the timer.
LEMMA Sizes ==
  /\ T \in Nat \ {0} /\ C \in Nat \ {0} /\ MILLIS_INC \in Nat \ {0}
  /\ FRACT_MAX \in Nat \ {0} /\ MillisMod \in Nat \ {0}
  /\ TicksPerMs \in Nat \ {0} /\ D \in Nat \ {0} /\ NowMod \in Nat \ {0}
  /\ FRACT_INC \in 0 .. FRACT_MAX - 1
  /\ {DelayMs, _timeout, HoldTicks, MaxWait} \subseteq Nat
BY TimerAssumption, WaitAssumption DEF T, C, D

\* Products of numbers are numbers, and a multiple is no less than one of them.
LEMMA Products ==
  ASSUME NEW a \in Int, NEW b \in Int
  PROVE  /\ a * b \in Int
         /\ a >= 0 /\ b >= 0 => a * b >= 0
         /\ a > 0 /\ b > 0 => a * b > 0 /\ a * b >= b
<1>1. a * b \in Int
  OBVIOUS
<1>2. ASSUME a >= 0, b >= 0 PROVE a * b >= 0
  BY <1>2
<1>3. ASSUME a > 0, b > 0 PROVE a * b > 0 /\ a * b >= b
  <2>1. (a - 1) * b >= 0
    BY <1>3
  <2>2. a * b = (a - 1) * b + b
    OBVIOUS
  <2> DEFINE x == a * b
             y == (a - 1) * b
  <2>3. x \in Int /\ y \in Int /\ y >= 0 /\ x = y + b
    BY <2>1, <2>2
  <2> HIDE DEF x, y
  <2>4. x > 0 /\ x >= b
    BY <1>3, <2>3
  <2> QED
    BY <2>4 DEF x
<1> QED
  BY <1>1, <1>2, <1>3

\* A number is its remainder and a multiple of the divisor.
LEMMA Split ==
  ASSUME NEW k \in Int, NEW d \in Nat \ {0}
  PROVE  /\ k % d \in 0 .. d - 1
         /\ \E q \in Int : k = q * d + (k % d)
<1>1. k % d \in 0 .. d - 1 /\ k \div d \in Int /\ k = d * (k \div d) + (k % d)
  OBVIOUS
<1>2. d * (k \div d) = (k \div d) * d
  BY <1>1
<1> QED
  BY <1>1, <1>2

\* Two numbers below d that are multiples of d apart are the same.
LEMMA OneRemainder ==
  ASSUME NEW d \in Nat \ {0}, NEW r \in 0 .. d - 1, NEW s \in 0 .. d - 1,
         NEW i \in Int, r = s + i * d
  PROVE  r = s
<1> DEFINE x == i * d
<1>1. x \in Int /\ r = s + x
  OBVIOUS
<1>2. ASSUME i > 0 PROVE x >= d
  BY <1>2, Products
<1>3. ASSUME i < 0 PROVE x <= -d
  <2>1. -i \in Int /\ -i > 0
    BY <1>3
  <2>2. (-i) * d >= d
    BY <2>1, Products
  <2>3. (-i) * d = -x
    OBVIOUS
  <2>4. ASSUME NEW y \in Int, y >= d, y = -x PROVE x <= -d
    BY <1>1, <2>4
  <2> QED
    BY <1>1, <2>2, <2>3, <2>4
<1>4. ASSUME i = 0 PROVE x = 0
  BY <1>4
<1> HIDE DEF x
<1> QED
  BY <1>1, <1>2, <1>3, <1>4

\* Numbers that are multiples of d apart have the same remainder.
LEMMA SameRemainder ==
  ASSUME NEW d \in Nat \ {0}, NEW a \in Int, NEW b \in Int, NEW i \in Int,
         a = b + i * d
  PROVE  a % d = b % d
<1>1. PICK q \in Int : a = q * d + (a % d)
  BY Split
<1>2. PICK r \in Int : b = r * d + (b % d)
  BY Split
<1> DEFINE x == a % d
           y == b % d
<1>3. x \in 0 .. d - 1 /\ y \in 0 .. d - 1
  BY Split
<1>4. a = q * d + x /\ b = r * d + y
  BY <1>1, <1>2
<1> HIDE DEF x, y
<1>5. x = y + (r + i - q) * d
  BY <1>3, <1>4
<1>6. x = y
  BY <1>3, <1>5, OneRemainder
<1> QED
  BY <1>6 DEF x, y

\* A number below d is the remainder of all that are multiples of d away.
LEMMA RemainderIs ==
  ASSUME NEW d \in Nat \ {0}, NEW a \in Int, NEW r \in 0 .. d - 1, NEW i \in Int,
         a = r + i * d
  PROVE  a % d = r
<1>1. PICK q \in Int : a = q * d + (a % d)
  BY Split
<1> DEFINE x == a % d
<1>2. x \in 0 .. d - 1 /\ a = q * d + x
  BY <1>1, Split
<1> HIDE DEF x
<1>3. x = r + (i - q) * d
  BY <1>2
<1>4. x = r
  BY <1>2, <1>3, OneRemainder
<1> QED
  BY <1>4 DEF x

\* A multiple of d divided by d.
LEMMA Quotient ==
  ASSUME NEW d \in Nat \ {0}, NEW k \in Int
  PROVE  (k * d) \div d = k
<1> DEFINE x == k * d
           q == x \div d
<1>1. x \in Int
  OBVIOUS
<1>2. x % d = 0
  <2>1. x = 0 + k * d
    BY <1>1
  <2> QED
    BY <1>1, <2>1, RemainderIs
<1>3. q \in Int /\ x = d * q + (x % d)
  BY <1>1
<1>4. k * d = q * d
  BY <1>2, <1>3
<1> HIDE DEF q
<1>5. (k - q) * d = 0
  BY <1>3, <1>4
<1>6. k - q = 0
  <2>1. 0 = 0 + (k - q) * d
    BY <1>5
  <2>2. ASSUME k - q > 0 PROVE FALSE
    BY <1>3, <1>5, <2>2, Products
  <2>3. ASSUME q - k > 0 PROVE FALSE
    <3>1. (q - k) * d > 0
      BY <1>3, <2>3, Products
    <3>2. (q - k) * d = -((k - q) * d)
      BY <1>3
    <3> QED
      BY <1>5, <3>1, <3>2
  <2> QED
    BY <1>3, <2>2, <2>3
<1> QED
  BY <1>3, <1>6 DEF q

-----------------------------------------------------------------------------
(* Types *)

LEMMA TickTypes == TimeTypeOK /\ Tick => TimeTypeOK'
<1> SUFFICES ASSUME TimeTypeOK, Tick PROVE TimeTypeOK'
  OBVIOUS
<1>1. tcnt + 1 \in Int /\ now + 1 \in Int
  BY DEF TimeTypeOK
<1>2. tcnt' \in 0 .. TimerTicks - 1
  <2>1. tcnt' = (tcnt + 1) % TimerTicks
    BY DEF Tick
  <2> QED
    BY <1>1, <2>1, Sizes, Split DEF T
<1>3. now' \in 0 .. NowMod - 1
  <2>1. now' = IF lost' THEN 0 ELSE (now + 1) % NowMod
    BY DEF Tick
  <2>2. (now + 1) % NowMod \in 0 .. NowMod - 1
    BY <1>1, Sizes, Split
  <2>3. 0 \in 0 .. NowMod - 1
    BY Sizes
  <2> QED
    BY <2>1, <2>2, <2>3
<1>4. tov' \in BOOLEAN /\ lost' \in BOOLEAN
  BY DEF TimeTypeOK, Tick
<1> QED
  BY <1>2, <1>3, <1>4 DEF TimeTypeOK, Tick, locals

\* The handler counts one overflow, and carries at most one millisecond.
LEMMA OverflowCounts ==
  ASSUME TimeTypeOK, OverflowIsr
  PROVE  /\ tov /\ ~tov'
         /\ timer0_overflow_count' \in 0 .. C - 1
         /\ timer0_millis' \in 0 .. MillisMod - 1
         /\ timer0_fract' \in 0 .. FRACT_MAX - 1
         /\ \E i \in Int : timer0_overflow_count' = timer0_overflow_count + 1 + i * C
         /\ \E j \in Int : Fraction' = Fraction + P + j * F
         /\ UNCHANGED <<tcnt, m, t, start, ms, now, lost>>
<1> DEFINE f == timer0_fract + FRACT_INC
           carry == IF f >= FRACT_MAX THEN 1 ELSE 0
           millis == timer0_millis + MILLIS_INC + carry
           n == timer0_overflow_count + 1
<1>1. /\ tov /\ ~tov'
      /\ timer0_fract' = f - carry * FRACT_MAX
      /\ timer0_millis' = millis % MillisMod
      /\ timer0_overflow_count' = n % C
      /\ UNCHANGED <<tcnt, locals, now, lost>>
  BY DEF OverflowIsr, C
<1>2. /\ timer0_fract \in 0 .. FRACT_MAX - 1 /\ timer0_millis \in Nat
      /\ timer0_overflow_count \in Nat
  BY Sizes DEF TimeTypeOK
<1>3. carry \in {0, 1} /\ millis \in Int /\ n \in Int
  BY <1>2, Sizes
<1>4. timer0_fract' \in 0 .. FRACT_MAX - 1
  <2>1. CASE f >= FRACT_MAX
    <3>1. timer0_fract' = f - FRACT_MAX
      BY <1>1, <1>2, <2>1, Sizes
    <3> QED
      BY <1>2, <2>1, <3>1, Sizes
  <2>2. CASE ~(f >= FRACT_MAX)
    <3>1. timer0_fract' = f
      BY <1>1, <1>2, <2>2, Sizes
    <3> QED
      BY <1>2, <2>2, <3>1, Sizes
  <2> QED
    BY <2>1, <2>2
<1>5. /\ timer0_overflow_count' \in 0 .. C - 1
      /\ \E i \in Int : timer0_overflow_count' = timer0_overflow_count + 1 + i * C
  <2> HIDE DEF n
  <2>1. PICK q \in Int : n = q * C + (n % C)
    BY <1>3, Sizes, Split
  <2>2. n % C \in 0 .. C - 1
    BY <1>3, Sizes, Split
  <2>3. n % C = n + (-q) * C
    BY <1>3, <2>1, <2>2, Sizes
  <2> QED
    BY <1>1, <2>1, <2>2, <2>3 DEF n
<1>6. timer0_millis' \in 0 .. MillisMod - 1
  <2> HIDE DEF millis
  <2> QED
    BY <1>1, <1>3, Sizes, Split
<1>7. \E j \in Int : Fraction' = Fraction + P + j * F
  <2>8. timer0_fract' = (timer0_fract + FRACT_INC) - carry * FRACT_MAX
    BY <1>1
  <2> HIDE DEF carry
  <2> DEFINE x == millis % MillisMod
  <2>1. millis \in Int
    BY <1>3
  <2>2. PICK q \in Int : millis = q * MillisMod + x
    <3> HIDE DEF millis
    <3> QED
      BY <2>1, Sizes, Split
  <2>3. x \in Int
    <3> HIDE DEF millis
    <3> QED
      BY <2>1, Sizes, Split
  <2>4. timer0_millis' = x
    BY <1>1
  <2> HIDE DEF x
  <2>5. timer0_millis' = timer0_millis + MILLIS_INC + carry + (-q) * MillisMod
    BY <1>2, <1>3, <2>2, <2>3, <2>4, Sizes
  <2>6. ASSUME NEW a \in Int, NEW b \in Int, NEW c \in Int, NEW k \in Int, NEW z \in Int,
               NEW g \in Int, NEW s \in Int, s = a + b + c + k * z
        PROVE  s * g = a * g + b * g + c * g + k * (z * g)
    <3>1. (a + b + c + k * z) * g = a * g + b * g + c * g + k * (z * g)
      OBVIOUS
    <3> QED
      BY <2>6, <3>1
  <2>7. timer0_millis' * FRACT_MAX
          = timer0_millis * FRACT_MAX + MILLIS_INC * FRACT_MAX + carry * FRACT_MAX
              + (-q) * F
    <3>1. /\ timer0_millis \in Int /\ MILLIS_INC \in Int /\ carry \in Int /\ -q \in Int
          /\ MillisMod \in Int /\ FRACT_MAX \in Int /\ timer0_millis' \in Int
      BY <1>2, <1>3, <2>3, <2>4, Sizes
    <3> QED
      BY ONLY <2>5, <2>6, <3>1 DEF F
  <2>9. /\ timer0_millis * FRACT_MAX \in Int /\ MILLIS_INC * FRACT_MAX \in Int
        /\ carry * FRACT_MAX \in Int /\ (-q) * F \in Int
    BY <1>2, <1>3, Sizes DEF F
  <2>10. Fraction' = Fraction + P + (-q) * F
    BY <1>2, <2>7, <2>8, <2>9, Sizes DEF Fraction, P, PerOverflow
  <2> QED
    BY <2>10
<1> QED
  BY <1>1, <1>4, <1>5, <1>6, <1>7 DEF locals

LEMMA OverflowTypes == TimeTypeOK /\ OverflowIsr => TimeTypeOK'
<1> SUFFICES ASSUME TimeTypeOK, OverflowIsr PROVE TimeTypeOK'
  OBVIOUS
<1>1. /\ tov' \in BOOLEAN
      /\ timer0_overflow_count' \in 0 .. CountMod - 1
      /\ timer0_millis' \in 0 .. MillisMod - 1
      /\ timer0_fract' \in 0 .. FRACT_MAX - 1
      /\ UNCHANGED <<tcnt, m, t, start, ms, now, lost>>
  BY OverflowCounts DEF OverflowIsr, C
<1> QED
  BY <1>1 DEF TimeTypeOK

LEMMA InitTypes == Init => Types
<1> SUFFICES ASSUME Init PROVE Types
  OBVIOUS
<1>1. TimeTypeOK
  <2>1. /\ 0 \in 0 .. TimerTicks - 1 /\ 0 \in 0 .. CountMod - 1
        /\ 0 \in 0 .. MillisMod - 1 /\ 0 \in 0 .. FRACT_MAX - 1
        /\ 0 \in 0 .. NowMod - 1 /\ 0 \in 0 .. DelayMod + MillisMod
        /\ 0 \in Nat
    BY Sizes DEF T, C, D
  <2>2. /\ tcnt = 0 /\ tov = FALSE
        /\ timer0_overflow_count = 0 /\ timer0_millis = 0 /\ timer0_fract = 0
        /\ m = 0 /\ t = 0 /\ start = 0 /\ ms = 0 /\ now = 0 /\ lost = FALSE
    BY DEF Init, TimeInit
  <2> QED
    BY <2>1, <2>2, Zenon DEF TimeTypeOK
<1> QED
  BY <1>1 DEF Init, Types, PC

\* Each step of the thread's calls keeps the types of the clock and the locals.
LEMMA CallTypes ==
  ASSUME TimeTypeOK, UNCHANGED <<tcnt, tov, timer0_overflow_count, timer0_millis,
                                 timer0_fract, now, lost>>
  PROVE  /\ ReadCount => TimeTypeOK'
         /\ ReadTcnt => TimeTypeOK'
         /\ ReadFlag => TimeTypeOK'
         /\ TimeReturn => TimeTypeOK'
         /\ DelayCall(DelayMs) => TimeTypeOK'
         /\ DelayStart => TimeTypeOK'
         /\ DelayPoll => TimeTypeOK'
<1>0. /\ 0 \in 0 .. CountMod - 1 /\ 0 \in 0 .. TimerTicks - 1
      /\ 0 \in 0 .. DelayMod + MillisMod /\ 0 \in Nat
  BY Sizes DEF T, C, D
<1>1. ASSUME ReadCount PROVE TimeTypeOK'
  BY <1>1 DEF TimeTypeOK, ReadCount
<1>2. ASSUME ReadTcnt PROVE TimeTypeOK'
  BY <1>2 DEF TimeTypeOK, ReadTcnt
<1>3. ASSUME ReadFlag PROVE TimeTypeOK'
  <2>1. Corrected \in Int
    BY Sizes DEF TimeTypeOK, Corrected
  <2>2. Corrected % CountMod \in 0 .. CountMod - 1
    BY <2>1, Sizes, Split DEF C
  <2> QED
    BY <1>3, <2>2 DEF TimeTypeOK, ReadFlag
<1>4. ASSUME TimeReturn PROVE TimeTypeOK'
  BY <1>0, <1>4 DEF TimeTypeOK, TimeReturn
<1>5. ASSUME DelayCall(DelayMs) PROVE TimeTypeOK'
  BY <1>5, Sizes DEF TimeTypeOK, DelayCall
<1>6. ASSUME NEW x \in Int PROVE x % DelayMod \in 0 .. DelayMod + MillisMod
  <2>1. x % DelayMod \in 0 .. DelayMod - 1
    BY Sizes, Split DEF D
  <2> QED
    BY <2>1, Sizes DEF D
<1>7. ASSUME DelayStart PROVE TimeTypeOK'
  <2>1. Micros \in Int
    BY Sizes DEF TimeTypeOK, Micros, T
  <2>2. start' \in 0 .. DelayMod + MillisMod
    BY <1>6, <1>7, <2>1 DEF DelayStart
  <2> QED
    BY <1>0, <1>7, <2>2 DEF TimeTypeOK, DelayStart
<1>8. ASSUME DelayPoll PROVE TimeTypeOK'
  <2>1. start' \in 0 .. DelayMod + MillisMod /\ ms' \in Nat
    <3>1. start + TicksPerMs \in Int
      BY Sizes DEF TimeTypeOK
    <3>2. (start + TicksPerMs) % DelayMod \in 0 .. DelayMod + MillisMod
      BY <1>6, <3>1
    <3> QED
      BY <1>8, <3>2 DEF TimeTypeOK, DelayPoll
  <2> QED
    BY <1>0, <1>8, <2>1 DEF TimeTypeOK, DelayPoll
<1> QED
  BY <1>1, <1>2, <1>3, <1>4, <1>5, <1>7, <1>8

\* The program counters and the waiting times.
LEMMA ControlTypes ==
  ASSUME Types, Next
  PROVE  /\ pc' \in PC /\ caller' \in PC /\ ticked' \in BOOLEAN
         /\ held' \in Nat /\ waited' \in Nat
         /\ pc' \in {"micros", "micros_t", "micros_flag"} =>
              caller' \in {"micros_end", "delay_start", "delay_poll"}
<1> USE DEF Types, PC
<1>1. CASE MicrosCall
  BY <1>1 DEF MicrosCall, StartMicros
<1>2. CASE MicrosCount
  BY <1>2 DEF MicrosCount, Goto, At
<1>3. CASE MicrosTcnt
  BY <1>3 DEF MicrosTcnt, Goto, At
<1>4. CASE MicrosFlag
  BY <1>4 DEF MicrosFlag, At
<1>5. CASE MicrosReturns \/ DelayReturns \/ TimedReadFinds \/ TimedReadGivesUp
  BY <1>5
  DEF MicrosReturns, DelayReturns, TimedReadFinds, TimedReadGivesUp, Return, Goto, At
<1>6. CASE DelayCalled
  BY <1>6 DEF DelayCalled, StartMicros
<1>7. CASE DelayStarts
  BY <1>7 DEF DelayStarts, NextRound, StartMicros, Goto, At
<1>8. CASE DelayGoesOn
  BY <1>8 DEF DelayGoesOn, NextRound, StartMicros, Goto, At
<1>9. CASE TimedReadCall \/ TimedReadMisses
  BY <1>9 DEF TimedReadCall, TimedReadMisses, Goto, At
<1>10. CASE TimedReadChecks
  BY <1>10 DEF TimedReadChecks, Goto, At
<1>11. CASE OtherIsr
  BY <1>11, Sizes DEF OtherIsr, thread
<1>12. CASE TimerOverflow
  BY <1>12 DEF TimerOverflow, thread
<1>13. CASE TimePasses
  <2>1. held' \in Nat
    BY <1>13 DEF TimePasses
  <2>2. waited' \in Nat
    BY <1>13, Sizes DEF TimePasses, LesserOf
  <2>3. ticked' = InMicros /\ InMicros \in BOOLEAN
    BY <1>13 DEF TimePasses, InMicros
  <2> QED
    BY <1>13, <2>1, <2>2, <2>3 DEF TimePasses
<1> QED
  BY <1>1, <1>2, <1>3, <1>4, <1>5, <1>6, <1>7, <1>8, <1>9, <1>10, <1>11, <1>12, <1>13
  DEF Next

\* The clock is left alone by the thread, and by the other handlers.
LEMMA ClockLeft ==
  ASSUME Next, ~TimePasses, ~TimerOverflow
  PROVE  UNCHANGED <<tcnt, tov, timer0_overflow_count, timer0_millis, timer0_fract,
                     now, lost>>
<1> USE DEF clock
<1>1. CASE MicrosCall \/ TimedReadMisses \/ TimedReadChecks \/ OtherIsr
  BY <1>1 DEF MicrosCall, TimedReadMisses, TimedReadChecks, OtherIsr, timeVars
<1>2. CASE MicrosCount
  BY <1>2 DEF MicrosCount, ReadCount
<1>3. CASE MicrosTcnt
  BY <1>3 DEF MicrosTcnt, ReadTcnt
<1>4. CASE MicrosFlag
  BY <1>4 DEF MicrosFlag, ReadFlag
<1>5. CASE MicrosReturns \/ DelayReturns \/ TimedReadFinds \/ TimedReadGivesUp
  BY <1>5
  DEF MicrosReturns, DelayReturns, TimedReadFinds, TimedReadGivesUp, Return, TimeReturn
<1>6. CASE DelayCalled
  BY <1>6 DEF DelayCalled, DelayCall
<1>7. CASE DelayStarts
  BY <1>7 DEF DelayStarts, DelayStart
<1>8. CASE DelayGoesOn
  BY <1>8 DEF DelayGoesOn, DelayPoll
<1>9. CASE TimedReadCall
  BY <1>9 DEF TimedReadCall
<1> QED
  BY <1>1, <1>2, <1>3, <1>4, <1>5, <1>6, <1>7, <1>8, <1>9 DEF Next

LEMMA NextTypes == Types /\ [Next]_vars => Types'
<1> SUFFICES ASSUME Types, [Next]_vars PROVE Types'
  OBVIOUS
<1>1. CASE UNCHANGED vars
  BY <1>1 DEF Types, TimeTypeOK, vars, timeVars, clock, locals, thread
<1>2. CASE Next
  <2>1. TimeTypeOK
    BY DEF Types
  <2>2. TimeTypeOK'
    <3>1. CASE TimePasses
      BY <2>1, <3>1, TickTypes DEF TimePasses
    <3>2. CASE TimerOverflow
      BY <2>1, <3>2, OverflowTypes DEF TimerOverflow
    <3>3. CASE ~TimePasses /\ ~TimerOverflow
      <4>1. UNCHANGED <<tcnt, tov, timer0_overflow_count, timer0_millis, timer0_fract,
                        now, lost>>
        BY <1>2, <3>3, ClockLeft
      <4>2. CASE MicrosCall \/ TimedReadMisses \/ TimedReadChecks \/ OtherIsr
        BY <2>1, <4>2
        DEF MicrosCall, TimedReadMisses, TimedReadChecks, OtherIsr, timeVars, clock,
            locals, TimeTypeOK
      <4>3. CASE MicrosReturns \/ DelayReturns \/ TimedReadFinds \/ TimedReadGivesUp
        BY <2>1, <4>1, <4>3, CallTypes
        DEF MicrosReturns, DelayReturns, TimedReadFinds, TimedReadGivesUp, Return
      <4>4. CASE TimedReadCall
        <5>1. start' \in 0 .. DelayMod + MillisMod
          BY <2>1, <4>4, Sizes DEF TimedReadCall, Millis, TimeTypeOK, D
        <5> QED
          BY <2>1, <4>1, <4>4, <5>1 DEF TimedReadCall, TimeTypeOK
      <4>5. CASE MicrosCount \/ MicrosTcnt \/ MicrosFlag
        BY <2>1, <4>1, <4>5, CallTypes DEF MicrosCount, MicrosTcnt, MicrosFlag
      <4>6. CASE DelayCalled \/ DelayStarts \/ DelayGoesOn
        BY <2>1, <4>1, <4>6, CallTypes DEF DelayCalled, DelayStarts, DelayGoesOn
      <4> QED
        BY <1>2, <3>3, <4>2, <4>3, <4>4, <4>5, <4>6 DEF Next
    <3> QED
      BY <3>1, <3>2, <3>3
  <2> QED
    BY <1>2, <2>2, ControlTypes DEF Types
<1> QED
  BY <1>1, <1>2

-----------------------------------------------------------------------------
(* The clock *)

\* A tick either moves TCNT0 on or is an overflow, that is lost if one waits.
LEMMA TickCases ==
  ASSUME TimeTypeOK, Tick
  PROVE  /\ UNCHANGED <<timer0_overflow_count, timer0_millis, timer0_fract, m, t, start,
                        ms>>
         /\ \/ tcnt + 1 < T /\ tcnt' = tcnt + 1 /\ tov' = tov /\ lost' = lost
            \/ tcnt + 1 = T /\ tcnt' = 0 /\ ~tov /\ tov' /\ lost' = lost
            \/ tcnt + 1 = T /\ tcnt' = 0 /\ tov /\ tov' /\ lost'
<1>1. tcnt \in 0 .. T - 1 /\ tcnt \in Int /\ tov \in BOOLEAN /\ lost \in BOOLEAN
  BY Sizes DEF TimeTypeOK, T
<1>2. /\ tcnt' = (tcnt + 1) % T
      /\ tov' = (tov \/ tcnt' = 0) /\ lost' = (lost \/ (tov /\ tcnt' = 0))
      /\ UNCHANGED <<timer0_overflow_count, timer0_millis, timer0_fract, m, t, start, ms>>
  BY DEF Tick, T, locals
<1>3. CASE tcnt + 1 < T
  <2>1. tcnt + 1 = (tcnt + 1) + 0 * T /\ tcnt + 1 \in 0 .. T - 1
    BY <1>1, <1>3, Sizes
  <2>2. (tcnt + 1) % T = tcnt + 1
    BY <2>1, Sizes, RemainderIs
  <2>3. tcnt' = tcnt + 1 /\ tcnt' # 0
    BY <1>1, <1>2, <2>2
  <2>4. tov' = tov /\ lost' = lost
    BY <1>1, <1>2, <2>3
  <2> QED
    BY <1>2, <1>3, <2>3, <2>4
<1>4. CASE tcnt + 1 = T
  <2>1. tcnt + 1 = 0 + 1 * T /\ 0 \in 0 .. T - 1 /\ tcnt + 1 \in Int
    BY <1>1, <1>4, Sizes
  <2>2. (tcnt + 1) % T = 0
    BY <2>1, Sizes, RemainderIs
  <2>3. tcnt' = 0 /\ tov'
    BY <1>1, <1>2, <2>2
  <2>4. CASE tov
    BY <1>2, <1>4, <2>3, <2>4
  <2>5. CASE ~tov
    <3>1. lost' = lost
      BY <1>1, <1>2, <2>5
    <3> QED
      BY <1>2, <1>4, <2>3, <2>5, <3>1
  <2> QED
    BY <2>4, <2>5
<1> QED
  BY <1>1, <1>3, <1>4, Sizes

\* The true time wraps after a whole number of overflows, of periods of the
\* overflow count, and of periods of millis().
LEMMA Periods ==
  \E n, r, s \in Int : NowMod = n * T /\ n = r * C /\ n * P = s * F
<1>1. PICK r \in Int : NowMod = r * (T * C)
  <2> DEFINE x == T * C
  <2>1. T \in Int /\ C \in Int /\ T > 0 /\ C > 0
    BY Sizes
  <2>2. x \in Int /\ x > 0
    BY <2>1, Products
  <2>3. NowMod % x = 0
    BY TimerAssumption DEF T, C
  <2> HIDE DEF x
  <2>4. x \in Nat \ {0} /\ NowMod \in Int
    BY <2>2, Sizes
  <2>5. PICK r \in Int : NowMod = r * x + (NowMod % x)
    BY <2>4, Split
  <2>6. NowMod = r * x
    BY <2>2, <2>3, <2>5
  <2> QED
    BY <2>6 DEF x
<1> DEFINE n == r * C
<1>2. n \in Int /\ NowMod = n * T
  <2>1. r * (T * C) = (r * C) * T
    BY Sizes
  <2> QED
    BY <1>1, <2>1, Sizes
<1>3. n * P \in Int /\ F \in Nat \ {0}
  BY <1>2, Sizes, Products DEF P, F, PerOverflow
<1>4. (n * P) % F = 0
  <2>1. NowMod \div T = n
    <3> HIDE DEF n
    <3> QED
      BY <1>2, Sizes, Quotient
  <2> HIDE DEF n
  <2>2. ((NowMod \div T) * P) % F = 0
    BY TimerAssumption DEF T, P, F, PerOverflow
  <2> QED
    BY <2>1, <2>2
<1>5. PICK s \in Int : n * P = s * F
  <2> DEFINE k == n * P
  <2>1. k \in Int /\ k % F = 0
    BY <1>3, <1>4
  <2> HIDE DEF k
  <2>2. PICK s \in Int : k = s * F + (k % F)
    BY <1>3, <2>1, Split
  <2>3. s * F \in Int
    BY <1>3
  <2>4. k = s * F
    BY <2>1, <2>2, <2>3
  <2> QED
    BY <2>4 DEF k
<1> HIDE DEF n
<1>6. n = r * C
  BY DEF n
<1> QED
  BY <1>2, <1>5, <1>6

LEMMA InitExact == Init => Exact
<1> SUFFICES ASSUME Init PROVE Exact
  OBVIOUS
<1>1. /\ now = 0 /\ tcnt = 0 /\ timer0_overflow_count = 0 /\ Pending = 0
      /\ timer0_millis = 0 /\ timer0_fract = 0
  BY DEF Init, TimeInit, Pending
<1>2. 0 * T = 0 /\ 0 * C = 0 /\ 0 * P = 0 /\ 0 * F = 0 /\ 0 * FRACT_MAX = 0
  BY Sizes DEF P, F, PerOverflow
<1>3. Fraction = 0
  BY <1>1, <1>2 DEF Fraction
<1>4. 0 \in Int /\ 0 - 0 = 0 /\ 0 + 0 = 0
  OBVIOUS
<1>5. /\ now = 0 * T + tcnt
      /\ timer0_overflow_count = 0 - Pending + 0 * C
      /\ Fraction = (0 - Pending) * P + 0 * F
  BY <1>1, <1>2, <1>3, <1>4
<1> QED
  BY <1>4, <1>5 DEF Exact

LEMMA TickExact ==
  ASSUME TimeTypeOK, Exact, Tick
  PROVE  Exact'
<1> SUFFICES ASSUME ~lost'
             PROVE  \E q, i, j \in Int :
                      /\ now' = q * T + tcnt'
                      /\ timer0_overflow_count' = q - Pending' + i * C
                      /\ Fraction' = (q - Pending') * P + j * F
  BY DEF Exact
<1>1. ~lost
  BY DEF Tick, TimeTypeOK
<1>2. PICK q, i, j \in Int : /\ now = q * T + tcnt
                             /\ timer0_overflow_count = q - Pending + i * C
                             /\ Fraction = (q - Pending) * P + j * F
  BY <1>1 DEF Exact
<1>3. PICK n, r, s \in Int : NowMod = n * T /\ n = r * C /\ n * P = s * F
  BY Periods
<1>4. /\ tcnt \in 0 .. T - 1 /\ tcnt \in Int /\ now \in 0 .. NowMod - 1
      /\ tov \in BOOLEAN /\ T \in Nat \ {0} /\ C \in Nat \ {0} /\ NowMod \in Nat \ {0}
      /\ P \in Int /\ F \in Int
  BY Sizes DEF TimeTypeOK, T, P, F, PerOverflow
<1>5. UNCHANGED <<timer0_overflow_count, timer0_millis, timer0_fract>>
  BY TickCases
<1>6. Fraction' = Fraction
  BY <1>5 DEF Fraction
<1>7. now' = IF now + 1 < NowMod THEN now + 1 ELSE 0
  <2>1. now' = (now + 1) % NowMod
    BY DEF Tick
  <2>2. CASE now + 1 < NowMod
    <3>1. now + 1 = (now + 1) + 0 * NowMod /\ now + 1 \in 0 .. NowMod - 1
      BY <1>4, <2>2
    <3> QED
      BY <1>4, <2>1, <2>2, <3>1, RemainderIs
  <2>3. CASE ~(now + 1 < NowMod)
    <3>1. now + 1 = 0 + 1 * NowMod /\ 0 \in 0 .. NowMod - 1 /\ now + 1 \in Int
      BY <1>4, <2>3
    <3> QED
      BY <1>4, <2>1, <2>3, <3>1, RemainderIs
  <2> QED
    BY <2>2, <2>3
<1>8. CASE tcnt + 1 < T /\ tcnt' = tcnt + 1 /\ tov' = tov
  <2>1. now + 1 = q * T + (tcnt + 1)
    BY <1>2, <1>4
  <2>2. now + 1 < NowMod
    <3>1. ASSUME now + 1 = NowMod PROVE FALSE
      <4>1. (n - q) * T = n * T - q * T
        BY <1>4
      <4>2. tcnt + 1 = 0 + (n - q) * T
        BY <1>3, <1>4, <2>1, <3>1, <4>1
      <4>3. tcnt + 1 = 0
        BY <1>4, <1>8, <4>2, OneRemainder
      <4> QED
        BY <1>4, <4>3
    <3> QED
      BY <1>4, <3>1
  <2>3. Pending' = Pending
    BY <1>8 DEF Pending
  <2>4. /\ now' = q * T + tcnt'
        /\ timer0_overflow_count' = q - Pending' + i * C
        /\ Fraction' = (q - Pending') * P + j * F
    BY <1>2, <1>5, <1>6, <1>7, <1>8, <2>1, <2>2, <2>3
  <2> QED
    BY <2>4
<1>9. CASE tcnt + 1 = T /\ tcnt' = 0 /\ ~tov /\ tov'
  <2>1. Pending = 0 /\ Pending' = 1
    BY <1>9 DEF Pending
  <2>2. now + 1 = (q + 1) * T
    BY <1>2, <1>4, <1>9
  <2>3. timer0_overflow_count = q + i * C /\ Fraction = q * P + j * F
    BY <1>2, <2>1
  <2>4. CASE now + 1 < NowMod
    <3>1. /\ now' = (q + 1) * T + tcnt'
          /\ timer0_overflow_count' = (q + 1) - Pending' + i * C
          /\ Fraction' = ((q + 1) - Pending') * P + j * F
      BY <1>4, <1>5, <1>6, <1>7, <1>9, <2>1, <2>2, <2>3, <2>4
    <3> QED
      BY <3>1
  <2>5. CASE ~(now + 1 < NowMod)
    <3>1. n = q + 1
      <4>1. now + 1 = n * T
        BY <1>3, <1>4, <2>5
      <4>2. (now + 1) \div T = n /\ (now + 1) \div T = q + 1
        BY <1>4, <2>2, <4>1, Quotient
      <4> QED
        BY <4>2
    <3>2. now' = 0 * T + tcnt'
      BY <1>4, <1>7, <1>9, <2>5
    <3>3. timer0_overflow_count' = 0 - Pending' + (i + r) * C
      <4>1. (i + r) * C = i * C + r * C
        BY <1>4
      <4> QED
        BY <1>3, <1>4, <1>5, <2>1, <2>3, <3>1, <4>1
    <3>4. Fraction' = (0 - Pending') * P + (j + s) * F
      <4>1. (j + s) * F = j * F + s * F /\ (q + 1) * P = q * P + P
        BY <1>4
      <4>2. (0 - Pending') * P = -P
        BY <1>4, <2>1
      <4>3. s * F = q * P + P
        BY <1>3, <3>1, <4>1
      <4> QED
        BY <1>4, <1>6, <2>3, <4>1, <4>2, <4>3
    <3> QED
      BY <3>2, <3>3, <3>4
  <2> QED
    BY <2>4, <2>5
<1> QED
  BY <1>8, <1>9, TickCases

LEMMA OverflowExact ==
  ASSUME TimeTypeOK, Exact, OverflowIsr
  PROVE  Exact'
<1> SUFFICES ASSUME ~lost'
             PROVE  \E q, i, j \in Int :
                      /\ now' = q * T + tcnt'
                      /\ timer0_overflow_count' = q - Pending' + i * C
                      /\ Fraction' = (q - Pending') * P + j * F
  BY DEF Exact
<1>1. ~lost /\ tov /\ ~tov' /\ now' = now /\ tcnt' = tcnt
  BY OverflowCounts
<1>2. PICK q, i, j \in Int : /\ now = q * T + tcnt
                             /\ timer0_overflow_count = q - Pending + i * C
                             /\ Fraction = (q - Pending) * P + j * F
  BY <1>1 DEF Exact
<1>3. PICK k \in Int : timer0_overflow_count' = timer0_overflow_count + 1 + k * C
  BY OverflowCounts
<1>4. PICK l \in Int : Fraction' = Fraction + P + l * F
  BY OverflowCounts
<1>5. Pending = 1 /\ Pending' = 0
  BY <1>1 DEF Pending
<1>6. T \in Int /\ C \in Int /\ P \in Int /\ F \in Int
  BY Sizes DEF T, P, F, PerOverflow
<1>7. timer0_overflow_count' = q - Pending' + (i + k) * C
  BY <1>2, <1>3, <1>5, <1>6
<1>8. Fraction' = (q - Pending') * P + (j + l) * F
  BY <1>2, <1>4, <1>5, <1>6
<1>9. now' = q * T + tcnt'
  BY <1>1, <1>2
<1> QED
  BY <1>7, <1>8, <1>9

LEMMA NextExact == Types /\ Exact /\ [Next]_vars => Exact'
<1> SUFFICES ASSUME Types, Exact, [Next]_vars PROVE Exact'
  OBVIOUS
<1>1. TimeTypeOK
  BY DEF Types
<1>2. CASE TimePasses
  BY <1>1, <1>2, TickExact DEF TimePasses
<1>3. CASE TimerOverflow
  BY <1>1, <1>3, OverflowExact DEF TimerOverflow
<1>4. CASE (Next /\ ~TimePasses /\ ~TimerOverflow) \/ UNCHANGED vars
  <2>1. UNCHANGED <<tcnt, tov, timer0_overflow_count, timer0_millis, timer0_fract, now,
                    lost>>
    BY <1>4, ClockLeft DEF vars, timeVars, clock
  <2>2. Fraction' = Fraction /\ Pending' = Pending
    BY <2>1 DEF Fraction, Pending
  <2> QED
    BY <2>1, <2>2 DEF Exact
<1> QED
  BY <1>2, <1>3, <1>4

\* While no overflow is lost the clock tells the true time.
LEMMA ExactClock ==
  ASSUME TimeTypeOK, Exact, ~lost
  PROVE  \E i \in Int : Clock = now + i * (T * C)
<1>1. PICK q, i \in Int : /\ now = q * T + tcnt
                          /\ timer0_overflow_count = q - Pending + i * C
  BY DEF Exact
<1>2. /\ T \in Int /\ C \in Int /\ Pending \in Int /\ tcnt \in Int
      /\ timer0_overflow_count \in Int
  BY Sizes DEF TimeTypeOK, Pending
<1>3. timer0_overflow_count * T = q * T - Pending * T + i * (T * C)
  <2>1. (q - Pending + i * C) * T = q * T - Pending * T + i * (T * C)
    BY <1>2
  <2> QED
    BY <1>1, <2>1
<1>4. Clock = now + i * (T * C)
  <2> DEFINE x == timer0_overflow_count * T
             y == Pending * T
             z == i * (T * C)
             w == q * T
  <2>1. x \in Int /\ y \in Int /\ z \in Int /\ w \in Int
    BY <1>2, Products
  <2>2. x = w - y + z /\ Clock = x + tcnt + y /\ now = w + tcnt
    BY <1>1, <1>3 DEF Clock
  <2> HIDE DEF x, y, z, w
  <2>3. Clock = now + z
    BY <1>2, <2>1, <2>2
  <2> QED
    BY <2>3 DEF z
<1> QED
  BY <1>4

\* Equations between remainders.
LEMMA ClockExactly == Types /\ Exact => ClockExact
<1> SUFFICES ASSUME Types, Exact, ~lost PROVE ClockExact
  BY DEF ClockExact
<1> DEFINE overflows == (NowMod + now - tcnt) \div TimerTicks - (IF tov THEN 1 ELSE 0)
<1>1. PICK q, i, j \in Int : /\ now = q * T + tcnt
                             /\ timer0_overflow_count = q - Pending + i * C
                             /\ Fraction = (q - Pending) * P + j * F
  BY DEF Exact
<1>2. PICK n, r, s \in Int : NowMod = n * T /\ n = r * C /\ n * P = s * F
  BY Periods
<1>3. /\ T \in Nat \ {0} /\ C \in Nat \ {0} /\ P \in Int /\ F \in Nat \ {0}
      /\ MillisMod \in Nat \ {0} /\ FRACT_MAX \in Nat \ {0}
      /\ Pending \in Int /\ tcnt \in Int /\ now \in Int /\ NowMod \in Int
      /\ timer0_overflow_count \in 0 .. C - 1
      /\ timer0_millis \in 0 .. MillisMod - 1 /\ timer0_fract \in 0 .. FRACT_MAX - 1
  <2>1. F \in Int /\ F > 0
    BY Sizes, Products DEF F
  <2>2. F \in Nat \ {0}
    BY <2>1
  <2> QED
    BY <2>2, Sizes DEF Types, TimeTypeOK, Pending, P, PerOverflow, C
<1>4. overflows = n + q - Pending
  <2>1. NowMod + now - tcnt = (n + q) * T
    <3>1. (n + q) * T = n * T + q * T
      BY <1>3
    <3> DEFINE x == n * T
               y == q * T
    <3>2. x \in Int /\ y \in Int /\ NowMod = x /\ now = y + tcnt /\ (n + q) * T = x + y
      BY <1>1, <1>2, <1>3, <3>1
    <3> HIDE DEF x, y
    <3>3. NowMod + now - tcnt = x + y
      BY <1>3, <3>2
    <3> QED
      BY <3>2, <3>3
  <2>2. (NowMod + now - tcnt) \div T = n + q
    BY <1>3, <2>1, Quotient
  <2>3. overflows = (n + q) - Pending
    BY <2>2 DEF Pending, T
  <2> QED
    BY <1>3, <2>3
<1> HIDE DEF overflows
<1>5. overflows \in Int
  BY <1>3, <1>4
<1>6. timer0_overflow_count = overflows % CountMod
  <2>1. overflows = timer0_overflow_count + (r - i) * C
    BY <1>1, <1>2, <1>3, <1>4
  <2>2. overflows % C = timer0_overflow_count
    BY <1>3, <1>5, <2>1, RemainderIs
  <2> QED
    BY <2>2 DEF C
<1>7. timer0_millis * FRACT_MAX + timer0_fract
        = (overflows * PerOverflow) % (MillisMod * FRACT_MAX)
  <2>1. Fraction \in 0 .. F - 1
    <3>1. timer0_millis * FRACT_MAX >= 0
      BY <1>3, Products
    <3>2. (MillisMod - 1 - timer0_millis) * FRACT_MAX >= 0
      BY <1>3, Products
    <3>3. (MillisMod - 1 - timer0_millis) * FRACT_MAX
            = MillisMod * FRACT_MAX - FRACT_MAX - timer0_millis * FRACT_MAX
      BY <1>3
    <3> DEFINE x == timer0_millis * FRACT_MAX
               y == MillisMod * FRACT_MAX
    <3>4. /\ x \in Int /\ y \in Int /\ x >= 0 /\ y - FRACT_MAX - x >= 0
          /\ Fraction = x + timer0_fract /\ F = y
      BY <1>3, <3>1, <3>2, <3>3, Products DEF Fraction, F
    <3> HIDE DEF x, y
    <3> QED
      BY <1>3, <3>4
  <2>2. overflows * P \in Int
    BY <1>3, <1>5
  <2>3. overflows * P = Fraction + (s - j) * F
    <3>1. overflows * P = n * P + (q - Pending) * P
      BY <1>3, <1>4
    <3>2. (s - j) * F = s * F - j * F
      BY <1>3
    <3> DEFINE x == n * P
               y == (q - Pending) * P
               z == j * F
               w == s * F
    <3>3. x \in Int /\ y \in Int /\ z \in Int /\ w \in Int
      BY <1>3, Products
    <3>4. /\ overflows * P = x + y /\ (s - j) * F = w - z /\ x = w /\ Fraction = y + z
      BY <1>1, <1>2, <3>1, <3>2
    <3> HIDE DEF x, y, z, w
    <3> QED
      BY <3>3, <3>4
  <2> DEFINE k == overflows * P
  <2>4. k \in Int /\ k = Fraction + (s - j) * F
    BY <2>2, <2>3
  <2> HIDE DEF k
  <2>5. k % F = Fraction
    BY <1>3, <2>1, <2>4, RemainderIs
  <2> QED
    BY <2>5 DEF k, P, F, Fraction
<1> QED
  BY <1>6, <1>7 DEF ClockExact, overflows

-----------------------------------------------------------------------------
(* micros() *)

LEMMA InitReading == Init => Reading
BY DEF Init, TimeInit, Reading, InMicros

LEMMA NextReading == Types /\ Reading /\ [Next]_vars => Reading'
<1> SUFFICES ASSUME Types, Reading, [Next]_vars PROVE Reading'
  OBVIOUS
<1> USE DEF Reading, InMicros
<1>1. TimeTypeOK
  BY DEF Types
<1>2. CASE UNCHANGED vars
  BY <1>2 DEF vars, timeVars, clock, locals, thread
<1>3. CASE MicrosCall \/ TimedReadMisses \/ TimedReadChecks
  BY <1>3
  DEF MicrosCall, TimedReadMisses, TimedReadChecks, StartMicros, Goto, At, timeVars, clock,
      locals, thread
<1>4. CASE MicrosCount
  BY <1>4 DEF MicrosCount, ReadCount, Goto, At, clock
<1>5. CASE MicrosTcnt
  BY <1>5 DEF MicrosTcnt, ReadTcnt, Goto, At, clock
<1>6. CASE MicrosFlag
  <2>1. pc' \in {"micros_end", "delay_start", "delay_poll"} /\ ticked' = FALSE
    BY <1>6 DEF MicrosFlag, At, Types
  <2> QED
    BY <2>1
<1>7. CASE MicrosReturns \/ DelayReturns \/ TimedReadFinds \/ TimedReadGivesUp
  BY <1>7
  DEF MicrosReturns, DelayReturns, TimedReadFinds, TimedReadGivesUp, Return, Goto, At
<1>8. CASE DelayCalled
  BY <1>8 DEF DelayCalled, StartMicros, At
<1>9. CASE DelayStarts
  BY <1>9 DEF DelayStarts, NextRound, StartMicros, Goto, At
<1>10. CASE DelayGoesOn
  BY <1>10 DEF DelayGoesOn, NextRound, StartMicros, Goto, At
<1>11. CASE TimedReadCall
  BY <1>11 DEF TimedReadCall, Goto, At
<1>12. CASE OtherIsr
  BY <1>12 DEF OtherIsr, timeVars, clock, locals, thread
<1>13. CASE TimerOverflow
  BY <1>13 DEF TimerOverflow, thread
<1>14. CASE TimePasses
  <2>1. Tick /\ pc' = pc /\ ticked' = InMicros /\ (InMicros => ~ticked)
    BY <1>14 DEF TimePasses
  <2>2. CASE InMicros
    <3>1. ~ticked /\ ~tov /\ ticked'
      BY <2>1, <2>2
    <3>2. /\ m' = m /\ t' = t /\ timer0_overflow_count' = timer0_overflow_count
          /\ \/ tcnt' = tcnt + 1 /\ ~tov'
             \/ tcnt + 1 = T /\ tcnt' = 0 /\ tov'
      BY <1>1, <2>1, <3>1, TickCases DEF TimeTypeOK
    <3>3. tcnt \in Int /\ T \in Int /\ (pc = "micros_flag" => t = tcnt)
      BY <1>1, <3>1, Sizes DEF TimeTypeOK
    <3> QED
      BY <2>1, <2>2, <3>1, <3>2, <3>3
  <2>3. CASE ~InMicros
    BY <2>1, <2>3
  <2> QED
    BY <2>2, <2>3
<1> QED
  BY <1>2, <1>3, <1>4, <1>5, <1>6, <1>7, <1>8, <1>9, <1>10, <1>11, <1>12, <1>13, <1>14
  DEF Next

\* What micros() returns is the clock's time, or the tick before that came.
LEMMA FlagReads ==
  ASSUME Types, Reading, MicrosFlag
  PROVE  /\ tov => tcnt = 0
         /\ \E k \in {0, 1}, i \in Int :
              /\ k = 1 => ticked
              /\ Clock = Micros' + k + i * (T * C)
<1>1. pc = "micros_flag" /\ m' = Corrected % C /\ t' = t /\ tov \in BOOLEAN
  BY DEF MicrosFlag, ReadFlag, At, C, Types, TimeTypeOK
<1>2. /\ m = timer0_overflow_count /\ (tov => tcnt = 0 /\ ticked)
      /\ \/ t = tcnt
         \/ ticked /\ ~tov /\ tcnt = t + 1
         \/ tov /\ t = T - 1
  BY <1>1 DEF Reading, InMicros
<1>3. /\ m \in Int /\ t \in 0 .. T - 1 /\ tcnt \in 0 .. T - 1
      /\ T \in Nat \ {0} /\ C \in Nat \ {0}
  BY Sizes DEF Types, TimeTypeOK, T, C
<1>4. \E k \in {0, 1} : (k = 1 => ticked) /\ Clock = Corrected * T + t + k
  <2>1. CASE ~tov
    <3>1. Corrected = m /\ Clock = m * T + tcnt
      BY <1>2, <1>3, <2>1 DEF Corrected, Clock, Pending
    <3> DEFINE x == m * T
    <3>2. x \in Int
      BY <1>3
    <3>3. Clock = x + tcnt /\ Corrected * T = x
      BY <3>1
    <3> HIDE DEF x
    <3>4. CASE t = tcnt
      BY <1>3, <3>2, <3>3, <3>4
    <3>5. CASE ticked /\ tcnt = t + 1
      BY <1>3, <3>2, <3>3, <3>5
    <3> QED
      BY <1>2, <2>1, <3>4, <3>5
  <2>2. CASE tov /\ t < T - 1
    <3>1. Corrected = m + 1 /\ t = tcnt
      BY <1>2, <1>3, <2>2 DEF Corrected, T
    <3>2. Clock = m * T + tcnt + T
      BY <1>2, <1>3, <2>2 DEF Clock, Pending
    <3>3. (m + 1) * T = m * T + T
      BY <1>3
    <3> DEFINE x == m * T
    <3>4. x \in Int
      BY <1>3
    <3>5. Clock = x + tcnt + T /\ Corrected * T = x + T
      BY <3>1, <3>2, <3>3
    <3> HIDE DEF x
    <3> QED
      BY <1>3, <3>1, <3>4, <3>5
  <2>3. CASE tov /\ ~(t < T - 1)
    <3>1. Corrected = m /\ t = T - 1 /\ tcnt = 0 /\ ticked
      BY <1>2, <1>3, <2>3 DEF Corrected, T
    <3>2. Clock = m * T + tcnt + T
      BY <1>2, <1>3, <2>3 DEF Clock, Pending
    <3> DEFINE x == m * T
    <3>3. x \in Int
      BY <1>3
    <3>4. Clock = x + tcnt + T /\ Corrected * T = x
      BY <3>1, <3>2
    <3> HIDE DEF x
    <3> QED
      BY <1>3, <3>1, <3>3, <3>4
  <2> QED
    BY <1>1, <2>1, <2>2, <2>3
<1>5. PICK k \in {0, 1} : (k = 1 => ticked) /\ Clock = Corrected * T + t + k
  BY <1>4
<1>6. Corrected \in Int
  BY <1>3 DEF Corrected
<1>7. PICK i \in Int : Corrected = i * C + m'
  BY <1>1, <1>3, <1>6, Split
<1>8. m' \in Int
  BY <1>1, <1>3, <1>6, Split
<1>9. Clock = Micros' + k + i * (T * C)
  <2>1. Corrected * T = (i * C + m') * T
    BY <1>7
  <2>2. (i * C + m') * T = m' * T + i * (T * C)
    BY <1>3, <1>8
  <2> DEFINE x == m' * T
             y == i * (T * C)
  <2>3. x \in Int /\ y \in Int
    BY <1>3, <1>8
  <2>4. Clock = (x + y) + t + k /\ Micros' = x + t
    BY <1>1, <1>5, <2>1, <2>2 DEF Micros, T
  <2> HIDE DEF x, y
  <2>5. Clock = Micros' + k + y
    BY <1>3, <2>3, <2>4
  <2> QED
    BY <2>5 DEF y
<1> QED
  BY <1>2, <1>5, <1>9

LEMMA MicrosSteps == Types /\ Exact /\ Reading /\ [Next]_vars =>
  [pc = "micros_flag" /\ pc' # pc /\ ~lost =>
     \E k \in {0, 1} : (m' * TimerTicks + t + k) % MicrosMod = now % MicrosMod]_vars
<1> SUFFICES ASSUME Types, Exact, Reading, Next, pc = "micros_flag", pc' # pc, ~lost
             PROVE  \E k \in {0, 1} :
                      (m' * TimerTicks + t + k) % MicrosMod = now % MicrosMod
  OBVIOUS
<1>1. MicrosFlag
  BY DEF Next, MicrosCall, MicrosCount, MicrosTcnt, MicrosReturns, DelayCalled, DelayStarts,
         DelayGoesOn, DelayReturns, TimedReadCall, TimedReadFinds, TimedReadMisses,
         TimedReadChecks, TimedReadGivesUp, OtherIsr, TimerOverflow, TimePasses, At, thread
<1>2. PICK k \in {0, 1}, i \in Int : Clock = Micros' + k + i * (T * C)
  BY <1>1, FlagReads
<1>3. PICK j \in Int : Clock = now + j * (T * C)
  BY ExactClock DEF Types
<1>4. /\ T \in Int /\ C \in Int /\ T > 0 /\ C > 0 /\ now \in Int
      /\ Micros' = m' * TimerTicks + t /\ Micros' \in Int
  <2>1. m' \in Int /\ t \in Int /\ t' = t
    <3>1. TimeTypeOK /\ Types'
      BY NextTypes DEF Types
    <3> QED
      BY <1>1, <3>1, Sizes DEF Types, TimeTypeOK, MicrosFlag, ReadFlag
  <2>2. Micros' = m' * TimerTicks + t
    BY <2>1 DEF Micros
  <2> QED
    BY <2>1, <2>2, Sizes DEF Types, TimeTypeOK, T
<1> DEFINE d == T * C
           a == Micros' + k
<1>5. d \in Int /\ d > 0 /\ MicrosMod = d
  BY <1>4, Products DEF MicrosMod, T, C
<1>6. a = now + (j - i) * d
  <2>1. (j - i) * d = j * d - i * d
    BY <1>4
  <2> DEFINE x == i * d
             y == j * d
  <2>2. x \in Int /\ y \in Int /\ Clock = a + x /\ Clock = now + y /\ (j - i) * d = y - x
    BY <1>2, <1>3, <1>4, <2>1
  <2>3. a \in Int
    BY <1>4
  <2> HIDE DEF x, y, a
  <2>4. a = now + (y - x)
    BY <1>4, <2>2, <2>3
  <2> QED
    BY <2>2, <2>4
<1>7. a \in Int
  BY <1>4
<1>8. a = m' * TimerTicks + t + k
  BY <1>4
<1> HIDE DEF a, d
<1>9. d \in Nat \ {0}
  BY <1>5
<1>10. a % d = now % d
  <2>1. j - i \in Int /\ now \in Int
    BY <1>4
  <2> QED
    BY <1>6, <1>7, <1>9, <2>1, SameRemainder
<1> QED
  BY <1>5, <1>8, <1>10

-----------------------------------------------------------------------------
(* Times in the 16 bits of delay() *)

\* The range of micros() is a whole number of those 16 bits.
LEMMA MicrosPeriod == \E j \in Int : T * C = j * D
<1> DEFINE x == T * C
<1>1. x \in Int /\ D \in Nat \ {0}
  BY Sizes
<1>2. x % D = 0
  BY TimerAssumption DEF T, C, D
<1> HIDE DEF x
<1>3. PICK j \in Int : x = j * D + (x % D)
  BY <1>1, Split
<1>4. x = j * D
  BY <1>1, <1>2, <1>3
<1> QED
  BY <1>4 DEF x

LEMMA SameAfterWrap ==
  ASSUME NEW a \in Int, NEW b \in Int, NEW i \in Int, a = b + i * (T * C)
  PROVE  Same(a, b)
<1>1. PICK j \in Int : T * C = j * D
  BY MicrosPeriod
<1>2. D \in Int
  BY Sizes
<1>3. i * (j * D) = (i * j) * D /\ i * j \in Int
  BY <1>2
<1>4. a = b + (i * j) * D
  BY <1>1, <1>3
<1> QED
  BY <1>3, <1>4 DEF Same

LEMMA SameShift ==
  ASSUME NEW a \in Int, NEW b \in Int, NEW k \in Int, Same(a, b)
  PROVE  Same(a + k, b + k)
<1>1. PICK i \in Int : a = b + i * D
  BY DEF Same
<1>2. i * D \in Int
  BY Sizes
<1>3. a + k = (b + k) + i * D
  BY <1>1, <1>2
<1> QED
  BY <1>3 DEF Same

LEMMA SameTwice ==
  ASSUME NEW a \in Int, NEW b \in Int, NEW c \in Int, Same(a, b), Same(b, c)
  PROVE  Same(a, c)
<1>1. PICK i \in Int, j \in Int : a = b + i * D /\ b = c + j * D
  BY DEF Same
<1>2. (i + j) * D = i * D + j * D /\ i * D \in Int /\ j * D \in Int
  BY Sizes
<1>3. a = c + (i + j) * D
  BY <1>1, <1>2
<1> QED
  BY <1>3 DEF Same

LEMMA SameBack ==
  ASSUME NEW a \in Int, NEW b \in Int, Same(a, b)
  PROVE  Same(b, a)
<1>1. PICK i \in Int : a = b + i * D
  BY DEF Same
<1>2. (-i) * D = -(i * D) /\ i * D \in Int
  BY Sizes
<1>3. b = a + (-i) * D
  BY <1>1, <1>2
<1> QED
  BY <1>3 DEF Same

LEMMA SameAsRemainder ==
  ASSUME NEW a \in Int
  PROVE  Same(a, a % D) /\ a % D \in 0 .. D - 1
<1>1. PICK q \in Int : a = q * D + (a % D)
  BY Sizes, Split
<1>2. a % D \in 0 .. D - 1
  BY Sizes, Split
<1> DEFINE r == a % D
<1>3. r \in Int /\ a = q * D + r /\ q * D \in Int
  BY <1>1, <1>2, Sizes
<1> HIDE DEF r
<1>4. a = r + q * D
  BY <1>3
<1> QED
  BY <1>2, <1>4 DEF Same, r

\* A remainder is the least of the numbers from 0 on that are the same.
LEMMA RemainderLeast ==
  ASSUME NEW r \in 0 .. D - 1, NEW y \in Nat, Same(y, r)
  PROVE  y >= r
<1>1. PICK i \in Int : y = r + i * D
  BY DEF Same
<1>2. ASSUME i < 0 PROVE FALSE
  <2>1. -i \in Int /\ -i > 0 /\ D \in Int /\ D > 0
    BY <1>2, Sizes
  <2>2. (-i) * D >= D
    BY <2>1, Products
  <2>3. (-i) * D = -(i * D) /\ i * D \in Int
    BY <2>1
  <2> DEFINE x == i * D
  <2>4. x \in Int /\ -x >= D /\ y = r + x
    BY <1>1, <2>2, <2>3
  <2> HIDE DEF x
  <2> QED
    BY <2>1, <2>4
<1>3. ASSUME i >= 0 PROVE i * D >= 0
  BY <1>3, Sizes, Products
<1>4. i * D \in Int
  BY Sizes
<1> QED
  BY <1>1, <1>2, <1>3, <1>4

-----------------------------------------------------------------------------
(* Ticks and overflows of the time that delay() measures *)

LEMMA ClockType ==
  ASSUME TimeTypeOK
  PROVE  Clock \in Int /\ Micros \in Int /\ start \in Int /\ tcnt \in Int /\ T \in Int
<1>1. /\ timer0_overflow_count \in Int /\ tcnt \in Int /\ Pending \in Int /\ T \in Int
      /\ m \in Int /\ t \in Int /\ start \in Int
  BY Sizes DEF TimeTypeOK, Pending
<1> QED
  BY <1>1 DEF Clock, Micros, T

\* What has been counted since a goes on, less what an overflow that is lost
\* takes away: never more than the ticks of the one that waits.
LEMMA TickSince ==
  ASSUME NEW a \in Int, NEW z \in Nat, TimeTypeOK, Tick, Since(a, z)
  PROVE  \E w \in Nat : /\ w <= z + 1
                        /\ ~tov => w = z + 1
                        /\ Same(Clock', a + w)
                        /\ tov' => w >= tcnt'
<1>1. Same(Clock, a + z) /\ (tov => z >= tcnt)
  BY DEF Since
<1>2. /\ Clock \in Int /\ tcnt \in 0 .. T - 1 /\ T \in Nat \ {0} /\ tov \in BOOLEAN
      /\ timer0_overflow_count * T \in Int
      /\ UNCHANGED timer0_overflow_count
  BY ClockType, TickCases, Sizes DEF TimeTypeOK, T
<1> DEFINE x == timer0_overflow_count * T
<1>3. x \in Int /\ x' = x
  BY <1>2
<1>4. /\ Clock = x + tcnt + (IF tov THEN T ELSE 0)
      /\ Clock' = x + tcnt' + (IF tov' THEN T ELSE 0)
  <2>1. 1 * T = T /\ 0 * T = 0
    BY <1>2
  <2> QED
    BY <1>2, <2>1 DEF Clock, Pending
<1> HIDE DEF x
<1>5. CASE \/ tcnt + 1 < T /\ tcnt' = tcnt + 1 /\ tov' = tov
           \/ tcnt + 1 = T /\ tcnt' = 0 /\ ~tov /\ tov'
  <2>1. Clock' = Clock + 1
    BY <1>2, <1>3, <1>4, <1>5
  <2>2. Same(Clock', (a + z) + 1)
    BY <1>1, <1>2, <2>1, SameShift
  <2>3. (a + z) + 1 = a + (z + 1) /\ z + 1 \in Nat
    BY <1>2
  <2>4. tov' => z + 1 >= tcnt'
    <3>1. CASE tcnt' = tcnt + 1 /\ tov' = tov
      <4>1. tov' => z >= tcnt
        BY <1>1, <3>1
      <4> QED
        BY <1>2, <3>1, <4>1
    <3>2. CASE tcnt' = 0
      BY <3>2
    <3> QED
      BY <1>5, <3>1, <3>2
  <2>5. Same(Clock', a + (z + 1))
    BY <2>2, <2>3
  <2> QED
    BY <2>3, <2>4, <2>5
<1>6. CASE tcnt + 1 = T /\ tcnt' = 0 /\ tov /\ tov'
  <2>1. Clock' = Clock + (1 - T)
    BY <1>2, <1>3, <1>4, <1>6
  <2>2. Same(Clock', (a + z) + (1 - T))
    <3>1. 1 - T \in Int /\ a + z \in Int
      BY <1>2
    <3> QED
      BY <1>1, <1>2, <2>1, <3>1, SameShift
  <2>3. (a + z) + (1 - T) = a + (z + (1 - T)) /\ z + (1 - T) \in Nat
    BY <1>1, <1>2, <1>6
  <2>4. z + (1 - T) >= tcnt' /\ z + (1 - T) <= z + 1
    BY <1>2, <1>6, <2>3
  <2>5. Same(Clock', a + (z + (1 - T)))
    BY <2>2, <2>3
  <2> QED
    BY <1>6, <2>3, <2>4, <2>5
<1> QED
  BY <1>5, <1>6, TickCases

LEMMA OverflowSince ==
  ASSUME NEW b \in Int, TimeTypeOK, OverflowIsr, Same(Clock, b)
  PROVE  Same(Clock', b) /\ ~tov'
<1>1. PICK i \in Int : timer0_overflow_count' = timer0_overflow_count + 1 + i * C
  BY OverflowCounts
<1>2. tov /\ ~tov' /\ tcnt' = tcnt
  BY OverflowCounts
<1>3. T \in Int /\ C \in Int /\ timer0_overflow_count \in Int /\ tcnt \in Int
  BY Sizes DEF TimeTypeOK
<1>4. timer0_overflow_count' * T = timer0_overflow_count * T + T + i * (T * C)
  <2>1. (timer0_overflow_count + 1 + i * C) * T
          = timer0_overflow_count * T + T + i * (T * C)
    BY <1>3
  <2> QED
    BY <1>1, <2>1
<1>5. Clock' = Clock + i * (T * C)
  <2> DEFINE x == timer0_overflow_count * T
             y == i * (T * C)
  <2>1. x \in Int /\ y \in Int
    BY <1>3
  <2>2. Clock = x + tcnt + T /\ Clock' = x + T + y + tcnt
    BY <1>2, <1>3, <1>4 DEF Clock, Pending
  <2> HIDE DEF x, y
  <2>3. Clock' = Clock + y
    BY <1>3, <2>1, <2>2
  <2> QED
    BY <2>3 DEF y
<1>6. Clock \in Int /\ Clock' \in Int
  <2>1. Clock \in Int /\ i * (T * C) \in Int
    BY <1>3, ClockType
  <2> QED
    BY <1>5, <2>1
<1>7. Same(Clock', Clock)
  BY <1>5, <1>6, SameAfterWrap
<1> QED
  BY <1>2, <1>6, <1>7, SameTwice

-----------------------------------------------------------------------------
(* delay() *)

LEMMA ReachedTick ==
  ASSUME TimePasses, Waiting, waited \in Nat, NEW n \in Int, NEW k \in Int, k <= n + 1,
         Reached(n)
  PROVE  Reached(k)'
<1>1. waited' = LesserOf(waited + 1, MaxWait) /\ MaxWait \in Nat
  BY Sizes DEF TimePasses
<1> SUFFICES waited' >= k \/ waited' = MaxWait
  BY DEF Reached
<1>2. CASE waited' = MaxWait
  BY <1>2
<1>3. CASE waited' # MaxWait
  <2>1. waited' = waited + 1 /\ waited + 1 < MaxWait
    BY <1>1, <1>3 DEF LesserOf
  <2>2. waited >= n
    BY <1>1, <2>1 DEF Reached
  <2> QED
    BY <2>1, <2>2
<1> QED
  BY <1>2, <1>3

LEMMA OverType ==
  ASSUME Types, ms <= DelayMs
  PROVE  Over \in Nat
<1>1. DelayMs - ms \in Int /\ DelayMs - ms >= 0 /\ TicksPerMs \in Int /\ TicksPerMs >= 0
  BY Sizes DEF Types, TimeTypeOK
<1> DEFINE x == (DelayMs - ms) * TicksPerMs
<1>2. x \in Int /\ x >= 0
  BY <1>1, Products
<1> HIDE DEF x
<1>3. x \in Nat
  BY <1>2
<1> QED
  BY <1>3 DEF Over, x

LEMMA InitDelay == Init => Delay
<1> SUFFICES ASSUME Init PROVE Delay
  OBVIOUS
<1>1. pc = "idle" /\ ms = 0 /\ ~ticked
  BY DEF Init, TimeInit
<1>2. 0 <= DelayMs
  BY Sizes
<1> QED
  BY <1>1, <1>2
  DEF Delay, DelayBegins, DelayMeasures, DelayPolls, DelayGoing, Measures

\* Nothing of this is disturbed by a step that changes none of it.
LEMMA DelayLeft ==
  ASSUME Delay,
         UNCHANGED <<tcnt, tov, timer0_overflow_count, m, t, start, ms, pc, caller, ticked,
                     waited>>
  PROVE  Delay'
<1>1. Clock' = Clock /\ Micros' = Micros
  BY DEF Clock, Micros, Pending
<1>2. Over' = Over
  BY DEF Over
<1>3. /\ Measures("delay_start")' <=> Measures("delay_start")
      /\ Measures("delay_poll")' <=> Measures("delay_poll")
  BY DEF Measures
<1>4. DelayBegins'
  BY <1>1, <1>3 DEF Delay, DelayBegins, Since, Reached
<1>5. DelayMeasures'
  BY <1>1, <1>2, <1>3 DEF Delay, DelayMeasures, Since, Reached
<1>6. DelayPolls'
  BY <1>1, <1>2 DEF Delay, DelayPolls, Since, Reached
<1>7. DelayGoing'
  BY <1>3 DEF Delay, DelayGoing, Reached
<1> QED
  BY <1>4, <1>5, <1>6, <1>7 DEF Delay

\* Between its calls the thread is not in delay().
LEMMA DelayElsewhere ==
  ASSUME ~ticked', ms' <= DelayMs, pc' # "delay_start", pc' # "delay_poll",
         pc' \in {"micros", "micros_t", "micros_flag"} => caller' = "micros_end"
  PROVE  Delay'
BY DEF Delay, DelayBegins, DelayMeasures, DelayPolls, DelayGoing, Measures

\* The first reads of micros() change nothing of it.
LEMMA ReadsDelay ==
  ASSUME Types, Reading, Delay, MicrosCount \/ MicrosTcnt
  PROVE  Delay'
<1>1. /\ pc \in {"micros", "micros_t"} /\ pc' \in {"micros_t", "micros_flag"}
      /\ UNCHANGED <<tcnt, tov, timer0_overflow_count, start, ms, caller, ticked, waited>>
  BY DEF MicrosCount, MicrosTcnt, At, Goto, ReadCount, ReadTcnt, clock
<1>2. Clock' = Clock /\ Over' = Over
  BY <1>1 DEF Clock, Pending, Over
<1>3. /\ Measures("delay_start")' <=> Measures("delay_start")
      /\ Measures("delay_poll")' <=> Measures("delay_poll")
  BY <1>1 DEF Measures
<1>4. DelayBegins'
  BY <1>1, <1>3 DEF Delay, DelayBegins
<1>5. DelayMeasures'
  BY <1>1, <1>2, <1>3 DEF Delay, DelayMeasures, Since, Reached
<1>6. DelayPolls'
  BY <1>1 DEF DelayPolls
<1>7. DelayGoing'
  BY <1>1, <1>3 DEF Delay, DelayGoing, Reached
<1> QED
  BY <1>4, <1>5, <1>6, <1>7 DEF Delay

\* micros() returns: what was measured until then is split at what it returns.
LEMMA FlagDelay ==
  ASSUME Types, Reading, Delay, MicrosFlag
  PROVE  Delay'
<1>1. /\ pc = "micros_flag" /\ pc' = caller /\ ticked' = FALSE
      /\ UNCHANGED <<tcnt, tov, timer0_overflow_count, start, ms, waited>>
  BY DEF MicrosFlag, At, ReadFlag, clock
<1>2. caller \in {"micros_end", "delay_start", "delay_poll"}
  BY <1>1 DEF Types
<1>3. PICK k \in {0, 1}, i \in Int :
        (k = 1 => ticked) /\ Clock = Micros' + k + i * (T * C)
  BY FlagReads
<1>4. tov => tcnt = 0
  BY FlagReads
<1>5. Clock' = Clock /\ Over' = Over
  BY <1>1 DEF Clock, Pending, Over
<1>6. TimeTypeOK /\ TimeTypeOK'
  <2>1. Next
    BY DEF Next
  <2> QED
    BY <2>1, NextTypes DEF Types
<1>7. /\ Clock \in Int /\ Micros' \in Int /\ start \in Int /\ k \in Nat
      /\ ms \in Nat
  <2>1. Micros' \in Int
    <3>1. m' \in Int /\ t' \in Int /\ TimerTicks \in Int
      BY <1>6, Sizes DEF TimeTypeOK, T
    <3> QED
      BY <3>1 DEF Micros
  <2> QED
    BY <1>6, <2>1, ClockType DEF TimeTypeOK
<1>8. Same(Clock, Micros' + k)
  <2>1. Micros' + k \in Int
    BY <1>7
  <2> QED
    BY <1>3, <1>7, <2>1, SameAfterWrap
<1>9. Since(Micros, k)'
  BY <1>1, <1>4, <1>5, <1>7, <1>8 DEF Since
<1>10. DelayBegins'
  <2>1. ~Measures("delay_start")'
    BY <1>1, <1>2 DEF Measures
  <2>2. CASE caller = "delay_start"
    <3>1. ms' = DelayMs
      BY <1>1, <2>2 DEF Delay, DelayBegins, Measures
    <3>2. ms' > 0 => Reached(k)'
      <4>1. ASSUME ms > 0, k = 1 PROVE Reached(1)
        BY <1>3, <4>1 DEF Delay, DelayGoing
      <4>2. waited \in Nat
        BY DEF Types
      <4> QED
        BY <1>1, <4>1, <4>2 DEF Reached
    <3> QED
      BY <1>1, <1>7, <1>9, <2>1, <3>1, <3>2 DEF DelayBegins
  <2>3. CASE caller # "delay_start"
    BY <1>1, <2>1, <2>3 DEF DelayBegins
  <2> QED
    BY <2>2, <2>3
<1>11. DelayMeasures'
  BY <1>1, <1>2 DEF DelayMeasures, Measures
<1>12. DelayPolls'
  <2>1. SUFFICES ASSUME caller = "delay_poll"
                 PROVE  \E y, z \in Nat : /\ Same(Micros', start' + y)
                                          /\ Since(Micros, z)'
                                          /\ Reached(y + z + Over)'
    BY <1>1 DEF DelayPolls
  <2>2. PICK x \in Nat : Since(start, x) /\ (ticked => x >= 1) /\ Reached(x + Over)
    BY <1>1, <2>1 DEF Delay, DelayMeasures, Measures
  <2>3. x - k \in Nat
    BY <1>3, <1>7, <2>2
  <2>4. Same(Micros', start' + (x - k))
    <3>1. Same(Clock, start + x) /\ start + x \in Int /\ Micros' + k \in Int
      BY <1>7, <2>2 DEF Since
    <3>2. Same(Micros' + k, start + x)
      BY <1>7, <1>8, <3>1, SameBack, SameTwice
    <3>3. ASSUME NEW u \in Int, NEW a \in Int, Same(u + k, a + x)
          PROVE  Same(u, a + (x - k))
      <4>1. -k \in Int /\ u + k \in Int /\ a + x \in Int
        BY <1>7
      <4>2. Same((u + k) + (-k), (a + x) + (-k))
        BY <3>3, <4>1, SameShift
      <4>3. (u + k) + (-k) = u /\ (a + x) + (-k) = a + (x - k)
        BY <1>7
      <4> QED
        BY <4>2, <4>3
    <3>4. Same(Micros', start + (x - k))
      BY <1>7, <3>2, <3>3
    <3> QED
      BY <1>1, <3>4
  <2>5. (x - k) + k = x
    BY <1>7
  <2>6. Reached((x - k) + k + Over)'
    BY <1>1, <1>5, <2>2, <2>5 DEF Reached
  <2> QED
    BY <1>7, <1>9, <2>3, <2>4, <2>6
<1>13. DelayGoing'
  <2>1. ms <= DelayMs /\ (Measures("delay_poll") => ms > 0)
    BY DEF Delay, DelayGoing
  <2>2. pc' = "delay_poll" => ms > 0
    BY <1>1, <2>1 DEF Measures
  <2>3. ~Measures("delay_poll")'
    BY <1>1, <1>2 DEF Measures
  <2> QED
    BY <1>1, <2>1, <2>2, <2>3 DEF DelayGoing
<1> QED
  BY <1>10, <1>11, <1>12, <1>13 DEF Delay

\* The first round begins at what micros() returned.
LEMMA StartDelay ==
  ASSUME Types, Reading, Delay, DelayStarts
  PROVE  Delay'
<1>1. /\ pc = "delay_start" /\ start' = Micros % D /\ ms' = ms
      /\ UNCHANGED <<tcnt, tov, timer0_overflow_count, waited, ticked>>
      /\ IF ms > 0 THEN pc' = "micros" /\ caller' = "delay_poll" ELSE pc' = "delay_end"
  BY DEF DelayStarts, At, DelayStart, NextRound, StartMicros, Goto, clock, D
<1>2. ~ticked /\ ms \in Nat /\ TimeTypeOK
  BY <1>1 DEF Reading, InMicros, Types, TimeTypeOK
<1>3. CASE ~(ms > 0)
  <2>1. ms' <= DelayMs
    BY <1>1 DEF Delay, DelayGoing
  <2> QED
    BY <1>1, <1>2, <1>3, <2>1, DelayElsewhere
<1>4. CASE ms > 0
  <2>1. PICK z \in Nat : Since(Micros, z) /\ Reached(z)
    BY <1>1, <1>4 DEF Delay, DelayBegins
  <2>2. ms = DelayMs
    BY <1>1 DEF Delay, DelayBegins
  <2>3. Clock' = Clock /\ Over' = 0
    <3>1. ms' = ms /\ (DelayMs - ms) * TicksPerMs = 0
      BY <1>1, <1>2, <2>2, Sizes
    <3> QED
      BY <1>1, <3>1 DEF Clock, Pending, Over
  <2>4. Same(Clock, start' + z)
    <3>1. Same(Micros, start') /\ start' \in Int
      BY <1>1, <1>2, ClockType, SameAsRemainder
    <3>2. /\ Clock \in Int /\ Micros \in Int /\ Micros + z \in Int /\ start' + z \in Int
      BY <1>2, <3>1, ClockType
    <3>3. Same(Micros + z, start' + z)
      <4>1. Micros \in Int /\ start' \in Int /\ z \in Int /\ Same(Micros, start')
        BY <3>1, <3>2
      <4> QED
        BY ONLY <4>1, SameShift
    <3>4. Same(Clock, Micros + z)
      BY <2>1 DEF Since
    <3> QED
      BY <3>2, <3>3, <3>4, SameTwice
  <2>5. Since(start, z)'
    BY <1>1, <2>1, <2>3, <2>4 DEF Since
  <2>6. Reached(z + Over)'
    BY <1>1, <2>1, <2>3 DEF Reached
  <2>7. DelayMeasures'
    BY <1>1, <1>2, <2>5, <2>6 DEF DelayMeasures
  <2>8. DelayBegins' /\ DelayPolls'
    BY <1>1, <1>4 DEF DelayBegins, DelayPolls, Measures
  <2>9. DelayGoing'
    BY <1>1, <1>2, <1>4 DEF Delay, DelayGoing, Measures
  <2> QED
    BY <2>7, <2>8, <2>9 DEF Delay
<1> QED
  BY <1>2, <1>3, <1>4

\* A round counts a millisecond if one has passed since the last one counted.
LEMMA RoundDelay ==
  ASSUME Types, Reading, Delay, DelayGoesOn
  PROVE  Delay' /\ (pc' = "delay_end" => waited >= DelayMs * TicksPerMs)
<1>1. /\ pc = "delay_poll" /\ ms > 0 /\ ~tov
      /\ IF SinceStart >= TicksPerMs
         THEN ms' = ms - 1 /\ start' = (start + TicksPerMs) % D
         ELSE UNCHANGED <<ms, start>>
      /\ UNCHANGED <<tcnt, tov, timer0_overflow_count, waited, ticked>>
      /\ IF ms' > 0 THEN pc' = "micros" /\ caller' = "delay_poll" ELSE pc' = "delay_end"
  BY DEF DelayGoesOn, At, DelayPoll, NextRound, StartMicros, Goto, clock, D, InMicros
<1>2. ~ticked /\ ms \in Nat /\ ms <= DelayMs /\ TimeTypeOK /\ waited \in Nat
  BY <1>1 DEF Reading, InMicros, Types, TimeTypeOK, Delay, DelayGoing
<1>3. PICK y \in Nat, z \in Nat :
        Same(Micros, start + y) /\ Since(Micros, z) /\ Reached(y + z + Over)
  BY <1>1 DEF Delay, DelayPolls
<1>4. Clock' = Clock
  BY <1>1 DEF Clock, Pending
<1>5. /\ Clock \in Int /\ Micros \in Int /\ start \in Int /\ TicksPerMs \in Nat
      /\ Over \in Nat /\ DelayMs \in Nat /\ start + y \in Int /\ Micros + z \in Int
  BY <1>2, <1>3, ClockType, OverType, Sizes
<1>6. y >= SinceStart
  <2> DEFINE s == SinceStart
  <2>1. PICK j \in Int : T * C = j * D
    BY MicrosPeriod
  <2>2. D \in Int /\ j * D \in Int /\ MicrosMod = j * D
    BY <2>1, Sizes DEF MicrosMod, T, C
  <2>3. SinceStart = (Micros + j * D - start) % D
    BY <2>2 DEF SinceStart, D
  <2>4. Same(Micros + j * D - start, s) /\ s \in 0 .. D - 1
    <3>1. Micros + j * D - start \in Int
      BY <1>5, <2>2
    <3> QED
      BY <2>3, <3>1, SameAsRemainder
  <2> HIDE DEF s
  <2>5. Same(y, Micros + j * D - start)
    <3>1. PICK i \in Int : Micros = (start + y) + i * D
      BY <1>3 DEF Same
    <3>2. (i + j) * D = i * D + j * D /\ i * D \in Int
      BY <2>2
    <3>3. Micros + j * D - start = y + (i + j) * D
      BY <1>5, <2>2, <3>1, <3>2
    <3>4. Same(Micros + j * D - start, y)
      BY <3>3 DEF Same
    <3>5. Micros + j * D - start \in Int
      BY <1>5, <2>2
    <3> QED
      BY <3>4, <3>5, SameBack
  <2>6. Same(y, s)
    <3>1. Micros + j * D - start \in Int /\ s \in Int
      BY <1>5, <2>2, <2>4
    <3> QED
      BY <2>4, <2>5, <3>1, SameTwice
  <2>7. y >= s
    BY <2>4, <2>6, RemainderLeast
  <2> QED
    BY <2>7 DEF s
<1>7. Same(Clock, start + (y + z))
  <2>1. Same(Micros + z, (start + y) + z)
    <3>1. Micros \in Int /\ start + y \in Int /\ z \in Int /\ Same(Micros, start + y)
      BY <1>3, <1>5
    <3> QED
      BY ONLY <3>1, SameShift
  <2>2. (start + y) + z = start + (y + z) /\ start + (y + z) \in Int
    BY <1>5
  <2>3. Same(Clock, Micros + z)
    BY <1>3 DEF Since
  <2> QED
    BY <1>5, <2>1, <2>2, <2>3, SameTwice
<1>8. \E x \in Nat : Same(Clock, start' + x) /\ Reached(x + Over)'
  <2>1. CASE SinceStart >= TicksPerMs
    <3>1. ms' = ms - 1 /\ start' = (start + TicksPerMs) % D
      BY <1>1, <2>1
    <3>2. y >= TicksPerMs
      <4>1. SinceStart \in Int
        <5>1. Micros + MicrosMod - start \in Int
          <6>1. MicrosMod \in Int
            BY Sizes DEF MicrosMod, T, C
          <6> QED
            BY <1>5, <6>1
        <5> QED
          BY <5>1, SameAsRemainder DEF SinceStart, D
      <4> QED
        BY <1>5, <1>6, <2>1, <4>1
    <3> DEFINE x == y + z - TicksPerMs
    <3>3. x \in Nat /\ y + z = x + TicksPerMs
      BY <1>5, <3>2
    <3>4. Over' = Over + TicksPerMs
      <4>1. Over' = (DelayMs - (ms - 1)) * TicksPerMs
        BY <3>1 DEF Over
      <4>2. (DelayMs - (ms - 1)) * TicksPerMs = (DelayMs - ms) * TicksPerMs + TicksPerMs
        BY <1>2, <1>5
      <4> QED
        BY <4>1, <4>2 DEF Over
    <3> HIDE DEF x
    <3>5. Same(Clock, start' + x)
      <4>1. Same(start + TicksPerMs, start') /\ start' \in Int /\ start + TicksPerMs \in Int
        <5>1. start + TicksPerMs \in Int
          BY <1>5
        <5> QED
          BY <3>1, <5>1, SameAsRemainder
      <4>2. Same((start + TicksPerMs) + x, start' + x)
        BY <3>3, <4>1, SameShift
      <4>3. start + (y + z) = (start + TicksPerMs) + x
        BY <1>5, <3>3
      <4>4. start' + x \in Int /\ (start + TicksPerMs) + x \in Int
        BY <3>3, <4>1
      <4> QED
        BY <1>5, <1>7, <4>2, <4>3, <4>4, SameTwice
    <3>6. x + Over' = y + z + Over
      BY <1>5, <3>3, <3>4
    <3>7. Reached(x + Over)'
      BY <1>1, <1>3, <3>6 DEF Reached
    <3> QED
      BY <3>3, <3>5, <3>7
  <2>2. CASE ~(SinceStart >= TicksPerMs)
    <3>1. ms' = ms /\ start' = start
      BY <1>1, <2>2
    <3>2. Over' = Over
      BY <3>1 DEF Over
    <3>3. Same(Clock, start' + (y + z)) /\ Reached((y + z) + Over)'
      BY <1>1, <1>3, <1>7, <3>1, <3>2 DEF Reached
    <3> QED
      BY <3>3
  <2> QED
    BY <2>1, <2>2
<1>9. PICK x \in Nat : Same(Clock, start' + x) /\ Reached(x + Over)'
  BY <1>8
<1>10. Since(start, x)'
  BY <1>1, <1>4, <1>9 DEF Since
<1>11. ms' \in Nat /\ ms' <= DelayMs
  <2>1. ms' = ms \/ ms' = ms - 1
    BY <1>1
  <2> QED
    BY <1>1, <1>2, <1>5, <2>1
<1>12. CASE ms' > 0
  <2>1. DelayMeasures'
    BY <1>1, <1>2, <1>9, <1>10 DEF DelayMeasures
  <2>2. DelayBegins' /\ DelayPolls'
    BY <1>1, <1>12 DEF DelayBegins, DelayPolls, Measures
  <2>3. DelayGoing'
    BY <1>1, <1>2, <1>11, <1>12 DEF DelayGoing, Measures
  <2> QED
    BY <1>1, <1>12, <2>1, <2>2, <2>3 DEF Delay
<1>13. CASE ~(ms' > 0)
  <2>1. Delay'
    BY <1>1, <1>2, <1>11, <1>13, DelayElsewhere
  <2>2. waited >= DelayMs * TicksPerMs
    <3> DEFINE k == DelayMs * TicksPerMs
    <3>1. ms' = 0
      BY <1>11, <1>13
    <3>2. Over' = k
      <4>1. DelayMs - 0 = DelayMs
        BY <1>5
      <4> QED
        BY <3>1, <4>1 DEF Over
    <3>3. k \in Int /\ MaxWait \in Int /\ MaxWait >= k
      BY <1>5, WaitAssumption, Sizes
    <3>4. waited >= x + k \/ waited = MaxWait
      BY <1>1, <1>9, <3>2 DEF Reached
    <3> HIDE DEF k
    <3>5. waited >= k
      BY <1>2, <3>3, <3>4
    <3> QED
      BY <3>5 DEF k
  <2> QED
    BY <2>1, <2>2
<1> QED
  BY <1>12, <1>13

LEMMA OverflowDelay ==
  ASSUME Types, Reading, Delay, TimerOverflow
  PROVE  Delay'
<1>1. /\ OverflowIsr /\ ~InMicros /\ TimeTypeOK
      /\ UNCHANGED <<pc, caller, ticked, waited>>
  BY DEF TimerOverflow, thread, Types
<1>2. UNCHANGED <<m, t, start, ms>>
  BY <1>1, OverflowCounts
<1>3. Micros' = Micros /\ Over' = Over
  BY <1>2 DEF Micros, Over
<1>4. /\ Measures("delay_start")' <=> Measures("delay_start")
      /\ Measures("delay_poll")' <=> Measures("delay_poll")
  BY <1>1 DEF Measures
<1>5. ASSUME NEW a \in Int, NEW z \in Nat, Since(a, z)
      PROVE  Same(Clock', a + z) /\ ~tov'
  <2>1. Same(Clock, a + z) /\ a + z \in Int
    BY <1>5 DEF Since
  <2> QED
    BY <1>1, <2>1, OverflowSince
<1>6. Micros \in Int /\ start \in Int
  BY <1>1, ClockType
<1>7. DelayBegins'
  <2>1. ASSUME pc = "delay_start", ms > 0
        PROVE  \E z \in Nat : Since(Micros, z)' /\ Reached(z)'
    <3>1. PICK z \in Nat : Since(Micros, z) /\ Reached(z)
      BY <2>1 DEF Delay, DelayBegins
    <3>2. Since(Micros, z)'
      BY <1>3, <1>5, <1>6, <3>1 DEF Since
    <3>3. Reached(z)'
      BY <1>1, <3>1 DEF Reached
    <3> QED
      BY <3>2, <3>3
  <2>2. Measures("delay_start") \/ pc = "delay_start" => ms = DelayMs
    BY DEF Delay, DelayBegins
  <2> QED
    BY <1>1, <1>2, <1>4, <2>1, <2>2 DEF DelayBegins
<1>8. DelayMeasures'
  <2>1. ASSUME Measures("delay_poll")
        PROVE  \E x \in Nat : Since(start, x)' /\ (ticked' => x >= 1) /\ Reached(x + Over)'
    <3>1. PICK x \in Nat : Since(start, x) /\ (ticked => x >= 1) /\ Reached(x + Over)
      BY <2>1 DEF Delay, DelayMeasures
    <3>2. Since(start, x)'
      BY <1>2, <1>5, <1>6, <3>1 DEF Since
    <3>3. Reached(x + Over)'
      BY <1>1, <1>3, <3>1 DEF Reached
    <3> QED
      BY <1>1, <3>1, <3>2, <3>3
  <2> QED
    BY <1>4, <2>1 DEF DelayMeasures
<1>9. DelayPolls'
  <2>1. ASSUME pc = "delay_poll"
        PROVE  \E y, z \in Nat : /\ Same(Micros', start' + y)
                                 /\ Since(Micros, z)'
                                 /\ Reached(y + z + Over)'
    <3>1. PICK y \in Nat, z \in Nat :
            Same(Micros, start + y) /\ Since(Micros, z) /\ Reached(y + z + Over)
      BY <2>1 DEF Delay, DelayPolls
    <3>2. Since(Micros, z)'
      BY <1>3, <1>5, <1>6, <3>1 DEF Since
    <3>3. Reached(y + z + Over)' /\ Same(Micros', start' + y)
      BY <1>1, <1>2, <1>3, <3>1 DEF Reached
    <3> QED
      BY <3>2, <3>3
  <2> QED
    BY <1>1, <2>1 DEF DelayPolls
<1>10. DelayGoing'
  BY <1>1, <1>2, <1>4 DEF Delay, DelayGoing, Reached
<1> QED
  BY <1>7, <1>8, <1>9, <1>10 DEF Delay

LEMMA TickDelay ==
  ASSUME Types, Reading, Delay, TimePasses
  PROVE  Delay'
<1>1. /\ Tick /\ TimeTypeOK /\ waited \in Nat
      /\ UNCHANGED <<pc, caller>> /\ ticked' = InMicros /\ (InMicros => ~ticked)
  BY DEF TimePasses, Types
<1>2. UNCHANGED <<m, t, start, ms>>
  BY <1>1, TickCases
<1>3. Micros' = Micros /\ Over' = Over
  BY <1>2 DEF Micros, Over
<1>4. /\ Measures("delay_start")' <=> Measures("delay_start")
      /\ Measures("delay_poll")' <=> Measures("delay_poll")
  BY <1>1 DEF Measures
<1>5. Micros \in Int /\ start \in Int /\ ms \in Nat /\ ms <= DelayMs /\ Over \in Nat
  BY <1>1, ClockType, OverType DEF TimeTypeOK, Delay, DelayGoing
<1>6. ms > 0 => Waiting
  BY DEF Waiting
<1>7. DelayBegins'
  <2>1. ASSUME pc = "delay_start", ms > 0
        PROVE  \E z \in Nat : Since(Micros, z)' /\ Reached(z)'
    <3>1. PICK z \in Nat : Since(Micros, z) /\ Reached(z)
      BY <2>1 DEF Delay, DelayBegins
    <3>2. PICK w \in Nat : w <= z + 1 /\ Same(Clock', Micros + w) /\ (tov' => w >= tcnt')
      BY <1>1, <1>5, <3>1, TickSince
    <3>3. Since(Micros, w)'
      BY <1>3, <3>2 DEF Since
    <3>4. Reached(w)'
      BY <1>1, <1>6, <2>1, <3>1, <3>2, ReachedTick
    <3> QED
      BY <3>3, <3>4
  <2>2. Measures("delay_start") \/ pc = "delay_start" => ms = DelayMs
    BY DEF Delay, DelayBegins
  <2> QED
    BY <1>1, <1>2, <1>4, <2>1, <2>2 DEF DelayBegins
<1>8. DelayMeasures'
  <2>1. ASSUME Measures("delay_poll")
        PROVE  \E x \in Nat : Since(start, x)' /\ (ticked' => x >= 1) /\ Reached(x + Over)'
    <3>1. PICK x \in Nat : Since(start, x) /\ (ticked => x >= 1) /\ Reached(x + Over)
      BY <2>1 DEF Delay, DelayMeasures
    <3>2. PICK w \in Nat : /\ w <= x + 1 /\ Same(Clock', start + w) /\ (tov' => w >= tcnt')
                           /\ ~tov => w = x + 1
      BY <1>1, <1>5, <3>1, TickSince
    <3>3. Since(start, w)'
      BY <1>2, <3>2 DEF Since
    <3>4. ticked' => w >= 1
      <4>1. ticked' => ~tov
        BY <1>1 DEF Reading
      <4> QED
        BY <3>2, <4>1
    <3>5. Reached(w + Over)'
      <4>1. Waiting
        BY <1>6, <2>1 DEF Delay, DelayGoing
      <4>2. w + Over \in Int /\ x + Over \in Int /\ w + Over <= (x + Over) + 1
        BY <1>5, <3>2
      <4> DEFINE k == w + Over
                 n == x + Over
      <4>3. Reached(n) /\ n \in Int /\ k \in Int /\ k <= n + 1 /\ waited \in Nat
        BY <1>1, <3>1, <4>2
      <4>4. k' = k
        BY <1>3
      <4>5. ASSUME NEW a \in Int, NEW b \in Int, b <= a + 1, Reached(a)
            PROVE  waited' >= b \/ waited' = MaxWait
        BY <1>1, <4>1, <4>5, ReachedTick DEF Reached
      <4> HIDE DEF k, n
      <4>6. waited' >= k \/ waited' = MaxWait
        BY <4>3, <4>5
      <4> QED
        BY <4>4, <4>6 DEF k, Reached
    <3> QED
      BY <3>3, <3>4, <3>5
  <2> QED
    BY <1>4, <2>1 DEF DelayMeasures
<1>9. DelayPolls'
  <2>1. ASSUME pc = "delay_poll"
        PROVE  \E y, z \in Nat : /\ Same(Micros', start' + y)
                                 /\ Since(Micros, z)'
                                 /\ Reached(y + z + Over)'
    <3>1. PICK y \in Nat, z \in Nat :
            Same(Micros, start + y) /\ Since(Micros, z) /\ Reached(y + z + Over)
      BY <2>1 DEF Delay, DelayPolls
    <3>2. PICK w \in Nat : w <= z + 1 /\ Same(Clock', Micros + w) /\ (tov' => w >= tcnt')
      BY <1>1, <1>5, <3>1, TickSince
    <3>3. Since(Micros, w)' /\ Same(Micros', start' + y)
      BY <1>2, <1>3, <3>1, <3>2 DEF Since
    <3>4. Reached(y + w + Over)'
      <4>1. Waiting
        BY <1>6, <2>1 DEF Delay, DelayGoing
      <4>2. y + w + Over \in Int /\ y + z + Over \in Int /\ y + w + Over <= (y + z + Over) + 1
        BY <1>5, <3>2
      <4> DEFINE k == y + w + Over
                 n == y + z + Over
      <4>3. Reached(n) /\ n \in Int /\ k \in Int /\ k <= n + 1 /\ waited \in Nat
        BY <1>1, <3>1, <4>2
      <4>4. k' = k
        BY <1>3
      <4>5. ASSUME NEW a \in Int, NEW b \in Int, b <= a + 1, Reached(a)
            PROVE  waited' >= b \/ waited' = MaxWait
        BY <1>1, <4>1, <4>5, ReachedTick DEF Reached
      <4> HIDE DEF k, n
      <4>6. waited' >= k \/ waited' = MaxWait
        BY <4>3, <4>5
      <4> QED
        BY <4>4, <4>6 DEF k, Reached
    <3> QED
      BY <3>3, <3>4
  <2> QED
    BY <1>1, <2>1 DEF DelayPolls
<1>10. DelayGoing'
  <2>1. ms' > 0 => Reached(1)'
    <3>1. ASSUME ms > 0 PROVE waited' >= 1 \/ waited' = MaxWait
      <4>1. Reached(0)
        BY <1>1 DEF Reached
      <4> QED
        BY <1>1, <1>6, <3>1, <4>1, ReachedTick DEF Reached
    <3> QED
      BY <1>2, <3>1 DEF Reached
  <2> QED
    BY <1>1, <1>2, <1>4, <2>1 DEF Delay, DelayGoing
<1> QED
  BY <1>7, <1>8, <1>9, <1>10 DEF Delay

LEMMA NextDelay == Types /\ Reading /\ Delay /\ [Next]_vars => Delay'
<1> SUFFICES ASSUME Types, Reading, Delay, [Next]_vars PROVE Delay'
  OBVIOUS
<1>1. CASE OtherIsr \/ UNCHANGED vars
  BY <1>1, DelayLeft DEF OtherIsr, vars, timeVars, clock, locals, thread
<1>2. CASE MicrosCount \/ MicrosTcnt
  BY <1>2, ReadsDelay
<1>3. CASE MicrosFlag
  BY <1>3, FlagDelay
<1>4. CASE DelayStarts
  BY <1>4, StartDelay
<1>5. CASE DelayGoesOn
  BY <1>5, RoundDelay
<1>6. CASE TimerOverflow
  BY <1>6, OverflowDelay
<1>7. CASE TimePasses
  BY <1>7, TickDelay
<1>8. ms <= DelayMs /\ 0 <= DelayMs /\ (~InMicros => ~ticked)
  BY Sizes DEF Delay, DelayGoing, Reading
<1>9. CASE MicrosReturns \/ DelayReturns \/ TimedReadFinds \/ TimedReadGivesUp
  <2>1. ~ticked' /\ ms' = 0 /\ pc' = "idle"
    BY <1>8, <1>9
    DEF MicrosReturns, DelayReturns, TimedReadFinds, TimedReadGivesUp, Return, TimeReturn,
        Goto, At, InMicros
  <2> QED
    BY <1>8, <2>1, DelayElsewhere
<1>10. CASE MicrosCall
  <2>1. ~ticked' /\ ms' = ms /\ pc' = "micros" /\ caller' = "micros_end"
    BY <1>8, <1>10 DEF MicrosCall, StartMicros, At, InMicros, timeVars, locals
  <2> QED
    BY <1>8, <2>1, DelayElsewhere
<1>11. CASE TimedReadCall \/ TimedReadMisses \/ TimedReadChecks
  <2>1. ~ticked' /\ ms' = ms /\ pc' \in {"timed_read", "timed_check", "timed_out"}
    BY <1>8, <1>11
    DEF TimedReadCall, TimedReadMisses, TimedReadChecks, Goto, At, InMicros, timeVars, locals
  <2> QED
    BY <1>8, <2>1, DelayElsewhere
<1>12. CASE DelayCalled
  <2>1. ~ticked' /\ ms' = DelayMs /\ pc' = "micros" /\ caller' = "delay_start"
    BY <1>8, <1>12 DEF DelayCalled, DelayCall, StartMicros, At, InMicros
  <2>2. DelayMs <= DelayMs
    BY Sizes
  <2> QED
    BY <2>1, <2>2
    DEF Delay, DelayBegins, DelayMeasures, DelayPolls, DelayGoing, Measures
<1> QED
  BY <1>1, <1>2, <1>3, <1>4, <1>5, <1>6, <1>7, <1>9, <1>10, <1>11, <1>12 DEF Next

-----------------------------------------------------------------------------
(* timedRead() *)

LEMMA InitTimedRead == Init => TimedReadWaits
BY DEF Init, TimedReadWaits

LEMMA NextTimedRead == Types /\ TimedReadWaits /\ [Next]_vars => TimedReadWaits'
<1> SUFFICES ASSUME Types, TimedReadWaits, [Next]_vars,
                    pc' \in {"timed_read", "timed_check"}
             PROVE  \E o \in Nat, f \in 0 .. FRACT_MAX - 1, j \in Int :
                      /\ Fraction' = start' * FRACT_MAX + f + o * P + j * F
                      /\ Reached((o + Pending) * T + tcnt - (T - 1))'
  BY DEF TimedReadWaits
<1>1. /\ TimeTypeOK /\ waited \in Nat /\ tcnt \in 0 .. T - 1 /\ T \in Nat \ {0}
      /\ P \in Int /\ F \in Int /\ FRACT_MAX \in Int /\ tov \in BOOLEAN
  BY Sizes DEF Types, TimeTypeOK, T, P, F, PerOverflow
<1>2. CASE TimedReadCall
  <2>1. /\ start' = timer0_millis /\ ~tov /\ tov' = tov /\ tcnt' = tcnt
        /\ timer0_millis' = timer0_millis /\ timer0_fract' = timer0_fract
        /\ waited' = waited
    BY <1>2 DEF TimedReadCall, Millis, clock, At, InMicros
  <2>2. timer0_fract \in 0 .. FRACT_MAX - 1 /\ timer0_millis * FRACT_MAX \in Int
    BY <1>1 DEF TimeTypeOK
  <2>3. 0 * P = 0 /\ 0 * F = 0
    BY <1>1
  <2>4. Fraction' = start' * FRACT_MAX + timer0_fract + 0 * P + 0 * F
    <3> DEFINE x == timer0_millis * FRACT_MAX
    <3>1. x \in Int /\ Fraction' = x + timer0_fract /\ start' * FRACT_MAX = x
      BY <2>1, <2>2 DEF Fraction
    <3> HIDE DEF x
    <3> QED
      BY <2>2, <2>3, <3>1
  <2>5. Reached((0 + Pending) * T + tcnt - (T - 1))'
    <3>1. Pending' = 0 /\ (0 + 0) * T = 0
      BY <1>1, <2>1 DEF Pending
    <3>2. 0 + tcnt - (T - 1) <= 0
      BY <1>1
    <3> QED
      BY <1>1, <2>1, <3>1, <3>2 DEF Reached
  <2> QED
    BY <2>2, <2>4, <2>5
<1>3. CASE TimePasses
  <2>1. /\ Tick /\ pc' = pc /\ Waiting
        /\ UNCHANGED <<timer0_millis, timer0_fract, start>>
    BY <1>1, <1>3, TickCases DEF TimePasses, Waiting
  <2>2. PICK o \in Nat, f \in 0 .. FRACT_MAX - 1, j \in Int :
          /\ Fraction = start * FRACT_MAX + f + o * P + j * F
          /\ Reached((o + Pending) * T + tcnt - (T - 1))
    BY <2>1 DEF TimedReadWaits
  <2> DEFINE n == (o + Pending) * T + tcnt - (T - 1)
             x == o * T
  <2>3. x \in Int /\ (o + 1) * T = x + T /\ (o + 0) * T = x
    BY <1>1
  <2>4. /\ n = x + (IF tov THEN T ELSE 0) + tcnt - (T - 1)
        /\ n' = x + (IF tov' THEN T ELSE 0) + tcnt' - (T - 1)
    BY <2>3 DEF Pending
  <2>5. Reached(n)
    BY <2>2
  <2> HIDE DEF n, x
  <2>6. n \in Int /\ n' \in Int /\ n' <= n + 1
    <3>1. CASE tcnt + 1 < T /\ tcnt' = tcnt + 1 /\ tov' = tov
      BY <1>1, <2>3, <2>4, <3>1
    <3>2. CASE tcnt + 1 = T /\ tcnt' = 0 /\ ~tov /\ tov'
      BY <1>1, <2>3, <2>4, <3>2
    <3>3. CASE tcnt + 1 = T /\ tcnt' = 0 /\ tov /\ tov'
      BY <1>1, <2>3, <2>4, <3>3
    <3> QED
      BY <1>1, <2>1, <3>1, <3>2, <3>3, TickCases
  <2>7. Reached(n)'
    <3>1. ASSUME NEW a \in Int, NEW b \in Int, b <= a + 1, Reached(a)
          PROVE  waited' >= b \/ waited' = MaxWait
      BY <1>1, <1>3, <2>1, <3>1, ReachedTick DEF Reached
    <3> QED
      BY <2>5, <2>6, <3>1 DEF Reached
  <2>8. Fraction' = start' * FRACT_MAX + f + o * P + j * F
    BY <2>1, <2>2 DEF Fraction
  <2> QED
    BY <2>7, <2>8 DEF n
<1>4. CASE TimerOverflow
  <2>1. OverflowIsr /\ pc' = pc /\ waited' = waited
    BY <1>4 DEF TimerOverflow, thread
  <2>2. tov /\ ~tov' /\ start' = start /\ tcnt' = tcnt
    BY <1>1, <2>1, OverflowCounts
  <2>3. PICK k \in Int : Fraction' = Fraction + P + k * F
    BY <1>1, <2>1, OverflowCounts
  <2>4. PICK o \in Nat, f \in 0 .. FRACT_MAX - 1, j \in Int :
          /\ Fraction = start * FRACT_MAX + f + o * P + j * F
          /\ Reached((o + Pending) * T + tcnt - (T - 1))
    BY <2>1 DEF TimedReadWaits
  <2>5. Fraction' = start' * FRACT_MAX + f + (o + 1) * P + (j + k) * F
    <3>1. (o + 1) * P = o * P + P /\ (j + k) * F = j * F + k * F
      BY <1>1
    <3>2. start \in Int
      BY <1>1, ClockType
    <3> DEFINE x == start * FRACT_MAX
               y == o * P
               z == j * F
               w == k * F
    <3>3. x \in Int /\ y \in Int /\ z \in Int /\ w \in Int
      BY <1>1, <3>2
    <3>4. /\ Fraction' = (x + f + y + z) + P + w /\ start' * FRACT_MAX = x
          /\ (o + 1) * P = y + P /\ (j + k) * F = z + w
      BY <2>2, <2>3, <2>4, <3>1
    <3> HIDE DEF x, y, z, w
    <3>5. (x + f + y + z) + P + w = x + f + (y + P) + (z + w)
      BY <1>1, <3>3
    <3> QED
      BY ONLY <3>4, <3>5, Zenon
  <2>6. Pending = 1 /\ Pending' = 0 /\ o + 1 = (o + 1) + 0
    BY <2>2 DEF Pending
  <2>7. Reached(((o + 1) + Pending) * T + tcnt - (T - 1))'
    BY <2>1, <2>2, <2>4, <2>6 DEF Reached
  <2> QED
    BY <2>5, <2>7
<1>5. CASE TimedReadMisses \/ TimedReadChecks \/ OtherIsr \/ UNCHANGED vars
  <2>1. /\ UNCHANGED <<tcnt, tov, timer0_millis, timer0_fract, start, waited>>
        /\ pc \in {"timed_read", "timed_check"}
    BY <1>5
    DEF TimedReadMisses, TimedReadChecks, OtherIsr, At, vars, timeVars, clock, locals, thread
  <2>2. Fraction' = Fraction /\ Pending' = Pending
    BY <2>1 DEF Fraction, Pending
  <2> QED
    BY <2>1, <2>2 DEF TimedReadWaits, Reached
<1>6. CASE \/ MicrosCall \/ MicrosCount \/ MicrosTcnt \/ MicrosFlag \/ MicrosReturns
           \/ DelayCalled \/ DelayStarts \/ DelayGoesOn \/ DelayReturns
           \/ TimedReadFinds \/ TimedReadGivesUp
  BY <1>6
  DEF MicrosCall, MicrosCount, MicrosTcnt, MicrosFlag, MicrosReturns, DelayCalled,
      DelayStarts, DelayGoesOn, DelayReturns, TimedReadFinds, TimedReadGivesUp, Return,
      NextRound, StartMicros, Goto, At, Types
<1> QED
  BY <1>2, <1>3, <1>4, <1>5, <1>6 DEF Next

\* When millis() has gone on by the time-out, so much time has been counted.
LEMMA CountedLong ==
  ASSUME Types, NEW o \in Nat, NEW f \in 0 .. FRACT_MAX - 1, NEW j \in Int,
         Fraction = start * FRACT_MAX + f + o * P + j * F,
         (Millis + MillisMod - start) % MillisMod >= _timeout
  PROVE  o * P > (_timeout - 1) * FRACT_MAX
<1> DEFINE d == (Millis + MillisMod - start) % MillisMod
           G == FRACT_MAX
           M == MillisMod
<1>1. /\ timer0_millis \in Int /\ start \in Int /\ timer0_fract \in 0 .. G - 1
      /\ G \in Nat \ {0} /\ M \in Nat \ {0} /\ P \in Nat /\ _timeout \in Nat
      /\ Millis = timer0_millis
  <2>1. P \in Nat
    <3>1. MILLIS_INC * FRACT_MAX \in Int /\ MILLIS_INC * FRACT_MAX >= 0
      BY Sizes, Products
    <3> DEFINE x == MILLIS_INC * FRACT_MAX
    <3>2. x \in Int /\ x >= 0 /\ P = x + FRACT_INC
      BY <3>1 DEF P, PerOverflow
    <3> HIDE DEF x
    <3> QED
      BY <3>2, Sizes
  <2> QED
    BY <2>1, Sizes DEF Types, TimeTypeOK, Millis
<1>2. (\E q \in Int : Millis + M - start = q * M + d) /\ d \in 0 .. M - 1
  <2> DEFINE x == Millis + M - start
  <2>1. x \in Int
    BY <1>1
  <2> HIDE DEF x
  <2>2. x % M \in 0 .. M - 1 /\ \E q \in Int : x = q * M + (x % M)
    BY <1>1, <2>1, Split
  <2> QED
    BY <2>2 DEF x
<1>3. d \in 0 .. M - 1 /\ d >= _timeout
  BY <1>2
<1> HIDE DEF d
<1>4. PICK q \in Int : Millis + M - start = q * M + d
  BY <1>2
<1> DEFINE w == (q - 1) - j
<1>5. w \in Int
  BY <1>1
<1>6. o * P = d * G + w * (M * G) + timer0_fract - f
  <2>1. (Millis + M - start) * G = (q * M + d) * G
    BY <1>4
  <2>2. (Millis + M - start) * G = Millis * G + M * G - start * G
    BY <1>1
  <2>3. (q * M + d) * G = q * (M * G) + d * G
    BY <1>1, <1>3
  <2>4. w * (M * G) = q * (M * G) - M * G - j * (M * G)
    BY <1>1
  <2> DEFINE a == Millis * G
             b == M * G
             c == start * G
             e == q * (M * G)
             g == j * (M * G)
             h == d * G
             k == o * P
             l == w * (M * G)
  <2>5. /\ a \in Int /\ b \in Int /\ c \in Int /\ e \in Int /\ g \in Int /\ h \in Int
        /\ k \in Int /\ l \in Int
    BY <1>1, <1>3, <1>5, Products
  <2>6. a + b - c = e + h /\ l = e - b - g
    BY <2>1, <2>2, <2>3, <2>4
  <2>7. a + timer0_fract = c + f + k + g
    BY <1>1 DEF Fraction, F
  <2> HIDE DEF a, b, c, e, g, h, k, l
  <2>8. k = h + l + timer0_fract - f
    BY <1>1, <2>5, <2>6, <2>7
  <2> QED
    BY <2>8 DEF k, h, l
<1>7. o * P >= 0
  BY <1>1, Products
<1>8. (_timeout - 1) * G <= d * G - G
  <2>1. (d - _timeout) * G >= 0
    BY <1>1, <1>3, Products
  <2>2. (d - _timeout) * G = d * G - _timeout * G /\ (_timeout - 1) * G = _timeout * G - G
    BY <1>1, <1>3
  <2> DEFINE a == d * G
             b == _timeout * G
  <2>3. a \in Int /\ b \in Int /\ a - b >= 0 /\ (_timeout - 1) * G = b - G
    BY <1>1, <1>3, <2>1, <2>2, Products
  <2> HIDE DEF a, b
  <2>4. (_timeout - 1) * G <= a - G
    BY <1>1, <2>3
  <2> QED
    BY <2>4 DEF a
<1>9. w >= 0
  <2>1. SUFFICES ASSUME w < 0 PROVE FALSE
    BY <1>5
  <2>2. (-w) * (M * G) >= M * G
    <3>1. -w \in Int /\ -w > 0 /\ M * G \in Int /\ M * G > 0
      BY <1>1, <1>5, <2>1, Products
    <3> HIDE DEF w
    <3>2. ASSUME NEW x \in Int, NEW y \in Int, x > 0, y > 0 PROVE x * y >= y
      BY <3>2, Products
    <3> QED
      BY <3>1, <3>2
  <2>3. (-w) * (M * G) = -(w * (M * G))
    BY <1>1, <1>5
  <2>4. (M - 1 - d) * G >= 0
    BY <1>1, <1>3, Products
  <2>5. (M - 1 - d) * G = M * G - G - d * G
    BY <1>1, <1>3
  <2> DEFINE a == M * G
             b == d * G
             c == w * (M * G)
             k == o * P
  <2>6. /\ a \in Int /\ b \in Int /\ c \in Int /\ k \in Int
        /\ -c >= a /\ a - G - b >= 0 /\ k = b + c + timer0_fract - f /\ k >= 0
    BY <1>1, <1>3, <1>5, <1>6, <1>7, <2>2, <2>3, <2>4, <2>5, Products
  <2> HIDE DEF a, b, c, k, w
  <2> QED
    BY <1>1, <2>6
<1>10. w * (M * G) >= 0
  <2>1. M * G \in Int /\ M * G >= 0
    BY <1>1, Products
  <2> HIDE DEF w
  <2> QED
    BY <1>5, <1>9, <2>1, Products
<1> DEFINE a == d * G
           c == w * (M * G)
           k == o * P
           z == (_timeout - 1) * G
<1>11. /\ a \in Int /\ c \in Int /\ k \in Int /\ z \in Int
       /\ z <= a - G /\ c >= 0 /\ k = a + c + timer0_fract - f
  BY <1>1, <1>3, <1>5, <1>6, <1>8, <1>10, Products
<1> HIDE DEF a, c, k, z, w
<1>12. k > z
  BY <1>1, <1>11
<1> QED
  BY <1>12 DEF k, z

\* So much counted time takes as long, less the overflow under way.
LEMMA LongEnough ==
  ASSUME Types, NEW o \in Nat, o * P > (_timeout - 1) * FRACT_MAX,
         waited >= o * T - (T - 1)
  PROVE  waited * FRACT_MAX > EarliestTimeout
<1> DEFINE G == FRACT_MAX
           L == TicksPerMs
           y == (_timeout - 1) * G
<1>1. /\ G \in Int /\ G > 0 /\ L \in Int /\ L > 0 /\ T \in Int /\ T > 0
      /\ P \in Int /\ P > 0 /\ waited \in Int /\ waited >= 0 /\ _timeout \in Nat
  <2>1. P \in Int /\ P > 0
    <3>1. MILLIS_INC * FRACT_MAX \in Int /\ MILLIS_INC * FRACT_MAX > 0
      BY Sizes, Products
    <3> DEFINE x == MILLIS_INC * FRACT_MAX
    <3>2. x \in Int /\ x > 0 /\ P = x + FRACT_INC
      BY <3>1 DEF P, PerOverflow
    <3> HIDE DEF x
    <3> QED
      BY <3>2, Sizes
  <2> QED
    BY <2>1, Sizes DEF Types
<1>2. y \in Int /\ o * P > y /\ o * P \in Int
  BY <1>1, Products
<1>3. EarliestTimeout = (y - P) * L
  BY DEF EarliestTimeout, P
<1>4. P * L <= T * G
  BY WaitAssumption DEF P, T
<1> HIDE DEF y
<1>5. CASE o = 0
  <2>1. y < 0
    <3>1. o * P = 0
      BY <1>1, <1>5
    <3> QED
      BY <1>2, <3>1
  <2>2. P - y \in Int /\ P - y > 0
    BY <1>1, <1>2, <2>1
  <2>3. (P - y) * L > 0 /\ (P - y) * L \in Int
    BY <1>1, <2>2, Products
  <2>4. (y - P) * L = -((P - y) * L)
    BY <1>1, <1>2
  <2>5. waited * G >= 0 /\ waited * G \in Int
    BY <1>1, Products
  <2> DEFINE a == (P - y) * L
             b == waited * G
  <2>6. a \in Int /\ b \in Int /\ a > 0 /\ b >= 0 /\ EarliestTimeout = -a
    BY <1>3, <2>3, <2>4, <2>5
  <2> HIDE DEF a, b
  <2>7. b > EarliestTimeout
    BY <2>6
  <2> QED
    BY <2>7 DEF b
<1>6. CASE o > 0
  <2>1. (o - 1) * (T * G) >= (o - 1) * (P * L)
    <3> DEFINE a == T * G
               b == P * L
    <3>1. a \in Int /\ b \in Int /\ a >= b
      BY <1>1, <1>4, Products
    <3> HIDE DEF a, b
    <3>2. o - 1 \in Int /\ o - 1 >= 0 /\ a - b \in Int /\ a - b >= 0
      BY <1>6, <3>1
    <3>3. (o - 1) * (a - b) >= 0
      BY <3>2, Products
    <3>4. (o - 1) * (a - b) = (o - 1) * a - (o - 1) * b
      BY <3>1
    <3>5. (o - 1) * a \in Int /\ (o - 1) * b \in Int
      BY <3>1
    <3>6. (o - 1) * a >= (o - 1) * b
      <4> DEFINE c == (o - 1) * a
                 e == (o - 1) * b
      <4>1. c \in Int /\ e \in Int /\ c - e >= 0
        BY <3>3, <3>4, <3>5
      <4> HIDE DEF c, e
      <4>2. c >= e
        BY <4>1
      <4> QED
        BY <4>2 DEF c, e
    <3> QED
      BY <3>6 DEF a, b
  <2>2. waited * G >= (o - 1) * (T * G) + G
    <3>1. (o - 1) * (T * G) + G = ((o * T - T) + 1) * G
      BY <1>1
    <3> DEFINE a == (o * T - T) + 1
    <3>2. a \in Int /\ waited >= a
      <4> DEFINE b == o * T
      <4>1. b \in Int /\ waited >= b - (T - 1)
        BY <1>1
      <4> HIDE DEF b
      <4>2. (b - T) + 1 \in Int /\ waited >= (b - T) + 1
        BY <1>1, <4>1
      <4> QED
        BY <4>2 DEF b
    <3> HIDE DEF a
    <3>3. (waited - a) * G >= 0
      BY <1>1, <3>2, Products
    <3>4. (waited - a) * G = waited * G - a * G /\ waited * G \in Int /\ a * G \in Int
      BY <1>1, <3>2
    <3>5. waited * G >= a * G
      <4> DEFINE c == waited * G
                 e == a * G
      <4>1. c \in Int /\ e \in Int /\ c - e >= 0
        BY <3>3, <3>4
      <4> HIDE DEF c, e
      <4>2. c >= e
        BY <4>1
      <4> QED
        BY <4>2 DEF c, e
    <3> QED
      BY <3>1, <3>5 DEF a
  <2>3. (o - 1) * (P * L) >= (y - P) * L
    <3>1. (o - 1) * (P * L) = (o * P - P) * L
      BY <1>1
    <3> DEFINE a == o * P
    <3>2. a \in Int /\ a > y
      BY <1>2
    <3> HIDE DEF a
    <3>3. (a - y) * L >= 0
      BY <1>1, <1>2, <3>2, Products
    <3>4. (a - P) * L = (a - y) * L + (y - P) * L
      BY <1>1, <1>2, <3>2
    <3>5. (a - y) * L \in Int /\ (y - P) * L \in Int
      BY <1>1, <1>2, <3>2
    <3>6. (a - P) * L >= (y - P) * L
      <4> DEFINE c == (a - y) * L
                 e == (y - P) * L
      <4>1. c \in Int /\ e \in Int /\ c >= 0 /\ (a - P) * L = c + e
        BY <3>3, <3>4, <3>5
      <4> HIDE DEF c, e
      <4>2. c + e >= e
        BY <4>1
      <4> QED
        BY <4>1, <4>2 DEF e
    <3> QED
      BY <3>1, <3>6 DEF a
  <2> DEFINE a == (o - 1) * (T * G)
             b == (o - 1) * (P * L)
             c == waited * G
             e == (y - P) * L
  <2>4. a \in Int /\ b \in Int /\ c \in Int /\ e \in Int
    BY <1>1, <1>2, Products
  <2>5. a >= b /\ c >= a + G /\ b >= e /\ EarliestTimeout = e
    BY <1>3, <2>1, <2>2, <2>3
  <2> HIDE DEF a, b, c, e
  <2>6. c > EarliestTimeout
    BY <1>1, <2>4, <2>5
  <2> QED
    BY <2>6 DEF c
<1> QED
  BY <1>5, <1>6

LEMMA WaitSteps == Keeps /\ [Next]_vars =>
  [/\ pc = "delay_poll" /\ pc' = "delay_end" => waited >= DelayMs * TicksPerMs
   /\ pc = "timed_check" /\ pc' = "timed_out" =>
        waited * FRACT_MAX > EarliestTimeout]_vars
<1> SUFFICES ASSUME Keeps, Next
             PROVE  /\ pc = "delay_poll" /\ pc' = "delay_end" =>
                         waited >= DelayMs * TicksPerMs
                    /\ pc = "timed_check" /\ pc' = "timed_out" =>
                         waited * FRACT_MAX > EarliestTimeout
  OBVIOUS
<1>1. ASSUME pc = "delay_poll", pc' = "delay_end"
      PROVE  waited >= DelayMs * TicksPerMs
  <2>1. DelayGoesOn
    BY <1>1
    DEF Next, MicrosCall, MicrosCount, MicrosTcnt, MicrosFlag, MicrosReturns, DelayCalled,
        DelayStarts, DelayReturns, TimedReadCall, TimedReadFinds, TimedReadMisses,
        TimedReadChecks, TimedReadGivesUp, OtherIsr, TimerOverflow, TimePasses, At, thread
  <2> QED
    BY <1>1, <2>1, RoundDelay DEF Keeps
<1>2. ASSUME pc = "timed_check", pc' = "timed_out"
      PROVE  waited * FRACT_MAX > EarliestTimeout
  <2>1. TimedReadChecks
    BY <1>2
    DEF Next, MicrosCall, MicrosCount, MicrosTcnt, MicrosFlag, MicrosReturns, DelayCalled,
        DelayStarts, DelayGoesOn, DelayReturns, TimedReadCall, TimedReadFinds,
        TimedReadMisses, TimedReadGivesUp, OtherIsr, TimerOverflow, TimePasses, At, thread
  <2>2. Types /\ waited \in Nat
    BY DEF Keeps, Types
  <2>3. ~tov /\ (Millis + MillisMod - start) % MillisMod >= _timeout
    <3> DEFINE d == (Millis + MillisMod - start) % MillisMod
    <3>1. ~tov /\ ~(d < _timeout)
      BY <1>2, <2>1 DEF TimedReadChecks, Goto, At, InMicros
    <3>2. Millis + MillisMod - start \in Int
      <4>1. timer0_millis \in Int /\ start \in Int /\ MillisMod \in Int
        BY <2>2, Sizes DEF Types, TimeTypeOK
      <4> QED
        BY <4>1 DEF Millis
    <3>3. d \in Int /\ _timeout \in Int
      BY <3>2, Sizes, Split
    <3> HIDE DEF d
    <3>4. d >= _timeout
      BY <3>1, <3>3
    <3> QED
      BY <3>1, <3>4 DEF d
  <2>4. PICK o \in Nat, f \in 0 .. FRACT_MAX - 1, j \in Int :
          /\ Fraction = start * FRACT_MAX + f + o * P + j * F
          /\ Reached((o + Pending) * T + tcnt - (T - 1))
    BY <1>2 DEF Keeps, TimedReadWaits
  <2>5. o * P > (_timeout - 1) * FRACT_MAX
    BY <2>2, <2>3, <2>4, CountedLong
  <2>6. CASE waited = MaxWait
    BY <2>6, WaitAssumption
  <2>7. CASE waited # MaxWait
    <3>1. waited >= o * T + tcnt - (T - 1)
      <4>1. Pending = 0 /\ o + 0 = o
        BY <2>3 DEF Pending
      <4> QED
        BY <2>4, <2>7, <4>1 DEF Reached
    <3>2. waited >= o * T - (T - 1)
      <4>1. T \in Int /\ tcnt \in Int /\ tcnt >= 0 /\ o * T \in Int
        BY <2>2, Sizes DEF Types, TimeTypeOK
      <4> DEFINE x == o * T
      <4>2. x \in Int /\ waited >= x + tcnt - (T - 1)
        BY <3>1, <4>1
      <4> HIDE DEF x
      <4>3. waited >= x - (T - 1)
        BY <2>2, <4>1, <4>2
      <4> QED
        BY <4>3 DEF x
    <3> QED
      BY <2>2, <2>5, <3>2, LongEnough
  <2> QED
    BY <2>6, <2>7
<1> QED
  BY <1>1, <1>2

-----------------------------------------------------------------------------
(* The theorems *)

LEMMA Kept == Spec => []Keeps
<1>1. Init => Keeps
  BY InitTypes, InitExact, InitReading, InitDelay, InitTimedRead DEF Keeps
<1>2. Keeps /\ [Next]_vars => Keeps'
  BY NextTypes, NextExact, NextReading, NextDelay, NextTimedRead DEF Keeps
<1> QED
  BY <1>1, <1>2, PTL DEF Spec

\* The overflow count and millis() with its fraction are the true time, however
\* late the overflow handler runs, as long as it misses none.
THEOREM TimeIsKept == Spec => []ClockExact
<1>1. Keeps => ClockExact
  BY ClockExactly DEF Keeps
<1> QED
  BY <1>1, Kept, PTL

\* micros() returns the time at which it ran, at most a tick old, wherever in
\* its three reads the overflow comes.
THEOREM MicrosIsExact == Spec => MicrosExact
<1>1. Keeps /\ [Next]_vars =>
        [pc = "micros_flag" /\ pc' # pc /\ ~lost =>
           \E k \in {0, 1} : (m' * TimerTicks + t + k) % MicrosMod = now % MicrosMod]_vars
  BY MicrosSteps DEF Keeps
<1> QED
  BY <1>1, Kept, PTL DEF Spec, MicrosExact

\* Neither delay() nor timedRead() ends early, for every delay and time-out,
\* even when overflows are lost.
THEOREM NoWaitIsShort == Spec => WaitsNotEarly
<1> QED
  BY Kept, WaitSteps, PTL DEF Spec, WaitsNotEarly
=============================================================================
