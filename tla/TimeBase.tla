------------------------------ MODULE TimeBase ------------------------------
(***************************************************************************)
(* cores/arduino/wiring.c: timer 0, its overflow handler, and the calls    *)
(* that tell the time.  A tick is one step of TCNT0 (4 us at 16 MHz).      *)
(* Whoever composes this module says when a tick may come, and when the    *)
(* overflow handler may run.                                               *)
(*                                                                         *)
(* The thread's calls are cut where time can pass in them: micros() reads  *)
(* the overflow count, TCNT0 and the flag one after the other.             *)
(***************************************************************************)
EXTENDS Integers

CONSTANTS
  TimerTicks,   \* ticks per overflow: 256 in the source
  CountMod,     \* values of timer0_overflow_count: 2^32
  MILLIS_INC,   \* whole milliseconds per overflow: 1 at 16 MHz
  FRACT_INC, FRACT_MAX,  \* the rest, FRACT_INC / FRACT_MAX ms: 3 / 125
  MillisMod,    \* values of timer0_millis: 2^32
  TicksPerMs,   \* ticks of a millisecond, as delay() counts them: 250
  DelayMod,     \* ticks a uint16_t of microseconds can tell apart: 2^14
  NowMod        \* the true time is kept modulo this many ticks

ASSUME TimerAssumption ==
  /\ {TimerTicks, CountMod, MILLIS_INC, FRACT_MAX, MillisMod, TicksPerMs, DelayMod}
       \subseteq Nat \ {0}
  /\ FRACT_INC \in 0 .. FRACT_MAX - 1
  /\ (TimerTicks * CountMod) % DelayMod = 0
  /\ NowMod \in Nat \ {0} /\ NowMod % (TimerTicks * CountMod) = 0
  /\ ((NowMod \div TimerTicks) * (MILLIS_INC * FRACT_MAX + FRACT_INC))
       % (MillisMod * FRACT_MAX) = 0

VARIABLES
  tcnt, tov,             \* TCNT0 and its overflow flag
  timer0_overflow_count, timer0_millis, timer0_fract,
  m, t,                  \* the locals of micros()
  start, ms,             \* the locals of delay(); timedRead() has a start too
  now,                   \* history: the true time in ticks, while nothing is lost
  lost                   \* history: an overflow came while one was pending

clock == <<tcnt, tov, timer0_overflow_count, timer0_millis, timer0_fract>>
locals == <<m, t, start, ms>>
timeVars == <<clock, locals, now, lost>>

MicrosMod == TimerTicks * CountMod

\* An overflow in units of 1 / FRACT_MAX ms.
PerOverflow == MILLIS_INC * FRACT_MAX + FRACT_INC

TimeInit ==
  /\ tcnt = 0 /\ tov = FALSE
  /\ timer0_overflow_count = 0 /\ timer0_millis = 0 /\ timer0_fract = 0
  /\ m = 0 /\ t = 0 /\ start = 0 /\ ms = 0
  /\ now = 0 /\ lost = FALSE

\* The timer counts on; a second overflow finds the flag still set.
Tick ==
  /\ tcnt' = (tcnt + 1) % TimerTicks
  /\ tov' = (tov \/ tcnt' = 0)
  /\ lost' = (lost \/ (tov /\ tcnt' = 0))
  /\ now' = IF lost' THEN 0 ELSE (now + 1) % NowMod
  /\ UNCHANGED <<timer0_overflow_count, timer0_millis, timer0_fract, locals>>

\* Mutant: the fraction is cleared, not carried over.
OverflowIsr_DropsRest ==
  /\ tov
  /\ tov' = FALSE
  /\ LET f == timer0_fract + FRACT_INC
         carry == IF f >= FRACT_MAX THEN 1 ELSE 0
     IN  /\ timer0_fract' = IF carry = 1 THEN 0 ELSE f
         /\ timer0_millis' = (timer0_millis + MILLIS_INC + carry) % MillisMod
  /\ timer0_overflow_count' = (timer0_overflow_count + 1) % CountMod
  /\ UNCHANGED <<tcnt, locals, now, lost>>

\* ISR(TIMER0_OVF_vect); the hardware clears the flag.
OverflowIsr ==
  /\ tov
  /\ tov' = FALSE
  /\ LET f == timer0_fract + FRACT_INC
         carry == IF f >= FRACT_MAX THEN 1 ELSE 0
     IN  /\ timer0_fract' = f - carry * FRACT_MAX
         /\ timer0_millis' = (timer0_millis + MILLIS_INC + carry) % MillisMod
  /\ timer0_overflow_count' = (timer0_overflow_count + 1) % CountMod
  /\ UNCHANGED <<tcnt, locals, now, lost>>

\* micros() in three steps, with interrupts off from the first to the last.
ReadCount ==
  /\ m' = timer0_overflow_count
  /\ UNCHANGED <<clock, t, start, ms, now, lost>>

ReadTcnt ==
  /\ t' = tcnt
  /\ UNCHANGED <<clock, m, start, ms, now, lost>>

\* Mutants: the pending overflow is not added, or is added to a TCNT0 that
\* was read before it.
Corrected_Never  == m
Corrected_Always == IF tov THEN m + 1 ELSE m

\* A pending overflow is added unless TCNT0 was read just before it.
Corrected == IF tov /\ t < TimerTicks - 1 THEN m + 1 ELSE m

ReadFlag ==
  /\ m' = Corrected % CountMod
  /\ UNCHANGED <<clock, t, start, ms, now, lost>>

\* The locals of a call that returns are forgotten.
TimeReturn ==
  /\ m' = 0 /\ t' = 0 /\ start' = 0 /\ ms' = 0
  /\ UNCHANGED <<clock, now, lost>>

\* What micros() returns, in ticks.
Micros == m * TimerTicks + t

\* millis() is one step: it copies with interrupts off.
Millis == timer0_millis

\* (uint16_t)micros() - start, in the unsigned arithmetic of the AVR.
SinceStart == (Micros + MicrosMod - start) % DelayMod

DelayCall(n) ==
  /\ ms' = n
  /\ UNCHANGED <<clock, m, t, start, now, lost>>

DelayStart ==
  /\ start' = Micros % DelayMod
  /\ m' = 0 /\ t' = 0
  /\ UNCHANGED <<clock, ms, now, lost>>

\* One round of delay()'s loop counts at most one millisecond.
DelayPoll ==
  /\ ms > 0
  /\ IF SinceStart >= TicksPerMs
     THEN ms' = ms - 1 /\ start' = (start + TicksPerMs) % DelayMod
     ELSE UNCHANGED <<ms, start>>
  /\ m' = 0 /\ t' = 0
  /\ UNCHANGED <<clock, now, lost>>

TimeTypeOK ==
  /\ tcnt \in 0 .. TimerTicks - 1 /\ tov \in BOOLEAN
  /\ timer0_overflow_count \in 0 .. CountMod - 1
  /\ timer0_millis \in 0 .. MillisMod - 1
  /\ timer0_fract \in 0 .. FRACT_MAX - 1
  /\ m \in 0 .. CountMod - 1 /\ t \in 0 .. TimerTicks - 1
  /\ start \in 0 .. DelayMod + MillisMod /\ ms \in Nat
  /\ now \in 0 .. NowMod - 1 /\ lost \in BOOLEAN
=============================================================================
