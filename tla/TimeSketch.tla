----------------------------- MODULE TimeSketch -----------------------------
(***************************************************************************)
(* A sketch that calls micros(), delay() and Stream::timedRead() on top of *)
(* timer 0, while other handlers keep interrupts off for a while, and so   *)
(* keep the overflow handler waiting.  A due handler runs before the       *)
(* thread's next step; apart from that any time may pass between two steps.*)
(***************************************************************************)
EXTENDS TimeBase

CONSTANTS
  DelayMs,   \* what the sketch calls delay() with
  _timeout,  \* milliseconds timedRead() waits
  HoldTicks, \* bound: ticks another handler keeps interrupts off
  MaxWait    \* bound: waiting times above this are not told apart

\* No time before this is long enough for timedRead(), in 1 / FRACT_MAX ticks.
EarliestTimeout == ((_timeout - 1) * FRACT_MAX - PerOverflow) * TicksPerMs

\* millis() does not run ahead of the time (wiring.c:32-35), and the bound on
\* waiting times is above the times that the properties speak of.
ASSUME WaitAssumption ==
  /\ {DelayMs, _timeout, HoldTicks, MaxWait} \subseteq Nat
  /\ PerOverflow * TicksPerMs <= TimerTicks * FRACT_MAX
  /\ MaxWait >= DelayMs * TicksPerMs
  /\ MaxWait * FRACT_MAX > EarliestTimeout

VARIABLES
  pc, caller,   \* the thread's next step; where micros() returns to
  ticked,       \* a tick has passed in this micros()
  held,         \* ticks left of the handler that is running
  waited        \* history: ticks since delay() or timedRead() was called

thread == <<pc, caller, ticked>>
vars == <<timeVars, thread, held, waited>>

PC == {"idle", "micros", "micros_t", "micros_flag", "micros_end", "delay_start",
       "delay_poll", "delay_end", "timed_read", "timed_check", "timed_out"}

Init ==
  /\ TimeInit
  /\ pc = "idle" /\ caller = "idle" /\ ticked = FALSE
  /\ held = 0 /\ waited = 0

\* micros() holds the thread's interrupts off while it reads.
InMicros == pc \in {"micros_t", "micros_flag"}
At(label) == pc = label /\ held = 0 /\ (tov => InMicros)

Goto(next) == pc' = next /\ UNCHANGED <<caller, ticked>>

\* A call returns to the sketch.
Return == TimeReturn /\ waited' = 0 /\ Goto("idle") /\ UNCHANGED held

-----------------------------------------------------------------------------
(* micros() *)

StartMicros(from) ==
  /\ pc' = "micros" /\ caller' = from
  /\ UNCHANGED <<ticked, held>>

MicrosCall ==
  /\ At("idle")
  /\ StartMicros("micros_end")
  /\ UNCHANGED <<timeVars, waited>>

MicrosCount ==
  /\ At("micros")
  /\ ReadCount
  /\ Goto("micros_t")
  /\ UNCHANGED <<held, waited>>

MicrosTcnt ==
  /\ At("micros_t")
  /\ ReadTcnt
  /\ Goto("micros_flag")
  /\ UNCHANGED <<held, waited>>

MicrosFlag ==
  /\ At("micros_flag")
  /\ ReadFlag
  /\ pc' = caller /\ caller' = "idle" /\ ticked' = FALSE
  /\ UNCHANGED <<held, waited>>

MicrosReturns == At("micros_end") /\ Return

-----------------------------------------------------------------------------
(* delay() *)

DelayCalled ==
  /\ At("idle")
  /\ DelayCall(DelayMs)
  /\ StartMicros("delay_start")
  /\ UNCHANGED waited

NextRound == IF ms' > 0 THEN StartMicros("delay_poll")
                        ELSE Goto("delay_end") /\ UNCHANGED held

DelayStarts ==
  /\ At("delay_start")
  /\ DelayStart
  /\ NextRound
  /\ UNCHANGED waited

DelayGoesOn ==
  /\ At("delay_poll")
  /\ DelayPoll
  /\ NextRound
  /\ UNCHANGED waited

DelayReturns == At("delay_end") /\ Return

-----------------------------------------------------------------------------
(* Stream::timedRead() reads until there is a byte or the time is over. *)

TimedReadCall ==
  /\ At("idle")
  /\ start' = Millis
  /\ Goto("timed_read")
  /\ UNCHANGED <<clock, m, t, ms, now, lost, held, waited>>

TimedReadFinds == At("timed_read") /\ Return

TimedReadMisses ==
  /\ At("timed_read")
  /\ Goto("timed_check")
  /\ UNCHANGED <<timeVars, held, waited>>

TimedReadChecks ==
  /\ At("timed_check")
  /\ Goto(IF (Millis + MillisMod - start) % MillisMod < _timeout
          THEN "timed_read" ELSE "timed_out")
  /\ UNCHANGED <<timeVars, held, waited>>

TimedReadGivesUp == At("timed_out") /\ Return

-----------------------------------------------------------------------------
(* Handlers and time *)

\* Another handler runs; it may come before an overflow that is due.
OtherIsr ==
  /\ held = 0 /\ ~InMicros
  /\ held' \in 1 .. HoldTicks
  /\ UNCHANGED <<timeVars, thread, waited>>

TimerOverflow ==
  /\ held = 0 /\ ~InMicros
  /\ OverflowIsr
  /\ UNCHANGED <<thread, held, waited>>

LesserOf(a, b) == IF a < b THEN a ELSE b

Waiting == ms > 0 \/ pc \in {"timed_read", "timed_check"}

\* micros() takes less than two ticks with interrupts off.
TimePasses ==
  /\ tov => held > 0 \/ InMicros
  /\ InMicros => ~ticked
  /\ Tick
  /\ ticked' = InMicros
  /\ held' = IF held = 0 THEN 0 ELSE held - 1
  /\ waited' = IF Waiting THEN LesserOf(waited + 1, MaxWait) ELSE waited
  /\ UNCHANGED <<pc, caller>>

Next ==
  \/ MicrosCall \/ MicrosCount \/ MicrosTcnt \/ MicrosFlag \/ MicrosReturns
  \/ DelayCalled \/ DelayStarts \/ DelayGoesOn \/ DelayReturns
  \/ TimedReadCall \/ TimedReadFinds \/ TimedReadMisses \/ TimedReadChecks
  \/ TimedReadGivesUp
  \/ OtherIsr \/ TimerOverflow \/ TimePasses

Spec == Init /\ [][Next]_vars

-----------------------------------------------------------------------------
(* Properties *)

\* The count behind micros() and the time behind millis() are the true time as
\* long as no overflow was lost: the rest of a millisecond is carried over and
\* never dropped (wiring.c:51-64), however late the handler runs.
ClockExact ==
  ~lost =>
    LET overflows == (NowMod + now - tcnt) \div TimerTicks - (IF tov THEN 1 ELSE 0)
    IN  /\ timer0_overflow_count = overflows % CountMod
        /\ timer0_millis * FRACT_MAX + timer0_fract
             = (overflows * PerOverflow) % (MillisMod * FRACT_MAX)

\* micros() returns a time at which it ran, although an overflow may come
\* between any two of its reads and its handler cannot run (wiring.c:81-107).
MicrosExact ==
  [][pc = "micros_flag" /\ pc' # pc /\ ~lost =>
       \E k \in {0, 1} : (m' * TimerTicks + t + k) % MicrosMod = now % MicrosMod]_vars

\* delay() never returns early, although it works with 16 bits of micros() and
\* a round of its loop may come late; timedRead() gives up less than one
\* millisecond and one overflow before its time-out: the one for the carry, the
\* other for the step of millis() under way (wiring.c:109-119, Stream.cpp:30-39).
WaitsNotEarly ==
  [][/\ pc = "delay_poll" /\ pc' = "delay_end" => waited >= DelayMs * TicksPerMs
     /\ pc = "timed_check" /\ pc' = "timed_out" =>
          waited * FRACT_MAX > EarliestTimeout]_vars
=============================================================================
