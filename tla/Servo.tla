-------------------------------- MODULE Servo --------------------------------
(***************************************************************************)
(* libraries/Servo/Servo.cpp: several servos share one 16-bit timer.  Its  *)
(* compare handler ends the pulse of one channel and begins the next one's;*)
(* after the last channel it waits for the rest of the refresh interval.   *)
(* Other handlers may delay it.  The sketch creates servos, attaches,      *)
(* detaches and writes them between any two runs of the handler.           *)
(***************************************************************************)
EXTENDS Integers

CONSTANTS
  SERVOS_PER_TIMER,  \* 12; one timer, so also MAX_SERVOS
  Pin, NoPin,        \* the pins; the pin of a servo that was never attached
  Widths,            \* ticks a sketch may write, and
  DEFAULT_TICKS,     \* those of a new servo
  REFRESH_TICKS,     \* usToTicks(REFRESH_INTERVAL): 40000
  Slack,             \* 4: a compare value no nearer than this is not missed
  TimerMod,          \* 2^16
  MaxLate            \* bound: ticks the handler is delayed

ASSUME ServoAssumption ==
  /\ SERVOS_PER_TIMER \in Nat \ {0} /\ NoPin \notin Pin
  /\ Widths \subseteq Nat \ {0} /\ DEFAULT_TICKS \in Widths
  /\ {REFRESH_TICKS, Slack, TimerMod} \subseteq Nat \ {0} /\ MaxLate \in Nat
ASSUME FrameAssumption ==
  \A w \in Widths : SERVOS_PER_TIMER * (w + MaxLate) + Slack + MaxLate < TimerMod
ASSUME RefreshAssumption == REFRESH_TICKS + MaxLate < TimerMod

VARIABLES
  ServoCount,            \* servos created
  nbr, isActive, ticks,  \* servos[]
  Channel,               \* the channel that is pulsed, or -1
  TCNT, OCR, OCF, OCIE,  \* the timer
  late,                  \* ticks the handler has been delayed
  level,                 \* the pins that are high
  pc, this, pin,         \* the sketch's next step, its servo, its argument
  width, due,            \* history: ticks since the pulse began; those it should take
  cut,                   \* history: pins whose servo left them during a pulse
  frame                  \* history: ticks since channel 0 began

servoVars == <<ServoCount, nbr, isActive, ticks>>
timerVars == <<Channel, TCNT, OCR, OCF, OCIE, late>>
callVars == <<pc, this, pin>>
history == <<width, due, cut, frame>>
vars == <<servoVars, timerVars, level, callVars, history>>

Index == 0 .. SERVOS_PER_TIMER - 1
LesserOf(a, b) == IF a < b THEN a ELSE b

\* A servo that was never written has no ticks: static memory is zero.
Init ==
  /\ ServoCount = 0
  /\ nbr = [s \in Index |-> NoPin]
  /\ isActive = [s \in Index |-> FALSE]
  /\ ticks = [s \in Index |-> 0]
  /\ Channel = 0 /\ TCNT = 0 /\ OCR = 0 /\ OCF = FALSE /\ OCIE = FALSE /\ late = 0
  /\ level = {}
  /\ pc = "idle" /\ this = 0 /\ pin = NoPin
  /\ width = 0 /\ due = 0 /\ cut = {} /\ frame = REFRESH_TICKS

-----------------------------------------------------------------------------
(* handle_interrupts() *)

InUse(c) == c \in Index /\ c < ServoCount
Pulsed(c) == InUse(c) /\ isActive[c]

\* Mutants: the pulse is timed from the compare value that started it, or the
\* interval is measured from the end of the last channel.
NextOCR_FromZero(c, now) ==
  IF InUse(c) THEN ticks[c] ELSE REFRESH_TICKS

NextOCR_NoRefresh(c, now) ==
  IF InUse(c) THEN (now + ticks[c]) % TimerMod ELSE (now + Slack) % TimerMod

\* When channel c ends; behind the last one, when the interval ends.
NextOCR(c, now) ==
  CASE InUse(c) -> (now + ticks[c]) % TimerMod
    [] ~InUse(c) /\ now + Slack < REFRESH_TICKS -> REFRESH_TICKS
    [] OTHER -> (now + Slack) % TimerMod

\* The pins that are high once the pulse of the channel has ended. Mutant: the
\* channel counter moves before the pin goes low.
Lowered_NextChannel ==
  IF Pulsed(Channel + 1) THEN level \ {nbr[Channel + 1]} ELSE level

Lowered == IF Pulsed(Channel) THEN level \ {nbr[Channel]} ELSE level

Isr ==
  /\ OCF /\ OCIE
  /\ LET now == IF Channel < 0 THEN 0 ELSE TCNT
         next == Channel + 1
     IN  /\ TCNT' = now
         /\ OCR' = NextOCR(next, now)
         /\ Channel' = IF InUse(next) THEN next ELSE -1
         /\ level' = IF Pulsed(next) THEN Lowered \cup {nbr[next]} ELSE Lowered
         /\ cut' = (cut \cap Lowered) \ (IF Pulsed(next) THEN {nbr[next]} ELSE {})
         /\ width' = 0
         /\ due' = IF Pulsed(next) THEN ticks[next] ELSE 0
         /\ frame' = IF next = 0 THEN 0 ELSE frame
  /\ OCF' = FALSE /\ late' = 0
  /\ UNCHANGED <<OCIE, servoVars, callVars>>

\* The timer counts; the handler is not delayed for ever.
Tick ==
  /\ (OCF /\ OCIE) => late < MaxLate
  /\ late' = IF OCF /\ OCIE THEN late + 1 ELSE 0
  /\ TCNT' = (TCNT + 1) % TimerMod
  /\ OCF' = (OCF \/ TCNT' = OCR)
  /\ width' = IF level \subseteq cut THEN 0 ELSE LesserOf(width + 1, due + MaxLate + 1)
  /\ frame' = LesserOf(frame + 1, REFRESH_TICKS)
  /\ UNCHANGED <<Channel, OCR, OCIE, servoVars, level, callVars, due, cut>>

-----------------------------------------------------------------------------
(* The sketch *)

Goto(next) == pc' = next /\ UNCHANGED <<this, pin>>
Return == pc' = "idle" /\ this' = 0 /\ pin' = NoPin

\* Mutant: one servo too many.
Create_OneMore ==
  /\ pc = "idle" /\ ServoCount <= SERVOS_PER_TIMER
  /\ ServoCount' = ServoCount + 1
  /\ this' = ServoCount /\ pc' = "create"
  /\ UNCHANGED <<nbr, isActive, ticks, timerVars, level, pin, history>>

\* The constructor counts the servo before it sets its ticks.
Create ==
  /\ pc = "idle" /\ ServoCount < SERVOS_PER_TIMER
  /\ ServoCount' = ServoCount + 1
  /\ this' = ServoCount /\ pc' = "create"
  /\ UNCHANGED <<nbr, isActive, ticks, timerVars, level, pin, history>>

CreateTicks ==
  /\ pc = "create"
  /\ ticks' = [ticks EXCEPT ![this] = DEFAULT_TICKS]
  /\ Return
  /\ UNCHANGED <<ServoCount, nbr, isActive, timerVars, level, history>>

\* The pin that a servo leaves during its pulse is not taken low.
Left(s, p) == IF Channel = s /\ isActive[s] /\ nbr[s] \in level /\ nbr[s] # p
              THEN cut \cup {nbr[s]} ELSE cut

\* attach() in three steps: the pin, the timer if it is not active, the mark.
\* No pin is shared.
Attach(s, p) ==
  /\ pc = "idle" /\ s < ServoCount
  /\ \A o \in Index \ {s} : isActive[o] => nbr[o] # p
  /\ nbr' = [nbr EXCEPT ![s] = p]
  /\ cut' = Left(s, p)
  /\ pc' = "attach_timer" /\ this' = s /\ pin' = p
  /\ UNCHANGED <<ServoCount, isActive, ticks, timerVars, level, width, due, frame>>

IsTimerActive == \E s \in Index : isActive[s]

\* Mutant: the timer counts, and its handler is not enabled.
AttachTimer_NoInterrupt ==
  /\ pc = "attach_timer"
  /\ TCNT' = IF IsTimerActive THEN TCNT ELSE 0
  /\ UNCHANGED <<Channel, OCR, OCF, OCIE, late>>
  /\ Goto("attach_mark")
  /\ UNCHANGED <<servoVars, level, history>>

\* initISR() does not reset Channel.
AttachTimer ==
  /\ pc = "attach_timer"
  /\ IF IsTimerActive
     THEN UNCHANGED timerVars
     ELSE /\ TCNT' = 0 /\ OCF' = FALSE /\ OCIE' = TRUE /\ late' = 0
          /\ UNCHANGED <<Channel, OCR>>
  /\ Goto("attach_mark")
  /\ UNCHANGED <<servoVars, level, history>>

AttachMark ==
  /\ pc = "attach_mark"
  /\ isActive' = [isActive EXCEPT ![this] = TRUE]
  /\ Return
  /\ UNCHANGED <<ServoCount, nbr, ticks, timerVars, level, history>>

\* finISR() does nothing.
Detach(s) ==
  /\ pc = "idle" /\ s < ServoCount
  /\ isActive' = [isActive EXCEPT ![s] = FALSE]
  /\ cut' = Left(s, NoPin)
  /\ UNCHANGED <<ServoCount, nbr, ticks, timerVars, level, callVars, width, due, frame>>

\* writeMicroseconds() stores the ticks with interrupts off.
Write(s, w) ==
  /\ pc = "idle" /\ s < ServoCount
  /\ ticks' = [ticks EXCEPT ![s] = w]
  /\ UNCHANGED <<ServoCount, nbr, isActive, timerVars, level, callVars, history>>

Sketch ==
  \/ Create \/ CreateTicks \/ AttachTimer \/ AttachMark
  \/ \E s \in Index : Detach(s)
  \/ \E s \in Index, p \in Pin : Attach(s, p)
  \/ \E s \in Index, w \in Widths : Write(s, w)

Next == Sketch \/ Isr \/ Tick

Spec == Init /\ [][Next]_vars

\* The timer runs, and its handler is served.
FairSpec == Spec /\ WF_vars(Tick) /\ WF_vars(Isr)

-----------------------------------------------------------------------------
(* Properties *)

TypeOK ==
  /\ ServoCount \in 0 .. SERVOS_PER_TIMER
  /\ nbr \in [Index -> Pin \cup {NoPin}]
  /\ isActive \in [Index -> BOOLEAN]
  /\ ticks \in [Index -> Widths \cup {0}]
  /\ Channel \in -1 .. SERVOS_PER_TIMER - 1
  /\ TCNT \in 0 .. TimerMod - 1 /\ OCR \in 0 .. TimerMod - 1
  /\ {OCF, OCIE} \subseteq BOOLEAN /\ late \in 0 .. MaxLate
  /\ level \subseteq Pin /\ cut \subseteq level
  /\ pc \in {"idle", "create", "attach_timer", "attach_mark"}
  /\ this \in Index /\ pin \in Pin \cup {NoPin}
  /\ width \in Nat /\ due \in Widths \cup {0} /\ frame \in 0 .. REFRESH_TICKS

\* At most one servo of the timer is pulsed at a time, and a pin is high only
\* while its channel's turn lasts, unless its servo left it during the pulse
\* (Servo.cpp:75-98).
OnePulse ==
  \A p \in level \ cut : Channel >= 0 /\ Pulsed(Channel) /\ nbr[Channel] = p

\* A pulse takes what was written before it began, and longer only by the
\* handler's delay, whatever the sketch does meanwhile (Servo.cpp:84-88, 311-314).
PulseExact ==
  [][\A p \in level \ cut : p \notin level' => width \in due .. due + MaxLate]_vars

\* Channel 0 begins no earlier than a refresh interval after it began before,
\* though attach() may reset the timer under way (Servo.cpp:90-97, 153).
RefreshHeld == [][frame' < frame => frame = REFRESH_TICKS]_vars

\* A servo that stays attached is pulsed again and again.
PulsedAgain ==
  \A s \in Index : <>[](isActive[s]) => []<>(isActive[s] /\ nbr[s] \in level)
=============================================================================
