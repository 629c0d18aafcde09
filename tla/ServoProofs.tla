----------------------------- MODULE ServoProofs -----------------------------
(***************************************************************************)
(* Proofs about Servo, for every number of servos, every timer and every   *)
(* delay of the handler.                                                   *)
(***************************************************************************)
EXTENDS Servo, TLAPS

-----------------------------------------------------------------------------
(* The inductive invariant *)

\* A servo that is pulsed, or about to be, has a pin.
HasPin ==
  /\ \A s \in Index : isActive[s] => nbr[s] \in Pin
  /\ pc \in {"attach_timer", "attach_mark"} => nbr[this] \in Pin

IInv == TypeOK /\ HasPin /\ OnePulse

LEMMA InitIInv == Init => IInv
<1> SUFFICES ASSUME Init PROVE IInv
  OBVIOUS
<1>1. Channel \in -1 .. SERVOS_PER_TIMER - 1 /\ this \in Index
  BY ServoAssumption DEF Init, Index
<1>2. TCNT \in 0 .. TimerMod - 1 /\ OCR \in 0 .. TimerMod - 1 /\ late \in 0 .. MaxLate
  BY ServoAssumption DEF Init
<1>3. frame \in 0 .. REFRESH_TICKS /\ ServoCount \in 0 .. SERVOS_PER_TIMER
  BY ServoAssumption DEF Init
<1>4. TypeOK
  BY <1>1, <1>2, <1>3 DEF Init, TypeOK
<1>5. HasPin /\ OnePulse
  BY DEF Init, HasPin, OnePulse
<1> QED
  BY <1>4, <1>5 DEF IInv

\* The compare value stays within the timer.
LEMMA NextOCRType ==
  ASSUME TypeOK, NEW now \in 0 .. TimerMod - 1, NEW c \in Int
  PROVE  NextOCR(c, now) \in 0 .. TimerMod - 1
<1>1. \A k \in Nat : k % TimerMod \in 0 .. TimerMod - 1
  BY ServoAssumption
<1>2. CASE InUse(c)
  <2>1. ticks[c] \in Nat
    <3>1. c \in Index /\ ticks \in [Index -> Widths \cup {0}]
      BY <1>2 DEF TypeOK, InUse
    <3>2. ticks[c] \in Widths \cup {0}
      BY <3>1
    <3>3. Widths \subseteq Nat
      BY ServoAssumption
    <3>4. 0 \in Nat
      OBVIOUS
    <3> QED
      BY <3>2, <3>3, <3>4, Zenon
  <2>2. now + ticks[c] \in Nat
    BY <2>1, ServoAssumption
  <2> QED
    BY <1>1, <1>2, <2>2 DEF NextOCR
<1>3. CASE ~InUse(c) /\ now + Slack < REFRESH_TICKS
  BY <1>3, ServoAssumption, RefreshAssumption DEF NextOCR
<1>4. CASE ~InUse(c) /\ ~(now + Slack < REFRESH_TICKS)
  <2>1. now + Slack \in Nat
    BY ServoAssumption
  <2> QED
    BY <1>1, <1>4, <2>1 DEF NextOCR
<1> QED
  BY <1>2, <1>3, <1>4

-----------------------------------------------------------------------------
(* The handler *)

\* Once the pulse of the channel has ended, only left pins are high.
LEMMA LoweredIsCut ==
  ASSUME TypeOK, OnePulse
  PROVE  Lowered \subseteq cut /\ Lowered \subseteq level
BY DEF TypeOK, OnePulse, Lowered, Pulsed

LEMMA IsrStep == IInv /\ Isr => IInv'
<1> SUFFICES ASSUME IInv, Isr PROVE IInv'
  OBVIOUS
<1> DEFINE now == IF Channel < 0 THEN 0 ELSE TCNT
           next == Channel + 1
<1>1. TypeOK /\ HasPin /\ OnePulse
  BY DEF IInv
<1>2. /\ TCNT' = now
      /\ OCR' = NextOCR(next, now)
      /\ Channel' = IF InUse(next) THEN next ELSE -1
      /\ level' = IF Pulsed(next) THEN Lowered \cup {nbr[next]} ELSE Lowered
      /\ cut' = (cut \cap Lowered) \ (IF Pulsed(next) THEN {nbr[next]} ELSE {})
      /\ width' = 0
      /\ due' = IF Pulsed(next) THEN ticks[next] ELSE 0
      /\ frame' = IF next = 0 THEN 0 ELSE frame
      /\ OCF' = FALSE /\ late' = 0
      /\ UNCHANGED <<OCIE, servoVars, callVars>>
  BY DEF Isr
<1>3. now \in 0 .. TimerMod - 1 /\ next \in Int
  BY <1>1, ServoAssumption DEF TypeOK
<1>4. Pulsed(next) => next \in Index /\ InUse(next) /\ nbr[next] \in Pin
  BY <1>1 DEF Pulsed, InUse, HasPin
<1>5. Lowered \subseteq cut /\ Lowered \subseteq level
  BY <1>1, LoweredIsCut
<1>6. TypeOK'
  <2>1. OCR' \in 0 .. TimerMod - 1
    BY <1>1, <1>2, <1>3, NextOCRType
  <2>2. Channel' \in -1 .. SERVOS_PER_TIMER - 1
    BY <1>2, ServoAssumption DEF InUse, Index
  <2>3. level' \subseteq Pin /\ cut' \subseteq level'
    BY <1>1, <1>2, <1>4, <1>5 DEF TypeOK
  <2>4. due' \in Widths \cup {0}
    BY <1>1, <1>2, <1>4 DEF TypeOK
  <2>5. frame' \in 0 .. REFRESH_TICKS /\ late' \in 0 .. MaxLate /\ width' \in Nat
    BY <1>1, <1>2, ServoAssumption DEF TypeOK
  <2> QED
    BY <1>1, <1>2, <1>3, <2>1, <2>2, <2>3, <2>4, <2>5
    DEF TypeOK, servoVars, callVars
<1>7. HasPin'
  BY <1>1, <1>2 DEF HasPin, servoVars, callVars
<1>8. OnePulse'
  <2>1. CASE Pulsed(next)
    <3>1. level' \ cut' \subseteq {nbr[next]}
      BY <1>2, <1>5, <2>1
    <3>2. Channel' = next /\ next \in Index
      BY <1>2, <1>4, <2>1
    <3>3. next < ServoCount' /\ isActive'[next] /\ nbr'[next] = nbr[next]
      BY <1>2, <2>1 DEF Pulsed, InUse, servoVars
    <3> HIDE DEF next
    <3> QED
      BY <3>1, <3>2, <3>3, ServoAssumption DEF OnePulse, Pulsed, InUse, Index
  <2>2. CASE ~Pulsed(next)
    <3>1. level' \ cut' = {}
      BY <1>2, <1>5, <2>2
    <3> QED
      BY <3>1 DEF OnePulse
  <2> QED
    BY <2>1, <2>2
<1> QED
  BY <1>6, <1>7, <1>8 DEF IInv

LEMMA TickStep == IInv /\ Tick => IInv'
<1> SUFFICES ASSUME IInv, Tick PROVE IInv'
  OBVIOUS
<1>1. TypeOK /\ HasPin /\ OnePulse
  BY DEF IInv
<1>2. TypeOK'
  <2>1. TCNT' \in 0 .. TimerMod - 1
    BY <1>1, ServoAssumption DEF Tick, TypeOK
  <2>2. late' \in 0 .. MaxLate
    BY <1>1, ServoAssumption DEF Tick, TypeOK
  <2>3. width' \in Nat
    BY <1>1, ServoAssumption DEF Tick, TypeOK, LesserOf
  <2>4. frame' \in 0 .. REFRESH_TICKS
    BY <1>1, ServoAssumption DEF Tick, TypeOK, LesserOf
  <2>5. OCF' \in BOOLEAN
    BY <1>1 DEF Tick, TypeOK
  <2> QED
    BY <1>1, <2>1, <2>2, <2>3, <2>4, <2>5 DEF Tick, TypeOK, servoVars, callVars
<1>3. HasPin'
  BY <1>1 DEF Tick, HasPin, servoVars, callVars
<1>4. OnePulse'
  BY <1>1 DEF Tick, OnePulse, Pulsed, InUse, servoVars
<1> QED
  BY <1>2, <1>3, <1>4 DEF IInv

-----------------------------------------------------------------------------
(* The sketch *)

LEMMA CreateStep == IInv /\ (Create \/ CreateTicks) => IInv'
<1> SUFFICES ASSUME IInv, Create \/ CreateTicks PROVE IInv'
  OBVIOUS
<1>1. TypeOK /\ HasPin /\ OnePulse
  BY DEF IInv
<1>2. CASE Create
  <2>1. TypeOK'
    BY <1>1, <1>2, ServoAssumption DEF Create, TypeOK, Index, timerVars, history
  <2>2. HasPin'
    BY <1>1, <1>2 DEF Create, HasPin
  <2>3. OnePulse'
    BY <1>1, <1>2, ServoAssumption
    DEF Create, TypeOK, OnePulse, Pulsed, InUse, Index, timerVars, history
  <2> QED
    BY <2>1, <2>2, <2>3 DEF IInv
<1>3. CASE CreateTicks
  <2>1. TypeOK'
    BY <1>1, <1>3, ServoAssumption
    DEF CreateTicks, Return, TypeOK, Index, timerVars, history
  <2>2. HasPin'
    BY <1>1, <1>3 DEF CreateTicks, Return, HasPin
  <2>3. OnePulse'
    BY <1>1, <1>3 DEF CreateTicks, OnePulse, Pulsed, InUse, timerVars, history
  <2> QED
    BY <2>1, <2>2, <2>3 DEF IInv
<1> QED
  BY <1>2, <1>3

\* A pin that is left during its pulse is a cut pin; the rest is as it was.
LEMMA LeftIsCut ==
  ASSUME TypeOK, OnePulse, NEW s \in Index, NEW p
  PROVE  /\ cut \subseteq Left(s, p) /\ Left(s, p) \subseteq level
         /\ \A q \in level \ Left(s, p) : Channel = s => q = p
BY DEF TypeOK, OnePulse, Left, Pulsed

LEMMA AttachStep ==
  ASSUME NEW s \in Index, NEW p \in Pin, IInv, Attach(s, p)
  PROVE  IInv'
<1>1. TypeOK /\ HasPin /\ OnePulse
  BY DEF IInv
<1>2. /\ cut \subseteq cut' /\ cut' \subseteq level
      /\ \A q \in level \ cut' : Channel = s => q = p
  BY <1>1, LeftIsCut DEF Attach
<1>3. TypeOK'
  BY <1>1, <1>2 DEF Attach, TypeOK, timerVars
<1>4. HasPin'
  BY <1>1 DEF Attach, TypeOK, HasPin
<1>5. OnePulse'
  <2> SUFFICES ASSUME NEW q \in level \ cut'
               PROVE  Channel >= 0 /\ Pulsed(Channel) /\ nbr'[Channel] = q
    BY DEF Attach, OnePulse, Pulsed, InUse, timerVars
  <2>1. Channel >= 0 /\ Pulsed(Channel) /\ nbr[Channel] = q
    BY <1>1, <1>2 DEF OnePulse
  <2>2. nbr'[Channel] = q
    BY <1>1, <1>2, <2>1 DEF Attach, TypeOK, Pulsed, InUse
  <2> QED
    BY <2>1, <2>2
<1> QED
  BY <1>3, <1>4, <1>5 DEF IInv

LEMMA AttachTimerStep == IInv /\ (AttachTimer \/ AttachMark) => IInv'
<1> SUFFICES ASSUME IInv, AttachTimer \/ AttachMark PROVE IInv'
  OBVIOUS
<1>1. TypeOK /\ HasPin /\ OnePulse
  BY DEF IInv
<1>2. CASE AttachTimer
  <2>1. TCNT' \in 0 .. TimerMod - 1 /\ late' \in 0 .. MaxLate
    BY <1>1, <1>2, ServoAssumption DEF AttachTimer, TypeOK, timerVars
  <2>2. {OCF', OCIE'} \subseteq BOOLEAN /\ UNCHANGED <<Channel, OCR>>
    BY <1>1, <1>2 DEF AttachTimer, TypeOK, timerVars
  <2>3. TypeOK'
    BY <1>1, <1>2, <2>1, <2>2
    DEF AttachTimer, Goto, TypeOK, servoVars, history
  <2>4. HasPin'
    BY <1>1, <1>2 DEF AttachTimer, Goto, HasPin, servoVars
  <2>5. OnePulse'
    BY <1>1, <1>2
    DEF AttachTimer, OnePulse, Pulsed, InUse, servoVars, timerVars, history
  <2> QED
    BY <2>3, <2>4, <2>5 DEF IInv
<1>3. CASE AttachMark
  <2>1. TypeOK'
    BY <1>1, <1>3, ServoAssumption
    DEF AttachMark, Return, TypeOK, Index, timerVars, history
  <2>2. HasPin'
    BY <1>1, <1>3 DEF AttachMark, Return, TypeOK, HasPin
  <2>3. OnePulse'
    BY <1>1, <1>3
    DEF AttachMark, TypeOK, OnePulse, Pulsed, InUse, timerVars, history
  <2> QED
    BY <2>1, <2>2, <2>3 DEF IInv
<1> QED
  BY <1>2, <1>3

LEMMA DetachStep ==
  ASSUME NEW s \in Index, IInv, Detach(s)
  PROVE  IInv'
<1>1. TypeOK /\ HasPin /\ OnePulse
  BY DEF IInv
<1>2. /\ cut \subseteq cut' /\ cut' \subseteq level
      /\ \A q \in level \ cut' : Channel = s => q = NoPin
  BY <1>1, LeftIsCut DEF Detach
<1>3. TypeOK'
  BY <1>1, <1>2 DEF Detach, TypeOK, timerVars, callVars
<1>4. HasPin'
  BY <1>1 DEF Detach, TypeOK, HasPin, callVars
<1>5. OnePulse'
  <2> SUFFICES ASSUME NEW q \in level \ cut'
               PROVE  Channel # s /\ Channel >= 0 /\ Pulsed(Channel) /\ nbr[Channel] = q
    BY <1>1 DEF Detach, TypeOK, OnePulse, Pulsed, InUse, timerVars
  <2>1. Channel >= 0 /\ Pulsed(Channel) /\ nbr[Channel] = q
    BY <1>1, <1>2 DEF OnePulse
  <2>2. q # NoPin
    BY <1>1, ServoAssumption DEF TypeOK
  <2> QED
    BY <1>2, <2>1, <2>2
<1> QED
  BY <1>3, <1>4, <1>5 DEF IInv

LEMMA WriteStep ==
  ASSUME NEW s \in Index, NEW w \in Widths, IInv, Write(s, w)
  PROVE  IInv'
<1>1. TypeOK /\ HasPin /\ OnePulse
  BY DEF IInv
<1>2. TypeOK'
  BY <1>1 DEF Write, TypeOK, timerVars, callVars, history
<1>3. HasPin'
  BY <1>1 DEF Write, HasPin, callVars
<1>4. OnePulse'
  BY <1>1 DEF Write, OnePulse, Pulsed, InUse, timerVars, history
<1> QED
  BY <1>2, <1>3, <1>4 DEF IInv

-----------------------------------------------------------------------------
(* The invariant holds *)

LEMMA StutterStep == IInv /\ UNCHANGED vars => IInv'
BY DEF IInv, TypeOK, HasPin, OnePulse, Pulsed, InUse,
       vars, servoVars, timerVars, callVars, history

LEMMA NextStep == IInv /\ [Next]_vars => IInv'
<1> SUFFICES ASSUME IInv, [Next]_vars PROVE IInv'
  OBVIOUS
<1>1. CASE Isr
  BY <1>1, IsrStep
<1>2. CASE Tick
  BY <1>2, TickStep
<1>3. CASE Create \/ CreateTicks
  BY <1>3, CreateStep
<1>4. CASE AttachTimer \/ AttachMark
  BY <1>4, AttachTimerStep
<1>5. CASE \E s \in Index : Detach(s)
  BY <1>5, DetachStep
<1>6. CASE \E s \in Index, p \in Pin : Attach(s, p)
  BY <1>6, AttachStep
<1>7. CASE \E s \in Index, w \in Widths : Write(s, w)
  BY <1>7, WriteStep
<1>8. CASE UNCHANGED vars
  BY <1>8, StutterStep
<1> QED
  BY <1>1, <1>2, <1>3, <1>4, <1>5, <1>6, <1>7, <1>8 DEF Next, Sketch

LEMMA Invariant == Spec => []IInv
BY InitIInv, NextStep, PTL DEF Spec

\* Every variable keeps its type: the constructor never hands out more servos
\* than there are, and the compare value stays within the timer.
THEOREM ServoTypes == Spec => []TypeOK
<1>1. IInv => TypeOK
  BY DEF IInv
<1> QED
  BY <1>1, Invariant, PTL

\* At most one servo of the timer is pulsed at a time, whatever the sketch
\* attaches, detaches and writes and however late the handler runs; a pin that
\* is high outside its channel's turn was left by its servo during the pulse.
THEOREM PulsesOneAtATime == Spec => []OnePulse
<1>1. IInv => OnePulse
  BY DEF IInv
<1> QED
  BY <1>1, Invariant, PTL

-----------------------------------------------------------------------------
(* How long a pulse takes *)

\* A servo that has a pin, or is about to be pulsed, has its ticks: only the
\* servo under construction has none.
Ticked ==
  /\ \A s \in Index : isActive[s] => s < ServoCount /\ ticks[s] \in Widths
  /\ \A s \in Index :
       s < ServoCount => ticks[s] \in Widths \/ (pc = "create" /\ s = this)
  /\ pc \in {"attach_timer", "attach_mark"} => this < ServoCount

\* During a pulse the compare value is as far ahead as the pulse has to go.
Ahead(d) == OCR = TCNT + d \/ OCR = TCNT + d - TimerMod

Timed ==
  \/ level \subseteq cut
  \/ /\ OCIE /\ due \in Widths /\ width \in Nat
     /\ OCF => width = due + late
     /\ ~OCF => width < due /\ Ahead(due - width)

PulseInv == IInv /\ Ticked /\ Timed

LEMMA InitPulseInv == Init => PulseInv
<1>1. Init => Ticked
  BY ServoAssumption DEF Init, Ticked, Index
<1>2. Init => Timed
  BY DEF Init, Timed
<1> QED
  BY <1>1, <1>2, InitIInv DEF PulseInv

LEMMA TickedStep == IInv /\ Ticked /\ [Next]_vars => Ticked'
<1> SUFFICES ASSUME IInv, Ticked, [Next]_vars PROVE Ticked'
  OBVIOUS
<1>1. TypeOK
  BY DEF IInv
<1>2. CASE Isr \/ Tick \/ UNCHANGED vars
  BY <1>2 DEF Ticked, Isr, Tick, vars, servoVars, callVars
<1>3. CASE Create
  BY <1>1, <1>3 DEF Ticked, Create, TypeOK, Index
<1>4. CASE CreateTicks
  BY <1>1, <1>4, ServoAssumption DEF Ticked, CreateTicks, Return, TypeOK
<1>5. CASE AttachTimer
  BY <1>5 DEF Ticked, AttachTimer, Goto, servoVars
<1>6. CASE AttachMark
  BY <1>1, <1>6 DEF Ticked, AttachMark, Return, TypeOK
<1>7. CASE \E s \in Index : Detach(s)
  BY <1>1, <1>7 DEF Ticked, Detach, TypeOK, callVars
<1>8. CASE \E s \in Index, p \in Pin : Attach(s, p)
  BY <1>1, <1>8 DEF Ticked, Attach
<1>9. CASE \E s \in Index, w \in Widths : Write(s, w)
  BY <1>1, <1>9 DEF Ticked, Write, TypeOK, callVars
<1> QED
  BY <1>2, <1>3, <1>4, <1>5, <1>6, <1>7, <1>8, <1>9 DEF Next, Sketch

\* No pulse is as long as the timer's round.
LEMMA WidthFits ==
  ASSUME NEW w \in Widths
  PROVE  w \in Nat \ {0} /\ w < TimerMod
<1>1. w \in Nat \ {0} /\ w + MaxLate \in Nat
  BY ServoAssumption
<1>2. SERVOS_PER_TIMER * (w + MaxLate) + Slack + MaxLate < TimerMod
  BY FrameAssumption
<1>3. \A n \in Nat \ {0}, x \in Nat : x <= n * x /\ n * x \in Nat
  OBVIOUS
<1>4. w + MaxLate <= SERVOS_PER_TIMER * (w + MaxLate)
      /\ SERVOS_PER_TIMER * (w + MaxLate) \in Nat
  BY <1>1, <1>3, ServoAssumption
<1> DEFINE product == SERVOS_PER_TIMER * (w + MaxLate)
<1> HIDE DEF product
<1>5. product \in Nat /\ w + MaxLate <= product /\ product + Slack + MaxLate < TimerMod
  BY <1>2, <1>4 DEF product
<1>6. Slack \in Nat /\ MaxLate \in Nat /\ TimerMod \in Nat
  BY ServoAssumption
<1> QED
  BY <1>1, <1>5, <1>6

\* The sum of a timer's value and a width wraps once at most.
LEMMA WrapsOnce ==
  ASSUME NEW now \in 0 .. TimerMod - 1, NEW w \in Widths
  PROVE  \/ (now + w) % TimerMod = now + w
         \/ (now + w) % TimerMod = (now + w) - TimerMod
<1>1. TimerMod \in Nat \ {0}
  BY ServoAssumption
<1>2. w \in Nat /\ w < TimerMod
  BY WidthFits
<1>3. \A k \in 0 .. TimerMod - 1 : k % TimerMod = k
  BY <1>1
<1>4. \A k \in TimerMod .. 2 * TimerMod - 1 : k % TimerMod = k - TimerMod
  BY <1>1
<1>5. CASE now + w < TimerMod
  <2>1. now + w \in 0 .. TimerMod - 1
    BY <1>1, <1>2, <1>5
  <2> QED
    BY <1>3, <2>1, Zenon
<1>6. CASE ~(now + w < TimerMod)
  <2>1. now + w \in TimerMod .. 2 * TimerMod - 1
    BY <1>1, <1>2, <1>6
  <2> QED
    BY <1>4, <2>1, Zenon
<1> QED
  BY <1>5, <1>6

LEMMA TimedIsr == PulseInv /\ Isr => Timed'
<1> SUFFICES ASSUME PulseInv, Isr PROVE Timed'
  OBVIOUS
<1> DEFINE now == IF Channel < 0 THEN 0 ELSE TCNT
           next == Channel + 1
<1>1. TypeOK /\ OnePulse /\ Ticked
  BY DEF PulseInv, IInv
<1>2. /\ TCNT' = now
      /\ OCR' = NextOCR(next, now)
      /\ level' = IF Pulsed(next) THEN Lowered \cup {nbr[next]} ELSE Lowered
      /\ cut' = (cut \cap Lowered) \ (IF Pulsed(next) THEN {nbr[next]} ELSE {})
      /\ width' = 0
      /\ due' = IF Pulsed(next) THEN ticks[next] ELSE 0
      /\ OCF' = FALSE /\ OCIE /\ OCIE' = OCIE
  BY DEF Isr
<1>3. now \in 0 .. TimerMod - 1
  BY <1>1, ServoAssumption DEF TypeOK
<1>4. Lowered \subseteq cut
  BY <1>1, LoweredIsCut
<1>5. CASE Pulsed(next)
  <2>1. InUse(next) /\ ticks[next] \in Widths
    BY <1>1, <1>5 DEF Ticked, Pulsed, InUse
  <2>2. OCR' = (now + ticks[next]) % TimerMod
    BY <1>2, <2>1 DEF NextOCR
  <2>3. OCR' = now + ticks[next] \/ OCR' = (now + ticks[next]) - TimerMod
    <3>1. \/ (now + ticks[next]) % TimerMod = now + ticks[next]
          \/ (now + ticks[next]) % TimerMod = (now + ticks[next]) - TimerMod
      BY <1>3, <2>1, WrapsOnce, Zenon
    <3> QED
      BY <2>2, <3>1, Zenon
  <2>4. due' = ticks[next] /\ due' \in Widths
    BY <1>2, <1>5, <2>1
  <2>5. ticks[next] \in Nat \ {0}
    BY <2>1, WidthFits
  <2>6. width' < due' /\ due' - width' = ticks[next]
    BY <1>2, <2>4, <2>5
  <2>7. Ahead(due - width)'
    BY <1>2, <1>3, <2>3, <2>5, <2>6, ServoAssumption DEF Ahead
  <2> QED
    BY <1>2, <2>4, <2>6, <2>7 DEF Timed
<1>6. CASE ~Pulsed(next)
  BY <1>2, <1>4, <1>6 DEF Timed
<1> QED
  BY <1>5, <1>6

LEMMA TimedTick == PulseInv /\ Tick => Timed'
<1> SUFFICES ASSUME PulseInv, Tick PROVE Timed'
  OBVIOUS
<1>1. TypeOK /\ Timed
  BY DEF PulseInv, IInv
<1>2. CASE level \subseteq cut
  BY <1>2 DEF Tick, Timed
<1>3. CASE ~(level \subseteq cut)
  <2>1. /\ OCIE /\ due \in Widths /\ width \in Nat
        /\ OCF => width = due + late
        /\ ~OCF => width < due /\ Ahead(due - width)
    BY <1>1, <1>3 DEF Timed
  <2>2. due \in Nat \ {0} /\ due < TimerMod
    BY <2>1, WidthFits
  <2>3. /\ TCNT \in 0 .. TimerMod - 1 /\ OCR \in 0 .. TimerMod - 1
        /\ OCF \in BOOLEAN /\ late \in 0 .. MaxLate
        /\ TimerMod \in Nat \ {0} /\ MaxLate \in Nat
    BY <1>1, ServoAssumption DEF TypeOK
  <2>4. UNCHANGED <<OCR, OCIE, level, due, cut>>
    BY DEF Tick
  <2>5. CASE OCF
    <3>1. OCF' /\ late' = late + 1 /\ late < MaxLate
      BY <2>1, <2>5 DEF Tick
    <3>2. width' = width + 1
      BY <1>3, <2>1, <2>2, <2>3, <2>5, <3>1 DEF Tick, LesserOf
    <3>3. width' = due + late' /\ width' \in Nat
      BY <2>1, <2>2, <2>3, <2>5, <3>1, <3>2
    <3> QED
      BY <2>1, <2>4, <3>1, <3>3 DEF Timed
  <2>6. CASE ~OCF
    <3>1. late' = 0 /\ (OCF' <=> TCNT' = OCR)
      BY <2>6 DEF Tick
    <3>2. width' = width + 1
      BY <1>3, <2>1, <2>2, <2>3, <2>6 DEF Tick, LesserOf
    <3>3. TCNT' = IF TCNT = TimerMod - 1 THEN 0 ELSE TCNT + 1
      <4>1. \A k \in 0 .. TimerMod - 1 : k % TimerMod = k
        BY <2>3
      <4>2. TimerMod % TimerMod = 0
        BY <2>3
      <4> QED
        BY <2>3, <4>1, <4>2 DEF Tick
    <3>4. OCR = TCNT + (due - width) \/ OCR = TCNT + (due - width) - TimerMod
      BY <2>1, <2>6 DEF Ahead
    <3>5. TCNT' = OCR <=> width + 1 = due
      BY <2>1, <2>2, <2>3, <2>6, <3>3, <3>4
    <3>6. width + 1 < due =>
            \/ OCR = TCNT' + (due - (width + 1))
            \/ OCR = TCNT' + (due - (width + 1)) - TimerMod
      BY <2>1, <2>2, <2>3, <2>6, <3>3, <3>4
    <3>7. OCF' => width' = due' + late'
      BY <2>2, <2>4, <3>1, <3>2, <3>5
    <3>8. ~OCF' => width' < due' /\ Ahead(due - width)'
      <4>1. ~OCF' => width + 1 < due
        BY <2>1, <2>2, <2>6, <3>1, <3>5
      <4> QED
        BY <2>4, <3>2, <3>6, <4>1 DEF Ahead
    <3> QED
      BY <2>1, <2>4, <3>2, <3>7, <3>8 DEF Timed
  <2> QED
    BY <2>3, <2>5, <2>6
<1> QED
  BY <1>2, <1>3

\* What the sketch does takes no pin into a pulse and moves no timer under way.
LEMMA TimedSketch == PulseInv /\ (Sketch \/ UNCHANGED vars) => Timed'
<1> SUFFICES ASSUME PulseInv, Sketch \/ UNCHANGED vars PROVE Timed'
  OBVIOUS
<1>1. TypeOK /\ OnePulse /\ Timed
  BY DEF PulseInv, IInv
<1>2. CASE /\ UNCHANGED <<OCIE, OCF, OCR, TCNT, late, level, width, due>>
           /\ cut \subseteq cut'
  <2>1. level \subseteq cut => level' \subseteq cut'
    BY <1>2
  <2>2. Ahead(due - width) => Ahead(due - width)'
    BY <1>2 DEF Ahead
  <2> QED
    BY <1>1, <1>2, <2>1, <2>2 DEF Timed
<1>3. CASE AttachTimer
  <2>1. CASE IsTimerActive
    BY <1>2, <1>3, <2>1 DEF AttachTimer, timerVars, history
  <2>2. CASE ~IsTimerActive
    <3>1. level \subseteq cut
      BY <1>1, <2>2 DEF OnePulse, Pulsed, InUse, IsTimerActive
    <3> QED
      BY <1>3, <3>1 DEF AttachTimer, history, Timed
  <2> QED
    BY <2>1, <2>2
<1>4. CASE Create \/ CreateTicks \/ AttachMark \/ UNCHANGED vars
  <2>1. UNCHANGED <<timerVars, level, history>>
    BY <1>4 DEF Create, CreateTicks, AttachMark, vars
  <2> QED
    BY <1>2, <2>1 DEF timerVars, history
<1>5. CASE \E s \in Index : Detach(s)
  <2>1. PICK s \in Index : Detach(s)
    BY <1>5
  <2>2. cut \subseteq Left(s, NoPin)
    BY <1>1, LeftIsCut
  <2> QED
    BY <1>2, <2>1, <2>2 DEF Detach, timerVars
<1>6. CASE \E s \in Index, p \in Pin : Attach(s, p)
  <2>1. PICK s \in Index, p \in Pin : Attach(s, p)
    BY <1>6
  <2>2. cut \subseteq Left(s, p)
    BY <1>1, LeftIsCut
  <2> QED
    BY <1>2, <2>1, <2>2 DEF Attach, timerVars
<1>7. CASE \E s \in Index, w \in Widths : Write(s, w)
  <2>1. UNCHANGED <<timerVars, level, history>>
    BY <1>7 DEF Write
  <2> QED
    BY <1>2, <2>1 DEF timerVars, history
<1> QED
  BY <1>3, <1>4, <1>5, <1>6, <1>7 DEF Sketch

LEMMA PulseInvStep == PulseInv /\ [Next]_vars => PulseInv'
<1> SUFFICES ASSUME PulseInv, [Next]_vars PROVE PulseInv'
  OBVIOUS
<1>1. IInv'
  BY NextStep DEF PulseInv
<1>2. Ticked'
  BY TickedStep DEF PulseInv
<1>3. Timed'
  BY TimedIsr, TimedTick, TimedSketch DEF Next
<1> QED
  BY <1>1, <1>2, <1>3 DEF PulseInv

\* Only the handler takes a pin low, and it runs when the compare value was met.
LEMMA PulseEnds ==
  ASSUME PulseInv, [Next]_vars,
         NEW p \in level \ cut, p \notin level'
  PROVE  width \in due .. due + MaxLate
<1>1. Isr
  BY DEF Next, Sketch, Tick, Create, CreateTicks, AttachTimer, AttachMark,
         Detach, Attach, Write, vars
<1>2. OCF
  BY <1>1 DEF Isr
<1>3. width = due + late /\ due \in Widths
  BY <1>2 DEF PulseInv, Timed
<1>4. late \in 0 .. MaxLate /\ due \in Nat
  BY <1>3, ServoAssumption DEF PulseInv, IInv, TypeOK
<1> QED
  BY <1>3, <1>4, ServoAssumption

\* A pulse takes the ticks that were written before it began, and longer only
\* by the handler's delay: no call of the sketch in between, no wrap of the
\* 16-bit timer and no later write changes it.
THEOREM PulsesAreExact == Spec => PulseExact
<1>1. PulseInv /\ [Next]_vars =>
        [\A p \in level \ cut : p \notin level' => width \in due .. due + MaxLate]_vars
  BY PulseEnds
<1> QED
  BY <1>1, InitPulseInv, PulseInvStep, PTL DEF Spec, PulseExact

-----------------------------------------------------------------------------
(* How long a refresh takes *)

\* The timer is not ahead of the time since channel 0 began; the channels'
\* turns end before the timer wraps, each after its pulse and a delay of the
\* handler; and the wait behind the last one ends with the interval.
FrameInv ==
  /\ OCF /\ OCIE => TCNT = OCR + late
  /\ TCNT <= frame \/ frame = REFRESH_TICKS
  /\ Channel >= 0 =>
       \E w \in Widths : OCR + MaxLate <= (Channel + 1) * (w + MaxLate)
  /\ Channel < 0 => OCR >= REFRESH_TICKS
  /\ OCR + MaxLate < TimerMod

\* The plain part of what is assumed.
LEMMA Sizes ==
  /\ SERVOS_PER_TIMER \in Nat \ {0} /\ Widths \subseteq Nat \ {0}
  /\ DEFAULT_TICKS \in Widths /\ REFRESH_TICKS \in Nat \ {0} /\ Slack \in Nat \ {0}
  /\ TimerMod \in Nat \ {0} /\ MaxLate \in Nat /\ REFRESH_TICKS + MaxLate < TimerMod
BY ServoAssumption, RefreshAssumption

\* The turns of c channels end before the timer wraps, with time to spare.
LEMMA TurnsFit ==
  ASSUME NEW w \in Widths, NEW c \in 0 .. SERVOS_PER_TIMER
  PROVE  /\ c * (w + MaxLate) \in Nat
         /\ c * (w + MaxLate) + Slack + MaxLate < TimerMod
<1> DEFINE x == w + MaxLate
           S == SERVOS_PER_TIMER
<1>1. x \in Nat /\ S \in Nat /\ c \in Nat /\ S - c \in Nat
  BY Sizes
<1>2. S * x + Slack + MaxLate < TimerMod
  BY FrameAssumption
<1> HIDE DEF x
<1>3. c * x \in Nat /\ (S - c) * x \in Nat
  BY <1>1
<1>4. S * x = c * x + (S - c) * x
  BY <1>1
<1> DEFINE y == c * x
           z == (S - c) * x
           v == S * x
<1>5. y \in Nat /\ z \in Nat /\ v = y + z /\ v + Slack + MaxLate < TimerMod
  BY <1>2, <1>3, <1>4
<1> HIDE DEF y, z, v
<1>6. y + Slack + MaxLate < TimerMod
  BY <1>5, Sizes
<1> QED
  BY <1>5, <1>6 DEF x, y

\* One turn more, of the wider of two pulses.
LEMMA NextTurn ==
  ASSUME NEW w \in Widths, NEW v \in Widths \cup {0}, NEW c \in Nat, NEW x \in Nat,
         x <= c * (w + MaxLate)
  PROVE  \E u \in Widths : (x + v) + MaxLate <= (c + 1) * (u + MaxLate)
<1> DEFINE u == IF v > w THEN v ELSE w
<1>1. w \in Nat /\ v \in Nat /\ MaxLate \in Nat
  BY Sizes
<1>2. u \in Widths /\ u \in Nat /\ u >= w /\ u >= v
  BY <1>1, Sizes
<1> HIDE DEF u
<1>3. c * (u + MaxLate) = c * (w + MaxLate) + c * (u - w)
  BY <1>1, <1>2
<1>4. c * (u - w) >= 0 /\ c * (u - w) \in Int
  <2>1. u - w \in Nat
    BY <1>1, <1>2
  <2>2. ASSUME NEW a \in Nat, NEW b \in Nat PROVE a * b >= 0 /\ a * b \in Int
    BY <2>2
  <2> QED
    BY <2>1, <2>2
<1>5. (c + 1) * (u + MaxLate) = c * (u + MaxLate) + u + MaxLate
  BY <1>1, <1>2
<1> DEFINE a == c * (w + MaxLate)
           b == c * (u - w)
<1>6. a \in Int /\ b \in Int /\ b >= 0 /\ x <= a
      /\ (c + 1) * (u + MaxLate) = (a + b) + u + MaxLate
  BY <1>1, <1>3, <1>4, <1>5
<1> HIDE DEF a, b
<1>7. (x + v) + MaxLate <= (a + b) + u + MaxLate
  BY <1>1, <1>2, <1>6
<1> QED
  BY <1>2, <1>6, <1>7

\* What is below the divisor is its own remainder.
LEMMA BelowTimerMod ==
  ASSUME NEW k \in Nat, k < TimerMod
  PROVE  k % TimerMod = k
BY Sizes

LEMMA InitFrame == Init => FrameInv
<1> SUFFICES ASSUME Init PROVE FrameInv
  OBVIOUS
<1>1. OCR = 0 /\ Channel = 0 /\ ~OCF /\ frame = REFRESH_TICKS
  BY DEF Init
<1>2. DEFAULT_TICKS \in Nat /\ 0 + MaxLate <= (0 + 1) * (DEFAULT_TICKS + MaxLate)
  BY Sizes
<1>3. 0 + MaxLate < TimerMod
  BY Sizes
<1> QED
  BY <1>1, <1>2, <1>3, Sizes DEF FrameInv

LEMMA FrameIsr ==
  ASSUME IInv, FrameInv, Isr
  PROVE  FrameInv'
<1> DEFINE now == IF Channel < 0 THEN 0 ELSE TCNT
           next == Channel + 1
<1>1. /\ TCNT' = now /\ OCR' = NextOCR(next, now) /\ ~OCF'
      /\ Channel' = IF InUse(next) THEN next ELSE -1
      /\ frame' = IF next = 0 THEN 0 ELSE frame
      /\ OCF /\ OCIE
  BY DEF Isr
<1>2. /\ Channel \in -1 .. SERVOS_PER_TIMER - 1 /\ TCNT \in 0 .. TimerMod - 1
      /\ OCR \in 0 .. TimerMod - 1 /\ late \in 0 .. MaxLate /\ next \in Int
      /\ ticks \in [Index -> Widths \cup {0}] /\ frame \in 0 .. REFRESH_TICKS
  BY Sizes DEF IInv, TypeOK
\* How far the turns before this one have brought the timer.
<1>3. \E w \in Widths : now \in Nat /\ next \in 0 .. SERVOS_PER_TIMER
                        /\ now <= next * (w + MaxLate)
  <2>1. CASE Channel < 0
    <3>1. now = 0 /\ next = 0 /\ DEFAULT_TICKS \in Nat
      BY <1>2, <2>1, Sizes
    <3>2. 0 <= 0 * (DEFAULT_TICKS + MaxLate)
      BY <3>1, Sizes
    <3> QED
      BY <3>1, <3>2, Sizes
  <2>2. CASE Channel >= 0
    <3>1. PICK w \in Widths : OCR + MaxLate <= (Channel + 1) * (w + MaxLate)
      BY <2>2 DEF FrameInv
    <3>2. now = OCR + late
      BY <1>1, <1>2, <2>2 DEF FrameInv
    <3>3. next \in 0 .. SERVOS_PER_TIMER
      BY <1>2, <2>2, Sizes
    <3> DEFINE b == next * (w + MaxLate)
    <3>4. b \in Nat /\ OCR + MaxLate <= b
      BY <3>1, <3>3, TurnsFit
    <3> HIDE DEF b
    <3>5. now \in Nat /\ now <= b
      BY <1>2, <3>2, <3>4, Sizes
    <3> QED
      BY <3>3, <3>5 DEF b
  <2> QED
    BY <1>2, <2>1, <2>2
<1>4. PICK w \in Widths : now \in Nat /\ next \in 0 .. SERVOS_PER_TIMER
                          /\ now <= next * (w + MaxLate)
  BY <1>3
<1>5. TCNT' <= frame' \/ frame' = REFRESH_TICKS
  <2>1. CASE Channel < 0
    BY <1>1, <1>2, <2>1
  <2>2. CASE Channel >= 0
    BY <1>1, <1>2, <2>2 DEF FrameInv
  <2> QED
    BY <1>2, <2>1, <2>2
<1> HIDE DEF now
<1>6. CASE InUse(next)
  <2>1. ticks[next] \in Widths \cup {0} /\ next < SERVOS_PER_TIMER
    BY <1>2, <1>6, Sizes DEF InUse, Index
  <2> DEFINE v == ticks[next]
  <2>2. PICK u \in Widths : (now + v) + MaxLate <= (next + 1) * (u + MaxLate)
    <3>1. v \in Widths \cup {0} /\ next \in Nat
      BY <1>4, <2>1
    <3> HIDE DEF v, next
    <3> QED
      BY <1>4, <3>1, NextTurn
  <2> DEFINE b == (next + 1) * (u + MaxLate)
  <2>3. b \in Nat /\ b + Slack + MaxLate < TimerMod
    <3>1. next + 1 \in 0 .. SERVOS_PER_TIMER
      BY <1>4, <2>1, Sizes
    <3> HIDE DEF next
    <3> QED
      BY <3>1, TurnsFit
  <2>4. v \in Nat
    <3>1. v \in Widths \cup {0}
      BY <2>1
    <3> HIDE DEF v
    <3>2. Widths \cup {0} \subseteq Nat
      BY Sizes
    <3> QED
      BY ONLY <3>1, <3>2
  <2> HIDE DEF b, v
  <2>5. (now + v) + MaxLate <= b
    BY <2>2 DEF b, v
  <2>6. now + v \in Nat /\ now + v < TimerMod /\ (now + v) + MaxLate < TimerMod
    BY <1>4, <2>3, <2>4, <2>5, Sizes
  <2>7. OCR' = now + v
    <3>1. OCR' = (now + v) % TimerMod
      BY <1>1, <1>6 DEF NextOCR, v
    <3> QED
      BY <2>6, <3>1, BelowTimerMod
  <2>8. Channel' = next /\ next >= 0
    BY <1>1, <1>4, <1>6
  <2>9. OCR' + MaxLate <= (Channel' + 1) * (u + MaxLate)
    BY <2>5, <2>7, <2>8 DEF b
  <2>10. ~(Channel' < 0)
    BY <1>4, <2>8
  <2> QED
    BY <1>1, <1>5, <2>6, <2>7, <2>9, <2>10 DEF FrameInv
<1>7. CASE ~InUse(next)
  <2> DEFINE b == next * (w + MaxLate)
  <2>1. b \in Nat /\ b + Slack + MaxLate < TimerMod /\ now <= b
    BY <1>4, TurnsFit
  <2> HIDE DEF b
  <2>2. now + Slack \in Nat /\ now + Slack + MaxLate < TimerMod /\ now + Slack < TimerMod
    BY <1>4, <2>1, Sizes
  <2>3. OCR' = IF now + Slack < REFRESH_TICKS THEN REFRESH_TICKS ELSE now + Slack
    <3>1. OCR' = IF now + Slack < REFRESH_TICKS THEN REFRESH_TICKS
                                                ELSE (now + Slack) % TimerMod
      BY <1>1, <1>7 DEF NextOCR
    <3> QED
      BY <2>2, <3>1, BelowTimerMod
  <2>4. OCR' >= REFRESH_TICKS /\ OCR' + MaxLate < TimerMod
    BY <2>2, <2>3, Sizes
  <2>5. Channel' = -1
    BY <1>1, <1>7
  <2>6. ~(Channel' >= 0)
    BY <2>5
  <2> QED
    BY <1>1, <1>5, <2>4, <2>6 DEF FrameInv
<1> QED
  BY <1>6, <1>7

LEMMA FrameTick ==
  ASSUME IInv, FrameInv, Tick
  PROVE  FrameInv'
<1>1. /\ Channel' = Channel /\ OCR' = OCR /\ OCIE' = OCIE
      /\ (OCF /\ OCIE) => late < MaxLate
      /\ late' = IF OCF /\ OCIE THEN late + 1 ELSE 0
      /\ TCNT' = (TCNT + 1) % TimerMod
      /\ OCF' = (OCF \/ TCNT' = OCR)
      /\ frame' = LesserOf(frame + 1, REFRESH_TICKS)
  BY DEF Tick
<1>2. /\ TCNT \in 0 .. TimerMod - 1 /\ OCR \in 0 .. TimerMod - 1
      /\ late \in 0 .. MaxLate /\ frame \in 0 .. REFRESH_TICKS
      /\ OCF \in BOOLEAN /\ OCIE \in BOOLEAN
  BY DEF IInv, TypeOK
<1>3. OCR + MaxLate < TimerMod
  BY DEF FrameInv
<1>4. TCNT' = IF TCNT + 1 < TimerMod THEN TCNT + 1 ELSE 0
  BY <1>1, <1>2, Sizes
<1>5. OCF' /\ OCIE' => TCNT' = OCR' + late'
  <2>1. CASE OCF /\ OCIE
    <3>1. TCNT = OCR + late /\ late < MaxLate /\ late' = late + 1
      BY <1>1, <2>1 DEF FrameInv
    <3> QED
      BY <1>1, <1>2, <1>3, <1>4, <3>1, Sizes
  <2>2. CASE ~(OCF /\ OCIE)
    <3>1. late' = 0
      BY <1>1, <2>2
    <3>2. OCF' /\ OCIE' => TCNT' = OCR
      BY <1>1, <2>2
    <3> QED
      BY <1>1, <1>2, <3>1, <3>2
  <2> QED
    BY <2>1, <2>2
<1>6. TCNT' <= frame' \/ frame' = REFRESH_TICKS
  <2>1. frame' = IF frame + 1 < REFRESH_TICKS THEN frame + 1 ELSE REFRESH_TICKS
    BY <1>1 DEF LesserOf
  <2>2. TCNT <= frame \/ frame = REFRESH_TICKS
    BY DEF FrameInv
  <2> QED
    BY <1>2, <1>4, <2>1, <2>2, Sizes
<1> QED
  BY <1>1, <1>5, <1>6 DEF FrameInv

\* attach() may set the timer back, never forward.
LEMMA FrameSketch ==
  ASSUME IInv, FrameInv, Sketch \/ UNCHANGED vars
  PROVE  FrameInv'
<1>1. ASSUME UNCHANGED <<timerVars, frame>> PROVE FrameInv'
  BY <1>1 DEF FrameInv, timerVars
<1>2. CASE AttachTimer
  <2>1. CASE IsTimerActive
    BY <1>1, <1>2, <2>1 DEF AttachTimer, history
  <2>2. CASE ~IsTimerActive
    <3>1. TCNT' = 0 /\ ~OCF' /\ Channel' = Channel /\ OCR' = OCR /\ frame' = frame
      BY <1>2, <2>2 DEF AttachTimer, history
    <3>2. frame \in Nat
      BY Sizes DEF IInv, TypeOK
    <3> QED
      BY <3>1, <3>2 DEF FrameInv
  <2> QED
    BY <2>1, <2>2
<1>3. CASE \/ Create \/ CreateTicks \/ AttachMark \/ (\E s \in Index : Detach(s))
           \/ (\E s \in Index, p \in Pin : Attach(s, p))
           \/ (\E s \in Index, w \in Widths : Write(s, w)) \/ UNCHANGED vars
  <2>1. UNCHANGED <<timerVars, frame>>
    BY <1>3 DEF Create, CreateTicks, AttachMark, Detach, Attach, Write, vars, history
  <2> QED
    BY <1>1, <2>1
<1> QED
  BY <1>2, <1>3 DEF Sketch

LEMMA FrameStep == IInv /\ FrameInv /\ [Next]_vars => FrameInv'
BY FrameIsr, FrameTick, FrameSketch DEF Next

\* Only channel 0 begins anew, and not before the wait behind the last one ends.
LEMMA FrameEnds ==
  ASSUME IInv, FrameInv, [Next]_vars, frame' < frame
  PROVE  frame = REFRESH_TICKS
<1>1. frame \in 0 .. REFRESH_TICKS /\ REFRESH_TICKS \in Nat
  BY Sizes DEF IInv, TypeOK
<1>2. CASE Tick
  <2>1. frame' = IF frame + 1 < REFRESH_TICKS THEN frame + 1 ELSE REFRESH_TICKS
    BY <1>2 DEF Tick, LesserOf
  <2> QED
    BY <1>1, <2>1
<1>3. CASE Isr
  <2>1. Channel + 1 = 0 /\ OCF /\ OCIE
    BY <1>1, <1>3 DEF Isr
  <2>2. Channel < 0 /\ TCNT = OCR + late /\ OCR >= REFRESH_TICKS
    <3>1. Channel \in Int
      BY Sizes DEF IInv, TypeOK
    <3> QED
      BY <2>1, <3>1 DEF FrameInv
  <2>3. OCR \in Int /\ late \in Nat
    BY Sizes DEF IInv, TypeOK
  <2>4. TCNT >= REFRESH_TICKS /\ TCNT \in Int
    BY <1>1, <2>2, <2>3
  <2>5. TCNT <= frame \/ frame = REFRESH_TICKS
    BY DEF FrameInv
  <2> QED
    BY <1>1, <2>4, <2>5
<1>4. CASE Sketch \/ UNCHANGED vars
  <2>1. frame' = frame
    BY <1>4 DEF Sketch, Create, CreateTicks, AttachTimer, AttachMark, Detach, Attach, Write,
       vars, history
  <2> QED
    BY <1>1, <2>1
<1> QED
  BY <1>2, <1>3, <1>4 DEF Next

\* Channel 0 begins no earlier than a refresh interval after it began before,
\* though attach() may set the timer back under way and every handler be late.
THEOREM RefreshIsHeld == Spec => RefreshHeld
<1>1. IInv /\ FrameInv /\ [Next]_vars => [frame' < frame => frame = REFRESH_TICKS]_vars
  BY FrameEnds
<1> QED
  BY <1>1, InitIInv, NextStep, InitFrame, FrameStep, PTL DEF Spec, RefreshHeld
=============================================================================
