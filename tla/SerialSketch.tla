---------------------------- MODULE SerialSketch ----------------------------
(***************************************************************************)
(* A sketch that uses software serial ports, and timer 0.  The two meet in *)
(* the CPU: while a frame is sampled or sent, interrupts are off and the   *)
(* overflow handler waits; the pin change interrupt comes before it in the *)
(* vector table.  A due handler runs before the thread's next step and     *)
(* before the next tick; apart from that, any time may pass between steps. *)
(***************************************************************************)
EXTENDS TimeBase, SoftwareSerial

\* At 9600 baud and faster. A slower frame, the table goes down to 300, may cost
\* the clock several overflows by itself.
ASSUME FrameFits == FrameTicks <= TimerTicks

VARIABLES
  pc,           \* the thread's next step
  port,         \* the port of the call
  ret,          \* the local ret of overflow()
  unreported,   \* history: "yes" if the listening port dropped a byte unknown to
                \* the sketch, "slipped" if it did so in the middle of overflow()
  excused,      \* history: its frame began behind the handler's back
  starved       \* history: a frame came before an overflow that was due

thread == <<pc, port, ret>>
history == <<unreported, excused, starved>>
vars == <<timeVars, serialVars, thread, history>>

PC == {"idle", "begin_tune", "begin_listen", "overflow_clear", "write"}

Init ==
  /\ TimeInit /\ SerialInit
  /\ pc = "idle" /\ port = NoPort /\ ret = FALSE
  /\ unreported = "no" /\ excused = FALSE /\ starved = FALSE

\* Interrupts are off in the handler and in write().
InterruptsOff == recv.on \/ sending > 0
Due == recv.on \/ (~InterruptsOff /\ (pcif \/ tov))

At(label) == pc = label /\ ~Due /\ sending = 0

Call(next, p) == pc' = next /\ port' = p /\ UNCHANGED ret
Return == pc' = "idle" /\ port' = NoPort /\ ret' = FALSE

\* Changing who listens, or on which pins, hides the frames under way.
Hides == excused' = (excused \/ \E p \in Port : line[p] > 0)

-----------------------------------------------------------------------------
(* The calls *)

Begin(p) ==
  /\ At("idle")
  /\ BeginUntune(p)
  /\ Call("begin_tune", p)
  /\ Hides
  /\ UNCHANGED <<timeVars, unreported, starved>>

BeginTunes ==
  /\ At("begin_tune")
  /\ \E supported \in BOOLEAN : BeginTune(port, supported)
  /\ Call("begin_listen", port)
  /\ Hides
  /\ UNCHANGED <<timeVars, unreported, starved>>

\* The sketch learns nothing of the port that stops listening.
ListenTo(p) ==
  /\ BeginListen(p)
  /\ Return
  /\ Hides
  /\ unreported' = IF active_object = p THEN unreported ELSE "no"
  /\ UNCHANGED <<timeVars, starved>>

BeginListens == At("begin_listen") /\ ListenTo(port)
ListenCall == At("idle") /\ \E p \in Port : ListenTo(p)

EndCall ==
  /\ At("idle")
  /\ \E p \in pcmsk : End(p)
  /\ Hides
  /\ UNCHANGED <<timeVars, thread, unreported, starved>>

ReadCall ==
  /\ At("idle")
  /\ \E p \in Port : Read(p)
  /\ UNCHANGED <<timeVars, thread, history>>

FlushCall ==
  /\ At("idle")
  /\ \E p \in Port : Flush(p)
  /\ UNCHANGED <<timeVars, thread, history>>

OverflowCall(p) ==
  /\ At("idle")
  /\ pc' = "overflow_clear" /\ port' = p /\ ret' = buffer_overflow[p]
  /\ UNCHANGED <<timeVars, serialVars, history>>

\* A byte dropped since the flag was loaded is forgotten with it, unless the
\* answer is TRUE in any case.
OverflowReturns ==
  /\ At("overflow_clear")
  /\ ClearOverflow(port)
  /\ unreported' = IF port = active_object /\ ret THEN "no" ELSE unreported
  /\ Return
  /\ UNCHANGED <<timeVars, excused, starved>>

WriteCall ==
  /\ At("idle")
  /\ \E p \in Port : WriteFrame(p)
  /\ Call("write", NoPort)
  /\ UNCHANGED <<timeVars, history>>

WriteReturns ==
  /\ At("write")
  /\ Return
  /\ UNCHANGED <<timeVars, serialVars, history>>

-----------------------------------------------------------------------------
(* Handlers, senders and time *)

PinChangeIgnored ==
  /\ ~InterruptsOff
  /\ IsrNotForUs
  /\ UNCHANGED <<timeVars, thread, history>>

PinChangeReceives ==
  /\ ~InterruptsOff
  /\ IsrRecv
  /\ starved' = (starved \/ tov)
  /\ UNCHANGED <<timeVars, thread, unreported, excused>>

PinChangeEnds ==
  /\ RecvEnd
  /\ unreported' = CASE receive_buffer' # receive_buffer -> unreported
                     [] pc = "overflow_clear" /\ port = active_object -> "slipped"
                     [] OTHER -> "yes"
  /\ UNCHANGED <<timeVars, thread, excused, starved>>

\* The pin change interrupt has the higher priority.
TimerOverflow ==
  /\ ~InterruptsOff /\ ~pcif
  /\ OverflowIsr
  /\ starved' = FALSE
  /\ UNCHANGED <<serialVars, thread, unreported, excused>>

\* A frame that begins while the handler cannot run, or on a pin that does not
\* raise it, is not seen from its start.
FrameStarts(p) ==
  /\ StartBit(p)
  /\ excused' = IF p = active_object
                THEN recv.left > 0 \/ sending > 0 \/ p \notin pcmsk
                ELSE excused
  /\ UNCHANGED <<timeVars, thread, unreported, starved>>

TimePasses ==
  /\ IF recv.on THEN recv.left > 0 ELSE ~Due
  /\ Tick /\ PinTick
  /\ UNCHANGED <<thread, history>>

Next ==
  \/ \E p \in Port : Begin(p) \/ OverflowCall(p) \/ FrameStarts(p)
  \/ BeginTunes \/ BeginListens \/ ListenCall \/ EndCall \/ ReadCall \/ FlushCall
  \/ OverflowReturns \/ WriteCall \/ WriteReturns
  \/ PinChangeIgnored \/ PinChangeReceives \/ PinChangeEnds
  \/ TimerOverflow \/ TimePasses

Spec == Init /\ [][Next]_vars

\* The two instructions of overflow() leave room for one handler only, since
\* after it the CPU executes an instruction of the thread: a frame that comes
\* between them is dropped only if it finds the buffer full already.
LoneNext ==
  /\ Next
  /\ pc = "overflow_clear" /\ pcif' => Len(receive_buffer) = _SS_MAX_RX_BUFF - 1
LoneSpec == Init /\ [][LoneNext]_vars

-----------------------------------------------------------------------------
(* Properties *)

TypeOK ==
  /\ TimeTypeOK
  /\ active_object \in Port \cup {NoPort}
  /\ receive_buffer \in Seq(Data) /\ Len(receive_buffer) < _SS_MAX_RX_BUFF
  /\ buffer_overflow \in [Port -> BOOLEAN]
  /\ tuned \subseteq Port /\ pcmsk \subseteq Port
  /\ line \in [Port -> 0 .. FrameTicks]
  /\ recv \in [left : 0 .. FrameTicks, torn : BOOLEAN, on : BOOLEAN]
  /\ sending \in 0 .. FrameTicks
  /\ pc \in PC /\ port \in Port \cup {NoPort}
  /\ unreported \in {"no", "yes", "slipped"}
  /\ {pcif, ret, excused, starved} \subseteq BOOLEAN

\* What a port reads came in on its own pin while it was listening, although
\* all ports share one buffer and the handler may run between any two steps
\* of begin() and listen() (SoftwareSerial.cpp:179-193, 379-413).
OwnBytesOnly ==
  \A i \in 1 .. Len(receive_buffer) : receive_buffer[i].port = active_object

\* The handler begins to sample a frame too late only if it could not see the
\* start bit, since write() or another frame was going on, or the ports were
\* being changed. The exception: the listening port has no delays, since its
\* begin() has just cleared them, was given a rate that is not in the table, or
\* was never called; then a frame that nothing hides is sampled badly, too
\* (SoftwareSerial.cpp:198-260, 379-405, 446-494).
TornOnlyIfHidden ==
  [][~recv.on /\ recv'.on /\ recv'.torn => excused \/ active_object \notin tuned]_vars

\* A byte that was dropped for lack of room is told by the next overflow().
\* The exception: it was dropped while overflow() had loaded the flag and not
\* yet cleared it (SoftwareSerial.cpp:246-259, SoftwareSerial.h:89).
OverflowReported == unreported = "yes" => buffer_overflow[active_object]

\* "subsequent calls will return false unless another byte of data has been
\* received and discarded in the meantime" (reference/SoftwareSerialOverflow.
\* html:124): outside overflow(), every drop that no answer has told is told by
\* the next one.
DropsAlwaysTold ==
  pc = "idle" /\ unreported # "no" => buffer_overflow[active_object]

\* No single frame, received or sent, costs the clock an overflow, though it
\* lasts as long as one takes; only a frame that comes before an overflow
\* that is due already does (wiring.c:44-65, SoftwareSerial.cpp:198-260).
ClockKeepsTime == [][lost' /\ ~lost => starved]_vars
=============================================================================
