# A specification of the Arduino 1.0.6 core and libraries (gizDuino edition)

The repository is a distribution of the Arduino 1.0.6 IDE for Windows with the
files for e-Gizmo's gizDuino boards. What runs on the boards, and what this
project is about, are the core in `hardware/arduino/cores/arduino`, the
libraries in `libraries/`, the USB firmware and the boot loaders. Programs of
this kind have one thread (the sketch), a handful of interrupt handlers that
run between any two of its instructions, and peripherals that work on by
themselves: few lines, hard to test, and well suited to model checking.

Contents: 1 inventory, 2 plan, 3 modules and their code, 4 runs, 5 fairness,
6 proofs, 7 what the runs found, 8 what is not modelled.

## 1. Inventory

| Component | State | Operations | Talks to | Hard behaviours | What makes it correct |
|---|---|---|---|---|---|
| **HardwareSerial** (`cores/arduino/HardwareSerial.cpp`) | two rings, `transmitting`, UCSRnA/B, UDR, shift register, receiver FIFO | `begin`, `end`, `available`, `peek`, `read`, `flush`, `write`; RX and UDRE handlers | USART; `Print`/`Stream`; the sketch | two writers of UCSRnB with non-atomic accesses, publishing order, busy waits on a handler, TXC cleared late | bytes out once and in order; none stranded; answers of `available`/`peek` hold; `flush` neither early nor endless; a closed port is quiet |
| **Wire / twi** (`libraries/Wire`) | `twi_state`, five buffers with indices, TWCR/TWSR/TWDR, the sketch's message and unread data | `beginTransmission`, `write`, `endTransmission`, `requestFrom`, `read`; `TWI_vect`; `onReceiveService`, `onRequestService` | the bus: remote slaves, other masters; the sketch's callbacks | master and slave share one state variable; test-then-set; repeated START left pending; failure at every byte; callbacks inside the handler | results tell what happened on the bus; data complete and not mixed; the device stays reachable; calls return |
| **USB-serial bridge** (`firmwares/atmegaxxu2/arduino-usbserial`) | two rings with a count, LED timers, USART set-up | main loop; RX handler; line encoding and line state events | host (LUFA), the board's USART, its reset pin | handler inserts without a test for room; count read once and used for many removals | no byte lost or doubled while there is room; counts fit contents |
| **USB core and CDC** (`USBCore.cpp`, `CDC.cpp`, `HID.cpp`) | endpoint selection, FIFO banks, `_usbConfiguration`, line state, `peek_buffer` | `USB_Send`, `USB_Recv`, `USB_Flush`, `Serial_::write/read/peek`; general and endpoint-0 handlers | host; watchdog and boot loader (1200 baud reset) | endpoint selected by thread and handlers; SOF handler releases banks; timeouts after a part | what was accepted is sent once, in order; results honest |
| **SoftwareSerial**, **NewSoftSerial** | one active object, shared receive buffer, overflow flag, pin change masks | `begin`, `listen`, `end`, `read`, `available`, `write`, `flush`, `peek`; pin change handler | pins, timers by delay loops | several objects and one buffer; whole frames with interrupts off | data of the listening port only, in order; overflow reported |
| **Servo** | `servos[]`, `Channel[]`, `ServoCount`; timer counters | `attach`, `detach`, `write`, compare handler | 16-bit timers, pins | attach and detach in the middle of a cycle; counter wrap | every pulse ends, of the length asked for, once per cycle |
| **Time base** (`wiring.c`) | overflow count, milliseconds and fraction, TCNT0 | overflow handler, `millis`, `micros`, `delay` | timer 0; `Stream` timeouts | overflow pending while read; widths | monotonic, no drift beyond the fraction |
| **Tone** (`Tone.cpp`) | pins per timer, toggle counts, port masks | `tone`, `noTone`, compare handlers | timers, pins | 32-bit counter shared with the handler | a tone of a given duration ends |
| **External interrupts** (`WInterrupts.c`) | table of functions | `attachInterrupt`, `detachInterrupt`, handlers | the sketch | two-byte pointers | the function attached is called |
| **Heap** (`avr-libc/malloc.c`, `realloc.c`) | free list, break value, chunk headers | `malloc`, `free`, `realloc` | `String`, `new` | splitting, joining, moving | chunks are disjoint; neighbours joined |
| **Print, Stream, String** | parse timeouts, string buffers | formatting, parsing | every byte stream | timeouts | mostly sequential |
| **EasyTransfer2** (`Robot_Control`, `Robot_Motor`) | receive state machine | send, receive | serial link | framing lost in the middle | a packet is taken whole or not at all |
| **Boot loaders** (optiboot, stk500v2, caterina) | page buffer, command state | one command at a time | flash, UART or USB | resets and timeouts | sequential protocol |
| **Keypad, Stepper, Firmata, Time, SD, RogueSD, GSM, GSMSHIELD, WiFi, USB_Host_Shield, etherShield** | own protocol state | polled by the sketch | peripherals behind SPI or a UART | retries, partial answers | per library |

Third-party or without behaviour of their own, and left aside: the AVR tool
chain, Java, the drivers, the IDE's jars, the reference pages, the examples,
lwIP and the AVR32 framework of the WiFi shield, display and sensor drivers,
archives. `hardware/gizduino-/cores` and `cores/robot` hold copies of the Arduino
core for e-Gizmo's boards and the Arduino robot. Their `HardwareSerial.cpp` is the
one modelled here but for vector names and casts, except in `standard`, an older
copy without `begin(baud, config)`, parity check and `transmitting`, whose
`flush()` waits for the ring only.

Interactions: the sketch calls every component in one thread. Apart from the
calls they make of each other (`USB_Send` and `timedRead` of the time base) the
components share no state; they meet in the CPU: while one handler runs, or the
sketch has interrupts off, the others wait. Where that is what a property is
about, the module says so: `SerialSketch` has SoftwareSerial and timer 0 in one
CPU, since a software frame is as long as an overflow; `TimeSketch` has another
handler that holds the CPU for a while; HardwareSerial has a constant that says
whether another handler may do so for longer than a frame (`LongIsr`); `Servo`
has a bound on how late its handler may come (`MaxLate`).

## 2. Plan

Modules are written so that they can be proved about: no recursive operator,
one action per step, invariants of named conjuncts.

1. **Done: HardwareSerial.** `SerialRing` (data), `SerialPort` (abstract),
   `HardwareSerial` (detailed, refines `SerialPort`), proofs in two modules.
2. **Done: Wire.** `Twi` (driver), `TwiBus` (peripheral and bus), `Wire` (class
   and callbacks, composes both).
3. **Done: USB-serial bridge.** `CountedRing` (data), `UsbSerial`.
4. **Done: USB port and reports.** `UsbCore` (endpoints, handlers), `UsbSketch`
   (Serial_, HID and the host, on top of it).
5. **Done: time base.** `TimeBase` (handler and calls), `TimeSketch` (a sketch
   that waits, under other handlers).
6. **Done: software serial.** `SoftwareSerial` (ports and handler),
   `SerialSketch` (composes it with `TimeBase` in one CPU).
7. **Done: Servo**, with proofs in `ServoProofs`.
8. **Done: proofs** of every safety property that the passing runs check (section 6).
   Next: a weaker invariant of Wire without `Untimely = {}`, under which the driver may read what an
   earlier transaction left in a buffer.
9. Next, modules: an abstract specification of a master call (address, bytes,
   result) that `Wire` implements; the heap (`malloc.c`, `realloc.c`: a dozen
   cells, chunks disjoint, neighbours joined); `Tone` (a 32-bit count stored in
   four steps while the handler decrements it); `Stream::findUntil` as an
   operator against a reference definition; `EasyTransfer2`.

## 3. Modules and their code

### HardwareSerial

`SerialRing` holds the ring of `struct ring_buffer` and the updates of it: the
store into the slot, the store to `head`, the store to `tail`, and
`store_char()`. `Contents` is what the ring means: the sequence of unread bytes.

`HardwareSerial` has the sketch's thread, the two handlers and the USART.

| Code | Variables | Actions |
|---|---|---|
| `begin(baud)`, `begin(baud, config)` | `transmitting`, `ucsrb`, `open` | `Begin(withConfig)`, then four read-modify-writes |
| `end()` | | `End`, `EndWait` (415), four read-modify-writes, `EndClear` (424) |
| `sbi`, `cbi` on UCSRnB | `todo`, `reg`, `then` | `RmwLoad`, `RmwStore` |
| `available`, `peek`, `read` | `rx`, `byte` | `Available`, `Peek`, `Read` + `ReadPop` |
| `flush` | `transmitting`, `txc` | `Flush`, `FlushWait` |
| `write` | `tx`, `byte` | `Write`, `WriteWait`, `WriteStore`, `WritePublish`, a read-modify-write, `WriteTxc` |
| RX handler, UDRE handler | `rx`, `urx`; `tx`, `udr`, `ucsrb` | `RxIsr`; `UdreIsrEmpty`, `UdreIsrSend` |
| USART (external) | `udr`, `shift`, `line`, `urx`, `txc` | `TxLoad`, `FrameEnd`, `Arrive` |

Where a method is cut. A step ends wherever a handler that runs next could tell
or make a difference: at every access to a ring index and between the load and
the store of `sbi`/`cbi` (the register is reached through a pointer member, so
the compiler cannot use the one-instruction forms). In the handlers the same
macros are single steps, because handlers do not nest. `available()` reads head
before tail and only its own thread moves tail: one step. A handler is one step.

History variables (`written`, `line`, `taken`, `returned`, `promised`,
`peeked`, `idleSince`, and `open`, which the code lacks) only record. `taken` is
a number: which bytes were taken is told by the refinement.

Assumptions on time. `InTime` says that the handler refills UDR before the frame
in the shift register ends, and that `write()` gets from the store to `head` to
`sbi(TXC0)` within a frame, unless `LongIsr`. Without it a frame may end at any
time. A sketch writes only to an open port, and calls `begin` on an open one only
if `Rebegin`. The baud rate computation and the frame format are left out. The
second byte of a 16-bit index is always 0, so that indices are read whole.
A handler that is due may wait for any number of the thread's steps, which stands
for other handlers and other code with interrupts off. `PromptSpec` has it run
before the thread's next step; only `serial_rebegin` uses it, so that its
counterexample is one of the chip on its own, and everything else is checked and
proved without it.

`SerialPort` is the abstract port: an outgoing queue of `SERIAL_BUFFER_SIZE + 1`
bytes (ring, UDR and shift register), an incoming one of
`SERIAL_BUFFER_SIZE - 1` that loses a byte only when full. The mapping puts
`shift \o udr \o Contents(tx)` for the first and `Contents(rx)` for the second.

### Wire

`Twi` has the driver: the two blocking calls as steps (`Enter`, `WaitReady`,
`Setup`, `WriteTwcr`, `Done`) and one action per group of cases of `TWI_vect`.
`TwiBus` has what is not code: the peripheral that reports status codes and a
bus with remote devices and other masters. `Wire` has the methods of `TwoWire`,
the two service functions with the sketch's callbacks, and the composition: an
action of `Twi` says nothing of Wire's variables, so `Wire` completes each.

| Code | Variables | Actions |
|---|---|---|
| `beginTransmission`, `write`, `read` | `txBuffer`, `txBufferLength`, `transmitting`, `unread` | `BeginTransmission`, `Write`, `Read` |
| `endTransmission`, `twi_writeTo` | `twi_state`, `twi_masterBuffer`, ... | `EndTransmission`, `CallGoesOn` (`WaitReady`, `Setup`, `WriteTwcr`), `ReturnWrite` |
| `requestFrom`, `twi_readFrom` | `rxBuffer`, `unread` | `RequestFrom`, `CallGoesOn`, `ReadCopy`, `ReadReturn` |
| `TWI_vect`, master | `status`, `twea`, `twsta`, `twie`, `twdr` | `IsrStart`, `IsrSend`, `IsrSentAll`, `IsrFailed`, `IsrReceive`, `IsrReceiveLast` |
| `TWI_vect`, slave | `twi_rxBuffer`, `twi_txBuffer`, `servicing` | `IsrSlaveReceiver`, `IsrSlaveData`, `IsrSlaveDataNack`, `IsrSlaveStop` + `IsrRelease`, `IsrSlaveTransmitter`, `IsrSlaveNext`, `IsrSlaveLast` |
| `onReceiveService`, `onRequestService` | `registered`, `unread`, `offer` | inside `SlaveStop`, `SlaveTransmitter` |
| bus (external) | `role`, `foreign` | `BusStart` ... `BusAddressed` |

How it is abstracted. Addresses are left out: a call finds its device or nobody
answers. `Isr` and `At` say that a pending interrupt is served before the
sketch's next step. The handler is one step but for `TW_SR_STOP`, where
`twi_stop()` has let go of the bus before a callback that may take long, so that
the bus can go on during it (`servicing`). An array is kept as the sequence of
what can still be read of it. Bytes are never looked at by the driver; the
instance tells each by its place in its transfer, so that a lost, doubled or
swapped byte shows. `IsrSlaveNext` past the end of the answer sends any byte.
After `endTransmission(false)` the repeated START is assumed to be on the bus
when the next call writes TWDR, as the comment at `twi.c:148` hopes.
`Answers` are what the request callback leaves to be sent; each `write(byte)`
in it replaces the one before.

`Untimely` says whether another master may address the device while the receive
callback runs (`"callback"`). The main run excludes it, `wire_callback` shows what
it does. In no run does another master address the device between the test of
`twi_state` and the write of TWCR (`twi.c:202` to `239`): the START then breaks into
the slave transaction. See section 8.

### USB-serial bridge

`CountedRing` is `RingBuff_t`: two locations and a count, moved one after the
other. `UsbSerial` has the two rings, the main loop, the receive handler and the
events of the USB library.

| Code | Variables | Actions |
|---|---|---|
| `main()`: host to board | `toUsart`, `byte` | `ReceiveByte`, `TransmitByte`, `NothingToTransmit` |
| `main()`: board to host | `toUsb`, `BufferCount`, `tov0` | `FetchCount`, then `TakeByte`, `Discount`, `SendByte` for each byte |
| `ISR(USART1_RX_vect)` | `toUsb`, `urx` | `RxIsr` |
| `EVENT_...ConfigurationChanged`, `LineEncodingChanged`, `ControLineStateChanged` | `configured`, `urx`, `reset` | of the same names |
| LUFA, host, board, USART (external) | `waiting`, `configured`, `urx`, `udre`, `tov0` | `HostSends`, `Disconnect`, `BoardSends`, `UsartReady`, `TimerOverflow` |

The main loop is cut at its accesses to the ring it shares with the handler;
`RingBuffer_Remove()` is two steps there, one on the other ring. Bytes are numbers
in the order the bridge takes them, modulo `Numbers`, so that a lost, doubled or
swapped one shows. `CDC_Device_SendByte()` either sends or gives up: the loop
looks at neither. The LEDs are left out. A fact the model shows on the way:
`toUsart` never holds more than a byte when the loop comes round, so its test
for a full ring never bites.

### USB core, CDC and HID

`UsbCore` has the endpoints and what the code does with them; `UsbSketch` has the
methods of `Serial_`, `HID_SendReport()`, the class requests and the host.

| Code | Variables | Actions |
|---|---|---|
| `Serial_::begin`, `available`, `peek`, `read`; `USB_Recv` | `peek_buffer`, `received` | `Begin`, `Available`, `Peek`, `ReadPeeked`, `Read` |
| `Serial_::write`, `HID_SendReport`; `USB_Send` | `ep`, `len`, `n`, `timeout`, `bank`, `packets` | `Write`, `SendReport`; `SendLooks`, `SendFills`, `SendLooksAgain` |
| `Serial_::flush`; `USB_Flush` | `UENUM` | `Flush`, `FlushCounts`, `FlushReleases` |
| `USB_GEN_vect` | `_usbConfiguration`, `bank`, `packets` | `Reset`, `Frame` |
| `USB_COM_vect`, `CDC_Setup` | `lineState`, `dwDTERate`, `watchdog` | `Configure`, `SetControlLineState`, `SetLineCoding`, `OtherRequest` |
| host, watchdog (external) | | `HostFetchesBytes`, `HostFetchesReport`, `HostSends`, `WatchdogBites` |

A call that locks its endpoint (`LockEP`) is one step; `USB_Flush()` has no lock and
is three, and between them a handler may select another endpoint. `USB_Send()` is
cut between its look at the space and its locked part. `UENUM` is kept only while
a step relies on it (`AnyEP` otherwise). The bytes of the port are numbered from the
oldest that the other side has not got. `HID_SendReport()` has an id and a body,
and a body without its id is called an orphan.

### Time base

`TimeBase` has timer 0, its overflow handler and the calls, cut where time can pass:
`micros()` reads the count, TCNT0 and the flag one after the other. It leaves open
when a tick comes; `TimeSketch` and `SerialSketch` say so.

| Code | Variables | Actions of `TimeSketch` |
|---|---|---|
| `ISR(TIMER0_OVF_vect)` | `timer0_overflow_count`, `timer0_millis`, `timer0_fract`, `tov` | `TimerOverflow` |
| `micros()` | `m`, `t` | `MicrosCall`, `MicrosCount`, `MicrosTcnt`, `MicrosFlag`, `MicrosReturns` |
| `delay()` | `start`, `ms` | `DelayCalled`, `DelayStarts`, `DelayGoesOn` (each with a `micros()` before it), `DelayReturns` |
| `Stream::timedRead()` | `start` | `TimedReadCall`, `TimedReadFinds`, `TimedReadMisses`, `TimedReadChecks`, `TimedReadGivesUp` |
| other handlers, time (external) | `held`, `tcnt`, `now`, `lost` | `OtherIsr`, `TimePasses` |

`now` is the true time and `lost` says that an overflow came while one was pending:
that is the exception of the properties. A tick is a step of TCNT0; all widths are
constants, with the relations the source has between them as an assumption
(`TimerAssumption`).

### Software serial

`SoftwareSerial` has the ports, the shared buffer and the pin change handler;
`SerialSketch` runs them with `TimeBase` in one CPU.

| Code | Variables | Actions of `SerialSketch` |
|---|---|---|
| `begin` | `tuned`, `pcmsk`, `active_object` | `Begin`, `BeginTunes`, `BeginListens` |
| `listen`, `end` | `receive_buffer`, `buffer_overflow`, `pcmsk` | `ListenCall`, `EndCall` |
| `read`, `flush` | `receive_buffer` | `ReadCall`, `FlushCall` |
| `overflow` | `ret`, `buffer_overflow` | `OverflowCall`, `OverflowReturns` |
| `write` | `sending` | `WriteCall`, `WriteReturns` |
| `handle_interrupt`, `recv` | `recv`, `receive_buffer`, `buffer_overflow` | `PinChangeIgnored`, `PinChangeReceives`, `PinChangeEnds` |
| senders, time (external) | `line`, `pcif` | `FrameStarts`, `TimePasses` |

The bits of a frame are left out. What remains of them is when sampling begins: within
the start bit the byte is good, later it is `torn`. A pending pin change handler goes
before a pending overflow handler, and either before the sketch's next step. A port
without delays (not `tuned`) samples its frame in no time. `unreported` follows a
dropped byte until an answer of `overflow()` has told it, and says apart whether
it was dropped in the middle of `overflow()` (`"slipped"`). `LoneSpec`, for
`serial_overflow` alone, leaves room for one handler between the two halves of
`overflow()`, as the CPU does.

### Servo

| Code | Variables | Actions |
|---|---|---|
| `Servo()` | `ServoCount`, `ticks` | `Create`, `CreateTicks` |
| `attach` | `nbr`, `isActive`, timer | `Attach`, `AttachTimer` (`initISR`), `AttachMark` |
| `detach`, `writeMicroseconds` | `isActive`; `ticks` | `Detach`; `Write` |
| `handle_interrupts` | `Channel`, `TCNT`, `OCR`, `level` | `Isr` |
| timer (external) | `TCNT`, `OCF`, `late` | `Tick` |

One timer, so `SERVOS_PER_TIMER` is also the number of servos. What `write(angle)`,
`min` and `max` compute is left out: it ends in a number of ticks (`Widths`). The
handler is one step and may come up to `MaxLate` ticks late. No two active servos
share a pin. `width`, `due`, `cut` and `frame` only record; `cut` are pins that a
servo left in the middle of its pulse, which the code leaves high.
`FrameAssumption` says that all pulses of a cycle fit into the counter,
`RefreshAssumption` that the interval does.

## 4. Runs

| Run | Config | States | Shows |
|---|---|---|---|
| serial_tx | `SerialTx.cfg` | 40,883 | `TypeOK`, `TxFifo`, `NoLostWakeup`, `FlushDrains`, `CallsReturn`, `AllSent` |
| serial_rx | `SerialRx.cfg` | 789,411 | `AnswersHold`, `ClosedIsQuiet`, `Implements` |
| serial_long_isr | `SerialLongIsr.cfg` | | violation of `CallsReturn`: `flush()` hangs |
| serial_rebegin | `SerialRebegin.cfg` | | violation of `CallsReturn`: `end()` hangs after three bytes and `begin()` |
| wire | `Wire.cfg` | 1,385,166 | `TypeOK`, `AnswerHonest`, `NeverDeaf`, `CallsReturn`, `WriteHonest`, `ReadHonest`, `ReceiveHonest` |
| wire_callback | `WireCallback.cfg` | | violation of `AnswerHonest` |
| usb_serial | `UsbSerial.cfg` | 450,144 | `TypeOK`, `Aligned`, `InOrder`, `HostServed`, `Drains` |
| usb_sketch | `UsbSketch.cfg` | 577,616 | `TypeOK`, `InOrder`, `AnswersHold`, `ReportsWhole`, `Sent`, `CallsReturn` |
| time_sketch | `TimeSketch.cfg` | 803,484 | `ClockExact`, `MicrosExact`, `WaitsNotEarly` |
| serial_sketch | `SerialSketch.cfg` | 3,248,448 | `TypeOK`, `OwnBytesOnly`, `TornOnlyIfHidden`, `OverflowReported`, `ClockKeepsTime` |
| serial_overflow | `SerialOverflow.cfg` | | violation of `DropsAlwaysTold`: a drop that no answer tells |
| servo | `Servo.cfg` | 754,472 | `TypeOK`, `OnePulse`, `PulseExact`, `RefreshHeld`, `PulsedAgain` |

Bounds. Rings of 3 slots hold 2 bytes: empty, partly full, full and wrapped all
happen, and 5 bytes written (`MaxTx`) go round the ring, with `write()` waiting
on the full ring while UDR and the shift register hold two more. In `serial_rx` 4 bytes
without parity error arrive (`MaxRx`; erroneous ones are not counted), so that
the ring overflows and wraps with the FIFO full. Two byte values are enough to tell an
order. `Byte` has no symmetry: the runs with liveness could not use it. The
proofs cover every ring size and any number of bytes.

Wire's buffers hold 2 bytes, another master sends up to 4 (two more than fit,
which is the case that matters), a remote device sends up to 2 (3 are asked for
and clamped) and another master addresses the device once (`MaxForeign`) in the
main run, at any point of any call but the two that section 3 names; the number of the sketch's calls is not
bounded. Twice is needed, and allowed, in `wire_callback`: once for the callback and once
during it. That run has both callbacks registered, so that what it shows is not
due to a missing one. `CHECK_DEADLOCK FALSE` in `Wire.cfg` because a device that
has gone deaf leaves a call waiting, as `NeverDeaf` says; in `SerialLongIsr.cfg` and
`SerialRebegin.cfg` because the hanging call is the counterexample.
`serial_rebegin` writes three bytes (`MaxTx` 3): fewer fit into UDR and the shift
register, and leave the ring before `begin()` is called. `serial_overflow` has one
port, frames of one tick and a buffer for one byte, so that the second one is
dropped.

The other runs check for deadlock, and bound nothing but what is named here:

- usb_serial: rings of 2 bytes (`BUFFER_SIZE`), counts modulo 4 (`CountMod`, a
  multiple of the ring's size as 256 is of 128), so that overrun, wrap of the count
  and recovery happen within a few bytes; numbers modulo 3 (`Numbers`, one more
  than the ring holds, so that a doubled byte is not mistaken for the next one);
  one byte in the OUT endpoint (`OutEndpoint`) and in the receiver (`ReceiveFifo`):
  more of them only adds the handler running twice in a row, which it can anyway.
- usb_sketch: two banks, as in the chip, of 2 bytes (`BankSize`), so that a bank can be
  empty, partly full and full; writes of up to 2 bytes (`MaxWrite`), which may
  need two banks when one is partly full; two looks for space (`SendTries`).
- time_sketch: an overflow is 5 ticks (`TimerTicks`) or 5/3 ms (`MILLIS_INC`,
  `FRACT_INC`, `FRACT_MAX`), `micros()` goes round after 6 overflows (`CountMod`),
  `millis()` after 10 (`MillisMod`), the 16-bit difference of `delay()` after 10 ticks
  (`DelayMod`), true time after 30 (`NowMod`). A handler holds the CPU for up to 6
  ticks (`HoldTicks`), more than an overflow, so that overflows are lost as well. `delay(2)`
  and a time-out of 4 ms; waits above 8 ticks are not told apart (`MaxWait`).
- serial_sketch: two ports, a buffer for two bytes (`_SS_MAX_RX_BUFF` 3), a frame of
  3 ticks, as long as an overflow (9600 baud: 1.04 ms with the stop bit,
  an overflow 1.02; the assumption `FrameFits`), of which the first is the start bit (`StartTicks`). The ports
  are alike: symmetry, with no liveness in the run. The counters of the clock are
  switched to their smallest width, as only the flag matters.
- servo: two servos and two pins, pulses of 2 and 3 ticks (`Widths`), an interval of 7
  (`REFRESH_TICKS`), so that both pulses and the handler's delays may or may not outlast it, a
  slack of 1 and a handler up to 1 tick late; the counter goes round after 11 ticks
  (`TimerMod`), the least that the assumptions allow.

The properties, in a sentence each:

- `TxFifo`: line, shift register, UDR and ring together are what was written.
- `NoLostWakeup`: a ring with bytes has the UDRE interrupt on, or `write()` is
  about to set it, although two parties switch it by read-modify-writes.
- `FlushDrains`: `flush()` returns only when everything is on the line, unless
  nothing was written since `begin(baud)`.
- `CallsReturn`, `AllSent`: every call returns; every byte written is sent.
- `AnswersHold`: what `available()` and `peek()` answered stays true.
- `ClosedIsQuiet`: after `end()`, no interrupt is on and no byte is left over.
- `Implements`: the port is the two queues of `SerialPort`.
- `WriteHonest`: what `endTransmission()` returns is what happened on the bus,
  and its 0 means that the whole message was acknowledged; calls during which
  another master got in the way are excepted (`disturbed`; section 7).
- `ReadHonest`: `requestFrom()` hands over all bytes that came, in order, with the
  same exception.
- `ReceiveHonest`: the receive callback gets what another master sent, cut to
  the buffer, and unread data is not overwritten.
- `AnswerHonest`: another master that reads gets the answer of the request
  callback from its first byte on.
- `NeverDeaf`: with no call and no transfer going on the device answers its
  address and the next call will not wait, unless another master sent two bytes
  more than the buffer holds.
- `Aligned` (bridge): In, Out and Count, each moved on its own by two parties, never
  drift apart, past any overrun and wrap.
- `InOrder` (bridge): what goes to the host and to the board is complete and in order,
  but for the bytes of an overrun, and the loop never removes from an empty ring.
- `HostServed`, `Drains` (bridge): a byte of the host is taken; when the board falls
  silent all it sent is handed over, and a ring that was overrun is in order again.
- `InOrder` (USB): bytes reach host and sketch once and in order, although a frame may
  release the bank between look and lock, and `peek()` keeps a byte aside.
- `AnswersHold` (USB): what `available()` and `peek()` told can be read.
- `ReportsWhole`: id and body leave in one packet; a body alone only after a
  time-out or reset.
- `Sent`, `CallsReturn` (USB): accepted bytes leave without a further call; `write()`,
  `HID_SendReport()` and `flush()` return, whatever the host does not fetch.
- `ClockExact`, `MicrosExact`: the counters and `micros()` are the true time as long as
  no overflow came on top of a pending one.
- `WaitsNotEarly`: `delay()` never ends early; `timedRead()` by less than one
  millisecond and one overflow.
- `OwnBytesOnly`: a port reads only what came in on its own pin while it listened.
- `TornOnlyIfHidden`: the handler begins to sample a frame too late only if the start
  bit could not be seen, or if the listening port has no delays: its `begin()` is
  under way, was given a rate that is not in the table, or was never called.
- `OverflowReported`: a dropped byte is told by `overflow()`, unless it was dropped
  between the load and the clearing of the flag. `DropsAlwaysTold` does not allow
  that, and does not hold.
- `ClockKeepsTime`: at 9600 baud and above one software frame costs the clock nothing; only a frame right behind
  another, which goes before the pending overflow, does.
- `OnePulse`, `PulseExact`: one servo at a time is pulsed, for the width written
  before the pulse began, plus at most the handler's delay; pins left in mid-pulse excepted.
- `RefreshHeld`, `PulsedAgain`: cycles are a refresh interval apart or more; an
  attached servo is pulsed again and again.

## 5. Fairness

Weak fairness, and only for what cannot stop. In `HardwareSerial`: a method that
has begun goes on (`InCall`), an enabled handler runs (`RxIsr`, `UdreIsr`; each
has a vector of its own), the transmitter shifts (`TxLoad`, `FrameEnd`). None for
the sketch's calls or for arriving bytes. In `Wire`: a call goes on (`InCall`),
a pending interrupt is served, and a bus transfer that has begun goes on.
The last is an assumption on the bus, which the code makes too: it has no
timeouts (`twi.c:125, 162, 202, 242, 340`). Nobody has to address the device.

In `UsbSerial`: the main loop goes on, a pending handler runs, timer 0 overflows and
the USART sends. None for host, board or line events. In `UsbSketch`: a call that has
begun goes on, and frames start while the device is connected (every millisecond).
The host need not fetch anything: a write that finds no bank gives up after its
tries, and `Sent` asks only that the bank is released to the host. In `Servo`: the timer counts and the handler
is served. `TimeSketch` and `SerialSketch` have no liveness: time passes or not, and the
properties are about what may not happen.

## 6. Proofs

`tlapm` checks all modules; every theorem is for every value of the constants
that meets the named assumptions (a ring of at least two slots; `NoByte` not a
byte; the bounds are naturals).

The first part of `HardwareSerialProofs` says what the updates of a ring do to
`Contents`: a publish appends, a pop takes the first byte away, a store is not seen. The facts come from the
arithmetic of `%` on indices, once, in `Wrap`, `CountIs` and `ContentsIs`.

The theorems of `HardwareSerialProofs`:

| Theorem | Says |
|---|---|
| `TypeCorrect` | `Spec => []TypeOK` |
| `SendsInOrder` | `Spec => []TxFifo` |
| `AnswersStayTrue` | `Spec => []AnswersHold` |
| `Refinement` | `Spec => Implements` |

The inductive invariant is `IInv == TypeOK /\ LiveSlots /\ ThreadKnows /\ TxFifo
/\ AnswersHold`. `LiveSlots`: the slots between tail and head hold bytes and not
`NoByte`, without which a popped slot would have no type. `ThreadKnows`: what
the thread has established before its next step still holds (between the test
and the publish of `write()` the ring is not full and the byte is in the slot;
between the load and the pop of `read()` the ring is not empty and the byte is the first),
which is why handlers may run in between. The refinement proof goes step by
step: `WritePublish` is `Write`, `FrameEnd` is `Send`, `RxIsr` without parity error is
`Receive`, `ReadPop` is `Read`, `EndClear` is `Discard`; every other step stutters.
These four hold with `LongIsr` and with `Rebegin`.

`HardwareSerialControlProofs` adds the control registers. `CInv` ties the list of
read-modify-writes that are left to do to what is still set in `ucsrb` and what
`reg` can have loaded; it gives `ClosedStaysQuiet` (`Spec => []ClosedIsQuiet`). `WInv` adds the UDRIE
bit and gives `WakeupNeverLost`, under the assumption `~Rebegin`: with `Rebegin`
it is false, and `serial_rebegin` shows why.

`ServoProofs`, for any number of servos and pins and any set of widths that meets
`ServoAssumption`, `FrameAssumption` and `RefreshAssumption`:

| Theorem | Says |
|---|---|
| `ServoTypes` | `Spec => []TypeOK` |
| `PulsesOneAtATime` | `Spec => []OnePulse` |
| `PulsesAreExact` | `Spec => PulseExact` |

The inductive invariant of the first two is `IInv == TypeOK /\ HasPin /\ OnePulse`;
`HasPin`: an active servo has a pin, so that what the handler raises is a pin. For the
third, `PulseInv == IInv /\ Ticked /\ Timed`. `Ticked`: every servo that was counted
has its ticks, but for the one whose constructor is between lines 248 and 249.
`Timed`: while a pin is high that its servo has not left, the distance from TCNT to OCR
and the ticks gone by make up the width, or the compare flag is set and the handler
as late as the rest. `FrameAssumption` is what makes this survive the wrap of the
counter: a pulse can never go once round. Mid-pulse `attach()` resets TCNT only when
no servo is active, so that no pulse is timed by it.

`RefreshIsHeld` (`Spec => RefreshHeld`) has `FrameInv`: TCNT is not ahead of the time
since channel 0 began; while channel c has its turn, OCR is at most c + 1 times the
widest pulse so far and a delay each; in the pause OCR is `REFRESH_TICKS` or more. So neither the
compare value nor the sum the handler computes (`Servo.cpp:85-95`) goes past the counter's end,
for which `FrameAssumption` and `RefreshAssumption` are needed.

`HardwareSerialControlProofs` also has `FlushWaitsForAll` (`Spec => FlushDrains`), under
`~LongIsr` and `~Rebegin`. `FInv`: outside of `write()`, TXC set means that ring,
UDR and shift register are empty, and `transmitting` clear that they are or that nothing was written since
`begin(baud)`. With `LongIsr` a frame may end before `write()` has cleared TXC;
with `Rebegin` `transmitting` is reset with bytes in the ring.

`SerialSketchProofs`, for any number of ports, any buffer, and frames that fit into an
overflow (`FrameFits`, 9600 baud and above):

| Theorem | Says | Inductive with |
|---|---|---|
| `SketchTypes` | `Spec => []TypeOK` | `PortsKnown`: who is sampled, who dropped a byte and who is in a call is a port |
| `PortsReadTheirOwn` | `Spec => []OwnBytesOnly` | `Types` |
| `DropsAreTold` | `Spec => []OverflowReported` | `Loaded`: an `overflow()` that has loaded FALSE for the listening port finds no drop from before its load |
| `FramesAreWhole` | `Spec => TornOnlyIfHidden` | `Seen` |
| `FramesSpareTheClock` | `Spec => ClockKeepsTime` | `InTime` |

`Seen`: a frame on the listening port that nothing has hidden is being sampled from its
start, or its handler is pending with the whole frame to come, or the port has no delays,
which is the exception `TornOnlyIfHidden` names. `InTime`: while an overflow
waits for its handler, what keeps interrupts off ends before the next overflow.

`UsbSerialProofs`, for any ring size, any width of the counts that is a multiple of it, and
any numbers of bytes (`Numbers` above the ring's size):

| Theorem | Says | Inductive with |
|---|---|---|
| `BridgeTypes` | `Spec => []TypeOK` | `Counted`: a flush has a byte left to count |
| `BridgeAligned` | `Spec => []Aligned` | `Types` |
| `BridgeInOrder` | `Spec => []InOrder` | `HostInOrder`, `BoardInOrder` |

`Aligned` is where the multiple matters: past an overrun Count goes on to 255 and 0 while In
and Out go round at 128. `HostInOrder`: without an overrun the k-th slot
from Out on has the k-th number that the host lacks, and the removals that the flush has left
are no more than the bytes unread, which is why `BufferCount` may be stale.

`UsbSketchProofs`, for banks of two bytes or more (`EndpointAssumption`; a report has two
parts), any length of a write and any number of tries. One inductive invariant, `Ports`,
serves all four: `LineOK` (settings), `OutOK` (what the host sent), `CallOK` (the call under
way and the endpoint it relies on), `EndpointsOK`, `BytesOK`, `ReportsOK`. Its core: between
`USB_SendSpace()` and the lock the handlers may release a bank, which only makes room, so what was found free
still is; a bank that is full, or belongs to an endpoint with two banks released, does not exist; an id lies in the bank
only while its body is under way, and `flush()` never selects that endpoint.

| Theorem | Says |
|---|---|
| `UsbTypes` | `Spec => []TypeOK` |
| `UsbBytesInOrder` | `Spec => []InOrder` |
| `UsbAnswersHold` | `Spec => []AnswersHold` |
| `UsbReportsWhole` | `Spec => []ReportsWhole` |

`TimeSketchProofs`, for any widths that meet `TimerAssumption` (the relations the source has between
its constants) and `WaitAssumption` (`millis()` does not run ahead of the time, as the
rounding at `wiring.c:32-35` sees to; the bound on waiting times is above the times asked for):

| Theorem | Says | Inductive with |
|---|---|---|
| `TimeIsKept` | `Spec => []ClockExact` | `Exact` |
| `MicrosIsExact` | `Spec => MicrosExact` | `Reading` |
| `NoWaitIsShort` | `Spec => WaitsNotEarly` | `Delay`, `TimedReadWaits` |

`Exact` has the number of overflows since the true time was last 0 as a witness: three
counters of different widths agree on it but for their wraps. `Reading`: what `micros()` has
read is at most a tick old, and a flag it finds set was set while it ran or means that TCNT0
was read after the wrap. `Delay` splits the ticks waited into those behind
the millisecond under way, those since `micros()` read the time, and what is over of the
delay; 16-bit differences are equalities up to a multiple (`Same`), and a lost overflow
takes its ticks from the millisecond under way, never more than it has. `TimedReadWaits` counts the overflows
handled since the call. The proof found an error in an earlier form of this property, which had
`timedRead()` less than 2 ms early: it can be early by one millisecond (the one under way when
`millis()` is read first) and by one overflow (whose handler came right after),
which is more when the overflow takes longer than a millisecond; TLC agrees with a
time-out of 4 ms, and not with 3, where the wrong bound happened to hold.

`WireProofs`, for any size of the buffers, any number of other masters' transactions, all
they and the sketch may send, and any callbacks registered:

| Theorem | Says |
|---|---|
| `WireTypes` | `Spec => []TypeOK` |
| `DeviceStaysReachable` | `Spec => []NeverDeaf` |
| `AnswersAreHonest` | `Spec => []AnswerHonest` |
| `WritesAreHonest` | `Spec => WriteHonest` |
| `ReadsAreHonest` | `Spec => ReadHonest` |
| `ReceptionsAreHonest` | `Spec => ReceiveHonest` |

Assumed are `Untimely = {}` (with a request during the receive callback the handler finds a
state that `twi_releaseBus()` has wiped away: `wire_callback` shows `AnswerHonest` fail, TLC then also refutes
`TypeOK`, `WriteHonest` and `ReadHonest`, and the buffers may be read past what a transaction put into them),
requests of at least one byte, and answers that fit the buffer, since `twi_transmit()` refuses longer ones.
One inductive invariant, `Inv`, serves all six. `StatusOK` and `BusOK` tie the
peripheral's role and pending status to the driver's state; in particular they list every reason for which TWEA may be
off (a repeated start, a transaction as a slave or a receiving master that is about to end, or the deafness of
`NeverDeaf`'s exception), which is what `NeverDeaf` needs. `ThreadOK` says that the driver is set up for a
call only where the bus leaves it alone or another master has got in (`disturbed`, which the action properties
except). `WriteOK`, `ReadOK`, `ReceiverOK` and `AnswerOK` tie, at each status, the histories to buffer, index and TWDR: a byte that
was received and not yet fetched by the handler is in `fetched` or `incoming` and not in the buffer. `OutcomeOK` and `ReturnOK`
carry this from the end of the transaction to the return of the call, through what other masters do meanwhile.

Only model-checked: all liveness (`CallsReturn` of Wire and of the USB port, `AllSent`,
`HostServed`, `Drains`, `Sent`, `PulsedAgain`); the prover does not do fairness.

## 7. What the runs found

Four statements of the documentation or of comments that the code does not keep,
each with a run of its own (see also "findings" in `PROJECT.json`):

1. `flush()` can hang (`HardwareSerial.cpp:476`): TXC set by the last frame is
   cleared by a `write()` that a long handler held up between 471 and 476.
2. `begin()` on an open port switches UDRIE off with bytes in the ring (362,
   409); `end()` and `write()` on a full ring then wait for ever. It takes three
   bytes written shortly before, one each for shift register, UDR and ring.
3. A request that comes during the receive callback is wiped away by
   `twi_releaseBus()` (`twi.c:474`).
4. A byte dropped between load and clearing of the flag in `overflow()`
   (`SoftwareSerial.h:89`) is never told, against `SoftwareSerialOverflow.html:124`.

Four more that the properties of the passing runs name as exceptions, without a run
of their own; with the exception taken away, TLC finds a counterexample:

5. A transmission two bytes longer than the buffer makes the device deaf
   (`twi.c:479`; `Deafened` in `NeverDeaf`).
6. Another master that addresses the device while a call waits for its START makes
   the handler drop that START; `endTransmission()` returns 0 (`twi.c:246`), success,
   for a message that never went out (`disturbed` in `WriteHonest`).
7. A receive callback between the copy in `requestFrom()` and the two assignments
   behind it (`Wire.cpp:85-88`) puts another master's bytes into the buffer that is
   handed over, although the comment at `Wire.cpp:250` means to prevent it
   (`disturbed` in `ReadHonest`).
8. `begin()` with a rate that is not in the table, on a port that listens, leaves the
   pin change interrupt on without delays (`SoftwareSerial.cpp:381, 397`), against
   the comment at 396 (`active_object \notin tuned` in `TornOnlyIfHidden`).

## 8. What is not modelled, and why

- In HardwareSerial: the baud rate computation, the frame format, `operator bool`
  and the constructor (no behaviour over time), `serialEventRun()` (it calls
  `available()` and the sketch). The four USARTs are copies of one another
  and share nothing: one is modelled.
- In Wire: `begin()` after the start, in the middle of a transaction;
  registering callbacks later than in `setup()`; `requestFrom(address, 0)`, whose
  length of 255 overruns the buffer if the remote device sends on; `setWriteError`;
  general calls, which the handler treats as its own address; the exact moment of a
  repeated START on the bus; addresses.
- Also in Wire: a master that addresses the device between the test of `twi_state` and
  the START (`twi.c:202`, `239`). The START's write of TWCR then sets TWEA in the middle of the slave
  transaction, and the handler's state variable belongs to two transactions.
- In the bridge: LEDs, descriptors, the bytes LUFA holds. A byte counts as handed over
  when `CDC_Device_SendByte()` has it, though LUFA may give up on it (line 114).
- In the USB core: descriptors and data stages on endpoint 0 (a control transfer is one
  step), the value `write()` returns after a part was sent, the interrupt flags
  cleared unseen at `USBCore.cpp:602`, the LED timers, the magic key at 0x0800. That
  a new line rate leaves an armed watchdog armed is in the model
  (`SetLineCoding`), without a property: nothing is said about it.
- In SoftwareSerial: rates below 9600 baud, where one frame outlasts an overflow and
  may cost the clock several by itself; the bits, inverse logic, several pin change ports; NewSoftSerial
  apart.
- In Servo: four timers (copies), angles and their `min`/`max` in 8 bits, the 16-bit
  register access that shares a latch, servos beyond `MAX_SERVOS`.
- In the time base: `init()` and `delayMicroseconds()`. `micros()` wraps with the overflow
  count, at a multiple of the 32 bits at which `wiring.c:106` cuts it off.
- Tone, external interrupts, the heap and EasyTransfer2: not yet (section 2).
- Boot loaders, Print, the rest of Stream, and String: sequential, better tested than modelled.
  The GSM, WiFi, SD, USB host and Ethernet libraries: protocols that live in the
  peripheral, of which the code here is a thin driver.
