\* Two ports, a buffer for two bytes, a frame as long as an overflow of 3 ticks;
\* of the clock only the overflow flag matters.
CONSTANTS
  Port = {p1, p2}
  NoPort = NoPort
  _SS_MAX_RX_BUFF = 3
  FrameTicks = 3
  StartTicks = 1
  TimerTicks = 3
  CountMod = 1
  MILLIS_INC = 1
  FRACT_INC = 0
  FRACT_MAX = 1
  MillisMod = 1
  TicksPerMs = 1
  DelayMod = 1
  NowMod = 3
SYMMETRY PortSymmetry
SPECIFICATION Spec
INVARIANTS TypeOK OwnBytesOnly OverflowReported
PROPERTIES TornOnlyIfHidden ClockKeepsTime
