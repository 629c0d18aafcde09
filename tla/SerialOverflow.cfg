\* One port, a buffer for one byte, so that the second one is dropped; a frame of
\* one tick.
CONSTANTS
  Port = {p1}
  NoPort = NoPort
  _SS_MAX_RX_BUFF = 2
  FrameTicks = 1
  StartTicks = 0
  TimerTicks = 3
  CountMod = 1
  MILLIS_INC = 1
  FRACT_INC = 0
  FRACT_MAX = 1
  MillisMod = 1
  TicksPerMs = 1
  DelayMod = 1
  NowMod = 3
SPECIFICATION LoneSpec
INVARIANT DropsAlwaysTold
