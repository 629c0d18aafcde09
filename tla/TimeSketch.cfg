\* An overflow is 5 ticks or 5/3 ms, a millisecond 3 ticks.
CONSTANTS
  TimerTicks = 5
  CountMod = 6
  MILLIS_INC = 1
  FRACT_INC = 2
  FRACT_MAX = 3
  MillisMod = 10
  TicksPerMs = 3
  DelayMod = 10
  NowMod = 30
  DelayMs = 2
  _timeout = 4
  HoldTicks = 6
  MaxWait = 8
SPECIFICATION Spec
INVARIANT ClockExact
PROPERTIES MicrosExact WaitsNotEarly
