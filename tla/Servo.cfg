\* Two servos, two pins; both pulses together may outlast the interval.
CONSTANTS
  SERVOS_PER_TIMER = 2
  Pin = {p1, p2}
  NoPin = NoPin
  Widths = {2, 3}
  DEFAULT_TICKS = 2
  REFRESH_TICKS = 7
  Slack = 1
  TimerMod = 11
  MaxLate = 1
SPECIFICATION FairSpec
INVARIANTS TypeOK OnePulse
PROPERTIES PulseExact RefreshHeld PulsedAgain
