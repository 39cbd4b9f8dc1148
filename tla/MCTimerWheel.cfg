CONSTANTS
  t1 = t1
  t2 = t2
  Timers <- MCTimers
  Calls <- MCCalls
  Nil = Nil
  WheelCount = 3
  TickDuration = 2
  Forever = 2
SPECIFICATION FairSpec
CHECK_DEADLOCK FALSE
INVARIANTS WithinARound OnePlace CancelIsFinal EventsArrive
PROPERTY Expires
