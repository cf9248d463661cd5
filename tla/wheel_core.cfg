\* AfterFunc callers, poll and dispatch loops, and a user that may call
\* TimeWheel.Stop at any point.  Expirations span less than one base interval plus a tick, so timers reach the overflow
\* level and come back down.
CONSTANTS
  Tick = 1
  WheelSize = 3
  MaxLevels = 2
  Timers = {t1, t2}
  Expirations = {2, 3, 4}
  Cancellers = {}
  CallsStop = TRUE
  MaxTime = 5
SPECIFICATION Spec
CONSTRAINT AddBound
INVARIANT TypeOK
INVARIANT NoStrandedTimer
PROPERTY EveryTimerFires
PROPERTY WheelStopReturns
CHECK_DEADLOCK FALSE
