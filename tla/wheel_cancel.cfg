\* One caller calls Stop on its handle while the loops run; the other
\* timer keeps the dispatch loop flushing around it.
CONSTANTS
  Tick = 1
  WheelSize = 3
  MaxLevels = 2
  Timers = {t1, t2}
  Expirations = {2, 3, 4}
  Cancellers = {t1}
  CallsStop = FALSE
  MaxTime = 5
SPECIFICATION Spec
CONSTRAINT AddBound
PROPERTY StopReturns
CHECK_DEADLOCK FALSE
