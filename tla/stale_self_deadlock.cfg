\* A stale placement puts a past-round timer into a slot that holds a
\* next-round timer; flushing it re-adds that timer into the locked bucket.
CONSTANTS
  Tick = 1
  WheelSize = 2
  MaxLevels = 2
  Timers = {t1, t2}
  Expirations = {1, 2, 3}
  Cancellers = {}
  CallsStop = FALSE
  MaxTime = 4
SPECIFICATION Spec
CONSTRAINT AddBound
INVARIANT NoSelfDeadlock
CHECK_DEADLOCK FALSE
