SPECIFICATION Spec
CONSTANTS
  Writers = {w1}
  HourLen = 2
  RawKeep = 3
  HourlyKeep = 3
  Strip = 4
  Day = 1
  MaxDelay = 1
  MaxTime = 10
  MaxFaults = 1
INVARIANT AggregateWhole
CHECK_DEADLOCK FALSE
