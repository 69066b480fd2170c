SPECIFICATION Spec
CONSTANTS
  SlotsPerDay = 7
  Times = {0}
  Zones = {0, 3}
  MaxLate = 1
  MaxTime = 22
  MaxReloads = 2
  MaxFaults = 0
  Never = Never
INVARIANT NeverTwice
CHECK_DEADLOCK FALSE
