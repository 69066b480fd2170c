SPECIFICATION Spec
CONSTANTS
  SlotsPerDay = 7
  Times = {6}
  Zones = {0}
  MaxLate = 1
  MaxTime = 22
  MaxReloads = 0
  MaxFaults = 0
  Never = Never
INVARIANT EveryDayTold
CHECK_DEADLOCK FALSE
