SPECIFICATION Spec
CONSTANTS
  Unset = Unset
  Uninspected = Uninspected
  Containers = {web}
  Units = {cron}
  Heartbeats = {}
  Interval = 1
  Allowed = 1
  MaxTime = 2
  MaxReloads = 0
  MaxChanges = 2
  MaxFaults = 2
  CallsFail = TRUE
  ReadsFail = FALSE
INVARIANTS VerdictIsTrue
CHECK_DEADLOCK FALSE
