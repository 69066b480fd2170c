SPECIFICATION Spec
CONSTANTS
  Unset = Unset
  Uninspected = Uninspected
  Containers = {}
  Units = {}
  Heartbeats = {backup}
  Interval = 1
  Allowed = 2
  MaxTime = 5
  MaxReloads = 2
  MaxChanges = 2
  MaxFaults = 1
  CallsFail = FALSE
  ReadsFail = TRUE
PROPERTY LateOnly
CHECK_DEADLOCK FALSE
