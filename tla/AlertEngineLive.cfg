SPECIFICATION FairSpec
CONSTANTS
  c1 = c1
  c2 = c2
  A = A
  B = B
  Checks = {c1}
  Components = {c1, c2, A, B}
  Shapes <- Moving
  Settings <- AtOnce
  Operators = {o1}
  ManualOn = {A}
  Muting <- MutedNever
  EarlyReload = FALSE
  NoCheck = NoCheck
  MaxIncidents = 4
  MaxReloads = 2
  MaxCrashes = 1
  MaxFaults = 1
  MaxRequests = 1
  MaxFlips = 2
  MaxUpsets = 2
PROPERTIES
  RecoveredCloses
  FailingIsFiled
  UnmonitoredCloses
CHECK_DEADLOCK FALSE
