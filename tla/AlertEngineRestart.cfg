SPECIFICATION FairSpec
CONSTANTS
  c1 = c1
  c2 = c2
  A = A
  B = B
  Checks = {c1}
  Components = {c1, c2, A, B}
  Shapes <- OnlyA
  Settings <- AtOnce
  Operators = {o1}
  ManualOn = {A}
  Muting <- MutedNever
  EarlyReload = FALSE
  NoCheck = NoCheck
  MaxIncidents = 3
  MaxReloads = 0
  MaxCrashes = 1
  MaxFaults = 0
  MaxRequests = 1
  MaxFlips = 1
  MaxUpsets = 2
PROPERTIES
  AutoIncidentsResolve
