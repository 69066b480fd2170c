SPECIFICATION Spec
CONSTANTS
  c1 = c1
  c2 = c2
  A = A
  B = B
  Checks = {c1, c2}
  Components = {c1, c2, A, B}
  Shapes <- AOrShared
  Settings <- AtOnce
  Operators = {o1}
  ManualOn = {A}
  Muting <- MutedMaybe
  EarlyReload = FALSE
  NoCheck = NoCheck
  MaxIncidents = 6
  MaxReloads = 2
  MaxCrashes = 1
  MaxFaults = 1
  MaxRequests = 1
  MaxFlips = 2
  MaxUpsets = 2
INVARIANTS
  TypeOK
  OneOpenAuto
  ReconciledMonitored
  DownTracks
  ClosedOnce
  ToldInOrder
