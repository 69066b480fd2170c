\* Windows that start now or a second ahead, and last a second.
SPECIFICATION FairSpec
CONSTANTS
  Operators = {o1, o2}
  Starts = {0, 1}
  Durations = {1}
  MaxTime = 2
  MaxWindows = 1
  MaxCuts = 1
  MaxToggles = 1
INVARIANTS
  TypeOK
  EachToldOnce
  EndComesLast
  StartedIsCompleted
PROPERTIES
  OverIsNoticed
