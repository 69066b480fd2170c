SPECIFICATION Spec
CONSTANTS
  Operators = {o1, o2}
  Starts = {1}
  Durations = {1}
  MaxTime = 1
  MaxWindows = 1
  MaxCuts = 0
  MaxToggles = 0
INVARIANTS
  CancelledWhenScheduled
