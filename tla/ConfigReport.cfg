SPECIFICATION Spec
CONSTANTS
  Unset = Unset
  Uninspected = Uninspected
  MaxSecs = 10000
INVARIANT EveryProblemReported
