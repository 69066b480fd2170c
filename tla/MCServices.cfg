SPECIFICATION Spec
CONSTANTS
  None = None
  Off = Off
INVARIANT ServicesHold
PROPERTIES NobodyWaitsForEver LastSaveInForce
CHECK_DEADLOCK FALSE
