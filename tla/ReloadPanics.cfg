SPECIFICATION Spec
CONSTANTS
  Values = {a, b}
  Outcomes = {"loads", "panics"}
  MaxEdits = 2
PROPERTY LastSaveInForce
CHECK_DEADLOCK FALSE
