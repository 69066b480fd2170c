SPECIFICATION Spec
CONSTANTS
  Values = {a, b}
  Outcomes = {"loads", "invalid"}
  MaxEdits = 1
PROPERTY SaveInForce
CHECK_DEADLOCK FALSE
