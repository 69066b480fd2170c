SPECIFICATION Spec
CONSTANTS
  Bots = {b1}
  Chats = {c1}
  Links = {l1, l2}
  None = None
  Off = Off
  MaxUpdates = 3
  MaxFaults = 1
  MaxReloads = 1
  MaxLeaves = 1
PROPERTY HandledOnce
CHECK_DEADLOCK FALSE
