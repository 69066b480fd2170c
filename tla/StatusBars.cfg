SPECIFICATION Spec
CONSTANTS
  DayLen = 12
  SlotLen = 3
  None = None
  Unset = Unset
  Zone <- MCZone
  StripDays = 3
  PastLen = 2
  Now = 41
INVARIANT BarsShowOpen
