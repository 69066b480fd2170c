SPECIFICATION Spec
CONSTANTS
  Unset = Unset
  Uninspected = Uninspected
  None = None
  Off = Off
  NoTime = NoTime
INVARIANTS TypesHold
INVARIANTS ProbesJudge ConfigHolds CalendarHolds PageTrue WordsAgree
INVARIANTS VerdictMatchesHistory NothingLost RecordsAreTrue LimiterHolds SummaryOnce
PROPERTIES RemindersOnTime InOrderOnce PruningSpares LateOnly
CHECK_DEADLOCK FALSE
