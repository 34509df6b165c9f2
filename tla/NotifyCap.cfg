SPECIFICATION NotifySpec
CONSTANTS
  Blocks = {3, 7}
  Muted = {}
  Offered = {0, 1}
  Cap = 2
  Lead = 1
  MinLead = 2
  DayLength = 7
  RitualTimes = {}
  Slots = {5, 7}
  None = None
  MaxTime = 7
  MaxEdits = 2
INVARIANTS CapKept
CHECK_DEADLOCK FALSE
