SPECIFICATION FairSpec
CONSTANTS
  e1 = e1
  r1 = r1
  Events = {e1}
  Recs = {r1}
  Slots = {1, 2}
  Meetings = {1}
  Planned = {1}
  None = None
  Racing = FALSE
  Impatient = FALSE
  FailingJobs = {"sweep"}
  MaxJobs = 2
  MaxTrouble = 2
INVARIANTS CalendarSound
PROPERTY EventuallySettled
CHECK_DEADLOCK FALSE
