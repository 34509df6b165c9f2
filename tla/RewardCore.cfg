SPECIFICATION Spec
CONSTANTS
  DayTicks = 3
  Window = 1
  FirstSlots = {0}
  MaxTime = 3
  MaxFacts = 2
  MaxFailures = 1
  LateMoves = FALSE
INVARIANTS RewardSound ScreenAgrees
PROPERTIES OutcomeOnlyImproves SweepSettles FactsBeatPlans
