SPECIFICATION FairSpec
CONSTANTS
  MaxBatch = 1
  MaxRounds = 2
  MaxWrites = 2
  MaxKills = 1
INVARIANTS EngineSound
PROPERTIES PrePlanPushed EngineLive
