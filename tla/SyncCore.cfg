SPECIFICATION FairSpec
CONSTANTS
  Devices = {d1, d2}
  Creator = d1
  MaxBatch = 2
  MaxAttempts = 1
  MaxWrites = 3
  MaxQueued = 2
  MaxLosses = 1
  MaxFaults = 1
CONSTRAINT CreatorCreates
INVARIANTS ExactlyOnce AckedIsDurable CursorSound
PROPERTIES ImplementsOpLog EventuallyConverges DoneNeverRegresses
