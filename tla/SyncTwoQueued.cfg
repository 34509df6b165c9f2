SPECIFICATION Spec
CONSTANTS
  Devices = {d1, d2}
  Creator = d1
  MaxBatch = 2
  MaxAttempts = 2
  MaxWrites = 4
  MaxQueued = 2
  MaxLosses = 1
  MaxFaults = 1
SYMMETRY Symmetry
PROPERTIES DoneNeverRegresses
