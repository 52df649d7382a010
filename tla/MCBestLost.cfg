SPECIFICATION Spec
CONSTANTS
  Names = {best, other}
  Best = best
  NoFile = NoFile
  Torn = Torn
  NoBest = NoBest
  Losses = {1, 2}
  BatchCounts = {1}
  Epochs = 2
  Patience = 0
  MaxTrained = 3
  MaxFits = 2
  MaxSaves = 1
  MaxFaults = 0
CHECK_DEADLOCK FALSE
INVARIANT BestSaved
