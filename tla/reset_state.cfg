SPECIFICATION Spec
CONSTANTS
  None = None
  Depth = 1
  SetupBlocks = 3
  RunBlocks = 3
  MaxRuns = 3
  MaxResets = 2
INVARIANTS
  ReusedIsAdvanced
  DeepRunIsSeen
CHECK_DEADLOCK FALSE
