SPECIFICATION FenceSpec
CONSTANTS
  MaxProc = 4
  MaxRun = 2
  MaxGen = 7
  Torn = Torn
INVARIANTS
  ClearMeansClosed
  HandoffIsEarned
  EffectsAreRecoverable
PROPERTIES
  OneExecutorAtATime
CHECK_DEADLOCK FALSE
