CONSTANTS
  Records = {r1, r2}
  TerminalCapacity = 1
  RetryCapacity = 1
  MaxGeneration = 2
  MaxTerminals = 3
SPECIFICATION FairSpec
INVARIANTS
  
  SavedMeansWritten
PROPERTIES
  StoppingEnds
  TerminalDecided
CHECK_DEADLOCK FALSE
