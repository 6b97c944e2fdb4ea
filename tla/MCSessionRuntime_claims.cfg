CONSTANTS
  Records = {r1, r2}
  TerminalCapacity = 1
  RetryCapacity = 1
  MaxGeneration = 2
  MaxTerminals = 3
SYMMETRY RecordSymmetry
SPECIFICATION RuntimeSpec
INVARIANT ClaimsReversible
CHECK_DEADLOCK FALSE
