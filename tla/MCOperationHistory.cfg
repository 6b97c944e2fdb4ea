SPECIFICATION Spec
CONSTANTS
    MaxToken = 4
    MaxTime = 1
    Tokens <- MCTokens
    Times <- MCTimes
    Commands = {c1}
    MaxGeneration = 1
    Capacity = 2
PROPERTIES
    AppliedAtMostOnce
