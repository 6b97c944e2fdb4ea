SPECIFICATION FairSpec
CONSTANTS
    MaxGeneration = 2
    MaxSize = 2
    Generations <- MCGenerations
    Sizes <- MCSizes
    QueueCapacity = 2
    MaxQueuedBytes = 3
    MaxOffers = 3
    MaxExternalLoss = 1
    MaxOrdinal = 1
    MaxRows = 0
    MaxFaults = 1
    MaxCrashes = 0
INVARIANTS
    QueueExact
PROPERTIES
    CallAnswered
CHECK_DEADLOCK FALSE
