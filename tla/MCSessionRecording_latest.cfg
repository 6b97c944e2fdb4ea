SPECIFICATION Spec
CONSTANTS
    MaxGeneration = 1
    MaxSize = 1
    Generations <- MCGenerations
    Sizes <- MCSizes
    QueueCapacity = 1
    MaxQueuedBytes = 1
    MaxOffers = 1
    MaxExternalLoss = 0
    MaxOrdinal = 2
    MaxRows = 3
    MaxFaults = 1
    MaxCrashes = 0
INVARIANTS
    LatestCheckpointRecoverable
CHECK_DEADLOCK FALSE
