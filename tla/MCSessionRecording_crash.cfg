SPECIFICATION Spec
CONSTANTS
    MaxGeneration = 1
    MaxSize = 2
    Generations <- MCGenerations
    Sizes <- MCSizes
    QueueCapacity = 1
    MaxQueuedBytes = 1
    MaxOffers = 1
    MaxExternalLoss = 0
    MaxOrdinal = 3
    MaxRows = 3
    MaxFaults = 2
    MaxCrashes = 1
INVARIANTS
    TypeOK
    ArtifactsDurable
    FinalizedSurvives
    CompletionSurvives

    
CHECK_DEADLOCK FALSE
