SPECIFICATION CompositionSpec
CONSTANTS
    Selectable <- Asked
    Unavailable <- Unlisted
    QueueCapacity = 2
    MaxBreath = 2
    MaxTuning = 1
    MaxSession = 2
    ControllerElsewhere = FALSE
INVARIANTS
    CompositionTypeOK
    
    
PROPERTIES
    AcknowledgedIsApplied
