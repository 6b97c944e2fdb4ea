CONSTANTS
    Owners <- Product
    Kind <- ProductKind
    StartOrder <- ProductStart
    StopOrder <- ProductStop
    Ids = {a1, a2, a3}
    NoOwner = NoOwner
    NoId = NoId
    MaxCrashes = 2
SPECIFICATION FairSpec
INVARIANTS
    EffectsAreRecoverable
    ReplyIsTrue
PROPERTIES
    KeepsPromise
    AskedOnce
    
CHECK_DEADLOCK FALSE
