CONSTANTS
    Callers = {c1, c2}
    MaxGen = 2
    MaxCmd = 2
    c1 = c1
    c2 = c2
SPECIFICATION FairSpec
INVARIANTS
    NoPlayerIsOrphaned
    
    LifetimeIsClean
PROPERTIES
    PendingEnds
CHECK_DEADLOCK FALSE
