SPECIFICATION EffectsSpec
CONSTANTS
    Times = {0, 1, 2, 3}
    Thresholds = {0, 2}
    Conditions = {"conditionA"}
    NoCondition = "none"
    MaxGeneration = 2
    Presentations = {"Experimenter", "Transition", "ImmersiveActive", "Unfocused"}
    MaxBias = 1
INVARIANTS
    ActiveTimeExact
    CompletionMatchesTime
    RecordingLifecycle
    NeverStuck
    LaneFollowsSession
    
    SavedIsWhole
CHECK_DEADLOCK FALSE
