SPECIFICATION Spec
CONSTANTS
    Workers = {w1, w2}
    Main = Main
    Nobody = Nobody
    MaxPlan = 1
    MaxSession = 2
    MaxFaults = 2
    MaxJobs = 3
SYMMETRY WorkerSymmetry
INVARIANT ApprovalIsTracked
INVARIANT CheckpointWasInstalled
PROPERTY ReceiptIsKept
PROPERTY NoConfirmationAfterCancel
CHECK_DEADLOCK FALSE
