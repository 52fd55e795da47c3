SPECIFICATION FairSpec
CONSTANTS
    w1 = w1
    w2 = w2
    Workers = {w1, w2}
    MaxAttempts = 2
    MaxFaults = 2
    MaxWaits = 1
INVARIANTS
    HeadIsAnchored
    RollbackIsDetected
    SettledMeansPaid
PROPERTIES
    LeaseDecides
    EveryAttemptIsDecided
CHECK_DEADLOCK FALSE
