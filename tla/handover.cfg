SPECIFICATION FairSpec
CONSTANTS
    p1 = p1
    p2 = p2
    m1 = m1
    m2 = m2
    Procs = {p1, p2}
    Msgs = {m1, m2}
    Created <- MCCreated
    Expires <- MCExpires
    MaxTTL = 2
    Skew = 1
    MaxItems = 1
    AckCap = 1
    MaxTime = 3
    MaxSlips = 1
INVARIANTS
    RemovedMeansOwned
    OneAckPerMessage
    DeliveredMeansAccepted
PROPERTY
    EverythingValidIsTaken
CHECK_DEADLOCK FALSE
