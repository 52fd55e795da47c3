SPECIFICATION FairSpec
CONSTANTS
    p1 = p1
    p2 = p2
    c1 = c1
    c2 = c2
    Procs = {p1, p2}
    Carriers = {c1, c2}
    MaxCarriers = 2
    MaxSprays = 1
    MaxHistory = 1
    MaxIds = 2
    MaxSlips = 1
INVARIANT
    CopiesTracked
PROPERTIES
    JournalStaysLoadable
    SpraysAreClosed
CHECK_DEADLOCK FALSE
