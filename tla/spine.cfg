SPECIFICATION FairSpec
CONSTANTS
    p1 = p1
    p2 = p2
    a1 = a1
    k1 = k1
    k2 = k2
    c1 = c1
    o1 = o1
    Procs = {p1, p2}
    Requests = {a1, k1, k2, c1, o1}
    KeyOf <- MCKeyOf
    ValOf <- MCValOf
    Batches <- MCBatches
    MaxFaults = 2
INVARIANTS
    AlwaysRecoverable
PROPERTIES
    ImplementsEventLog
    EveryCallIsSettled
CHECK_DEADLOCK FALSE
