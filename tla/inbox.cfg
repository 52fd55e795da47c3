CONSTANTS
    p1 = p1
    p2 = p2
    m1 = m1
    m2 = m2
    m3 = m3
    m4 = m4
    Procs = {p1, p2}
    Msgs = {m1, m2, m3, m4}
    Nonce <- MCNonce
    Expires <- MCExpires
    MaxEntries = 2
    MaxJournal = 2
    MaxTime = 1
SYMMETRY InboxSymmetry
SPECIFICATION Spec
INVARIANTS
    MemoryIsTheFold
    NoReplayCached
PROPERTIES
    OnlyGluingCorrupts
    RememberedIsRefused
    PendingNeverLost
CHECK_DEADLOCK FALSE
