CONSTANTS
    p1 = p1
    p2 = p2
    a = a
    b = b
    c = c
    r1 = r1
    topic = topic
    Procs = {p1, p2}
    Msgs = {a, b, c}
    Nodes = {r1}
    Shared = topic
    Recipient <- MCRecipient
    Expires <- MCExpires
    HopLimit = 1
    MaxPending = 2
    MaxAttempts = 1
    MaxJournal = 3
    Tears = TRUE
    MaxTime = 1
    MaxLines = 4
SYMMETRY ProcSymmetry
SPECIFICATION Spec
INVARIANTS
    MemoryIsTheFold
    BoundsHold
PROPERTIES
    OnlyGluingCorrupts
    TerminalIsFinal
    QueuedNeverDropped
CHECK_DEADLOCK FALSE
