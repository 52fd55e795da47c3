CONSTANTS
    p1 = p1
    p2 = p2
    a = a
    b = b
    c = c
    r1 = r1
    topic = topic
    Procs = {p1, p2}
    Msgs = {a, b}
    Nodes = {r1}
    Shared = topic
    Recipient <- MCRecipient2
    Expires <- MCExpires2
    HopLimit = 1
    MaxPending = 2
    MaxAttempts = 1
    MaxJournal = 5
    Tears = TRUE
    MaxTime = 1
    MaxLines = 5
SPECIFICATION Spec
PROPERTY
    CorruptionFailsClosed
CHECK_DEADLOCK FALSE
