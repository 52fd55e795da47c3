SPECIFICATION Spec
CONSTANTS
    p1 = p1
    p2 = p2
    a = a
    b = b
    c = c
    d = d
    Procs = {p1, p2}
    Couriers = {a, b, c, d}
    Recipient <- MCRecipient
    Bytes <- MCBytes
    MaxTotal = 4
    MaxPer = 2
    MaxEnvelopes = 3
    MaxJournal = 2
    Slack = 1
INVARIANTS
    QuotasHold
    NothingLost
PROPERTY
    JournalStaysReadable
CHECK_DEADLOCK FALSE
