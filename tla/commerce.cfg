SPECIFICATION Spec
CONSTANTS
    m1 = m1
    m2 = m2
    m3 = m3
    rec = rec
    man = man
    han = han
    u1 = u1
    u2 = u2
    Order <- MCOne
    Reconcilers = {rec}
    Manuals = {man}
    Handlers = {han}
    Routes = {u1, u2}
    BatchLimit = 2
    Reachable = {m1}
    MaxSlips = 3
INVARIANTS
    DeliveryIsExclusive
    AckMeansReceived
PROPERTIES
    AcknowledgedIsFinal
