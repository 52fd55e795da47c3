SPECIFICATION FairSpec
CONSTANTS
    m1 = m1
    m2 = m2
    m3 = m3
    rec = rec
    man = man
    han = han
    u1 = u1
    u2 = u2
    Order <- MCThree
    Reconcilers = {rec}
    Manuals = {}
    Handlers = {}
    Routes = {u1}
    BatchLimit = 2
    Reachable = {m3}
    MaxSlips = 1
PROPERTIES
    ReachablePeersAreServed
