SPECIFICATION FairSpec
CONSTANTS
    m1 = m1
    m2 = m2
    Event = {"opened", "delivered", "verified", "disputed"}
    Messages = {m1, m2}
    ChainOf <- MCChainOf
    LocalSteps <- MCLocalSteps
    Handlers = {h1, h2}
    NoMessage = NoMessage
    MaxFaults = 2
INVARIANTS
    HiddenTradeIsJournaled
    StoresAgree
PROPERTIES
    NothingSignedIsLost
    LeftoversAreCleared
    EveryBundleIsSettled
CHECK_DEADLOCK FALSE
