SPECIFICATION Spec
CONSTANTS
    i1 = i1
    i2 = i2
    i3 = i3
    anna = anna
    bob = bob
    Intents = {i1, i2, i3}
    Claimant <- MCClaimant
    CreatedAt <- MCCreatedAt
    MaxIntents = 2
    MaxLines = 3
    MaxFaults = 1
INVARIANTS
    VerdictsAreTrue
    AcceptedIsRecoverable
PROPERTY
    VerdictsAreFinal
