--------------------------- MODULE MCMarketClaims ---------------------------
EXTENDS MarketClaims

CONSTANTS i1, i2, i3, anna, bob

\* Two claims of one agent, the second perhaps a retry, and one of another.
MCClaimant == (i1 :> anna) @@ (i2 :> anna) @@ (i3 :> bob)
MCCreatedAt == (i1 :> 1) @@ (i2 :> 2) @@ (i3 :> 3)
=============================================================================
