---------------------------- MODULE MCCourierStore ----------------------------
EXTENDS CourierStore, TLC

CONSTANTS p1, p2, a, b, c, d

MCRecipient == (a :> "alice") @@ (b :> "alice") @@ (c :> "bob") @@ (d :> "alice")
MCBytes == (a :> 1) @@ (b :> 1) @@ (c :> 2) @@ (d :> 1)
=============================================================================
