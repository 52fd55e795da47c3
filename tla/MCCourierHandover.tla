-------------------------- MODULE MCCourierHandover --------------------------
EXTENDS CourierHandover, TLC

CONSTANTS p1, p2, m1, m2

\* m1 expires early, m2 only with the last tick of the clock.
MCCreated == (m1 :> 1) @@ (m2 :> 1)
MCExpires == (m1 :> 2) @@ (m2 :> 3)
=============================================================================
