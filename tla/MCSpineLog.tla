----------------------------- MODULE MCSpineLog -----------------------------
EXTENDS SpineLog, TLC

CONSTANTS p1, p2, a1, k1, k2, c1, o1

\* a1 is for append(); k1 and k2 are the same payload, c1 another one with their
\* key, o1 one with another key.
MCKeyOf == (a1 :> "none") @@ (k1 :> "k") @@ (k2 :> "k") @@ (c1 :> "k") @@ (o1 :> "o")
MCValOf == (a1 :> 1) @@ (k1 :> 1) @@ (k2 :> 1) @@ (c1 :> 2) @@ (o1 :> 1)

MCBatches == {<<>>, <<a1>>, <<o1, k1>>, <<k2>>, <<c1>>}
=============================================================================
