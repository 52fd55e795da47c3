--------------------------- MODULE MCDeliveryInbox ---------------------------
(* Instances of DeliveryInbox for TLC. *)
EXTENDS DeliveryInbox, TLC

CONSTANTS p1, p2, m1, m2, m3, m4

\* m3 reuses the nonce of m1; m2 and m4 have their own.
MCNonce == (m1 :> 1) @@ (m2 :> 2) @@ (m3 :> 1) @@ (m4 :> 3)
MCExpires == (m1 :> 1) @@ (m2 :> 2) @@ (m3 :> 1) @@ (m4 :> 1)

\* The processes are alike, and so are m1 and m3.
InboxSymmetry == Permutations(Procs) \cup Permutations({m1, m3})
=============================================================================
