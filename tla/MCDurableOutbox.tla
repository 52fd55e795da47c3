--------------------------- MODULE MCDurableOutbox ---------------------------
(* Instances of DurableOutbox for TLC. *)
EXTENDS DurableOutbox, TLC

CONSTANTS p1, p2, a, b, c, r1, topic

\* a and c go to a did:key, b to a shared recipient; a and b expire
\* together, so that one pending() can find two overdue records.
MCRecipient == (a :> r1) @@ (b :> topic) @@ (c :> r1)
MCExpires == (a :> 1) @@ (b :> 1) @@ (c :> 2)

\* The same for the instances with two messages.
MCRecipient2 == (a :> r1) @@ (b :> topic)
MCExpires2 == (a :> 1) @@ (b :> 1)

ProcSymmetry == Permutations(Procs)
=============================================================================
