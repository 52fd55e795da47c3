-------------------------- MODULE MCCommerceOutbox --------------------------
(* Instances of CommerceOutbox for TLC. *)
EXTENDS CommerceOutbox

CONSTANTS m1, m2, m3, rec, man, han, u1, u2

MCOne == <<m1>>

MCThree == <<m1, m2, m3>>
=============================================================================
