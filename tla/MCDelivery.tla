----------------------------- MODULE MCDelivery -----------------------------
(* Delivery with finite constants for TLC.                                 *)
EXTENDS Delivery

CONSTANTS m1, m2, m3, s1, s2

\* m1 and m2 belong to one session, m3 to another
SessionOfMC == [m \in Msgs |-> IF m = m3 THEN s2 ELSE s1]
=============================================================================
