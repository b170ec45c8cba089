--------------------------- MODULE MCSessionQueue ---------------------------
(* SessionQueue with finite constants for TLC.                             *)
EXTENDS SessionQueue, TLC

CONSTANTS m1, m2, b1, b2

BoxSymmetry == Permutations({b1, b2})
=============================================================================
