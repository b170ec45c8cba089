---------------------------- MODULE MCScheduling ----------------------------
(* Scheduling with finite constants for TLC.                               *)
EXTENDS Scheduling

CONSTANTS s1, s2
=============================================================================
