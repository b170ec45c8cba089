------------------------------ MODULE MCOutgoing ------------------------------
(* Outgoing on its own: the run that follows one reply through both processes. *)
EXTENDS Outgoing
===============================================================================
