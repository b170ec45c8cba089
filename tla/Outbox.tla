------------------------------- MODULE Outbox -------------------------------
(***************************************************************************)
(* What the host promises about the messages an agent writes: each takes   *)
(* effect only while nothing is recorded about it, is recorded once, and   *)
(* is recorded eventually.  Delivery implements it.                        *)
(***************************************************************************)
EXTENDS Integers

CONSTANTS Msgs

VARIABLES
    written,    \* the agent has written the message
    status,     \* what the host has recorded of it
    effects     \* how often it took effect: was shown, routed or executed

vars == <<written, status, effects>>

Init ==
    /\ written = {}
    /\ status = [m \in Msgs |-> "none"]
    /\ effects = [m \in Msgs |-> 0]

Waiting == {m \in written : status[m] = "none"}

Write(m) ==
    /\ m \notin written
    /\ written' = written \cup {m}
    /\ UNCHANGED <<status, effects>>

\* sends of different sessions may land in one step when the host dies
TakeEffect(S) ==
    /\ effects' = [m \in Msgs |-> IF m \in S THEN effects[m] + 1 ELSE effects[m]]
    /\ UNCHANGED <<written, status>>

Record(m, how) ==
    /\ status' = [status EXCEPT ![m] = how]
    /\ UNCHANGED <<written, effects>>

Next ==
    \/ \E m \in Msgs : Write(m)
    \/ \E S \in SUBSET Waiting : TakeEffect(S)
    \/ \E m \in Waiting, how \in {"delivered", "failed"} : Record(m, how)

\* every message is eventually recorded
Settles == \A m \in Msgs : m \in written ~> status[m] # "none"

Safe == Init /\ [][Next]_vars

Spec == Safe /\ Settles
=============================================================================
