---------------------------- MODULE MCOperations ----------------------------
(***************************************************************************)
(* Operations with finite constants for TLC.                               *)
(***************************************************************************)
EXTENDS Operations, TLC

CONSTANTS
    c1, a1, a2, u1, boss, t1, m1, m2, f1, f2,   \* front door
    k1, k2,                                     \* shim
    x1, x2,                                     \* bridge
    q1, q2                                      \* spawn

-----------------------------------------------------------------------------
(* Front door *)

\* a mention by a stranger, and a command of the same one without a mention
MCEvent ==
    (m1 :> [chat |-> c1, thread |-> t1, sender |-> u1, mention |-> TRUE,
            matches |-> FALSE, command |-> "none"]) @@
    (m2 :> [chat |-> c1, thread |-> t1, sender |-> u1, mention |-> FALSE,
            matches |-> TRUE, command |-> "admin"])

Wire(mode, scope, ignored, session) ==
    [mode |-> mode, scope |-> scope, ignored |-> ignored, session |-> session]

MCSetups ==
    { (a1 :> Wire("mention-sticky", "known", "accumulate", "shared")) @@
      (a2 :> Wire("always", "all", "drop", "shared")),
      (a1 :> Wire("mention", "known", "drop", "agent-shared")) @@
      (a2 :> Wire("regex", "all", "drop", "per-thread")) }

MCPriority == (a1 :> 1) @@ (a2 :> 0)

\* legacy gateway and forwarded webhook may both deliver the first
MCArrivals == [m \in Msgs |-> IF m = m1 THEN 2 ELSE 1]

MCPrivileged == {boss} \X Agents

(* Shim: a first prompt; two calls and their results; two steps of a loop *)

Says(role, text, tools) == [role |-> role, text |-> text, tools |-> tools]

MCHistories ==
    { <<Says("user", TRUE, {})>>,
      <<Says("user", TRUE, {}), Says("assistant", TRUE, {k1, k2}),
        Says("user", TRUE, {k1, k2})>>,
      <<Says("user", TRUE, {}), Says("assistant", FALSE, {k1}), Says("user", FALSE, {k1}),
        Says("assistant", TRUE, {}), Says("user", FALSE, {})>> }

(* Setup: what the user leaves out; a bare Linux and a Mac that has OneCLI *)

MCLeftOut == {{}, {"auth", "channel", "verify"}}

MCMachines ==
    { {"systemd", "sg"},
      {"mac", "docker", "daemon", "group", "claude", "gateway", "onecli", "host", "url",
       "secret", "rules"} }

(* Bridge: one mention with a file; two replies of two and three pieces *)

MCIncoming == {[id |-> 1, dm |-> FALSE, mention |-> TRUE, files |-> TRUE]}

MCPieces == (x1 :> 2) @@ (x2 :> 3)

(* Spawn: the home, a project in it and a deeper path; the tight allowlist is what a *)
(* person leaves of the open one *)

MCMountWants ==
    (q1 :> [path |-> "project", at |-> "x", write |-> TRUE]) @@
    (q2 :> [path |-> "docs", at |-> "y", write |-> TRUE])

MCPaths ==
    [home |-> <<"home">>, work |-> <<"home", "work">>,
     project |-> <<"home", "work", "x">>, docs |-> <<"home", "docs">>]

MCRoots ==
    [open  |-> <<[path |-> "work", write |-> TRUE], [path |-> "home", write |-> FALSE]>>,
     tight |-> <<[path |-> "home", write |-> FALSE]>>]

MCKeys ==
    { [dotenv |-> {"api key", "oauth"}, shell |-> {"api key"}, live |-> FALSE],
      [dotenv |-> {}, shell |-> {"api key"}, live |-> TRUE] }

MCKeyFiles == ("api key" :> "value") @@ ("blank" :> "blank")

(* Two calls, presses, jobs, handlers, ticks or messages can change places.  No    *)
(* component has two of these sets, so they may do so all at once.                *)

Pairs == {Flows, Clicks, Callers, Handlers, Ticks, Shown}

Other(x) == CHOOSE y \in UNION {P \in Pairs : x \in P} : y # x

MCSymmetry ==
    {[x \in UNION Pairs |-> IF swapped THEN Other(x) ELSE x] : swapped \in BOOLEAN}
=============================================================================
