------------------------------ MODULE FrontDoor ------------------------------
(***************************************************************************)
(* The way in: routeInbound decides for each agent wired to a chat whether *)
(* a message starts a turn, is kept as context or is dropped; the          *)
(* permissions module holds strangers back and asks an approver by a card, *)
(* and an approval replays the stored message through the router.          *)
(*                                                                         *)
(* Node runs one piece of code at a time.  What spans awaits is kept in    *)
(* two tables: `flow`, the calls of routeInbound, which wait in            *)
(* wakeContainer after each agent they reach, and `asks`, the calls of     *)
(* requestSenderApproval and requestChannelApproval, which wait while a DM *)
(* is opened ("pick") and while the card is sent ("send").                 *)
(*                                                                         *)
(* A message has fixed properties (Event).  Users are namespaced ids; the  *)
(* users table is left out, since the sender resolver fills it before      *)
(* anyone asks.  Clicks of people who may not approve change nothing and   *)
(* are left out.                                                           *)
(***************************************************************************)
EXTENDS Integers, Sequences, FiniteSets

CONSTANTS
    Chats,       \* (channel type, platform id): what a messaging group stands for
    Agents,      \* agent groups
    Users,
    Threads,
    Msgs,
    Flows,       \* bound: calls of routeInbound under way at once
    Event,       \* Msgs -> what the adapter delivers
    Priority,    \* agent -> priority of its wirings; the order of equal ones is SQLite's
    Threaded,    \* chats whose adapter supports threads
    Groups,      \* chats with is_group # 0
    Privileged,  \* <<user, agent>>: owner, global admin or admin of the group
    Setups,      \* wirings the operator may have made, functions Agents -> wiring or None
    Policies,    \* values of unknown_sender_policy
    Target,      \* getAllAgentGroups()[0]: the agent an unknown channel is offered
    MaxArrivals, \* bound: how often its adapter delivers each message
    MaxRestarts, \* bound: restarts of the host
    None

Wirings == [mode : {"always", "regex", "mention", "mention-sticky"},
            scope : {"all", "known"},
            ignored : {"drop", "accumulate"},
            session : {"shared", "per-thread", "agent-shared"}]

Events == [chat : Chats, thread : Threads \cup {None}, sender : Users \cup {None},
           mention : BOOLEAN, matches : BOOLEAN, command : {"none", "filtered", "admin"}]

\* a call of routeInbound: the message, the wired agents it has not come to, whether
\* one was reached, and whether it waits for that one's container
Calls == [msg : Msgs, todo : SUBSET Agents, counted : BOOLEAN, waking : BOOLEAN]

ASSUME EventAssumption == Event \in [Msgs -> Events]
ASSUME NoneAssumption ==
    None \notin Users \cup Agents \cup Flows \cup Threads \cup Wirings \cup Calls
                  \cup {"strict", "request_approval", "public"}
ASSUME AgentAssumption ==
    /\ Priority \in [Agents -> Int]
    /\ Target \in Agents
    /\ Privileged \subseteq Users \X Agents
ASSUME SetupAssumption ==
    /\ Setups \subseteq [Agents -> Wirings \cup {None}]
    /\ Policies \subseteq {"strict", "request_approval", "public"}
ASSUME BoundAssumption == MaxArrivals \in [Msgs -> Nat] /\ MaxRestarts \in Nat

VARIABLES
    \* central database
    policy,   \* messaging_groups: unknown_sender_policy, None without a row
    denied,   \* messaging_groups with denied_at
    wired,    \* messaging_group_agents
    members,  \* agent_group_members
    sessions, \* sessions in the order of created_at
    pending,  \* rows of pending_sender_approvals and pending_channel_approvals
    dropped,  \* what recordDroppedMessage was called for; its table counts per chat
    \* session databases
    inbox,    \* messages_in
    \* memory of the host
    flow,     \* calls of routeInbound
    running,  \* the one that has the thread, None between awaits
    asks,     \* calls of requestSenderApproval and requestChannelApproval
    \* the approvers' screens
    cards,    \* cards sent
    \* history
    answered, \* cards clicked by someone who may
    admitted, \* cards of strangers approved
    arrivals, \* deliveries per message
    cut,      \* messages whose routing was cut short: by a restart, a failed wake or a
              \* command that was denied
    restarts

tables  == <<policy, denied, wired, members>>
memory  == <<flow, running, asks>>
history == <<answered, admitted, arrivals, cut, restarts>>
vars    == <<policy, denied, wired, members, sessions, pending, dropped, inbox,
             flow, running, asks, cards, answered, admitted, arrivals, cut, restarts>>

Sessions == [agent : Agents, chat : Chats, thread : Threads \cup {None}]
Requests ==
    [kind : {"sender"}, chat : Chats, agent : Agents, sender : Users, msg : Msgs]
    \cup [kind : {"channel"}, chat : Chats, agent : Agents, sender : {None}, msg : Msgs]

TypeOK ==
    /\ policy \in [Chats -> {"strict", "request_approval", "public", None}]
    /\ denied \subseteq Chats
    /\ wired \in [Chats -> [Agents -> Wirings \cup {None}]]
    /\ members \subseteq Users \X Agents
    /\ sessions \in Seq(Sessions)
    /\ pending \subseteq Requests
    /\ dropped \subseteq Msgs \X {"no_agent_wired", "no_agent_engaged", "unknown_sender"}
    /\ inbox \subseteq [session : Sessions, msg : Msgs, trigger : BOOLEAN]
    /\ flow \in [Flows -> Calls \cup {None}]
    /\ running \in Flows \cup {None}
    /\ asks \subseteq [what : Requests, step : {"pick", "send"}]
    /\ cards \subseteq Requests
    /\ answered \subseteq cards
    /\ admitted \subseteq answered
    /\ arrivals \in [Msgs -> Nat]
    /\ cut \subseteq Msgs
    /\ restarts \in Nat

Init ==
    /\ policy \in [Chats -> Policies \cup {None}]
    /\ wired \in [Chats -> Setups \cup {[a \in Agents |-> None]}]
    /\ \A c \in Chats : policy[c] = None => \A a \in Agents : wired[c][a] = None
    /\ denied = {}
    /\ members = {}
    /\ sessions = <<>>
    /\ pending = {}
    /\ dropped = {}
    /\ inbox = {}
    /\ flow = [f \in Flows |-> None]
    /\ running = None
    /\ asks = {}
    /\ cards = {}
    /\ answered = {}
    /\ admitted = {}
    /\ arrivals = [m \in Msgs |-> 0]
    /\ cut = {}
    /\ restarts = 0

-----------------------------------------------------------------------------
(* Queries                                                                 *)

HostFree == running = None

\* the adapter's thread policy: without threads, all of a chat is one
Thread(e) == IF e.chat \in Threaded THEN e.thread ELSE None

WiredTo(w) == {a \in Agents : w[a] # None}

\* ORDER BY mga.priority DESC
NextOf(todo) == {a \in todo : \A b \in todo : Priority[b] <= Priority[a]}

\* canAccessAgentGroup
CanAccess(u, a) == u # None /\ (<<u, a>> \in Privileged \/ <<u, a>> \in members)

HasSession(key) == \E i \in 1 .. Len(sessions) : sessions[i] = key

\* evaluateEngage; a pattern that is no regex fails open and counts as "always"
Engages(w, a, e) ==
    \/ w.mode = "always"
    \/ w.mode = "regex" /\ e.matches
    \/ w.mode \in {"mention", "mention-sticky"} /\ e.mention
    \/ /\ w.mode = "mention-sticky"
       /\ e.chat \in Groups
       /\ HasSession([agent |-> a, chat |-> e.chat, thread |-> Thread(e)])

\* the access gate
PassesGate(a, e) == policy[e.chat] = "public" \/ CanAccess(e.sender, a)

\* the sender-scope gate
InScope(w, a, e) == w.scope = "all" \/ CanAccess(e.sender, a)

\* faulty variant: the sender-scope gate alone
AdmitsByScope(w, a, e) == InScope(w, a, e)

Admits(w, a, e) == PassesGate(a, e) /\ InScope(w, a, e)

\* findSessionByAgentGroup: the agent's latest session, if it has one
LatestOf(a) ==
    {sessions[i] : i \in {j \in 1 .. Len(sessions) :
                            /\ sessions[j].agent = a
                            /\ \A k \in j + 1 .. Len(sessions) : sessions[k].agent # a}}

\* deliverToAgent's session mode, and resolveSession: the one session meant
SessionFor(w, a, e) ==
    LET perThread == \/ w.session = "per-thread"
                     \/ /\ w.session # "agent-shared"
                        /\ e.chat \in Threaded \cap Groups
        key(t)    == [agent |-> a, chat |-> e.chat, thread |-> t]
    IN  IF w.session = "agent-shared"
        THEN IF LatestOf(a) = {} THEN {key(None)} ELSE LatestOf(a)
        ELSE {key(IF perThread THEN Thread(e) ELSE None)}

\* gateCommand
Gate(a, e) ==
    CASE e.command = "none"     -> "pass"
      [] e.command = "filtered" -> "filter"
      [] e.command = "admin"    -> IF <<e.sender, a>> \in Privileged THEN "pass" ELSE "deny"

\* UNIQUE (messaging_group_id, sender_identity), PRIMARY KEY (messaging_group_id)
SameKey(r, q) == r.kind = q.kind /\ r.chat = q.chat /\ r.sender = q.sender

InFlight(q) == \E r \in pending : SameKey(r, q)

\* pickApprover finds someone
HasApprover(a) == \E u \in Users : <<u, a>> \in Privileged

SenderRequest(m, a) == [kind |-> "sender", chat |-> Event[m].chat, agent |-> a,
                        sender |-> Event[m].sender, msg |-> m]

ChannelRequest(m) == [kind |-> "channel", chat |-> Event[m].chat, agent |-> Target,
                      sender |-> None, msg |-> m]

\* requestSenderApproval and requestChannelApproval up to their first await
Asked(q) == IF InFlight(q) \/ ~HasApprover(q.agent)
            THEN asks
            ELSE asks \cup {[what |-> q, step |-> "pick"]}

Called(f, m, agents) ==
    [flow EXCEPT ![f] = [msg |-> m, todo |-> agents, counted |-> FALSE, waking |-> FALSE]]

-----------------------------------------------------------------------------
(* routeInbound                                                            *)

Arrives(m) ==
    /\ HostFree
    /\ arrivals[m] < MaxArrivals[m]
    /\ arrivals' = [arrivals EXCEPT ![m] = @ + 1]

IsWired(c) == \E a \in Agents : wired[c][a] # None

\* chatter in a chat without wirings, and mentions in a denied one
Ignored(m) ==
    /\ Arrives(m)
    /\ ~IsWired(Event[m].chat)
    /\ Event[m].mention => Event[m].chat \in denied
    /\ UNCHANGED <<tables, sessions, pending, dropped, inbox, memory, cards,
                   answered, admitted, cut, restarts>>

\* a mention in a chat without wirings
Escalate(m) ==
    LET c == Event[m].chat IN
    /\ Arrives(m)
    /\ ~IsWired(c)
    /\ Event[m].mention
    /\ c \notin denied
    /\ policy' = [policy EXCEPT ![c] = IF @ = None THEN "request_approval" ELSE @]
    /\ dropped' = dropped \cup {<<m, "no_agent_wired">>}
    /\ asks' = Asked(ChannelRequest(m))
    /\ UNCHANGED <<denied, wired, members, sessions, pending, inbox, flow, running,
                   cards, answered, admitted, cut, restarts>>

\* the fan-out begins with the wirings read once
FanOut(m, f) ==
    LET c == Event[m].chat IN
    /\ Arrives(m)
    /\ IsWired(c)
    /\ flow[f] = None
    /\ flow' = Called(f, m, WiredTo(wired[c]))
    /\ running' = f
    /\ UNCHANGED <<tables, sessions, pending, dropped, inbox, asks, cards,
                   answered, admitted, cut, restarts>>

(* deliverToAgent up to the wake: the session is made before the command    *)
(* gate.  A denied command is to be answered by writeOutboundDirect, but    *)
(* openOutboundDb is readonly: the insert throws, out of routeInbound, and  *)
(* the agents not reached yet get nothing.                                  *)
Deliver(f, w, a, wake) ==
    \E sess \in SessionFor(w, a, Event[flow[f].msg]) :
    LET m    == flow[f].msg
        gate == Gate(a, Event[m])
        dup  == \E row \in inbox : row.session = sess /\ row.msg = m
    IN  /\ sessions' = IF HasSession(sess) THEN sessions ELSE Append(sessions, sess)
        /\ inbox' = IF gate = "pass" /\ ~dup
                    THEN inbox \cup {[session |-> sess, msg |-> m, trigger |-> wake]}
                    ELSE inbox
        /\ cut' = IF gate = "deny" THEN cut \cup {m} ELSE cut
        /\ flow' = [flow EXCEPT ![f] =
                      IF gate = "deny" THEN None
                      ELSE [msg |-> m, todo |-> @.todo \ {a}, counted |-> TRUE,
                            waking |-> wake /\ gate = "pass" /\ ~dup]]

\* the next agent of the fan-out; its own wiring was read before the loop, and
\* wirings are only ever added
Consider(f, a) ==
    LET m == flow[f].msg
        e == Event[m]
        w == wired[e.chat][a]
    IN
    /\ running \in {None, f}
    /\ flow[f] # None
    /\ ~flow[f].waking
    /\ a \in NextOf(flow[f].todo)
    /\ IF Engages(w, a, e) /\ ~PassesGate(a, e)
       THEN /\ dropped' = dropped \cup {<<m, "unknown_sender">>}
            /\ asks' = IF policy[e.chat] = "request_approval" /\ e.sender # None
                       THEN Asked(SenderRequest(m, a)) ELSE asks
       ELSE UNCHANGED <<dropped, asks>>
    /\ \/ /\ Engages(w, a, e) /\ Admits(w, a, e)
          /\ Deliver(f, w, a, TRUE)
          /\ running' = None
       \/ /\ ~(Engages(w, a, e) /\ Admits(w, a, e))
          /\ w.ignored = "accumulate"
          /\ Deliver(f, w, a, FALSE)
          /\ running' = None
       \/ /\ ~(Engages(w, a, e) /\ Admits(w, a, e))
          /\ w.ignored = "drop"                  \* no await on this path
          /\ flow' = [flow EXCEPT ![f].todo = @ \ {a}]
          /\ running' = f
          /\ UNCHANGED <<sessions, inbox, cut>>
    /\ UNCHANGED <<tables, pending, cards, answered, admitted, arrivals, restarts>>

\* wakeContainer returns
Woken(f) ==
    /\ HostFree
    /\ flow[f] # None /\ flow[f].waking
    /\ flow' = [flow EXCEPT ![f].waking = FALSE]
    /\ UNCHANGED <<tables, sessions, pending, dropped, inbox, running, asks,
                   cards, history>>

\* wakeContainer rejects and with it routeInbound: the other agents get nothing
WakeFails(f) ==
    /\ HostFree
    /\ flow[f] # None /\ flow[f].waking
    /\ flow' = [flow EXCEPT ![f] = None]
    /\ cut' = cut \cup {flow[f].msg}
    /\ UNCHANGED <<tables, sessions, pending, dropped, inbox, running, asks,
                   cards, answered, admitted, arrivals, restarts>>

\* faulty variant: no record of a message that engaged nobody
FinishSilently(f) ==
    /\ running \in {None, f}
    /\ flow[f] # None
    /\ ~flow[f].waking
    /\ flow[f].todo = {}
    /\ flow' = [flow EXCEPT ![f] = None]
    /\ running' = None
    /\ UNCHANGED <<tables, sessions, pending, dropped, inbox, asks, cards, history>>

Finish(f) ==
    /\ running \in {None, f}
    /\ flow[f] # None
    /\ ~flow[f].waking
    /\ flow[f].todo = {}
    /\ dropped' = IF flow[f].counted THEN dropped
                  ELSE dropped \cup {<<flow[f].msg, "no_agent_engaged">>}
    /\ flow' = [flow EXCEPT ![f] = None]
    /\ running' = None
    /\ UNCHANGED <<tables, sessions, pending, inbox, asks, cards, history>>

-----------------------------------------------------------------------------
(* Approvals of senders and channels                                       *)

\* nobody can be reached
NoOneReached(k) ==
    /\ HostFree
    /\ k.step = "pick"
    /\ asks' = asks \ {k}
    /\ UNCHANGED <<tables, sessions, pending, dropped, inbox, flow, running,
                   cards, history>>

\* faulty variant: the check before the await is trusted
PickedUnchecked(k) ==
    /\ HostFree
    /\ k.step = "pick"
    /\ pending' = pending \cup {k.what}
    /\ asks' = (asks \ {k}) \cup {[k EXCEPT !.step = "send"]}
    /\ UNCHANGED <<tables, sessions, dropped, inbox, flow, running, cards, history>>

\* the row is written before the card is sent; the insert throws when another
\* request got there first
Picked(k) ==
    /\ HostFree
    /\ k.step = "pick"
    /\ IF InFlight(k.what)
       THEN asks' = asks \ {k} /\ UNCHANGED pending
       ELSE /\ pending' = pending \cup {k.what}
            /\ asks' = (asks \ {k}) \cup {[k EXCEPT !.step = "send"]}
    /\ UNCHANGED <<tables, sessions, dropped, inbox, flow, running, cards, history>>

CardSent(k) ==
    /\ HostFree
    /\ k.step = "send"
    /\ asks' = asks \ {k}
    /\ cards' = cards \cup {k.what}
    /\ UNCHANGED <<tables, sessions, pending, dropped, inbox, flow, running, history>>

\* the send fails, or there is no adapter: the row stays
CardFails(k) ==
    /\ HostFree
    /\ k.step = "send"
    /\ asks' = asks \ {k}
    /\ UNCHANGED <<tables, sessions, pending, dropped, inbox, flow, running, cards,
                   history>>

Click(c) ==
    /\ HostFree
    /\ c \in cards
    /\ c \in pending
    /\ answered' = answered \cup {c}

\* deny a sender, who may ask again, or a channel, which may not
Deny(c) ==
    /\ Click(c)
    /\ pending' = pending \ {c}
    /\ denied' = IF c.kind = "channel" THEN denied \cup {c.chat} ELSE denied
    /\ UNCHANGED <<policy, wired, members, sessions, dropped, inbox, memory, cards,
                   admitted, arrivals, cut, restarts>>

\* faulty variant: the sender is let in, the message is not replayed
ApproveOnly(c, f) ==
    /\ Click(c)
    /\ c.kind = "sender"
    /\ flow[f] = None
    /\ members' = members \cup {<<c.sender, c.agent>>}
    /\ pending' = pending \ {c}
    /\ admitted' = admitted \cup {c}
    /\ UNCHANGED <<policy, denied, wired, sessions, dropped, inbox, flow, running,
                   asks, cards, arrivals, cut, restarts>>

\* the sender becomes a member, the row goes, and the message is replayed
ApproveSender(c, f) ==
    /\ Click(c)
    /\ c.kind = "sender"
    /\ flow[f] = None
    /\ members' = members \cup {<<c.sender, c.agent>>}
    /\ pending' = pending \ {c}
    /\ admitted' = admitted \cup {c}
    /\ flow' = Called(f, c.msg, WiredTo(wired[c.chat]))
    /\ running' = f
    /\ UNCHANGED <<policy, denied, wired, sessions, dropped, inbox, asks, cards,
                   arrivals, cut, restarts>>

\* the wiring that an approved channel gets
DefaultWiring(e) ==
    [mode    |-> IF Thread(e) # None THEN "mention-sticky" ELSE "always",
     scope   |-> "known",
     ignored |-> "accumulate",
     session |-> "shared"]

\* the stored event has passed the thread policy already
ApproveChannel(c, f) ==
    LET e == Event[c.msg] IN
    /\ Click(c)
    /\ c.kind = "channel"
    /\ flow[f] = None
    /\ wired[c.chat][c.agent] = None
    /\ wired' = [wired EXCEPT ![c.chat][c.agent] = DefaultWiring(e)]
    /\ members' = IF e.sender = None THEN members
                  ELSE members \cup {<<e.sender, c.agent>>}
    /\ pending' = pending \ {c}
    /\ flow' = Called(f, c.msg, WiredTo(wired'[c.chat]))
    /\ running' = f
    /\ UNCHANGED <<policy, denied, sessions, dropped, inbox, asks, cards, admitted,
                   arrivals, cut, restarts>>

\* the operator wired the same agent meanwhile: the insert throws, the row stays
ApproveChannelThrows(c) ==
    /\ Click(c)
    /\ c.kind = "channel"
    /\ wired[c.chat][c.agent] # None
    /\ UNCHANGED <<tables, sessions, pending, dropped, inbox, memory, cards,
                   admitted, arrivals, cut, restarts>>

-----------------------------------------------------------------------------
(* The operator and the process                                            *)

\* scripts/init-first-agent and manage-channels wire a known chat, from a process
\* of their own
OperatorWires(c, w) ==
    /\ policy[c] # None
    /\ ~IsWired(c)
    /\ wired' = [wired EXCEPT ![c] = w]
    /\ UNCHANGED <<policy, denied, members, sessions, pending, dropped, inbox,
                   memory, cards, history>>

Restart ==
    /\ restarts < MaxRestarts
    /\ restarts' = restarts + 1
    /\ cut' = cut \cup {flow[f].msg : f \in {g \in Flows : flow[g] # None}}
    /\ flow' = [f \in Flows |-> None]
    /\ running' = None
    /\ asks' = {}
    /\ UNCHANGED <<tables, sessions, pending, dropped, inbox, cards, answered,
                   admitted, arrivals>>

Next ==
    \/ \E m \in Msgs : Ignored(m) \/ Escalate(m) \/ \E f \in Flows : FanOut(m, f)
    \/ \E f \in Flows, a \in Agents : Consider(f, a)
    \/ \E f \in Flows : Woken(f) \/ WakeFails(f) \/ Finish(f)
    \/ \E k \in asks : NoOneReached(k) \/ Picked(k) \/ CardSent(k) \/ CardFails(k)
    \/ \E c \in cards : \/ Deny(c) \/ ApproveChannelThrows(c)
                        \/ \E f \in Flows : ApproveSender(c, f) \/ ApproveChannel(c, f)
    \/ \E c \in Chats, w \in Setups : OperatorWires(c, w)
    \/ Restart

Spec == Init /\ [][Next]_vars

-----------------------------------------------------------------------------
(* Properties                                                              *)

\* No stranger ever starts a turn: whatever duplicates, replays and approvals
\* race, a row that wakes an agent comes from a chat whose policy or whose
\* approvers let its sender in (the gates of the permissions module).
NoTurnForStrangers ==
    \A row \in inbox :
        LET e == Event[row.msg] IN
        row.trigger => \/ CanAccess(e.sender, row.session.agent)
                       \/ /\ policy[e.chat] = "public"
                          /\ wired[e.chat][row.session.agent].scope = "all"

\* A card that has not been answered can be: its row is there (it is written
\* before the card is sent), and no two rows ask about the same sender or the
\* same channel, although the check of requestSenderApproval and its insert are
\* separated by an await.
CardsMatchRows ==
    /\ cards \ answered \subseteq pending
    /\ \A r, q \in pending : SameKey(r, q) => r = q

\* A message that addresses the bot leaves a trace once it has been routed: a row
\* for some agent or an audit record. Exempt are a filtered command, a chat the
\* owner denied, and a routing cut short: by a restart, a failed wake or a denied
\* command, of which nothing is written at all ("Denied admin commands get a
\* permission-denied response written directly to messages_out", router.ts).
NothingVanishes ==
    \A m \in Msgs :
        (/\ arrivals[m] > 0
         /\ Event[m].mention
         /\ Event[m].command # "filtered"
         /\ Event[m].chat \notin denied
         /\ m \notin cut
         /\ \A f \in Flows : flow[f] # None => flow[f].msg # m)
        => \/ \E row \in inbox : row.msg = m
           \/ \E reason \in {"no_agent_wired", "no_agent_engaged", "unknown_sender"} :
                 <<m, reason>> \in dropped

\* what an approved sender was told: the message has started a turn
Heard(c) == \E row \in inbox : /\ row.msg = c.msg
                               /\ row.session.agent = c.agent
                               /\ row.trigger

Replayed(c) ==
    /\ c.msg \notin cut
    /\ Event[c.msg].command = "none"
    /\ \A f \in Flows : flow[f] # None => flow[f].msg # c.msg

\* Where strangers' messages are dropped, the replay after an approval starts the
\* turn that was held back, for the agent that was asked about.
DroppedIsReplayed ==
    \A c \in admitted :
        Replayed(c) /\ wired[c.chat][c.agent].ignored = "drop" => Heard(c)
=============================================================================
