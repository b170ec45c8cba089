--------------------------- MODULE FrontDoorProofs ---------------------------
(***************************************************************************)
(* What the front door promises for every set of chats, agents, users,     *)
(* wirings and messages and for any number of calls under way.  Nearly     *)
(* everything it keeps only grows (Grows), so that what was decided for a  *)
(* message stays right whatever is decided for the others in between.      *)
(***************************************************************************)
EXTENDS FrontDoor, TLAPS

USE DEF Wirings, Events

LEMMA EventOf == \A m \in Msgs : /\ Event[m] \in Events
                                 /\ Event[m].chat \in Chats
                                 /\ Event[m].sender \in Users \cup {None}
                                 /\ Thread(Event[m]) \in Threads \cup {None}
BY EventAssumption DEF Thread

(* Whatever session a message is put into, it is one of the agent it is for. *)
LEMMA SessionIsOurs ==
    ASSUME TypeOK, NEW w, NEW a \in Agents, NEW m \in Msgs,
           NEW s \in SessionFor(w, a, Event[m])
    PROVE  s \in Sessions /\ s.agent = a
<1>1. ASSUME NEW t \in Threads \cup {None}
      PROVE  [agent |-> a, chat |-> Event[m].chat, thread |-> t] \in Sessions
  BY EventOf DEF Sessions
<1>2. ASSUME s \in LatestOf(a) PROVE s \in Sessions /\ s.agent = a
  BY <1>2 DEF LatestOf, TypeOK
<1>3. QED
  BY <1>1, <1>2, EventOf DEF SessionFor

LEMMA FlowIsCall ==
    ASSUME TypeOK, NEW f \in Flows, flow[f] # None
    PROVE  /\ flow[f] \in Calls
           /\ flow[f].msg \in Msgs
           /\ flow[f].todo \subseteq Agents
BY DEF TypeOK, Calls

LEMMA CalledTyping ==
    ASSUME TypeOK, NEW f \in Flows, NEW m \in Msgs, NEW A \in SUBSET Agents
    PROVE  Called(f, m, A) \in [Flows -> Calls \cup {None}]
BY DEF TypeOK, Called, Calls

LEMMA WiredToTyping == ASSUME NEW w PROVE WiredTo(w) \in SUBSET Agents
BY DEF WiredTo

LEMMA AskedTyping ==
    ASSUME TypeOK, NEW q \in Requests
    PROVE  Asked(q) \subseteq [what : Requests, step : {"pick", "send"}]
BY DEF TypeOK, Asked

LEMMA RequestTyping ==
    ASSUME NEW m \in Msgs, NEW a \in Agents
    PROVE  /\ Event[m].sender # None => SenderRequest(m, a) \in Requests
           /\ ChannelRequest(m) \in Requests
BY EventOf, AgentAssumption DEF Requests, SenderRequest, ChannelRequest

LEMMA AppendTyping ==
    ASSUME TypeOK, NEW s \in Sessions
    PROVE  /\ Append(sessions, s) \in Seq(Sessions)
           /\ \A t : HasSession(t) => \E i \in 1 .. Len(Append(sessions, s)) :
                                        Append(sessions, s)[i] = t
BY DEF TypeOK, HasSession

(* The typing of what deliverToAgent does. *)
LEMMA DeliverTyping ==
    ASSUME TypeOK, NEW f \in Flows, flow[f] # None, NEW w, NEW a \in Agents,
           NEW wake \in BOOLEAN, Deliver(f, w, a, wake)
    PROVE  /\ sessions' \in Seq(Sessions)
           /\ cut' \subseteq Msgs
           /\ inbox' \subseteq [session : Sessions, msg : Msgs, trigger : BOOLEAN]
           /\ flow' \in [Flows -> Calls \cup {None}]
<1> DEFINE m == flow[f].msg
<1>1. PICK s \in SessionFor(w, a, Event[m]) :
         /\ sessions' = IF HasSession(s) THEN sessions ELSE Append(sessions, s)
         /\ cut' \in {cut, cut \cup {m}}
         /\ \/ inbox' = inbox
            \/ inbox' = inbox \cup {[session |-> s, msg |-> m, trigger |-> wake]}
         /\ \E b \in BOOLEAN : flow' \in {[flow EXCEPT ![f] = None],
                [flow EXCEPT ![f] = [msg |-> m, todo |-> @.todo \ {a}, counted |-> TRUE,
                                     waking |-> b]]}
  BY DEF Deliver
<1>2. m \in Msgs /\ flow[f] \in Calls
  BY FlowIsCall
<1>3. s \in Sessions
  BY <1>1, <1>2, SessionIsOurs
<1>4. sessions' \in Seq(Sessions)
  BY <1>1, <1>3, AppendTyping DEF TypeOK
<1>5. cut' \subseteq Msgs
  BY <1>1, <1>2 DEF TypeOK
<1>6. inbox' \subseteq [session : Sessions, msg : Msgs, trigger : BOOLEAN]
  BY <1>1, <1>2, <1>3 DEF TypeOK
<1>7. ASSUME NEW b \in BOOLEAN
      PROVE  [msg |-> m, todo |-> flow[f].todo \ {a}, counted |-> TRUE, waking |-> b] \in Calls
  BY <1>2, FlowIsCall DEF Calls
<1>8. flow' \in [Flows -> Calls \cup {None}]
  <2>1. PICK x \in Calls \cup {None} : flow' = [flow EXCEPT ![f] = x]
    BY <1>1, <1>7
  <2>2. QED
    BY <2>1 DEF TypeOK
<1>9. QED
  BY <1>4, <1>5, <1>6, <1>8

-----------------------------------------------------------------------------
(* Types                                                                   *)

LEMMA TypeInit == Init => TypeOK
BY SetupAssumption, NoneAssumption DEF Init, TypeOK, Calls, Sessions, Requests

LEMMA TypeConsider ==
    ASSUME TypeOK, NEW f \in Flows, NEW a \in Agents, Consider(f, a)
    PROVE  TypeOK'
<1> DEFINE m == flow[f].msg
           w == wired[Event[m].chat][a]
<1>1. flow[f] # None /\ flow[f] \in Calls /\ m \in Msgs
  BY FlowIsCall DEF Consider
<1>2. /\ dropped' \subseteq Msgs \X {"no_agent_wired", "no_agent_engaged", "unknown_sender"}
      /\ asks' \subseteq [what : Requests, step : {"pick", "send"}]
  <2>1. Event[m].sender # None => SenderRequest(m, a) \in Requests
    BY <1>1, RequestTyping
  <2>2. \/ dropped' = dropped
        \/ dropped' = dropped \cup {<<m, "unknown_sender">>}
    BY DEF Consider
  <2>3. \/ asks' = asks
        \/ Event[m].sender # None /\ asks' = Asked(SenderRequest(m, a))
    BY DEF Consider
  <2>4. QED
    BY <1>1, <2>1, <2>2, <2>3, AskedTyping DEF TypeOK
<1>3. /\ sessions' \in Seq(Sessions)
      /\ cut' \subseteq Msgs
      /\ inbox' \subseteq [session : Sessions, msg : Msgs, trigger : BOOLEAN]
      /\ flow' \in [Flows -> Calls \cup {None}]
  <2>1. CASE \E wake \in BOOLEAN : Deliver(f, w, a, wake)
    BY <1>1, <2>1, DeliverTyping
  <2>2. CASE /\ flow' = [flow EXCEPT ![f].todo = @ \ {a}]
             /\ UNCHANGED <<sessions, inbox, cut>>
    <3>1. flow' \in [Flows -> Calls \cup {None}]
      BY <1>1, <2>2 DEF TypeOK, Calls
    <3>2. QED
      BY <2>2, <3>1 DEF TypeOK
  <2>3. QED
    BY <2>1, <2>2 DEF Consider
<1>4. running' \in Flows \cup {None}
  BY DEF Consider
<1>5. QED
  BY <1>2, <1>3, <1>4 DEF Consider, TypeOK, tables

LEMMA TypeNext == TypeOK /\ [Next]_vars => TypeOK'
<1> SUFFICES ASSUME TypeOK, [Next]_vars PROVE TypeOK'
  OBVIOUS
<1>1. ASSUME NEW m \in Msgs, Ignored(m) PROVE TypeOK'
  BY <1>1 DEF TypeOK, Ignored, Arrives, tables, memory
<1>2. ASSUME NEW m \in Msgs, Escalate(m) PROVE TypeOK'
  <2>1. Asked(ChannelRequest(m)) \subseteq [what : Requests, step : {"pick", "send"}]
    BY AgentAssumption, RequestTyping, AskedTyping
  <2>2. QED
    BY <1>2, <2>1, EventOf DEF TypeOK, Escalate, Arrives
<1>3. ASSUME NEW m \in Msgs, NEW f \in Flows, FanOut(m, f) PROVE TypeOK'
  <2>1. Called(f, m, WiredTo(wired[Event[m].chat])) \in [Flows -> Calls \cup {None}]
    BY CalledTyping, WiredToTyping
  <2>2. QED
    BY <1>3, <2>1 DEF TypeOK, FanOut, Arrives, tables
<1>4. ASSUME NEW f \in Flows, NEW a \in Agents, Consider(f, a) PROVE TypeOK'
  BY <1>4, TypeConsider
<1>5. ASSUME NEW f \in Flows, Woken(f) PROVE TypeOK'
  <2>1. flow' \in [Flows -> Calls \cup {None}]
    BY <1>5, FlowIsCall DEF TypeOK, Woken, Calls
  <2>2. QED
    BY <1>5, <2>1 DEF TypeOK, Woken, tables, history
<1>6. ASSUME NEW f \in Flows, WakeFails(f) PROVE TypeOK'
  <2>1. flow[f].msg \in Msgs
    BY <1>6, FlowIsCall DEF WakeFails
  <2>2. QED
    BY <1>6, <2>1 DEF TypeOK, WakeFails, tables
<1>7. ASSUME NEW f \in Flows, Finish(f) PROVE TypeOK'
  <2>1. flow[f].msg \in Msgs
    BY <1>7, FlowIsCall DEF Finish
  <2>2. QED
    BY <1>7, <2>1 DEF TypeOK, Finish, tables, history
<1>8. ASSUME NEW k \in asks, NoOneReached(k) PROVE TypeOK'
  BY <1>8 DEF TypeOK, NoOneReached, tables, history
<1>9. ASSUME NEW k \in asks, Picked(k) PROVE TypeOK'
  BY <1>9 DEF TypeOK, Picked, tables, history
<1>10. ASSUME NEW k \in asks, CardSent(k) PROVE TypeOK'
  BY <1>10 DEF TypeOK, CardSent, tables, history
<1>11. ASSUME NEW k \in asks, CardFails(k) PROVE TypeOK'
  BY <1>11 DEF TypeOK, CardFails, tables, history
<1>12. ASSUME NEW c \in cards, Deny(c) PROVE TypeOK'
  <2>1. c.chat \in Chats
    BY DEF TypeOK, Requests
  <2>2. QED
    BY <1>12, <2>1 DEF TypeOK, Deny, Click, memory
<1>13. ASSUME NEW c \in cards, ApproveChannelThrows(c) PROVE TypeOK'
  BY <1>13 DEF TypeOK, ApproveChannelThrows, Click, tables, memory
<1>14. ASSUME NEW c \in cards, NEW f \in Flows, ApproveSender(c, f) PROVE TypeOK'
  <2>1. c \in Requests
    BY DEF TypeOK
  <2>2. Called(f, c.msg, WiredTo(wired[c.chat])) \in [Flows -> Calls \cup {None}]
    BY <2>1, CalledTyping, WiredToTyping DEF Requests
  <2>3. members' \subseteq Users \X Agents
    BY <1>14, <2>1 DEF ApproveSender, Requests, TypeOK
  <2>4. QED
    BY <1>14, <2>1, <2>2, <2>3 DEF TypeOK, ApproveSender, Click, Requests
<1>15. ASSUME NEW c \in cards, NEW f \in Flows, ApproveChannel(c, f) PROVE TypeOK'
  <2>1. c \in Requests /\ c.msg \in Msgs /\ c.agent \in Agents
    BY DEF TypeOK, Requests
  <2>2. DefaultWiring(Event[c.msg]) \in Wirings
    BY DEF DefaultWiring
  <2>3. wired' \in [Chats -> [Agents -> Wirings \cup {None}]]
    BY <1>15, <2>1, <2>2 DEF TypeOK, ApproveChannel, Requests
  <2>4. flow' \in [Flows -> Calls \cup {None}]
    BY <1>15, <2>1, CalledTyping, WiredToTyping DEF ApproveChannel
  <2>5. members' \subseteq Users \X Agents
    BY <1>15, <2>1, EventOf DEF ApproveChannel, TypeOK
  <2>6. QED
    BY <1>15, <2>1, <2>3, <2>4, <2>5 DEF TypeOK, ApproveChannel, Click
<1>16. ASSUME NEW c \in Chats, NEW w \in Setups, OperatorWires(c, w) PROVE TypeOK'
  BY <1>16, SetupAssumption DEF TypeOK, OperatorWires, memory, history
<1>17. CASE Restart
  <2>1. {flow[f].msg : f \in {g \in Flows : flow[g] # None}} \subseteq Msgs
    BY FlowIsCall
  <2>2. QED
    BY <1>17, <2>1, BoundAssumption DEF TypeOK, Restart, tables
<1>18. CASE UNCHANGED vars
  BY <1>18 DEF TypeOK, vars
<1>19. QED
  BY <1>1, <1>2, <1>3, <1>4, <1>5, <1>6, <1>7, <1>8, <1>9, <1>10, <1>11, <1>12, <1>13,
     <1>14, <1>15, <1>16, <1>17, <1>18 DEF Next

(* Every variable of the front door has its type (router.ts, permissions).  *)
THEOREM TypeCorrect == Spec => []TypeOK
BY TypeInit, TypeNext, PTL DEF Spec

-----------------------------------------------------------------------------
(* What only grows                                                         *)

Grows ==
    /\ \A c \in Chats : policy[c] = "public" => policy'[c] = "public"
    /\ \A c \in Chats, a \in Agents : wired[c][a] # None => wired'[c][a] = wired[c][a]
    /\ members \subseteq members' /\ denied \subseteq denied'
    /\ inbox \subseteq inbox' /\ dropped \subseteq dropped'
    /\ cut \subseteq cut' /\ answered \subseteq answered'
    /\ \A t : HasSession(t) => HasSession(t)'

LEMMA SessionsStay == ASSUME UNCHANGED sessions PROVE \A t : HasSession(t) => HasSession(t)'
BY DEF HasSession

LEMMA DeliverGrows ==
    ASSUME TypeOK, NEW f \in Flows, flow[f] # None, NEW w, NEW a \in Agents,
           NEW wake, Deliver(f, w, a, wake)
    PROVE  /\ inbox \subseteq inbox' /\ cut \subseteq cut'
           /\ \A t : HasSession(t) => HasSession(t)'
<1> DEFINE m == flow[f].msg
<1>1. PICK s \in SessionFor(w, a, Event[m]) :
         sessions' = IF HasSession(s) THEN sessions ELSE Append(sessions, s)
  BY DEF Deliver
<1>2. s \in Sessions
  BY FlowIsCall, SessionIsOurs
<1>3. \A t : HasSession(t) => HasSession(t)'
  <2>1. CASE sessions' = sessions
    BY <2>1, SessionsStay
  <2>2. CASE sessions' = Append(sessions, s)
    BY <1>2, <2>2, AppendTyping DEF HasSession
  <2>3. QED
    BY <1>1, <2>1, <2>2
<1>4. inbox \subseteq inbox' /\ cut \subseteq cut'
  BY DEF Deliver
<1>5. QED
  BY <1>3, <1>4

LEMMA ConsiderGrows ==
    ASSUME TypeOK, NEW f \in Flows, NEW a \in Agents, Consider(f, a)
    PROVE  Grows
<1>1. flow[f] # None
  BY DEF Consider
<1>2. /\ inbox \subseteq inbox' /\ cut \subseteq cut'
      /\ \A t : HasSession(t) => HasSession(t)'
  <2>1. CASE UNCHANGED <<sessions, inbox, cut>>
    BY <2>1, SessionsStay
  <2>2. CASE \E w, wake : Deliver(f, w, a, wake)
    BY <1>1, <2>2, DeliverGrows
  <2>3. QED
    BY <2>1, <2>2 DEF Consider
<1>3. dropped \subseteq dropped' /\ UNCHANGED <<tables, answered>>
  BY DEF Consider
<1>4. QED
  BY <1>2, <1>3 DEF Grows, tables

LEMMA Growing == TypeOK /\ [Next]_vars => Grows
<1> SUFFICES ASSUME TypeOK, [Next]_vars PROVE Grows
  OBVIOUS
<1>1. ASSUME UNCHANGED <<policy, wired, members, sessions, inbox>>,
             denied \subseteq denied', dropped \subseteq dropped', cut \subseteq cut',
             answered \subseteq answered'
      PROVE  Grows
  BY <1>1, SessionsStay DEF Grows
<1>2. ASSUME NEW m \in Msgs, Ignored(m) PROVE Grows
  BY <1>1, <1>2 DEF Ignored, tables
<1>3. ASSUME NEW m \in Msgs, Escalate(m) PROVE Grows
  <2>1. \A c \in Chats : policy[c] = "public" => policy'[c] = "public"
    BY <1>3, EventOf, NoneAssumption DEF Escalate, TypeOK
  <2>2. QED
    BY <1>3, <2>1, SessionsStay DEF Grows, Escalate
<1>4. ASSUME NEW m \in Msgs, NEW f \in Flows, FanOut(m, f) PROVE Grows
  BY <1>1, <1>4 DEF FanOut, tables
<1>5. ASSUME NEW f \in Flows, NEW a \in Agents, Consider(f, a) PROVE Grows
  BY <1>5, ConsiderGrows
<1>6. ASSUME NEW f \in Flows, Woken(f) \/ WakeFails(f) \/ Finish(f) PROVE Grows
  BY <1>1, <1>6 DEF Woken, WakeFails, Finish, tables, history
<1>7. ASSUME NEW k \in asks,
             NoOneReached(k) \/ Picked(k) \/ CardSent(k) \/ CardFails(k)
      PROVE  Grows
  BY <1>1, <1>7 DEF NoOneReached, Picked, CardSent, CardFails, tables, history
<1>8. ASSUME NEW c \in cards, Deny(c) \/ ApproveChannelThrows(c) PROVE Grows
  BY <1>1, <1>8 DEF Deny, ApproveChannelThrows, Click, tables
<1>9. ASSUME NEW c \in cards, NEW f \in Flows, ApproveSender(c, f) PROVE Grows
  BY <1>9, SessionsStay DEF Grows, ApproveSender, Click
<1>10. ASSUME NEW c \in cards, NEW f \in Flows, ApproveChannel(c, f) PROVE Grows
  <2>1. \A x \in Chats, a \in Agents : wired[x][a] # None => wired'[x][a] = wired[x][a]
    BY <1>10 DEF ApproveChannel, TypeOK, Requests
  <2>2. QED
    BY <1>10, <2>1, SessionsStay DEF Grows, ApproveChannel, Click
<1>11. ASSUME NEW c \in Chats, NEW w \in Setups, OperatorWires(c, w) PROVE Grows
  <2>1. \A x \in Chats, a \in Agents : wired[x][a] # None => wired'[x][a] = wired[x][a]
    BY <1>11 DEF OperatorWires, IsWired, TypeOK
  <2>2. QED
    BY <1>11, <2>1, SessionsStay DEF Grows, OperatorWires, history
<1>12. CASE Restart
  BY <1>1, <1>12 DEF Restart, tables
<1>13. CASE UNCHANGED vars
  BY <1>1, <1>13 DEF vars
<1>14. QED
  BY <1>2, <1>3, <1>4, <1>5, <1>6, <1>7, <1>8, <1>9, <1>10, <1>11, <1>12, <1>13 DEF Next

-----------------------------------------------------------------------------
(* Requests are about the message that caused them, and a call of          *)
(* routeInbound is at agents that are wired to its chat.                   *)

Sound(r) ==
    /\ r.chat = Event[r.msg].chat
    /\ r.kind = "sender" =>
         /\ r.sender = Event[r.msg].sender
         /\ wired[r.chat][r.agent] # None
         /\ Engages(wired[r.chat][r.agent], r.agent, Event[r.msg])

Known == pending \cup cards \cup {k.what : k \in asks}

AtWired(f) == flow[f] # None =>
    \A a \in flow[f].todo : wired[Event[flow[f].msg].chat][a] # None

Routed == (\A r \in Known : Sound(r)) /\ (\A f \in Flows : AtWired(f))

LEMMA KnownTyping == TypeOK => Known \subseteq Requests
BY DEF TypeOK, Known

LEMMA RequestFields ==
    \A r \in Requests : r.chat \in Chats /\ r.agent \in Agents /\ r.msg \in Msgs
BY DEF Requests

LEMMA SoundStays ==
    ASSUME TypeOK, Grows, NEW r \in Requests, Sound(r)
    PROVE  Sound(r)'
BY RequestFields DEF Sound, Grows, Engages

Shrinks(f) == flow'[f] # None => /\ flow[f] # None
                                 /\ flow'[f].msg = flow[f].msg
                                 /\ flow'[f].todo \subseteq flow[f].todo

LEMMA WiredStays ==
    ASSUME TypeOK, Grows, NEW f \in Flows, AtWired(f), Shrinks(f)
    PROVE  AtWired(f)'
BY FlowIsCall, EventOf DEF AtWired, Grows, Shrinks

LEMMA RoutedStays ==
    ASSUME TypeOK, Routed, Grows,
           \A r \in Known' : r \in Known \/ Sound(r)',
           \A f \in Flows : Shrinks(f) \/ AtWired(f)'
    PROVE  Routed'
<1>1. \A r \in Known' : Sound(r)'
  BY KnownTyping, SoundStays DEF Routed
<1>2. \A f \in Flows : AtWired(f)'
  BY WiredStays DEF Routed
<1>3. QED
  BY <1>1, <1>2 DEF Routed

LEMMA CalledWired ==
    ASSUME TypeOK, NEW f \in Flows, NEW m \in Msgs,
           flow' = Called(f, m, WiredTo(wired'[Event[m].chat]))
    PROVE  \A g \in Flows : Shrinks(g) \/ AtWired(g)'
<1>1. ASSUME NEW g \in Flows, g # f PROVE Shrinks(g)
  BY <1>1 DEF Called, Shrinks, TypeOK
<1>2. flow'[f].msg = m /\ flow'[f].todo = WiredTo(wired'[Event[m].chat])
  BY DEF Called, TypeOK
<1>3. AtWired(f)'
  BY <1>2 DEF AtWired, WiredTo
<1>4. QED
  BY <1>1, <1>3

(* deliverToAgent ends the call when its command is denied, and goes on     *)
(* otherwise.                                                               *)
CutShort(f) ==
    /\ flow'[f] = None
    /\ flow[f].msg \in cut'
    /\ Event[flow[f].msg].command = "admin"

GoesOn(f, a) ==
    /\ flow'[f] \in Calls
    /\ flow'[f].msg = flow[f].msg
    /\ flow'[f].todo = flow[f].todo \ {a}

LEMMA DeliverFlow ==
    ASSUME TypeOK, NEW f \in Flows, flow[f] # None, NEW w, NEW a, NEW wake,
           Deliver(f, w, a, wake)
    PROVE  /\ \A g \in Flows : g # f => flow'[g] = flow[g]
           /\ CutShort(f) \/ (GoesOn(f, a) /\ flow'[f].counted)
<1> DEFINE m    == flow[f].msg
           deny == Gate(a, Event[m]) = "deny"
<1>1. flow[f] \in Calls
  BY FlowIsCall
<1>2. CASE deny
  <2>1. flow' = [flow EXCEPT ![f] = None] /\ cut' = cut \cup {m}
    BY <1>2 DEF Deliver
  <2>2. Event[m].command = "admin"
    <3>1. m \in Msgs /\ Event[m].command \in {"none", "filtered", "admin"}
      BY FlowIsCall, EventOf
    <3>2. QED
      BY <1>2, <3>1 DEF Gate
  <2>3. flow'[f] = None /\ \A g \in Flows : g # f => flow'[g] = flow[g]
    BY <2>1 DEF TypeOK
  <2>4. m \in cut'
    BY <2>1
  <2>5. QED
    BY <2>2, <2>3, <2>4 DEF CutShort
<1>3. CASE ~deny
  <2>1. PICK b \in BOOLEAN :
           flow' = [flow EXCEPT ![f] = [msg |-> m, todo |-> flow[f].todo \ {a},
                                        counted |-> TRUE, waking |-> b]]
    BY <1>3 DEF Deliver
  <2>2. QED
    BY <1>1, <2>1 DEF TypeOK, Calls, GoesOn
<1>4. QED
  BY <1>2, <1>3

LEMMA ConsiderFlow ==
    ASSUME TypeOK, NEW f \in Flows, NEW a \in Agents, Consider(f, a)
    PROVE  /\ flow[f] # None /\ flow[f] \in Calls /\ a \in flow[f].todo
           /\ \A g \in Flows : g # f => flow'[g] = flow[g]
           /\ CutShort(f) \/ GoesOn(f, a)
<1>1. flow[f] # None /\ flow[f] \in Calls /\ a \in flow[f].todo
  BY FlowIsCall DEF Consider, NextOf
<1>2. CASE \E w, wake : Deliver(f, w, a, wake)
  BY <1>1, <1>2, DeliverFlow
<1>3. CASE flow' = [flow EXCEPT ![f].todo = @ \ {a}]
  BY <1>1, <1>3 DEF TypeOK, Calls, GoesOn
<1>4. QED
  BY <1>1, <1>2, <1>3 DEF Consider

LEMMA ConsiderShrinks ==
    ASSUME TypeOK, NEW f \in Flows, NEW a \in Agents, Consider(f, a)
    PROVE  \A g \in Flows : Shrinks(g)
BY ConsiderFlow DEF Shrinks, CutShort, GoesOn

LEMMA RoutedNext == TypeOK /\ Routed /\ [Next]_vars => Routed'
<1> SUFFICES ASSUME TypeOK, Routed, [Next]_vars PROVE Routed'
  OBVIOUS
<1>g. Grows
  BY Growing
<1>s. ASSUME UNCHANGED flow PROVE \A f \in Flows : Shrinks(f)
  BY <1>s DEF Shrinks
<1>k. ASSUME UNCHANGED <<pending, cards, asks>> PROVE Known' = Known
  BY <1>k DEF Known
<1>1. ASSUME NEW m \in Msgs, Ignored(m) PROVE Routed'
  BY <1>1, <1>g, <1>s, <1>k, RoutedStays DEF Ignored, memory
<1>2. ASSUME NEW m \in Msgs, Escalate(m) PROVE Routed'
  <2>1. \A r \in Known' : r \in Known \/ r = ChannelRequest(m)
    BY <1>2 DEF Escalate, Asked, Known
  <2>2. Sound(ChannelRequest(m))'
    BY DEF Sound, ChannelRequest
  <2>3. UNCHANGED flow
    BY <1>2 DEF Escalate
  <2>4. QED
    BY <1>g, <1>s, <2>1, <2>2, <2>3, RoutedStays
<1>3. ASSUME NEW m \in Msgs, NEW f \in Flows, FanOut(m, f) PROVE Routed'
  <2>1. \A g \in Flows : Shrinks(g) \/ AtWired(g)'
    BY <1>3, CalledWired DEF FanOut, tables
  <2>2. QED
    BY <1>3, <1>g, <1>k, <2>1, RoutedStays DEF FanOut
<1>4. ASSUME NEW f \in Flows, NEW a \in Agents, Consider(f, a) PROVE Routed'
  <2> DEFINE m == flow[f].msg
             c == Event[m].chat
  <2>1. m \in Msgs /\ wired[c][a] # None
    BY <1>4, ConsiderFlow, FlowIsCall DEF Routed, AtWired
  <2>2. ASSUME NEW q \in Known', q \notin Known
        PROVE  /\ q = SenderRequest(m, a)
               /\ Event[m].sender # None
               /\ Engages(wired[c][a], a, Event[m])
    <3>1. q \in {k.what : k \in asks'} /\ \A k \in asks : k.what # q
      BY <1>4, <2>2, Zenon DEF Consider, Known, tables
    <3>2. PICK k \in asks' : k.what = q /\ k \notin asks
      BY <3>1
    <3>3. /\ Engages(wired[c][a], a, Event[m]) /\ Event[m].sender # None
          /\ asks' = Asked(SenderRequest(m, a))
      BY <1>4, <3>2, Zenon DEF Consider
    <3>4. QED
      BY <3>2, <3>3 DEF Asked
  <2>3. ASSUME NEW q \in Known', q \notin Known
        PROVE  Sound(q)'
    <3>1. Sound(q) /\ q \in Requests
      BY <2>1, <2>2, <2>3, RequestTyping DEF Sound, SenderRequest
    <3>2. QED
      BY <1>g, <3>1, SoundStays
  <2>4. QED
    BY <1>4, <1>g, <2>3, ConsiderShrinks, RoutedStays
<1>5. ASSUME NEW f \in Flows, Woken(f) PROVE Routed'
  <2>1. \A g \in Flows : Shrinks(g)
    BY <1>5, FlowIsCall DEF Woken, Shrinks, TypeOK, Calls
  <2>2. QED
    BY <1>5, <1>g, <1>k, <2>1, RoutedStays DEF Woken
<1>6. ASSUME NEW f \in Flows, WakeFails(f) \/ Finish(f) PROVE Routed'
  <2>1. \A g \in Flows : Shrinks(g)
    BY <1>6 DEF WakeFails, Finish, Shrinks, TypeOK
  <2>2. QED
    BY <1>6, <1>g, <1>k, <2>1, RoutedStays DEF WakeFails, Finish
<1>7. ASSUME NEW k \in asks,
             NoOneReached(k) \/ Picked(k) \/ CardSent(k) \/ CardFails(k)
      PROVE  Routed'
  <2>1. UNCHANGED flow
    BY <1>7 DEF NoOneReached, Picked, CardSent, CardFails
  <2>2. \A j \in asks' : \E i \in asks : j.what = i.what
    BY <1>7 DEF NoOneReached, Picked, CardSent, CardFails, TypeOK
  <2>3. pending' \cup cards' \subseteq pending \cup cards \cup {k.what}
    BY <1>7 DEF NoOneReached, Picked, CardSent, CardFails
  <2>4. \A r \in Known' : r \in Known
    BY <2>2, <2>3 DEF Known
  <2>5. QED
    BY <1>g, <1>s, <2>1, <2>4, RoutedStays
<1>8. ASSUME NEW c \in cards, Deny(c) \/ ApproveChannelThrows(c) PROVE Routed'
  <2>1. Known' \subseteq Known /\ UNCHANGED flow
    BY <1>8 DEF Known, Deny, ApproveChannelThrows, memory
  <2>2. QED
    BY <1>g, <1>s, <2>1, RoutedStays
<1>9. ASSUME NEW c \in cards, NEW f \in Flows, ApproveSender(c, f) \/ ApproveChannel(c, f)
      PROVE  Routed'
  <2>1. c.chat = Event[c.msg].chat /\ c.msg \in Msgs
    BY KnownTyping, RequestFields DEF Routed, Known, Sound
  <2>2. \A g \in Flows : Shrinks(g) \/ AtWired(g)'
    BY <1>9, <2>1, CalledWired DEF ApproveSender, ApproveChannel
  <2>3. Known' \subseteq Known
    BY <1>9 DEF Known, ApproveSender, ApproveChannel
  <2>4. QED
    BY <1>g, <2>2, <2>3, RoutedStays
<1>10. ASSUME NEW c \in Chats, NEW w \in Setups, OperatorWires(c, w) PROVE Routed'
  BY <1>10, <1>g, <1>s, <1>k, RoutedStays DEF OperatorWires, memory
<1>11. CASE Restart
  <2>1. Known' \subseteq Known /\ \A f \in Flows : Shrinks(f)
    BY <1>11 DEF Restart, Known, Shrinks
  <2>2. QED
    BY <1>g, <2>1, RoutedStays
<1>12. CASE UNCHANGED vars
  BY <1>12, <1>g, <1>s, <1>k, RoutedStays DEF vars
<1>13. QED
  BY <1>1, <1>2, <1>3, <1>4, <1>5, <1>6, <1>7, <1>8, <1>9, <1>10, <1>11, <1>12 DEF Next

-----------------------------------------------------------------------------
(* Turns of strangers                                                      *)

WiringOf(row) == wired[Event[row.msg].chat][row.session.agent]

Allowed(row) ==
    \/ CanAccess(Event[row.msg].sender, row.session.agent)
    \/ /\ policy[Event[row.msg].chat] = "public"
       /\ WiringOf(row) # None
       /\ WiringOf(row).scope = "all"

Justified(row) ==
    /\ row.trigger => Allowed(row)
    /\ ~row.trigger => WiringOf(row) # None /\ WiringOf(row).ignored = "accumulate"

Admission == \A row \in inbox : Justified(row)

LEMMA RowFields ==
    ASSUME TypeOK, NEW row \in inbox
    PROVE  /\ row.session \in Sessions /\ row.session.agent \in Agents
           /\ row.msg \in Msgs /\ row.trigger \in BOOLEAN
BY DEF TypeOK, Sessions

LEMMA JustifiedStays ==
    ASSUME TypeOK, Grows, NEW row \in inbox, Justified(row)
    PROVE  Justified(row)'
<1>1. /\ row.session.agent \in Agents /\ row.msg \in Msgs
      /\ Event[row.msg].chat \in Chats
  BY RowFields, EventOf
<1>2. WiringOf(row) # None => WiringOf(row)' = WiringOf(row)
  BY <1>1 DEF WiringOf, Grows
<1>3. Allowed(row) => Allowed(row)'
  BY <1>1, <1>2 DEF Allowed, CanAccess, Grows
<1>4. QED
  BY <1>2, <1>3 DEF Justified

(* What deliverToAgent puts into the inbox.                                *)
LEMMA DeliverRow ==
    ASSUME TypeOK, NEW f \in Flows, flow[f] # None, NEW w, NEW a \in Agents,
           NEW wake \in BOOLEAN, Deliver(f, w, a, wake)
    PROVE  /\ \A row \in inbox' : row \in inbox \/ (/\ row.msg = flow[f].msg
                                                    /\ row.session \in Sessions
                                                    /\ row.session.agent = a
                                                    /\ row.trigger = wake)
           /\ Gate(a, Event[flow[f].msg]) = "pass" =>
                \E row \in inbox' : /\ row.msg = flow[f].msg
                                    /\ row.session.agent = a
                                    /\ row \in inbox \/ row.trigger = wake
<1> DEFINE m == flow[f].msg
           new(s) == [session |-> s, msg |-> m, trigger |-> wake]
           dup(s) == \E row \in inbox : row.session = s /\ row.msg = m
<1>1. PICK s \in SessionFor(w, a, Event[m]) :
         inbox' = IF Gate(a, Event[m]) = "pass" /\ ~dup(s)
                  THEN inbox \cup {new(s)} ELSE inbox
  BY DEF Deliver
<1>2. s \in Sessions /\ s.agent = a
  BY FlowIsCall, SessionIsOurs
<1>3. new(s).msg = m /\ new(s).session = s /\ new(s).trigger = wake
  OBVIOUS
<1> HIDE DEF new
<1>4. QED
  BY <1>1, <1>2, <1>3

LEMMA ConsiderRow ==
    ASSUME TypeOK, Routed, NEW f \in Flows, NEW a \in Agents, Consider(f, a)
    PROVE  \A row \in inbox' : row \in inbox \/ Justified(row)
<1> DEFINE m == flow[f].msg
           e == Event[m]
           w == wired[e.chat][a]
<1>1. flow[f] # None /\ m \in Msgs /\ w # None
  BY ConsiderFlow, FlowIsCall DEF Routed, AtWired
<1>2. CASE Engages(w, a, e) /\ Admits(w, a, e) /\ Deliver(f, w, a, TRUE)
  <2>1. ASSUME NEW row \in inbox', row \notin inbox
        PROVE  row.msg = m /\ row.session.agent = a /\ row.trigger
    BY <1>1, <1>2, <2>1, DeliverRow
  <2>2. QED
    BY <1>1, <1>2, <2>1 DEF Justified, Allowed, WiringOf, Admits, PassesGate, InScope
<1>3. CASE w.ignored = "accumulate" /\ Deliver(f, w, a, FALSE)
  <2>1. ASSUME NEW row \in inbox', row \notin inbox
        PROVE  row.msg = m /\ row.session.agent = a /\ ~row.trigger
    BY <1>1, <1>3, <2>1, DeliverRow
  <2>2. QED
    BY <1>1, <1>3, <2>1 DEF Justified, WiringOf
<1>4. CASE UNCHANGED inbox
  BY <1>4
<1>5. QED
  BY <1>2, <1>3, <1>4 DEF Consider

LEMMA InboxStep ==
    ASSUME [Next]_vars
    PROVE  UNCHANGED inbox \/ \E f \in Flows, a \in Agents : Consider(f, a)
BY DEF Next, vars, Ignored, Escalate, FanOut, Woken, WakeFails, Finish, NoOneReached, Picked,
       CardSent, CardFails, Deny, ApproveChannelThrows, ApproveSender, ApproveChannel,
       OperatorWires, Restart

LEMMA AdmissionNext == TypeOK /\ Routed /\ Admission /\ [Next]_vars => Admission'
<1> SUFFICES ASSUME TypeOK, Routed, Admission, [Next]_vars, NEW row \in inbox'
             PROVE  Justified(row)'
  BY DEF Admission
<1>1. Grows /\ TypeOK'
  BY Growing, TypeNext
<1>2. row \in inbox \/ Justified(row)
  BY InboxStep, ConsiderRow
<1>3. Justified(row)
  BY <1>2 DEF Admission
<1>4. row.session.agent \in Agents /\ row.msg \in Msgs /\ Event[row.msg].chat \in Chats
  BY <1>1, EventOf DEF TypeOK, Sessions
<1>5. QED
  BY <1>1, <1>3, <1>4 DEF Justified, Allowed, WiringOf, CanAccess, Grows

LEMMA AdmissionImplies == TypeOK /\ Admission => NoTurnForStrangers
BY DEF Admission, Justified, Allowed, WiringOf, NoTurnForStrangers

-----------------------------------------------------------------------------
(* Cards and their rows                                                    *)

Sending == \A k \in asks : k.step = "send" => k.what \in pending \cup answered

CardInv == Sending /\ CardsMatchRows

LEMMA CardNext == TypeOK /\ CardInv /\ [Next]_vars => CardInv'
<1> SUFFICES ASSUME TypeOK, CardInv, [Next]_vars PROVE CardInv'
  OBVIOUS
<1> USE DEF CardInv, Sending, CardsMatchRows
<1>1. ASSUME UNCHANGED <<pending, cards, answered>>,
             \A k \in asks' : k \in asks \/ k.step # "send"
      PROVE  CardInv'
  BY <1>1
<1>2. ASSUME NEW q PROVE \A k \in Asked(q) : k \in asks \/ k.step # "send"
  BY DEF Asked
<1>3. ASSUME NEW m \in Msgs, Ignored(m) PROVE CardInv'
  BY <1>1, <1>3 DEF Ignored, memory
<1>4. ASSUME NEW m \in Msgs, Escalate(m) PROVE CardInv'
  BY <1>1, <1>2, <1>4 DEF Escalate
<1>5. ASSUME NEW m \in Msgs, NEW f \in Flows, FanOut(m, f) PROVE CardInv'
  BY <1>1, <1>5 DEF FanOut
<1>6. ASSUME NEW f \in Flows, NEW a \in Agents, Consider(f, a) PROVE CardInv'
  <2>1. UNCHANGED <<pending, cards, answered>>
    BY <1>6 DEF Consider, history
  <2>2. asks' = asks \/ \E q : asks' = Asked(q)
    BY <1>6 DEF Consider
  <2>3. QED
    BY <1>1, <1>2, <2>1, <2>2
<1>7. ASSUME NEW f \in Flows, Woken(f) \/ WakeFails(f) \/ Finish(f) PROVE CardInv'
  BY <1>1, <1>7 DEF Woken, WakeFails, Finish, history
<1>8. ASSUME NEW k \in asks, NoOneReached(k) \/ CardFails(k) PROVE CardInv'
  BY <1>1, <1>8 DEF NoOneReached, CardFails, history
<1>9. ASSUME NEW k \in asks, Picked(k) PROVE CardInv'
  <2>1. CASE InFlight(k.what)
    BY <1>1, <1>9, <2>1 DEF Picked, history
  <2>2. CASE ~InFlight(k.what)
    <3>1. pending' = pending \cup {k.what} /\ UNCHANGED <<cards, answered>>
          /\ asks' = (asks \ {k}) \cup {[k EXCEPT !.step = "send"]}
      BY <1>9, <2>2 DEF Picked, history
    <3>2. [k EXCEPT !.step = "send"].what = k.what
      BY DEF TypeOK
    <3>3. \A r, q \in pending' : SameKey(r, q) => r = q
      BY <2>2, <3>1 DEF InFlight, SameKey
    <3>4. QED
      BY <3>1, <3>2, <3>3
  <2>3. QED
    BY <2>1, <2>2
<1>10. ASSUME NEW k \in asks, CardSent(k) PROVE CardInv'
  BY <1>10 DEF CardSent, history
<1>11. ASSUME NEW c \in cards, Deny(c) PROVE CardInv'
  BY <1>11 DEF Deny, Click, memory
<1>12. ASSUME NEW c \in cards, ApproveChannelThrows(c) PROVE CardInv'
  BY <1>12 DEF ApproveChannelThrows, Click, memory
<1>13. ASSUME NEW c \in cards, NEW f \in Flows, ApproveSender(c, f) \/ ApproveChannel(c, f)
       PROVE  CardInv'
  BY <1>13 DEF ApproveSender, ApproveChannel, Click
<1>14. ASSUME NEW c \in Chats, NEW w \in Setups, OperatorWires(c, w) PROVE CardInv'
  BY <1>1, <1>14 DEF OperatorWires, memory, history
<1>15. CASE Restart
  BY <1>1, <1>15 DEF Restart
<1>16. CASE UNCHANGED vars
  BY <1>1, <1>16 DEF vars
<1>17. QED
  BY <1>3, <1>4, <1>5, <1>6, <1>7, <1>8, <1>9, <1>10, <1>11, <1>12, <1>13, <1>14, <1>15,
     <1>16 DEF Next

-----------------------------------------------------------------------------
(* What becomes of a call of routeInbound                                  *)

LEMMA FlowStep ==
    ASSUME TypeOK, [Next]_vars, NEW f \in Flows, flow[f] # None
    PROVE  \/ UNCHANGED flow[f]
           \/ /\ flow'[f] # None /\ flow'[f].msg = flow[f].msg
              /\ flow'[f].todo = flow[f].todo /\ flow'[f].counted = flow[f].counted
           \/ \E a \in Agents : Consider(f, a)
           \/ flow[f].msg \in cut' /\ flow'[f] = None
           \/ Finish(f)
<1>1. CASE UNCHANGED flow
  BY <1>1
<1>2. ASSUME NEW g \in Flows, NEW m, NEW A, flow[g] = None, flow' = Called(g, m, A)
      PROVE  UNCHANGED flow[f]
  BY <1>2 DEF Called, TypeOK
<1>3. ASSUME NEW g \in Flows, NEW a \in Agents, Consider(g, a)
      PROVE  UNCHANGED flow[f] \/ Consider(f, a)
  BY <1>3, ConsiderFlow
<1>4. ASSUME NEW g \in Flows, Woken(g)
      PROVE  \/ UNCHANGED flow[f]
             \/ /\ flow'[f] # None /\ flow'[f].msg = flow[f].msg
                /\ flow'[f].todo = flow[f].todo /\ flow'[f].counted = flow[f].counted
  <2>1. flow' = [flow EXCEPT ![g].waking = FALSE] /\ flow[f] \in Calls
    BY <1>4, FlowIsCall DEF Woken
  <2>2. CASE g # f
    BY <2>1, <2>2 DEF TypeOK
  <2>3. CASE g = f
    <3>1. flow'[f] = [flow[f] EXCEPT !.waking = FALSE]
      BY <2>1, <2>3 DEF TypeOK
    <3>2. flow'[f] \in Calls
      BY <2>1, <3>1 DEF Calls
    <3>3. flow'[f] # None
      BY <3>2, NoneAssumption
    <3>4. QED
      BY <2>1, <3>1, <3>3 DEF Calls
  <2>4. QED
    BY <2>2, <2>3
<1>5. ASSUME NEW g \in Flows, WakeFails(g)
      PROVE  UNCHANGED flow[f] \/ (flow[f].msg \in cut' /\ flow'[f] = None)
  BY <1>5 DEF WakeFails, TypeOK
<1>6. ASSUME NEW g \in Flows, Finish(g) PROVE UNCHANGED flow[f] \/ Finish(f)
  BY <1>6 DEF Finish, TypeOK
<1>7. CASE Restart
  BY <1>7 DEF Restart
<1>8. QED
  BY <1>1, <1>2, <1>3, <1>4, <1>5, <1>6, <1>7
  DEF Next, vars, memory, Ignored, Escalate, FanOut, NoOneReached, Picked, CardSent,
      CardFails, Deny, ApproveChannelThrows, ApproveSender, ApproveChannel, OperatorWires

-----------------------------------------------------------------------------
(* A message that was routed left a trace                                  *)

Reached(m) == \E row \in inbox : row.msg = m

Counts(f) == flow[f] # None /\ flow[f].counted /\ Event[flow[f].msg].command # "filtered"
             => Reached(flow[f].msg)

Counting == \A f \in Flows : Counts(f)

LEMMA ConsiderCounts ==
    ASSUME TypeOK, NEW f \in Flows, NEW a \in Agents, Consider(f, a), Counts(f)
    PROVE  Counts(f)'
<1>1. flow[f] # None /\ (CutShort(f) \/ GoesOn(f, a))
  BY ConsiderFlow
<1>2. ASSUME NEW w, NEW wake \in BOOLEAN, Deliver(f, w, a, wake), flow'[f] # None,
             Event[flow[f].msg].command # "filtered"
      PROVE  \E row \in inbox' : row.msg = flow[f].msg
  <2>1. Gate(a, Event[flow[f].msg]) # "deny"
    BY <1>2 DEF Deliver, TypeOK
  <2>2. Gate(a, Event[flow[f].msg]) = "pass"
    <3>1. Event[flow[f].msg].command \in {"none", "admin"}
      BY <1>1, <1>2, FlowIsCall, EventOf
    <3>2. QED
      BY <2>1, <3>1 DEF Gate
  <2>3. QED
    BY <1>1, <1>2, <2>2, DeliverRow
<1>3. CASE \E w : \E wake \in BOOLEAN : Deliver(f, w, a, wake)
  BY <1>1, <1>2, <1>3 DEF Counts, CutShort, GoesOn, Reached
<1>4. CASE flow' = [flow EXCEPT ![f].todo = @ \ {a}] /\ UNCHANGED inbox
  <2>1. flow'[f].counted = flow[f].counted
    BY <1>1, <1>4, FlowIsCall DEF Calls, TypeOK
  <2>2. QED
    BY <1>1, <1>4, <2>1 DEF Counts, Reached, CutShort, GoesOn
<1>5. \/ \E w : \E wake \in BOOLEAN : Deliver(f, w, a, wake)
      \/ flow' = [flow EXCEPT ![f].todo = @ \ {a}] /\ UNCHANGED inbox
  BY DEF Consider
<1>6. QED
  BY <1>3, <1>4, <1>5

LEMMA CountingNext == TypeOK /\ Counting /\ [Next]_vars => Counting'
<1> SUFFICES ASSUME TypeOK, Counting, [Next]_vars, NEW f \in Flows PROVE Counts(f)'
  BY DEF Counting
<1>1. \A m : Reached(m) => Reached(m)'
  BY Growing DEF Reached, Grows
<1>2. CASE flow[f] = None
  <2>1. ASSUME flow'[f] # None PROVE ~flow'[f].counted
    <3>1. \/ UNCHANGED flow
          \/ \E g \in Flows : flow[g] # None /\ flow' = [flow EXCEPT ![g] = None]
          \/ \E g \in Flows, a \in Agents : Consider(g, a)
          \/ \E g \in Flows : Woken(g)
          \/ \E g \in Flows : \E m, A : flow' = Called(g, m, A)
          \/ flow' = [g \in Flows |-> None]
      BY DEF Next, vars, memory, Ignored, Escalate, FanOut, WakeFails, Finish, NoOneReached,
             Picked, CardSent, CardFails, Deny, ApproveChannelThrows, ApproveSender,
             ApproveChannel, OperatorWires, Restart
    <3>2. ASSUME NEW g \in Flows, NEW m, NEW A, flow' = Called(g, m, A)
          PROVE  ~flow'[f].counted
      BY <1>2, <2>1, <3>2 DEF Called, TypeOK
    <3>3. ASSUME NEW g \in Flows, NEW a \in Agents, Consider(g, a) PROVE FALSE
      BY <1>2, <2>1, <3>3, ConsiderFlow
    <3>4. ASSUME NEW g \in Flows, Woken(g) PROVE FALSE
      BY <1>2, <2>1, <3>4 DEF Woken, TypeOK
    <3>5. QED
      BY <1>2, <2>1, <3>1, <3>2, <3>3, <3>4 DEF TypeOK
  <2>2. QED
    BY <2>1 DEF Counts
<1>3. CASE flow[f] # None
  <2>1. Counts(f)
    BY DEF Counting
  <2>2. CASE Finish(f)
    BY <2>2 DEF Finish, Counts, TypeOK
  <2>3. CASE UNCHANGED flow[f]
    BY <1>1, <2>1, <2>3 DEF Counts
  <2>4. CASE /\ flow'[f].msg = flow[f].msg /\ flow'[f].counted = flow[f].counted
    BY <1>1, <1>3, <2>1, <2>4 DEF Counts
  <2>5. CASE \E a \in Agents : Consider(f, a)
    BY <2>1, <2>5, ConsiderCounts
  <2>6. CASE flow[f].msg \in cut' /\ flow'[f] = None
    BY <2>6 DEF Counts
  <2>7. QED
    BY <1>3, <2>2, <2>3, <2>4, <2>5, <2>6, FlowStep
<1>4. QED
  BY <1>2, <1>3

Traced(m) ==
    \/ Reached(m)
    \/ \E reason \in {"no_agent_wired", "no_agent_engaged", "unknown_sender"} :
         <<m, reason>> \in dropped

Over(m) ==
    /\ arrivals[m] > 0 /\ Event[m].chat \notin denied /\ m \notin cut
    /\ \A f \in Flows : flow[f] # None => flow[f].msg # m

LEMMA VanishesIs ==
    NothingVanishes <=> \A m \in Msgs : Over(m) /\ Event[m].mention
                                        /\ Event[m].command # "filtered" => Traced(m)
BY DEF NothingVanishes, Over, Traced, Reached

LEMMA NothingVanishesNext ==
    TypeOK /\ Counting /\ NothingVanishes /\ [Next]_vars => NothingVanishes'
<1> SUFFICES ASSUME TypeOK, Counting, NothingVanishes, [Next]_vars,
                    NEW m \in Msgs, Over(m)', Event[m].mention, Event[m].command # "filtered"
             PROVE  Traced(m)'
  BY VanishesIs DEF NothingVanishes, Over, Traced, Reached
<1>1. Grows
  BY Growing
<1>2. CASE Over(m)
  BY <1>1, <1>2, VanishesIs DEF Traced, Reached, Grows
<1>3. ASSUME arrivals[m] = 0 PROVE Traced(m)'
  <2>1. \/ UNCHANGED arrivals
        \/ \E n \in Msgs : Arrives(n) /\ (Ignored(n) \/ Escalate(n) \/ \E f \in Flows : FanOut(n, f))
    BY DEF Next, vars, history, Ignored, Escalate, FanOut, Consider, Woken, WakeFails, Finish,
           NoOneReached, Picked, CardSent, CardFails, Deny, ApproveChannelThrows, ApproveSender,
           ApproveChannel, OperatorWires, Restart
  <2>2. PICK n \in Msgs :
          Arrives(n) /\ (Ignored(n) \/ Escalate(n) \/ \E f \in Flows : FanOut(n, f))
    BY <1>3, <2>1 DEF Over
  <2>3. n = m
    BY <1>3, <2>2 DEF Over, Arrives, TypeOK
  <2>4. CASE Ignored(m)
    BY <1>1, <2>4 DEF Over, Ignored, Grows
  <2>5. CASE Escalate(m)
    BY <2>5 DEF Traced, Escalate
  <2>6. ASSUME NEW f \in Flows, FanOut(m, f) PROVE FALSE
    <3>1. flow'[f].msg = m /\ flow'[f] \in Calls
      BY <2>6, WiredToTyping DEF FanOut, Called, TypeOK, Calls
    <3>2. flow'[f] # None
      BY <3>1, NoneAssumption
    <3>3. QED
      BY <3>1, <3>2 DEF Over
  <2>7. QED
    BY <2>2, <2>3, <2>4, <2>5, <2>6
<1>4. ASSUME NEW f \in Flows, flow[f] # None, flow[f].msg = m PROVE Traced(m)'
  <2>1. m \notin cut' /\ (flow'[f] # None => flow'[f].msg # m)
    BY DEF Over
  <2>2. ~UNCHANGED flow[f]
    BY <1>4, <2>1
  <2>3. ASSUME NEW a \in Agents, Consider(f, a) PROVE FALSE
    BY <1>4, <2>1, <2>3, ConsiderFlow, NoneAssumption DEF CutShort, GoesOn
  <2>4. Finish(f)
    BY <1>4, <2>1, <2>2, <2>3, FlowStep
  <2>5. CASE flow[f].counted
    BY <1>1, <1>4, <2>5 DEF Counting, Counts, Traced, Reached, Grows
  <2>6. CASE ~flow[f].counted
    BY <1>4, <2>4, <2>6 DEF Finish, Traced
  <2>7. QED
    BY <2>5, <2>6
<1>5. QED
  BY <1>1, <1>2, <1>3, <1>4 DEF Over, Grows, TypeOK

-----------------------------------------------------------------------------
(* The replay after an approval                                            *)

WiringAsked(c) == wired[c.chat][c.agent]

Owes(f, c) == flow[f] # None /\ flow[f].msg = c.msg /\ c.agent \in flow[f].todo

Owed(c) ==
    /\ c.kind = "sender"
    /\ <<c.sender, c.agent>> \in members
    /\ Event[c.msg].command = "none" /\ c.msg \notin cut /\ WiringAsked(c).ignored = "drop"
       => Heard(c) \/ \E f \in Flows : Owes(f, c)

Replays == \A c \in admitted : Owed(c)

LEMMA AdmittedFields ==
    ASSUME TypeOK, Routed, NEW c \in cards
    PROVE  c \in Requests /\ c.chat \in Chats /\ c.agent \in Agents /\ c.msg \in Msgs /\ Sound(c)
BY RequestFields DEF TypeOK, Routed, Known

(* The call that owes a turn comes to the agent that was asked about.       *)
LEMMA TurnIsTaken ==
    ASSUME TypeOK, Routed, Admission, NEW c \in cards, c.kind = "sender",
           <<c.sender, c.agent>> \in members, NEW f \in Flows, Owes(f, c),
           Event[c.msg].command = "none", WiringAsked(c).ignored = "drop",
           Consider(f, c.agent)
    PROVE  Heard(c)'
<1> DEFINE e == Event[c.msg]
           w == wired[e.chat][c.agent]
<1>1. /\ c \in Requests /\ c.chat = e.chat /\ c.sender = e.sender /\ c.agent \in Agents
      /\ c.msg \in Msgs /\ Engages(w, c.agent, e)
  BY AdmittedFields DEF Sound
<1>2. c.sender # None
  BY <1>1, NoneAssumption DEF Requests
<1>3. Admits(w, c.agent, e)
  BY <1>1, <1>2 DEF Admits, PassesGate, InScope, CanAccess
<1>4. Deliver(f, w, c.agent, TRUE)
  BY <1>1, <1>3 DEF Consider, Owes
<1>5. PICK row \in inbox' : /\ row.msg = c.msg /\ row.session.agent = c.agent
                            /\ row \in inbox \/ row.trigger = TRUE
  <2>1. /\ flow[f] # None /\ flow[f].msg = c.msg
        /\ Gate(c.agent, Event[flow[f].msg]) = "pass"
    BY DEF Owes, Gate
  <2>2. ASSUME NEW wake \in BOOLEAN, Deliver(f, w, c.agent, wake)
        PROVE  \E row \in inbox' : /\ row.msg = flow[f].msg
                                   /\ row.session.agent = c.agent
                                   /\ row \in inbox \/ row.trigger = wake
    BY <1>1, <2>1, <2>2, DeliverRow
  <2>3. QED
    BY <1>4, <2>1, <2>2
<1>6. CASE row \in inbox
  <2>1. row.trigger
    BY <1>1, <1>5, <1>6 DEF Admission, Justified, WiringOf, WiringAsked
  <2>2. QED
    BY <1>5, <2>1 DEF Heard
<1>7. CASE row.trigger
  BY <1>5, <1>7 DEF Heard
<1>8. QED
  BY <1>5, <1>6, <1>7

LEMMA OwedStays ==
    ASSUME TypeOK, Routed, Admission, Grows, [Next]_vars, NEW c \in cards, Owed(c)
    PROVE  Owed(c)'
<1>1. c.chat \in Chats /\ c.agent \in Agents /\ Sound(c)
  BY AdmittedFields
<1>2. WiringAsked(c)' = WiringAsked(c) /\ <<c.sender, c.agent>> \in members'
  BY <1>1 DEF Owed, Sound, WiringAsked, Grows
<1>3. SUFFICES ASSUME Event[c.msg].command = "none", c.msg \notin cut',
                      WiringAsked(c).ignored = "drop"
               PROVE  Heard(c)' \/ \E f \in Flows : Owes(f, c)'
  BY <1>2 DEF Owed
<1>4. CASE Heard(c)
  BY <1>4 DEF Heard, Grows
<1>5. ASSUME NEW f \in Flows, Owes(f, c) PROVE Heard(c)' \/ Owes(f, c)'
  <2>1. CASE Consider(f, c.agent)
    BY <1>3, <1>5, <2>1, TurnIsTaken DEF Owed
  <2>2. ASSUME NEW a \in Agents, a # c.agent, Consider(f, a) PROVE Owes(f, c)'
    <3>1. GoesOn(f, a)
      BY <1>3, <1>5, <2>2, ConsiderFlow DEF Owes, CutShort
    <3>2. QED
      BY <1>5, <2>2, <3>1, NoneAssumption DEF Owes, GoesOn
  <2>3. CASE Finish(f)
    BY <1>5, <2>3 DEF Finish, Owes
  <2>4. CASE UNCHANGED flow[f]
    BY <1>5, <2>4 DEF Owes
  <2>5. QED
    BY <1>3, <1>5, <2>1, <2>2, <2>3, <2>4, FlowStep DEF Owes
<1>6. QED
  BY <1>3, <1>4, <1>5 DEF Owed, Grows

LEMMA ReplaysNext ==
    TypeOK /\ Routed /\ Admission /\ Replays /\ [Next]_vars => Replays'
<1> SUFFICES ASSUME TypeOK, Routed, Admission, Replays, [Next]_vars, NEW c \in admitted'
             PROVE  Owed(c)'
  BY DEF Replays
<1>1. CASE c \in admitted
  BY <1>1, Growing, OwedStays DEF Replays, TypeOK
<1>2. ASSUME NEW f \in Flows, ApproveSender(c, f), c \in cards PROVE Owed(c)'
  <2>1. /\ c.msg \in Msgs /\ c.agent \in Agents /\ c.chat \in Chats
        /\ wired[c.chat][c.agent] # None
    BY <1>2, AdmittedFields DEF Sound, ApproveSender
  <2>2. flow'[f].msg = c.msg /\ c.agent \in flow'[f].todo /\ flow'[f] \in Calls
    BY <1>2, <2>1, WiredToTyping DEF ApproveSender, Called, WiredTo, TypeOK, Calls
  <2>3. Owes(f, c)'
    BY <2>2, NoneAssumption DEF Owes
  <2>4. QED
    BY <1>2, <2>3 DEF Owed, ApproveSender
<1>3. c \in admitted \/ \E f \in Flows : c \in cards /\ ApproveSender(c, f)
  <2>1. \/ UNCHANGED admitted
        \/ \E d \in cards, f \in Flows : ApproveSender(d, f)
    BY DEF Next, vars, history, Ignored, Escalate, FanOut, Consider, Woken, WakeFails, Finish,
           NoOneReached, Picked, CardSent, CardFails, Deny, ApproveChannelThrows,
           ApproveChannel, OperatorWires, Restart
  <2>2. QED
    BY <2>1 DEF ApproveSender
<1>4. QED
  BY <1>1, <1>2, <1>3

LEMMA ReplaysImplies == TypeOK /\ Replays => DroppedIsReplayed
BY DEF Replays, Owed, Owes, WiringAsked, DroppedIsReplayed, Replayed

-----------------------------------------------------------------------------
(* The theorems                                                            *)

IInv == TypeOK /\ Routed /\ Admission /\ CardInv /\ Counting /\ NothingVanishes /\ Replays

LEMMA IInvInit == Init => IInv
<1> SUFFICES ASSUME Init PROVE IInv
  OBVIOUS
<1>1. TypeOK
  BY TypeInit
<1>2. /\ pending = {} /\ cards = {} /\ asks = {} /\ inbox = {} /\ admitted = {}
      /\ \A f \in Flows : flow[f] = None
      /\ \A m \in Msgs : arrivals[m] = 0
  BY DEF Init
<1>3. Routed /\ Admission /\ CardInv /\ Counting /\ Replays
  BY <1>2 DEF Routed, Known, AtWired, Admission, CardInv, Sending, CardsMatchRows, Counting,
              Counts, Replays
<1>4. NothingVanishes
  BY <1>2 DEF NothingVanishes
<1>5. QED
  BY <1>1, <1>3, <1>4 DEF IInv

LEMMA IInvNext == IInv /\ [Next]_vars => IInv'
BY TypeNext, RoutedNext, AdmissionNext, CardNext, CountingNext, NothingVanishesNext, ReplaysNext
DEF IInv

LEMMA Inductive == Spec => []IInv
BY IInvInit, IInvNext, PTL DEF Spec

(* No stranger starts a turn, whatever duplicates, replays and approvals    *)
(* race (router.ts, permissions/index.ts).                                  *)
THEOREM StrangersWait == Spec => []NoTurnForStrangers
<1>1. IInv => NoTurnForStrangers
  BY AdmissionImplies DEF IInv
<1>2. QED
  BY Inductive, <1>1, PTL

(* A card can be answered until it is, and nobody is asked twice about one  *)
(* sender or channel at a time (sender-approval.ts, channel-approval.ts).   *)
THEOREM CardsCanBeAnswered == Spec => []CardsMatchRows
<1>1. IInv => CardsMatchRows
  BY DEF IInv, CardInv
<1>2. QED
  BY Inductive, <1>1, PTL

(* A message that addresses the bot leaves a trace (router.ts).             *)
THEOREM MessagesLeaveTraces == Spec => []NothingVanishes
<1>1. IInv => NothingVanishes
  BY DEF IInv
<1>2. QED
  BY Inductive, <1>1, PTL

(* The replay after an approval starts the turn that was held back          *)
(* (permissions/index.ts).                                                  *)
THEOREM ReplayIsHeard == Spec => []DroppedIsReplayed
<1>1. IInv => DroppedIsReplayed
  BY ReplaysImplies DEF IInv
<1>2. QED
  BY Inductive, <1>1, PTL
=============================================================================
