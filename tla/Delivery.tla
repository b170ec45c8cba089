------------------------------ MODULE Delivery ------------------------------
(***************************************************************************)
(* The way out of a session: rows of messages_out, written by containers   *)
(* and drained by the host into chat platforms, other agents' inboxes and  *)
(* the handlers of system actions.  Three callers drain, in one process:   *)
(* the active poll, the sweep poll, and the wake endpoint that containers  *)
(* post to, one call per session at a time.  They interleave at awaits and *)
(* share the sessions in flight and the attempt counters, which are in     *)
(* memory; what was delivered is on disk (the delivered table).            *)
(*                                                                         *)
(* An effect of a message is what its adapter, agent route or action       *)
(* handler does with it outside this module.  Rows to channels, agents and *)
(* system actions differ in nothing the properties see, so a kind is kept  *)
(* only for questions (which keep a pending_questions row) and for rows    *)
(* without routing (which nobody can be given).                            *)
(***************************************************************************)
EXTENDS Integers, FiniteSets

CONSTANTS
    Msgs,         \* ids of messages_out rows
    Sessions,
    SessionOf,    \* the session a message belongs to
    Kinds,        \* kinds of row that are written
    MaxAttempts,  \* MAX_DELIVERY_ATTEMPTS
    MaxRestarts,  \* bound on host restarts
    Faults,       \* what may go wrong, see FaultNames
    None

(* ambiguous: an adapter throws after the platform took the message;       *)
(* denied: a permission check or the parsing of the row throws; noadapter: *)
(* the channel's adapter is not there; db: a query of a session's database *)
(* throws, once.                                                           *)
FaultNames == {"reject", "ambiguous", "denied", "noadapter", "db"}

ASSUME NoneAssumption    == None \notin Msgs /\ None \notin Sessions
ASSUME FiniteAssumption  == IsFiniteSet(Msgs)
ASSUME SessionAssumption == /\ SessionOf \in [Msgs -> Sessions]
                            /\ {"active", "sweep"} \cap Sessions = {}
ASSUME BoundAssumption   == MaxAttempts \in Nat \ {0} /\ MaxRestarts \in Nat
ASSUME KindAssumption    == Kinds \subseteq {"chat", "question", "unrouted"}
ASSUME FaultAssumption   == Faults \subseteq FaultNames

\* a wake call is named by its session
Callers == {"active", "sweep"} \cup Sessions

VARIABLES
    \* outbound.db of each session, written by its container
    out,        \* 0, or the place of the row in write order
    kind,
    \* disk of the host
    status,     \* the delivered table
    asked,      \* the question's pending_questions row exists
    \* memory of the host
    up,
    inflight,   \* inflightDeliveries
    attempts,   \* deliveryAttempts
    drain,      \* where each caller stands
    \* history
    effects,    \* how often a message took effect
    throws,     \* how often its delivery threw
    unsure,     \* how often it took effect and the host did not learn or record it
    answers,    \* answers to a question written to its session
    restarts,
    dbFailed

diskVars == <<status, asked>>
hostVars == <<up, inflight, attempts, drain>>
histVars == <<effects, throws, unsure, answers, restarts, dbFailed>>
vars     == <<out, kind, status, asked, up, inflight, attempts, drain,
              effects, throws, unsure, answers, restarts, dbFailed>>

Trying   == {"sending", "accepted", "returned", "threw"}
Draining == {"next"} \cup Trying

Drain == [visit : SUBSET Sessions,      \* sessions the poll has still to visit
          sess  : Sessions \cup {None}, \* the session being drained
          todo  : SUBSET Msgs,          \* what is left of the rows read at its start
          cur   : Msgs \cup {None},     \* the row being delivered
          st    : {"idle", "visiting"} \cup Draining]

Idle == [visit |-> {}, sess |-> None, todo |-> {}, cur |-> None, st |-> "idle"]

\* which fields go with which place in the code
WellFormed(d) ==
    /\ d.st = "idle" => d.visit = {}
    /\ d.st = "visiting" => d.visit # {}
    /\ d.st \in Draining => d.sess # None /\ d.todo # {}
    /\ d.st \in Trying => d.cur \in d.todo
    /\ d.st \notin Draining => d.sess = None /\ d.todo = {} /\ d.cur = None

TypeOK ==
    /\ out \in [Msgs -> Nat]
    /\ kind \in [Msgs -> {"chat", "question", "unrouted"}]
    /\ status \in [Msgs -> {"none", "delivered", "failed"}]
    /\ asked \in [Msgs -> BOOLEAN]
    /\ up \in BOOLEAN
    /\ inflight \subseteq Sessions
    /\ attempts \in [Msgs -> Nat]
    /\ drain \in [Callers -> Drain] /\ \A c \in Callers : WellFormed(drain[c])
    /\ effects \in [Msgs -> Nat]
    /\ throws \in [Msgs -> Nat]
    /\ unsure \in [Msgs -> Nat]
    /\ answers \in [Msgs -> Nat]
    /\ restarts \in Nat
    /\ dbFailed \in BOOLEAN

Init ==
    /\ out = [m \in Msgs |-> 0]
    /\ kind = [m \in Msgs |-> "chat"]
    /\ status = [m \in Msgs |-> "none"]
    /\ asked = [m \in Msgs |-> FALSE]
    /\ up = TRUE
    /\ inflight = {}
    /\ attempts = [m \in Msgs |-> 0]
    /\ drain = [c \in Callers |-> Idle]
    /\ effects = [m \in Msgs |-> 0]
    /\ throws = [m \in Msgs |-> 0]
    /\ unsure = [m \in Msgs |-> 0]
    /\ answers = [m \in Msgs |-> 0]
    /\ restarts = 0
    /\ dbFailed = FALSE

-----------------------------------------------------------------------------
(* Queries                                                                 *)

Written == {m \in Msgs : out[m] > 0}

\* faulty variant: rows given up on are read again
DueWithFailed(s) == {m \in Written : SessionOf[m] = s /\ status[m] # "delivered"}

\* getDueOutboundMessages without getDeliveredIds
Due(s) == {m \in Written : SessionOf[m] = s /\ status[m] = "none"}

\* faulty variant: newest first
IsLast(m, S) == m \in S /\ \A n \in S : out[m] >= out[n]

\* ORDER BY timestamp
IsFirst(m, S) == m \in S /\ \A n \in S : out[m] <= out[n]

At(c, places) == up /\ drain[c].st \in places

-----------------------------------------------------------------------------
(* Containers                                                              *)

Write(m) ==
    /\ out[m] = 0
    /\ out' = [out EXCEPT ![m] = Cardinality(Written) + 1]
    /\ \E k \in Kinds : kind' = [kind EXCEPT ![m] = k]
    /\ UNCHANGED <<diskVars, hostVars, histVars>>

-----------------------------------------------------------------------------
(* Callers                                                                 *)

\* what a poll does after one of its sessions
Visiting(rest) == [visit |-> rest, sess |-> None, todo |-> {}, cur |-> None,
                   st |-> IF rest = {} THEN "idle" ELSE "visiting"]

\* the timers of pollActive (running sessions) and pollSweep (all of them)
StartPoll(p) ==
    /\ At(p, {"idle"})
    /\ \E S \in (SUBSET Sessions) \ {{}} :
          /\ p = "sweep" => S = Sessions
          /\ drain' = [drain EXCEPT ![p] = Visiting(S)]
    /\ UNCHANGED <<out, kind, diskVars, up, inflight, attempts, histVars>>

\* POST /wake; calls that come while one runs are dropped
Wake(s) ==
    /\ At(s, {"idle"})
    /\ drain' = [drain EXCEPT ![s] = Visiting({s})]
    /\ UNCHANGED <<out, kind, diskVars, up, inflight, attempts, histVars>>

\* faulty variant: no inflightDeliveries
EnterAlways(c, s) ==
    /\ inflight' = inflight \cup {s}
    /\ drain' = [drain EXCEPT ![c] = [visit |-> drain[c].visit \ {s}, sess |-> s,
                                      todo |-> Due(s), cur |-> None, st |-> "next"]]

\* deliverSessionMessages takes the session and reads its rows
Enter(c, s) ==
    /\ s \notin inflight
    /\ inflight' = inflight \cup {s}
    /\ drain' = [drain EXCEPT ![c] = [visit |-> drain[c].visit \ {s}, sess |-> s,
                                      todo |-> Due(s), cur |-> None, st |-> "next"]]

\* nothing to do, or another caller is at it
Skip(c, s) ==
    /\ s \in inflight \/ Due(s) = {}
    /\ drain' = [drain EXCEPT ![c] = Visiting(drain[c].visit \ {s})]
    /\ UNCHANGED inflight

Visit(c) ==
    /\ At(c, {"visiting"})
    /\ \E s \in drain[c].visit : Skip(c, s) \/ (Due(s) # {} /\ Enter(c, s))
    /\ UNCHANGED <<out, kind, diskVars, up, attempts, histVars>>

\* reading a session's rows throws: the poll leaves its loop
VisitFails(c) ==
    /\ At(c, {"visiting"})
    /\ "db" \in Faults /\ ~dbFailed
    /\ drain[c].visit \ inflight # {}
    /\ drain' = [drain EXCEPT ![c] = Idle]
    /\ dbFailed' = TRUE
    /\ UNCHANGED <<out, kind, diskVars, up, inflight, attempts, effects, throws, unsure,
                   answers, restarts>>

-----------------------------------------------------------------------------
(* One message                                                             *)

\* faulty variant: the row of a question is written once the card is out
AskLater(m) == UNCHANGED asked

\* createPendingQuestion: INSERT OR IGNORE
Ask(m) == asked' = IF kind[m] = "question" THEN [asked EXCEPT ![m] = TRUE] ELSE asked

\* a drain goes on with row m, to place st
Goes(c, m, st) == drain' = [drain EXCEPT ![c] = [@ EXCEPT !.cur = m, !.st = st]]

\* deliverMessage of the next row, up to its await
Attempt(c) ==
    /\ At(c, {"next"})
    /\ \E m \in Msgs :
          /\ IsFirst(m, drain[c].todo)
          /\ \/ "denied" \in Faults /\ Goes(c, m, "threw") /\ UNCHANGED asked
             \/ kind[m] = "unrouted" /\ Goes(c, m, "returned") /\ Ask(m)
             \/ kind[m] # "unrouted" /\ Goes(c, m, "sending") /\ Ask(m)
             \/ /\ kind[m] # "unrouted" /\ "noadapter" \in Faults
                /\ Goes(c, m, "returned") /\ Ask(m)
    /\ UNCHANGED <<out, kind, status, up, inflight, attempts, histVars>>

\* the message takes effect
Accept(c) ==
    /\ At(c, {"sending"})
    /\ drain' = [drain EXCEPT ![c] = [@ EXCEPT !.st = "accepted"]]
    /\ effects' = [effects EXCEPT ![drain[c].cur] = @ + 1]
    /\ UNCHANGED <<out, kind, diskVars, up, inflight, attempts, throws, unsure, answers,
                   restarts, dbFailed>>

\* it does not
Reject(c) ==
    /\ At(c, {"sending"})
    /\ "reject" \in Faults
    /\ drain' = [drain EXCEPT ![c] = [@ EXCEPT !.st = "threw"]]
    /\ UNCHANGED <<out, kind, diskVars, up, inflight, attempts, histVars>>

\* faulty variant: no finally, so the session stays in flight
AdvanceKeepingGuard(c) ==
    LET rest == drain[c].todo \ {drain[c].cur}
    IN  /\ drain' = [drain EXCEPT ![c] = IF rest = {} THEN Visiting(@.visit)
                                         ELSE [@ EXCEPT !.todo = rest, !.cur = None, !.st = "next"]]
        /\ UNCHANGED inflight

\* on to the next row, or to the end of this session's drain
Advance(c) ==
    LET rest == drain[c].todo \ {drain[c].cur}
    IN  \/ /\ rest # {}
           /\ drain' = [drain EXCEPT ![c] = [@ EXCEPT !.todo = rest, !.cur = None, !.st = "next"]]
           /\ UNCHANGED inflight
        \/ /\ rest = {}
           /\ drain' = [drain EXCEPT ![c] = Visiting(drain[c].visit)]
           /\ inflight' = inflight \ {drain[c].sess}

\* deliverMessage returned: markDelivered
Delivered(c) ==
    /\ At(c, {"accepted", "returned"})
    /\ status' = [status EXCEPT ![drain[c].cur] = "delivered"]
    /\ attempts' = [attempts EXCEPT ![drain[c].cur] = 0]
    /\ Advance(c)
    /\ UNCHANGED <<out, kind, asked, up, histVars>>

\* the catch block counts, and gives up at MAX_DELIVERY_ATTEMPTS
CountAttempt(m) ==
    IF attempts[m] + 1 >= MaxAttempts
    THEN /\ status' = [status EXCEPT ![m] = "failed"]
         /\ attempts' = [attempts EXCEPT ![m] = 0]
    ELSE /\ attempts' = [attempts EXCEPT ![m] = @ + 1]
         /\ UNCHANGED status

\* deliverMessage threw, before the message took effect or after
Threw(c) ==
    /\ \/ At(c, {"threw"}) /\ UNCHANGED unsure
       \/ /\ At(c, {"accepted"}) /\ "ambiguous" \in Faults
          /\ unsure' = [unsure EXCEPT ![drain[c].cur] = @ + 1]
    /\ throws' = [throws EXCEPT ![drain[c].cur] = @ + 1]
    /\ CountAttempt(drain[c].cur)
    /\ Advance(c)
    /\ UNCHANGED <<out, kind, asked, up, effects, answers, restarts, dbFailed>>

-----------------------------------------------------------------------------
(* Users and restarts                                                      *)

\* faulty variant: the row stays, so every click is an answer
AnswerKeepingRow(m) ==
    /\ up /\ asked[m] /\ effects[m] > 0
    /\ answers[m] < effects[m] + 1
    /\ answers' = [answers EXCEPT ![m] = @ + 1]
    /\ UNCHANGED <<out, kind, status, asked, hostVars, effects, throws, unsure, restarts, dbFailed>>

\* handleInteractiveResponse: a click on a card whose row is there
Answer(m) ==
    /\ up /\ asked[m] /\ effects[m] > 0
    /\ answers' = [answers EXCEPT ![m] = @ + 1]
    /\ asked' = [asked EXCEPT ![m] = FALSE]
    /\ UNCHANGED <<out, kind, status, hostVars, effects, throws, unsure, restarts, dbFailed>>

(* The host dies, or is told to stop, which awaits no drain.  Sends under  *)
(* way may land or not.                                                    *)
HostStops ==
    LET cur(st) == {m \in Msgs : \E c \in Callers : drain[c].st = st /\ drain[c].cur = m}
    IN  /\ up
        /\ restarts < MaxRestarts
        /\ \E landed \in SUBSET cur("sending") :
              /\ effects' = [m \in Msgs |-> IF m \in landed THEN effects[m] + 1 ELSE effects[m]]
              /\ unsure' = [m \in Msgs |-> IF m \in landed \cup cur("accepted")
                                           THEN unsure[m] + 1 ELSE unsure[m]]
        /\ up' = FALSE
        /\ restarts' = restarts + 1
        /\ inflight' = {}
        /\ attempts' = [m \in Msgs |-> 0]
        /\ drain' = [c \in Callers |-> Idle]
        /\ UNCHANGED <<out, kind, diskVars, throws, answers, dbFailed>>

HostStarts ==
    /\ ~up
    /\ up' = TRUE
    /\ UNCHANGED <<out, kind, diskVars, inflight, attempts, drain, histVars>>

-----------------------------------------------------------------------------
CallerStep(c) ==
    \/ Visit(c) \/ VisitFails(c)
    \/ Attempt(c) \/ Accept(c) \/ Reject(c) \/ Delivered(c) \/ Threw(c)

Next ==
    \/ \E m \in Msgs : Write(m) \/ Answer(m)
    \/ \E p \in {"active", "sweep"} : StartPoll(p)
    \/ \E s \in Sessions : Wake(s)
    \/ \E c \in Callers : CallerStep(c)
    \/ HostStops \/ HostStarts

Spec == Init /\ [][Next]_vars

(* The sweep poll's timer fires, started drains go on, and every send is   *)
(* answered in the end (there is no timeout around it).                    *)
Fairness ==
    /\ WF_vars(StartPoll("sweep"))
    /\ WF_vars(HostStarts)
    /\ \A c \in Callers :
          /\ WF_vars(Visit(c))
          /\ WF_vars(Attempt(c))
          /\ WF_vars(Accept(c) \/ Reject(c))
          /\ WF_vars(Delivered(c) \/ Threw(c))

FairSpec == Spec /\ Fairness

-----------------------------------------------------------------------------
(* Properties                                                              *)

(* A message takes effect once more than the host failed to learn or to    *)
(* record that it did: the three callers never send one row twice, only a  *)
(* throw after the fact or a death between send and record can.            *)
EffectsAccounted == \A m \in Msgs : effects[m] <= 1 + unsure[m]

(* A card on the user's screen can be answered: its row is there until an  *)
(* answer has been taken.                                                  *)
CardsAnswerable ==
    \A m \in Msgs : kind[m] = "question" /\ effects[m] > 0 /\ answers[m] = 0 => asked[m]

(* The agent gets a second answer to a question only if the host lost      *)
(* track of a card it had shown and asked again.                           *)
AnsweredOnce == \A m \in Msgs : answers[m] > 1 => unsure[m] > 0

(* Messages of one session take effect in the order they were written,     *)
(* except that a message whose delivery threw may be overtaken.            *)
InOrder ==
    [][\A m \in Msgs : effects'[m] > effects[m] =>
         \A n \in Due(SessionOf[m]) : out[n] < out[m] => throws[n] > 0]_vars

Promise == INSTANCE Outbox WITH written <- Written

(* Delivery keeps the promise of Outbox: what is recorded of a message is  *)
(* recorded once and it never takes effect again ...                       *)
KeepsPromise == Promise!Safe

(* ... and something is recorded of every message, however often the host  *)
(* is restarted with its counters lost.                                    *)
ImplementsOutbox == Promise!Spec

-----------------------------------------------------------------------------
(* What a comment of the source says and the code does not do              *)

(* delivery.ts: marking a message delivered "when nothing was actually     *)
(* delivered" was the bug before the refactor.                             *)
DeliveredMeansEffect == \A m \in Msgs : status[m] = "delivered" => effects[m] > 0

=============================================================================
