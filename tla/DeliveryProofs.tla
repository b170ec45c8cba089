--------------------------- MODULE DeliveryProofs ---------------------------
(***************************************************************************)
(* Delivery for every set of messages and sessions, any number of attempts *)
(* and restarts: typing, the accounting of effects, and the safety of the  *)
(* refinement of Outbox.                                                   *)
(***************************************************************************)
EXTENDS Delivery, FiniteSetTheorems, TLAPS

USE NoneAssumption, SessionAssumption, BoundAssumption, KindAssumption

-----------------------------------------------------------------------------
(* Type correctness                                                        *)

DrainsOK == drain \in [Callers -> Drain] /\ \A c \in Callers : WellFormed(drain[c])

\* a poll that has visited a session is well placed
LEMMA VisitingType ==
    ASSUME NEW rest \in SUBSET Sessions
    PROVE  Visiting(rest) \in Drain /\ WellFormed(Visiting(rest))
<1>1. Visiting(rest) = [visit |-> rest, sess |-> None, todo |-> {}, cur |-> None,
                        st |-> IF rest = {} THEN "idle" ELSE "visiting"]
  BY DEF Visiting
<1>2. Visiting(rest) \in Drain
  BY <1>1 DEF Drain, Draining, Trying
<1>3. WellFormed(Visiting(rest))
  BY <1>1 DEF WellFormed, Draining, Trying
<1> QED
  BY <1>2, <1>3

LEMMA IdleType == Idle \in Drain /\ WellFormed(Idle)
  BY DEF Idle, Drain, WellFormed, Draining, Trying

\* so is a drain that tries a row of its list
LEMMA TryType ==
    ASSUME NEW d \in Drain, d.todo # {}, d.sess # None, NEW m \in d.todo, NEW st \in Trying
    PROVE  LET e == [d EXCEPT !.cur = m, !.st = st] IN e \in Drain /\ WellFormed(e)
<1> DEFINE e == [d EXCEPT !.cur = m, !.st = st]
<1>1. e \in Drain
  BY DEF Drain, Draining
<1>2. e.st = st /\ e.cur = m /\ e.todo = d.todo /\ e.sess = d.sess
  BY DEF Drain
<1>3. WellFormed(e)
  BY <1>2 DEF WellFormed, Draining, Trying
<1> QED
  BY <1>1, <1>3

\* ... that learns how the row it tries has fared
LEMMA FareType ==
    ASSUME NEW d \in Drain, WellFormed(d), d.st \in Trying, NEW st \in Trying
    PROVE  LET e == [d EXCEPT !.st = st] IN e \in Drain /\ WellFormed(e)
<1> DEFINE e == [d EXCEPT !.st = st]
<1>1. e \in Drain
  BY DEF Drain, Draining
<1>2. e.st = st /\ e.cur = d.cur /\ e.todo = d.todo /\ e.sess = d.sess
  BY DEF Drain
<1>3. d.sess # None /\ d.todo # {} /\ d.cur \in d.todo
  BY DEF WellFormed, Draining
<1>4. WellFormed(e)
  BY <1>2, <1>3 DEF WellFormed, Draining, Trying
<1> QED
  BY <1>1, <1>4

\* ... or that goes on with the rest of its list
LEMMA NextType ==
    ASSUME NEW d \in Drain, d.sess # None, NEW rest \in (SUBSET Msgs) \ {{}}
    PROVE  LET e == [d EXCEPT !.todo = rest, !.cur = None, !.st = "next"]
           IN  e \in Drain /\ WellFormed(e)
<1> DEFINE e == [d EXCEPT !.todo = rest, !.cur = None, !.st = "next"]
<1>1. e \in Drain
  BY DEF Drain, Draining
<1>2. e.st = "next" /\ e.todo = rest /\ e.sess = d.sess
  BY DEF Drain
<1>3. WellFormed(e)
  BY <1>2 DEF WellFormed, Draining, Trying
<1> QED
  BY <1>1, <1>3

\* a step of one caller leaves the others where they are
LEMMA DrainStore ==
    ASSUME DrainsOK, NEW c \in Callers, NEW d \in Drain, WellFormed(d),
           drain' = [drain EXCEPT ![c] = d]
    PROVE  DrainsOK'
<1>1. drain' \in [Callers -> Drain]
  BY DEF DrainsOK
<1>2. \A x \in Callers : drain'[x] = d \/ drain'[x] = drain[x]
  BY DEF DrainsOK
<1>3. \A x \in Callers : WellFormed(drain'[x])
  BY <1>2 DEF DrainsOK, WellFormed
<1> QED
  BY <1>1, <1>3 DEF DrainsOK, WellFormed

LEMMA CountType ==
    ASSUME TypeOK, NEW m \in Msgs, CountAttempt(m)
    PROVE  /\ status' \in [Msgs -> {"none", "delivered", "failed"}]
           /\ attempts' \in [Msgs -> Nat]
  BY DEF TypeOK, CountAttempt

LEMMA AdvanceType ==
    ASSUME TypeOK, NEW c \in Callers, drain[c].st \in Trying, Advance(c)
    PROVE  DrainsOK' /\ inflight' \subseteq Sessions
<1> DEFINE d == drain[c]
           rest == d.todo \ {d.cur}
<1>1. DrainsOK /\ d \in Drain /\ WellFormed(d) /\ inflight \subseteq Sessions
  BY DEF TypeOK, DrainsOK
<1>2. d.sess # None /\ d.todo \in SUBSET Msgs /\ d.visit \in SUBSET Sessions
  BY <1>1 DEF WellFormed, Drain, Draining
<1>3. CASE /\ rest # {} /\ UNCHANGED inflight
           /\ drain' = [drain EXCEPT ![c] = [d EXCEPT !.todo = rest, !.cur = None, !.st = "next"]]
  <2> DEFINE e == [d EXCEPT !.todo = rest, !.cur = None, !.st = "next"]
  <2>1. rest \in (SUBSET Msgs) \ {{}}
    BY <1>2, <1>3
  <2>2. e \in Drain /\ WellFormed(e)
    BY <1>1, <1>2, <2>1, NextType
  <2>3. drain' = [drain EXCEPT ![c] = e]
    BY <1>3
  <2> HIDE DEF e
  <2>4. DrainsOK'
    BY <1>1, <2>2, <2>3, DrainStore
  <2> QED
    BY <1>1, <1>3, <2>4
<1>4. CASE /\ drain' = [drain EXCEPT ![c] = Visiting(d.visit)]
           /\ inflight' = inflight \ {d.sess}
  <2>1. DrainsOK'
    BY <1>1, <1>2, <1>4, VisitingType, DrainStore
  <2> QED
    BY <1>1, <1>4, <2>1
<1> QED
  BY <1>3, <1>4 DEF Advance

LEMMA TypeCaller == ASSUME TypeOK, NEW c \in Callers, CallerStep(c) PROVE TypeOK'
<1> DEFINE d == drain[c]
<1>0. DrainsOK /\ d \in Drain /\ WellFormed(d)
  BY DEF TypeOK, DrainsOK
<1>1. CASE Visit(c)
  <2>1. PICK s \in d.visit : Skip(c, s) \/ (Due(s) # {} /\ Enter(c, s))
    BY <1>1 DEF Visit
  <2>2. s \in Sessions /\ d.visit \in SUBSET Sessions
    BY <1>0 DEF Drain
  <2>3. DrainsOK' /\ inflight' \subseteq Sessions
    <3>1. CASE Skip(c, s)
      <4>1. Visiting(d.visit \ {s}) \in Drain /\ WellFormed(Visiting(d.visit \ {s}))
        BY <2>2, VisitingType
      <4> QED
        BY <3>1, <4>1, <1>0, DrainStore DEF Skip, TypeOK
    <3>2. CASE Due(s) # {} /\ Enter(c, s)
      <4> DEFINE e == [visit |-> d.visit \ {s}, sess |-> s, todo |-> Due(s), cur |-> None, st |-> "next"]
      <4>1. Due(s) \subseteq Msgs
        BY DEF Due, Written
      <4>2. e \in Drain
        BY <2>2, <4>1 DEF Drain, Draining
      <4>3. WellFormed(e)
        BY <2>2, <3>2 DEF WellFormed, Draining, Trying
      <4>4. drain' = [drain EXCEPT ![c] = e] /\ inflight' = inflight \cup {s}
        BY <3>2 DEF Enter
      <4> HIDE DEF e
      <4> QED
        BY <4>2, <4>3, <4>4, <1>0, <2>2, DrainStore DEF TypeOK
    <3> QED
      BY <2>1, <3>1, <3>2
  <2> QED
    BY <1>1, <2>3 DEF Visit, TypeOK, DrainsOK, diskVars, histVars
<1>2. CASE VisitFails(c)
  <2>1. DrainsOK'
    BY <1>0, <1>2, IdleType, DrainStore DEF VisitFails
  <2> QED
    BY <1>2, <2>1 DEF VisitFails, TypeOK, DrainsOK, diskVars
<1>3. CASE Attempt(c)
  <2>1. PICK m \in Msgs, st \in Trying : m \in d.todo /\ Goes(c, m, st) /\ (UNCHANGED asked \/ Ask(m))
    BY <1>3 DEF Attempt, IsFirst, Trying
  <2> DEFINE e == [d EXCEPT !.cur = m, !.st = st]
  <2>2. d.todo # {} /\ d.sess # None
    BY <1>0, <1>3 DEF Attempt, At, WellFormed, Draining
  <2>3. e \in Drain /\ WellFormed(e)
    BY <1>0, <2>1, <2>2, TryType
  <2>4. drain' = [drain EXCEPT ![c] = e]
    BY <2>1 DEF Goes
  <2> HIDE DEF e
  <2>5. DrainsOK'
    BY <1>0, <2>3, <2>4, DrainStore
  <2>6. asked' \in [Msgs -> BOOLEAN]
    BY <2>1 DEF Ask, TypeOK
  <2> QED
    BY <1>3, <2>5, <2>6 DEF Attempt, TypeOK, DrainsOK, histVars
<1>4. ASSUME NEW st \in Trying, d.st \in Trying, drain' = [drain EXCEPT ![c] = [d EXCEPT !.st = st]]
      PROVE  DrainsOK'
  <2> DEFINE e == [d EXCEPT !.st = st]
  <2>1. e \in Drain /\ WellFormed(e)
    BY <1>0, <1>4, FareType
  <2>2. drain' = [drain EXCEPT ![c] = e]
    BY <1>4
  <2> HIDE DEF e
  <2> QED
    BY <1>0, <2>1, <2>2, DrainStore
<1>5. CASE Accept(c)
  <2>1. DrainsOK'
    BY <1>4, <1>5 DEF Accept, At, Trying
  <2>2. d.cur \in Msgs
    BY <1>0, <1>5 DEF Accept, At, Trying, WellFormed, Drain
  <2>3. effects' \in [Msgs -> Nat]
    BY <1>5, <2>2 DEF Accept, TypeOK
  <2> QED
    BY <1>5, <2>1, <2>3 DEF Accept, TypeOK, DrainsOK, diskVars
<1>6. CASE Reject(c)
  <2>1. DrainsOK'
    BY <1>4, <1>6 DEF Reject, At, Trying
  <2> QED
    BY <1>6, <2>1 DEF Reject, TypeOK, DrainsOK, diskVars, histVars
<1>7. CASE Delivered(c)
  <2>1. d.st \in Trying /\ Advance(c)
    BY <1>7 DEF Delivered, At, Trying
  <2>2. DrainsOK' /\ inflight' \subseteq Sessions
    BY <2>1, AdvanceType
  <2> QED
    BY <1>7, <2>2 DEF Delivered, TypeOK, DrainsOK, histVars
<1>8. CASE Threw(c)
  <2>1. d.st \in Trying /\ Advance(c) /\ CountAttempt(d.cur)
    BY <1>8 DEF Threw, At, Trying
  <2>2. d.cur \in Msgs
    BY <1>0, <2>1 DEF WellFormed, Drain
  <2>3. DrainsOK' /\ inflight' \subseteq Sessions
    BY <2>1, AdvanceType
  <2>4. /\ status' \in [Msgs -> {"none", "delivered", "failed"}]
        /\ attempts' \in [Msgs -> Nat]
    BY <2>1, <2>2, CountType
  <2>5. unsure' \in [Msgs -> Nat] /\ throws' \in [Msgs -> Nat]
    BY <1>8, <2>2 DEF Threw, TypeOK
  <2> QED
    BY <1>8, <2>3, <2>4, <2>5 DEF Threw, TypeOK, DrainsOK
<1> QED
  BY <1>1, <1>2, <1>3, <1>5, <1>6, <1>7, <1>8 DEF CallerStep

LEMMA WrittenFinite == Cardinality(Written) \in Nat
<1>1. IsFiniteSet(Written)
  BY FiniteAssumption, FS_Subset DEF Written
<1> QED
  BY <1>1, FS_CardinalityType

LEMMA TypeOther ==
    ASSUME TypeOK,
           \/ \E m \in Msgs : Write(m) \/ Answer(m)
           \/ \E p \in {"active", "sweep"} : StartPoll(p)
           \/ \E s \in Sessions : Wake(s)
           \/ HostStops \/ HostStarts
    PROVE  TypeOK'
<1>0. DrainsOK
  BY DEF TypeOK, DrainsOK
<1>1. ASSUME NEW m \in Msgs, Write(m) PROVE TypeOK'
  <2>1. out' \in [Msgs -> Nat]
    BY <1>1, WrittenFinite DEF Write, TypeOK
  <2>2. kind' \in [Msgs -> {"chat", "question", "unrouted"}]
    BY <1>1 DEF Write, TypeOK
  <2>3. DrainsOK'
    BY <1>0, <1>1 DEF Write, hostVars, DrainsOK, WellFormed
  <2> QED
    BY <1>1, <2>1, <2>2, <2>3 DEF Write, TypeOK, DrainsOK, diskVars, hostVars, histVars
<1>2. ASSUME NEW m \in Msgs, Answer(m) PROVE TypeOK'
  <2>1. answers' \in [Msgs -> Nat] /\ asked' \in [Msgs -> BOOLEAN]
    BY <1>2 DEF Answer, TypeOK
  <2>2. DrainsOK'
    BY <1>0, <1>2 DEF Answer, hostVars, DrainsOK, WellFormed
  <2> QED
    BY <1>2, <2>1, <2>2 DEF Answer, TypeOK, DrainsOK, hostVars
<1>3. ASSUME NEW p \in {"active", "sweep"}, StartPoll(p) PROVE TypeOK'
  <2>1. PICK S \in SUBSET Sessions : drain' = [drain EXCEPT ![p] = Visiting(S)]
    BY <1>3 DEF StartPoll
  <2>2. DrainsOK'
    BY <1>0, <2>1, VisitingType, DrainStore DEF Callers
  <2> QED
    BY <1>3, <2>2 DEF StartPoll, TypeOK, DrainsOK, diskVars, histVars
<1>4. ASSUME NEW s \in Sessions, Wake(s) PROVE TypeOK'
  <2>1. drain' = [drain EXCEPT ![s] = Visiting({s})] /\ {s} \in SUBSET Sessions
    BY <1>4 DEF Wake
  <2>2. DrainsOK'
    BY <1>0, <2>1, VisitingType, DrainStore DEF Callers
  <2> QED
    BY <1>4, <2>2 DEF Wake, TypeOK, DrainsOK, diskVars, histVars
<1>5. CASE HostStops
  <2>1. drain' = [c \in Callers |-> Idle]
    BY <1>5 DEF HostStops
  <2>2. DrainsOK'
    BY <2>1, IdleType DEF DrainsOK, WellFormed
  <2>3. effects' \in [Msgs -> Nat] /\ unsure' \in [Msgs -> Nat]
    BY <1>5 DEF HostStops, TypeOK
  <2>4. /\ UNCHANGED <<out, kind, status, asked, throws, answers, dbFailed>>
        /\ up' = FALSE /\ inflight' = {} /\ restarts' = restarts + 1
        /\ attempts' = [m \in Msgs |-> 0]
    BY <1>5 DEF HostStops, diskVars
  <2>5. attempts' \in [Msgs -> Nat] /\ restarts' \in Nat /\ inflight' \subseteq Sessions
    BY <2>4 DEF TypeOK
  <2>6. up' \in BOOLEAN /\ dbFailed' \in BOOLEAN
    BY <2>4 DEF TypeOK
  <2>7. /\ out' \in [Msgs -> Nat] /\ throws' \in [Msgs -> Nat] /\ answers' \in [Msgs -> Nat]
        /\ kind' \in [Msgs -> {"chat", "question", "unrouted"}]
        /\ status' \in [Msgs -> {"none", "delivered", "failed"}]
        /\ asked' \in [Msgs -> BOOLEAN]
    BY <2>4 DEF TypeOK
  <2> QED
    BY <2>2, <2>3, <2>5, <2>6, <2>7 DEF TypeOK, DrainsOK
<1>6. CASE HostStarts
  <2>1. DrainsOK'
    BY <1>0, <1>6 DEF HostStarts, DrainsOK, WellFormed
  <2> QED
    BY <1>6, <2>1 DEF HostStarts, TypeOK, DrainsOK, diskVars, histVars
<1> QED
  BY <1>1, <1>2, <1>3, <1>4, <1>5, <1>6

LEMMA TypeInit == Init => TypeOK
<1> SUFFICES ASSUME Init PROVE TypeOK
  OBVIOUS
<1>1. DrainsOK
  BY IdleType DEF Init, DrainsOK
<1>2. /\ \A f \in {out, attempts, effects, throws, unsure, answers} : f = [m \in Msgs |-> 0]
      /\ kind = [m \in Msgs |-> "chat"] /\ status = [m \in Msgs |-> "none"]
      /\ asked = [m \in Msgs |-> FALSE] /\ up = TRUE /\ inflight = {}
      /\ restarts = 0 /\ dbFailed = FALSE
  BY DEF Init
<1>3. [m \in Msgs |-> 0] \in [Msgs -> Nat]
  OBVIOUS
<1> QED
  BY <1>1, <1>2, <1>3 DEF TypeOK, DrainsOK

LEMMA TypeNext == TypeOK /\ [Next]_vars => TypeOK'
<1> SUFFICES ASSUME TypeOK, [Next]_vars PROVE TypeOK'
  OBVIOUS
<1>1. CASE UNCHANGED vars
  BY <1>1 DEF vars, TypeOK, WellFormed
<1>2. CASE Next
  BY <1>2, TypeCaller, TypeOther DEF Next
<1> QED
  BY <1>1, <1>2

(* Delivery keeps its types: every drain is where its fields say it is,    *)
(* whatever throws and whenever the host stops (drainSession).             *)
THEOREM TypeCorrect == Spec => []TypeOK
  BY TypeInit, TypeNext, PTL DEF Spec

-----------------------------------------------------------------------------
(* Who drains what.  A caller holds the guard of the session it drains, no *)
(* other caller drains that session, and nothing is recorded yet of the    *)
(* rows on its list.                                                       *)

Busy(c) == drain[c].st \in Draining

Exclusive ==
    \A c \in Callers : Busy(c) =>
       /\ drain[c].sess \in inflight
       /\ \A d \in Callers : Busy(d) /\ drain[d].sess = drain[c].sess => d = c

Fresh ==
    \A c \in Callers : Busy(c) => drain[c].todo \subseteq Due(drain[c].sess)

Owned == Exclusive /\ Fresh

\* a caller that moves on a row it holds, or drops rows or the session, keeps Owned
LEMMA OwnedShrinks ==
    ASSUME TypeOK, Owned, TypeOK', NEW c \in Callers, Busy(c),
           \A d \in Callers : d # c => drain'[d] = drain[d],
           Busy(c)' => /\ drain'[c].sess = drain[c].sess
                       /\ drain'[c].todo \subseteq drain[c].todo
                       /\ inflight' = inflight,
           inflight \ {drain[c].sess} \subseteq inflight',
           UNCHANGED out,
           \A m \in Msgs : m \in Due(drain[c].sess) /\ status'[m] # status[m]
                              => (Busy(c)' => m \notin drain'[c].todo),
           \A m \in Msgs : status'[m] # status[m] => SessionOf[m] = drain[c].sess
    PROVE  Owned'
<1>1. Exclusive'
  <2>1. ASSUME NEW d \in Callers, Busy(d)' PROVE drain'[d].sess \in inflight'
    <3>1. CASE d = c
      BY <2>1, <3>1 DEF Owned, Exclusive
    <3>2. CASE d # c
      BY <2>1, <3>2 DEF Owned, Exclusive, Busy
    <3> QED
      BY <3>1, <3>2
  <2>2. ASSUME NEW d \in Callers, NEW e \in Callers, Busy(d)', Busy(e)',
               drain'[e].sess = drain'[d].sess
        PROVE  e = d
    BY <2>2 DEF Owned, Exclusive, Busy
  <2> QED
    BY <2>1, <2>2 DEF Exclusive
<1>2. Fresh'
  <2> SUFFICES ASSUME NEW d \in Callers, Busy(d)', NEW m \in drain'[d].todo
               PROVE  (m \in Due(drain[d].sess))'
    BY DEF Fresh
  <2>1. CASE d = c
    <3>1. m \in Due(drain[c].sess) /\ drain'[c].sess = drain[c].sess
      BY <2>1 DEF Owned, Fresh
    <3>2. status'[m] = status[m]
      BY <2>1, <3>1 DEF Due, Written
    <3> QED
      BY <2>1, <3>1, <3>2 DEF Due, Written
  <2>2. CASE d # c
    <3>1. drain'[d] = drain[d] /\ Busy(d)
      BY <2>2 DEF Busy
    <3>2. m \in Due(drain[d].sess) /\ drain[d].sess # drain[c].sess
      BY <3>1, <2>2 DEF Owned, Fresh, Exclusive
    <3>3. status'[m] = status[m]
      BY <3>2 DEF Due, Written
    <3> QED
      BY <3>1, <3>2, <3>3 DEF Due, Written
  <2> QED
    BY <2>1, <2>2
<1> QED
  BY <1>1, <1>2 DEF Owned

\* steps that leave drains, guard and records alone, but may write rows
LEMMA OwnedStays ==
    ASSUME Owned, UNCHANGED <<inflight, status>>,
           \A c \in Callers : drain'[c] = drain[c] \/ ~Busy(c)',
           \A m \in Msgs : out[m] > 0 => out'[m] > 0
    PROVE  Owned'
<1>1. \A c \in Callers : Busy(c)' => Busy(c) /\ drain'[c] = drain[c]
  BY DEF Busy
<1>2. \A s : Due(s) \subseteq Due(s)'
  BY DEF Due, Written
<1>3. Exclusive'
  BY <1>1 DEF Owned, Exclusive
<1>4. Fresh'
  BY <1>1, <1>2 DEF Owned, Fresh
<1> QED
  BY <1>3, <1>4 DEF Owned

LEMMA NotBusy == ASSUME NEW c, NEW S, drain[c] = Visiting(S) \/ drain[c] = Idle PROVE ~Busy(c)
  BY DEF Busy, Visiting, Idle, Draining, Trying

\* the row a caller tries is due in its session, and nobody else tries it
LEMMA CurrentDue ==
    ASSUME TypeOK, Owned, NEW c \in Callers, drain[c].st \in Trying
    PROVE  /\ drain[c].cur \in Msgs /\ drain[c].cur \in drain[c].todo
           /\ out[drain[c].cur] > 0 /\ status[drain[c].cur] = "none"
           /\ SessionOf[drain[c].cur] = drain[c].sess
           /\ \A d \in Callers : drain[d].st \in Trying /\ drain[d].cur = drain[c].cur => d = c
<1>1. ASSUME NEW d \in Callers, drain[d].st \in Trying
      PROVE  Busy(d) /\ drain[d].cur \in drain[d].todo /\ drain[d].cur \in Due(drain[d].sess)
  <2>1. WellFormed(drain[d]) /\ Busy(d)
    BY <1>1 DEF TypeOK, Busy, Draining
  <2> QED
    BY <1>1, <2>1 DEF WellFormed, Owned, Fresh
<1>2. \A d \in Callers : drain[d].st \in Trying => SessionOf[drain[d].cur] = drain[d].sess
  BY <1>1 DEF Due
<1> QED
  BY <1>1, <1>2 DEF Due, Written, Owned, Exclusive

LEMMA OwnedVisit == ASSUME TypeOK, Owned, NEW c \in Callers, Visit(c) PROVE Owned'
<1>1. PICK s \in drain[c].visit : Skip(c, s) \/ (Due(s) # {} /\ Enter(c, s))
  BY DEF Visit
<1>2. ~Busy(c) /\ UNCHANGED <<out, status>> /\ drain \in [Callers -> Drain]
  BY DEF Visit, At, Busy, Draining, Trying, diskVars, TypeOK
<1>3. CASE Skip(c, s)
  <2>1. drain' = [drain EXCEPT ![c] = Visiting(drain[c].visit \ {s})] /\ UNCHANGED inflight
    BY <1>3 DEF Skip
  <2>2. drain'[c] = Visiting(drain[c].visit \ {s}) /\ \A d \in Callers : d # c => drain'[d] = drain[d]
    BY <1>2, <2>1
  <2>3. ~Busy(c)'
    BY <2>2 DEF Busy, Visiting, Draining, Trying
  <2> QED
    BY <1>2, <2>1, <2>2, <2>3, OwnedStays
<1>4. CASE Due(s) # {} /\ Enter(c, s)
  <2> DEFINE e == [visit |-> drain[c].visit \ {s}, sess |-> s, todo |-> Due(s), cur |-> None, st |-> "next"]
  <2>1. drain' = [drain EXCEPT ![c] = e] /\ inflight' = inflight \cup {s} /\ s \notin inflight
    BY <1>4 DEF Enter
  <2>2. drain'[c] = e /\ \A d \in Callers : d # c => drain'[d] = drain[d]
    BY <1>2, <2>1
  <2>3. drain'[c].sess = s /\ drain'[c].todo = Due(s)
    BY <2>2
  <2> HIDE DEF e
  <2>4. \A d \in Callers : d # c /\ Busy(d)' => Busy(d) /\ drain[d].sess # s
    BY <2>1, <2>2 DEF Busy, Owned, Exclusive
  <2>5. Exclusive'
    BY <2>1, <2>2, <2>3, <2>4 DEF Owned, Exclusive
  <2>6. \A x : Due(x)' = Due(x)
    BY <1>2 DEF Due, Written
  <2>7. Fresh'
    BY <2>2, <2>3, <2>4, <2>6 DEF Owned, Fresh
  <2> QED
    BY <2>5, <2>7 DEF Owned
<1> QED
  BY <1>1, <1>3, <1>4

LEMMA OwnedAdvance ==
    ASSUME TypeOK, Owned, TypeOK', NEW c \in Callers, drain[c].st \in Trying, Advance(c),
           UNCHANGED out, \A m \in Msgs : m # drain[c].cur => status'[m] = status[m]
    PROVE  Owned'
<1> DEFINE d == drain[c]
           rest == d.todo \ {d.cur}
<1>1. Busy(c) /\ SessionOf[d.cur] = d.sess /\ drain \in [Callers -> Drain]
  BY CurrentDue DEF Busy, Draining, TypeOK
<1>2. CASE /\ UNCHANGED inflight
           /\ drain' = [drain EXCEPT ![c] = [d EXCEPT !.todo = rest, !.cur = None, !.st = "next"]]
  <2>1. drain'[c] = [d EXCEPT !.todo = rest, !.cur = None, !.st = "next"]
    BY <1>1, <1>2
  <2>2. d \in Drain
    BY <1>1
  <2>3. drain'[c].sess = d.sess /\ drain'[c].todo = rest
    BY <2>1, <2>2 DEF Drain
  <2>4. \A x \in Callers : x # c => drain'[x] = drain[x]
    BY <1>1, <1>2
  <2> QED
    BY <1>1, <1>2, <2>3, <2>4, OwnedShrinks
<1>3. CASE /\ drain' = [drain EXCEPT ![c] = Visiting(d.visit)]
           /\ inflight' = inflight \ {d.sess}
  <2>1. drain'[c] = Visiting(d.visit) /\ \A x \in Callers : x # c => drain'[x] = drain[x]
    BY <1>1, <1>3
  <2>2. ~Busy(c)'
    BY <2>1 DEF Busy, Visiting, Draining, Trying
  <2> QED
    BY <1>1, <1>3, <2>1, <2>2, OwnedShrinks
<1> QED
  BY <1>2, <1>3 DEF Advance

LEMMA OwnedCaller == ASSUME TypeOK, Owned, TypeOK', NEW c \in Callers, CallerStep(c) PROVE Owned'
<1>0. drain \in [Callers -> Drain] /\ drain[c] \in Drain
  BY DEF TypeOK
<1>1. CASE Visit(c)
  BY <1>1, OwnedVisit
<1>2. CASE VisitFails(c)
  <2>1. drain'[c] = Idle /\ \A d \in Callers : d # c => drain'[d] = drain[d]
    BY <1>0, <1>2 DEF VisitFails
  <2>2. ~Busy(c)'
    BY <2>1 DEF Busy, Idle, Draining, Trying
  <2> QED
    BY <1>2, <2>1, <2>2, OwnedStays DEF VisitFails, diskVars
<1>3. ASSUME Busy(c), UNCHANGED <<out, status, inflight>>,
             \A d \in Callers : d # c => drain'[d] = drain[d],
             drain'[c].sess = drain[c].sess, drain'[c].todo = drain[c].todo
      PROVE  Owned'
  BY <1>3, OwnedShrinks
<1>4. CASE Attempt(c)
  <2>1. PICK m \in Msgs, st \in Trying : Goes(c, m, st)
    BY <1>4 DEF Attempt, Trying
  <2>2. drain'[c] = [drain[c] EXCEPT !.cur = m, !.st = st]
    BY <1>0, <2>1 DEF Goes
  <2>3. drain'[c].sess = drain[c].sess /\ drain'[c].todo = drain[c].todo
    BY <1>0, <2>2 DEF Drain
  <2>4. \A d \in Callers : d # c => drain'[d] = drain[d]
    BY <1>0, <2>1 DEF Goes
  <2>5. Busy(c) /\ UNCHANGED <<out, status, inflight>>
    BY <1>4 DEF Attempt, At, Busy, Draining
  <2> QED
    BY <1>3, <2>3, <2>4, <2>5
<1>5. ASSUME NEW st, drain' = [drain EXCEPT ![c] = [@ EXCEPT !.st = st]],
             drain[c].st \in Trying, UNCHANGED <<out, status, inflight>>
      PROVE  Owned'
  <2>1. drain'[c] = [drain[c] EXCEPT !.st = st] /\ \A d \in Callers : d # c => drain'[d] = drain[d]
    BY <1>0, <1>5
  <2>2. drain'[c].sess = drain[c].sess /\ drain'[c].todo = drain[c].todo
    BY <1>0, <2>1 DEF Drain
  <2> QED
    BY <1>3, <1>5, <2>1, <2>2 DEF Busy, Draining
<1>6. CASE Accept(c)
  BY <1>5, <1>6 DEF Accept, At, Trying, diskVars
<1>7. CASE Reject(c)
  BY <1>5, <1>7 DEF Reject, At, Trying, diskVars
<1>8. CASE Delivered(c)
  <2>1. \A m \in Msgs : m # drain[c].cur => status'[m] = status[m]
    BY <1>8 DEF Delivered, TypeOK
  <2> QED
    BY <1>8, <2>1, OwnedAdvance DEF Delivered, At, Trying
<1>9. CASE Threw(c)
  <2>1. \A m \in Msgs : m # drain[c].cur => status'[m] = status[m]
    BY <1>9 DEF Threw, CountAttempt, TypeOK
  <2> QED
    BY <1>9, <2>1, OwnedAdvance DEF Threw, At, Trying
<1> QED
  BY <1>1, <1>2, <1>4, <1>6, <1>7, <1>8, <1>9 DEF CallerStep

LEMMA OwnedOther ==
    ASSUME TypeOK, Owned,
           \/ \E m \in Msgs : Write(m) \/ Answer(m)
           \/ \E p \in {"active", "sweep"} : StartPoll(p)
           \/ \E s \in Sessions : Wake(s)
           \/ HostStops \/ HostStarts
    PROVE  Owned'
<1>0. drain \in [Callers -> Drain]
  BY DEF TypeOK
<1>1. ASSUME NEW m \in Msgs, Write(m) PROVE Owned'
  <2>1. \A n \in Msgs : out[n] > 0 => out'[n] > 0
    BY <1>1 DEF Write, TypeOK
  <2> QED
    BY <1>1, <2>1, OwnedStays DEF Write, hostVars, diskVars
<1>2. ASSUME NEW m \in Msgs, Answer(m) PROVE Owned'
  BY <1>2, OwnedStays DEF Answer, hostVars
<1>3. ASSUME NEW c \in Callers, NEW S, drain' = [drain EXCEPT ![c] = Visiting(S)],
             UNCHANGED <<out, status, inflight>>
      PROVE  Owned'
  <2>1. drain'[c] = Visiting(S) /\ \A d \in Callers : d # c => drain'[d] = drain[d]
    BY <1>0, <1>3
  <2>2. ~Busy(c)'
    BY <2>1 DEF Busy, Visiting, Draining, Trying
  <2> QED
    BY <1>3, <2>1, <2>2, OwnedStays
<1>4. ASSUME NEW p \in {"active", "sweep"}, StartPoll(p) PROVE Owned'
  BY <1>3, <1>4 DEF StartPoll, Callers, diskVars
<1>5. ASSUME NEW s \in Sessions, Wake(s) PROVE Owned'
  BY <1>3, <1>5 DEF Wake, Callers, diskVars
<1>6. CASE HostStops
  <2>1. \A c \in Callers : drain'[c] = Idle
    BY <1>6 DEF HostStops
  <2>2. \A c \in Callers : ~Busy(c)'
    BY <2>1 DEF Busy, Idle, Draining, Trying
  <2> QED
    BY <2>2 DEF Owned, Exclusive, Fresh
<1>7. CASE HostStarts
  BY <1>7, OwnedStays DEF HostStarts, diskVars
<1> QED
  BY <1>1, <1>2, <1>4, <1>5, <1>6, <1>7

-----------------------------------------------------------------------------
(* Accounting.  A message whose effect the host has not recorded, and is   *)
(* not about to record, has taken effect only as often as the host lost    *)
(* track of it.                                                            *)

Accepted(m) == \E c \in Callers : drain[c].st = "accepted" /\ drain[c].cur = m

Accounted ==
    \A m \in Msgs : /\ effects[m] <= 1 + unsure[m]
                    /\ status[m] # "delivered" /\ ~Accepted(m) => effects[m] <= unsure[m]

DeliveryInv == TypeOK /\ Owned /\ Accounted

\* a step that changes no history loses no message that was accepted and not recorded
LEMMA AccountedStays ==
    ASSUME Accounted, UNCHANGED <<effects, unsure>>,
           \A m \in Msgs : status[m] = "delivered" \/ Accepted(m)
                              => status'[m] = "delivered" \/ Accepted(m)'
    PROVE  Accounted'
  BY DEF Accounted

\* a caller that is not recording an acceptance takes none away
LEMMA AcceptedStays ==
    ASSUME TypeOK, NEW c \in Callers, drain[c].st # "accepted", NEW d,
           drain' = [drain EXCEPT ![c] = d], UNCHANGED status
    PROVE  \A m \in Msgs : status[m] = "delivered" \/ Accepted(m)
                              => status'[m] = "delivered" \/ Accepted(m)'
<1>1. \A x \in Callers : x # c => drain'[x] = drain[x]
  BY DEF TypeOK
<1> QED
  BY <1>1 DEF Accepted

LEMMA AccountedCaller ==
    ASSUME TypeOK, Owned, Accounted, TypeOK', NEW c \in Callers, CallerStep(c)
    PROVE  Accounted'
<1> DEFINE m == drain[c].cur
<1>0. drain \in [Callers -> Drain] /\ effects \in [Msgs -> Nat] /\ unsure \in [Msgs -> Nat]
  BY DEF TypeOK
<1>1. CASE Visit(c)
  <2>1. PICK d : drain' = [drain EXCEPT ![c] = d]
    BY <1>1 DEF Visit, Skip, Enter
  <2>2. drain[c].st # "accepted" /\ UNCHANGED <<status, effects, unsure>>
    BY <1>1 DEF Visit, At, diskVars, histVars
  <2> QED
    BY <2>1, <2>2, AcceptedStays, AccountedStays
<1>2. CASE VisitFails(c)
  <2>1. drain[c].st # "accepted" /\ UNCHANGED <<status, effects, unsure>>
    BY <1>2 DEF VisitFails, At, diskVars
  <2> QED
    BY <1>2, <2>1, AcceptedStays, AccountedStays DEF VisitFails
<1>3. CASE Attempt(c)
  <2>1. PICK d : drain' = [drain EXCEPT ![c] = d]
    BY <1>3 DEF Attempt, Goes
  <2>2. drain[c].st # "accepted" /\ UNCHANGED <<status, effects, unsure>>
    BY <1>3 DEF Attempt, At, histVars
  <2> QED
    BY <2>1, <2>2, AcceptedStays, AccountedStays
<1>4. CASE Accept(c)
  <2>1. drain[c].st = "sending" /\ drain[c].st \in Trying /\ UNCHANGED <<status, unsure>>
    BY <1>4 DEF Accept, At, Trying, diskVars
  <2>2. m \in Msgs /\ status[m] = "none" /\ ~Accepted(m)
    BY <2>1, CurrentDue DEF Accepted, Trying
  <2>3. effects[m] <= unsure[m]
    BY <2>2 DEF Accounted
  <2>4. effects' = [effects EXCEPT ![m] = @ + 1]
    BY <1>4 DEF Accept
  <2>5. \A n \in Msgs : n # m => effects'[n] = effects[n]
    BY <1>0, <2>4
  <2>6. effects'[m] = effects[m] + 1
    BY <1>0, <2>2, <2>4
  <2>7. drain'[c] = [drain[c] EXCEPT !.st = "accepted"] /\ \A d \in Callers : d # c => drain'[d] = drain[d]
    BY <1>0, <1>4 DEF Accept
  <2>8. drain'[c].st = "accepted" /\ drain'[c].cur = m
    BY <1>0, <2>7 DEF Drain
  <2>9. \A n \in Msgs : n = m \/ Accepted(n) => Accepted(n)'
    BY <2>1, <2>7, <2>8 DEF Accepted
  <2>10. \A n \in Msgs : effects[n] \in Nat /\ unsure[n] \in Nat
    BY <1>0
  <2>11. effects'[m] <= 1 + unsure'[m]
    BY <2>1, <2>2, <2>3, <2>6, <2>10
  <2>12. \A n \in Msgs : n # m => effects'[n] = effects[n] /\ unsure'[n] = unsure[n] /\ status'[n] = status[n]
    BY <2>1, <2>5
  <2> QED
    BY <2>9, <2>11, <2>12 DEF Accounted
<1>5. CASE Reject(c)
  <2>1. PICK d : drain' = [drain EXCEPT ![c] = d]
    BY <1>5 DEF Reject
  <2>2. drain[c].st # "accepted" /\ UNCHANGED <<status, effects, unsure>>
    BY <1>5 DEF Reject, At, diskVars, histVars
  <2> QED
    BY <2>1, <2>2, AcceptedStays, AccountedStays
<1>6. ASSUME Advance(c)
      PROVE  \A d \in Callers : d # c => drain'[d] = drain[d]
  BY <1>0, <1>6 DEF Advance
<1>7. CASE Delivered(c)
  <2>1. m \in Msgs /\ \A d \in Callers : d # c => drain'[d] = drain[d]
    BY <1>6, <1>7, CurrentDue DEF Delivered, At, Trying
  <2>2. status'[m] = "delivered" /\ \A n \in Msgs : n # m => status'[n] = status[n]
    BY <1>7, <2>1 DEF Delivered, TypeOK
  <2>3. \A n \in Msgs : n # m /\ Accepted(n) => Accepted(n)'
    BY <2>1 DEF Accepted
  <2> QED
    BY <1>7, <2>2, <2>3, AccountedStays DEF Delivered, histVars
<1>8. CASE Threw(c)
  <2>1. m \in Msgs /\ status[m] = "none" /\ \A d \in Callers : d # c => drain'[d] = drain[d]
    BY <1>6, <1>8, CurrentDue DEF Threw, At, Trying
  <2>2. UNCHANGED effects /\ \A n \in Msgs : n # m => status'[n] = status[n]
    BY <1>8 DEF Threw, CountAttempt, TypeOK
  <2>3. \A n \in Msgs : n # m /\ Accepted(n) => Accepted(n)'
    BY <2>1 DEF Accepted
  <2>4. \A n \in Msgs : effects[n] \in Nat /\ unsure[n] \in Nat
    BY <1>0
  <2>5. CASE drain[c].st = "threw" /\ UNCHANGED unsure
    <3>1. ~Accepted(m)
      BY <2>5, CurrentDue DEF Accepted, Trying
    <3>2. effects'[m] <= unsure'[m]
      BY <2>1, <2>2, <2>5, <3>1 DEF Accounted
    <3>3. effects'[m] <= 1 + unsure'[m]
      BY <2>1, <2>2, <2>4, <2>5, <3>2
    <3> QED
      BY <2>2, <2>3, <2>5, <3>2, <3>3 DEF Accounted
  <2>6. CASE unsure' = [unsure EXCEPT ![m] = @ + 1]
    <3>1. unsure'[m] = unsure[m] + 1 /\ \A n \in Msgs : n # m => unsure'[n] = unsure[n]
      BY <1>0, <2>1, <2>6
    <3>2. effects[m] <= 1 + unsure[m]
      BY <2>1 DEF Accounted
    <3>3. effects'[m] <= unsure'[m] /\ effects'[m] <= 1 + unsure'[m]
      BY <2>1, <2>2, <2>4, <3>1, <3>2
    <3> QED
      BY <2>2, <2>3, <3>1, <3>3 DEF Accounted
  <2> QED
    BY <1>8, <2>5, <2>6 DEF Threw, At
<1> QED
  BY <1>1, <1>2, <1>3, <1>4, <1>5, <1>7, <1>8 DEF CallerStep

LEMMA AccountedOther ==
    ASSUME TypeOK, Owned, Accounted,
           \/ \E m \in Msgs : Write(m) \/ Answer(m)
           \/ \E p \in {"active", "sweep"} : StartPoll(p)
           \/ \E s \in Sessions : Wake(s)
           \/ HostStops \/ HostStarts
    PROVE  Accounted'
<1>1. ASSUME UNCHANGED <<drain, status, effects, unsure>> PROVE Accounted'
  BY <1>1, AccountedStays DEF Accepted
<1>2. ASSUME NEW c \in Callers, drain[c].st = "idle", NEW d, drain' = [drain EXCEPT ![c] = d],
             UNCHANGED <<status, effects, unsure>>
      PROVE  Accounted'
  BY <1>2, AcceptedStays, AccountedStays
<1>3. ASSUME NEW m \in Msgs, Write(m) \/ Answer(m) PROVE Accounted'
  BY <1>1, <1>3 DEF Write, Answer, diskVars, hostVars, histVars
<1>4. ASSUME NEW p \in {"active", "sweep"}, StartPoll(p) PROVE Accounted'
  <2>1. PICK S : drain' = [drain EXCEPT ![p] = Visiting(S)]
    BY <1>4 DEF StartPoll
  <2> QED
    BY <1>2, <1>4, <2>1 DEF StartPoll, At, Callers, diskVars, histVars
<1>5. ASSUME NEW s \in Sessions, Wake(s) PROVE Accounted'
  BY <1>2, <1>5 DEF Wake, At, Callers, diskVars, histVars
<1>6. CASE HostStops
  <2> DEFINE cur(st) == {m \in Msgs : \E c \in Callers : drain[c].st = st /\ drain[c].cur = m}
  <2>1. PICK landed \in SUBSET cur("sending") :
           /\ effects' = [m \in Msgs |-> IF m \in landed THEN effects[m] + 1 ELSE effects[m]]
           /\ unsure' = [m \in Msgs |-> IF m \in landed \cup cur("accepted")
                                        THEN unsure[m] + 1 ELSE unsure[m]]
    BY <1>6 DEF HostStops
  <2>2. UNCHANGED status
    BY <1>6 DEF HostStops, diskVars
  <2> SUFFICES ASSUME NEW m \in Msgs
               PROVE  /\ effects'[m] <= 1 + unsure'[m]
                      /\ status'[m] # "delivered" => effects'[m] <= unsure'[m]
    BY DEF Accounted
  <2>3. effects[m] \in Nat /\ unsure[m] \in Nat
    BY DEF TypeOK
  <2>4. m \in cur("accepted") <=> Accepted(m)
    BY DEF Accepted
  <2>5. m \in landed => status[m] = "none" /\ ~Accepted(m)
    BY CurrentDue DEF Accepted, Trying
  <2>6. CASE m \in landed
    <3>1. effects'[m] = effects[m] + 1 /\ unsure'[m] = unsure[m] + 1
      BY <2>1, <2>6
    <3>2. effects[m] <= unsure[m]
      BY <2>5, <2>6 DEF Accounted
    <3> QED
      BY <2>3, <3>1, <3>2
  <2>7. CASE m \notin landed /\ Accepted(m)
    <3>1. effects'[m] = effects[m] /\ unsure'[m] = unsure[m] + 1
      BY <2>1, <2>4, <2>7
    <3>2. effects[m] <= 1 + unsure[m]
      BY DEF Accounted
    <3> QED
      BY <2>3, <3>1, <3>2
  <2>8. CASE m \notin landed /\ ~Accepted(m)
    <3>1. effects'[m] = effects[m] /\ unsure'[m] = unsure[m]
      BY <2>1, <2>4, <2>8
    <3> QED
      BY <2>2, <2>8, <3>1 DEF Accounted
  <2> QED
    BY <2>6, <2>7, <2>8
<1>7. CASE HostStarts
  BY <1>1, <1>7 DEF HostStarts, diskVars, histVars
<1> QED
  BY <1>3, <1>4, <1>5, <1>6, <1>7

LEMMA DeliveryInvInit == Init => DeliveryInv
<1> SUFFICES ASSUME Init PROVE DeliveryInv
  OBVIOUS
<1>1. \A c \in Callers : drain[c] = Idle
  BY DEF Init
<1>2. \A c \in Callers : ~Busy(c)
  BY <1>1 DEF Busy, Idle, Draining, Trying
<1>3. Accounted
  BY DEF Init, Accounted
<1> QED
  BY <1>2, <1>3, TypeInit DEF DeliveryInv, Owned, Exclusive, Fresh

LEMMA DeliveryInvNext == DeliveryInv /\ [Next]_vars => DeliveryInv'
<1> SUFFICES ASSUME DeliveryInv, [Next]_vars PROVE DeliveryInv'
  OBVIOUS
<1>1. TypeOK /\ Owned /\ Accounted /\ TypeOK'
  BY TypeNext DEF DeliveryInv
<1>2. CASE UNCHANGED vars
  <2>1. Owned'
    BY <1>1, <1>2, OwnedStays DEF vars
  <2>2. Accounted'
    BY <1>1, <1>2 DEF vars, Accounted, Accepted
  <2> QED
    BY <1>1, <2>1, <2>2 DEF DeliveryInv
<1>3. CASE Next
  <2>1. ASSUME NEW c \in Callers, CallerStep(c) PROVE Owned' /\ Accounted'
    BY <1>1, <2>1, OwnedCaller, AccountedCaller
  <2>2. CASE \/ \E m \in Msgs : Write(m) \/ Answer(m)
             \/ \E p \in {"active", "sweep"} : StartPoll(p)
             \/ \E s \in Sessions : Wake(s)
             \/ HostStops \/ HostStarts
    BY <1>1, <2>2, OwnedOther, AccountedOther DEF DeliveryInv
  <2> QED
    BY <1>1, <1>3, <2>1, <2>2 DEF Next, DeliveryInv
<1> QED
  BY <1>2, <1>3

(* However the two polls and the wakes of a session interleave             *)
(* (inflightDeliveries), and wherever the host stops, a message takes      *)
(* effect again only after the host lost track of an effect it had.        *)
THEOREM EffectsCounted == Spec => []EffectsAccounted
<1>1. DeliveryInv => EffectsAccounted
  BY DEF DeliveryInv, Accounted, EffectsAccounted
<1> QED
  BY <1>1, DeliveryInvInit, DeliveryInvNext, PTL DEF Spec

-----------------------------------------------------------------------------
(* Cards.  A question that is on its way out, or was shown, keeps its row  *)
(* until it is answered; a row asked again after an answer was asked by a  *)
(* drain that had lost track of the card.                                  *)

Shows(m) == \E c \in Callers : drain[c].st \in {"sending", "accepted"} /\ drain[c].cur = m

CardKept ==
    \A m \in Msgs :
       /\ kind[m] = "question" /\ answers[m] = 0 /\ (effects[m] > 0 \/ Shows(m)) => asked[m]
       /\ out[m] = 0 => effects[m] = 0

AnswersCounted ==
    \A m \in Msgs : /\ answers[m] > 0 => effects[m] > 0
                    /\ answers[m] > 0 /\ asked[m] => unsure[m] > 0
                    /\ answers[m] > 1 => unsure[m] > 0

CardInv == CardKept /\ AnswersCounted

\* a drain that is not showing a card, or still shows the one it did
LEMMA ShowsFewer ==
    ASSUME TypeOK, NEW c \in Callers, NEW d, drain' = [drain EXCEPT ![c] = d],
           \/ d.st \notin {"sending", "accepted"}
           \/ drain[c].st = "sending" /\ d.cur = drain[c].cur
    PROVE  \A m : Shows(m)' => Shows(m)
<1>1. drain'[c] = d /\ \A x \in Callers : x # c => drain'[x] = drain[x]
  BY DEF TypeOK
<1> QED
  BY <1>1 DEF Shows

\* what a caller that leaves a row goes on with shows no card
LEMMA AdvanceShowsFewer ==
    ASSUME TypeOK, NEW c \in Callers, Advance(c)
    PROVE  \A m : Shows(m)' => Shows(m)
<1>0. drain[c] \in Drain
  BY DEF TypeOK
<1>1. PICK d : /\ drain' = [drain EXCEPT ![c] = d]
               /\ \/ d = Visiting(drain[c].visit)
                  \/ d = [drain[c] EXCEPT !.todo = @ \ {drain[c].cur}, !.cur = None, !.st = "next"]
  BY DEF Advance
<1>2. CASE d = Visiting(drain[c].visit)
  <2>1. d.st \notin {"sending", "accepted"}
    BY <1>2 DEF Visiting
  <2> QED
    BY <1>1, <2>1, ShowsFewer
<1>3. CASE d = [drain[c] EXCEPT !.todo = @ \ {drain[c].cur}, !.cur = None, !.st = "next"]
  <2>1. d.st \notin {"sending", "accepted"}
    BY <1>0, <1>3 DEF Drain
  <2> QED
    BY <1>1, <2>1, ShowsFewer
<1> QED
  BY <1>1, <1>2, <1>3

\* steps that show no new card, take no answer and ask nothing
LEMMA CardStays ==
    ASSUME TypeOK, TypeOK', CardInv, UNCHANGED <<out, kind, asked, effects, answers>>,
           \A m \in Msgs : Shows(m)' => Shows(m),
           \A m \in Msgs : unsure'[m] >= unsure[m]
    PROVE  CardInv'
<1>1. \A m \in Msgs : unsure[m] \in Nat /\ unsure'[m] \in Nat
  BY DEF TypeOK
<1>2. CardKept'
  BY DEF CardInv, CardKept
<1>3. AnswersCounted'
  BY <1>1 DEF CardInv, AnswersCounted
<1> QED
  BY <1>2, <1>3 DEF CardInv

LEMMA CardAttempt ==
    ASSUME DeliveryInv, TypeOK', CardInv, NEW c \in Callers, Attempt(c) PROVE CardInv'
<1>0. /\ TypeOK /\ Owned /\ Accounted /\ drain \in [Callers -> Drain] /\ drain[c] \in Drain
      /\ asked \in [Msgs -> BOOLEAN]
  BY DEF DeliveryInv, TypeOK
<1>1. UNCHANGED <<out, kind, status, effects, answers, unsure>> /\ drain[c].st = "next"
  BY DEF Attempt, At, histVars
<1>2. PICK m \in Msgs, st \in Trying :
         /\ m \in drain[c].todo /\ Goes(c, m, st)
         /\ Ask(m) \/ (st = "threw" /\ UNCHANGED asked)
  BY DEF Attempt, IsFirst, Trying
<1>3. CASE UNCHANGED asked /\ st = "threw"
  <2>1. drain' = [drain EXCEPT ![c] = [drain[c] EXCEPT !.cur = m, !.st = "threw"]]
    BY <1>2, <1>3 DEF Goes
  <2>2. \A n : Shows(n)' => Shows(n)
    BY <1>0, <2>1, ShowsFewer DEF Drain
  <2> QED
    BY <1>0, <1>1, <1>3, <2>2, CardStays DEF TypeOK
<1>4. CASE Ask(m)
  <2>1. /\ drain'[c] = [drain[c] EXCEPT !.cur = m, !.st = st]
        /\ \A x \in Callers : x # c => drain'[x] = drain[x]
    BY <1>0, <1>2 DEF Goes
  <2>2. drain'[c].cur = m
    BY <1>0, <2>1 DEF Drain
  <2>3. \A n : n # m /\ Shows(n)' => Shows(n)
    BY <2>1, <2>2 DEF Shows
  <2>4. /\ kind[m] = "question" => asked'[m]
        /\ \A n \in Msgs : n # m => asked'[n] = asked[n]
        /\ asked'[m] => asked[m] \/ kind[m] = "question"
        /\ \A n \in Msgs : asked[n] => asked'[n]
    BY <1>0, <1>4 DEF Ask
  <2>5. CardKept'
    BY <1>1, <2>3, <2>4 DEF CardInv, CardKept
  <2>6. m \in Due(drain[c].sess)
    BY <1>0, <1>1, <1>2 DEF Owned, Fresh, Busy, Draining
  <2>7. ~Accepted(m)
    <3> SUFFICES ASSUME NEW x \in Callers, drain[x].st = "accepted", drain[x].cur = m PROVE FALSE
      BY DEF Accepted
    <3>1. SessionOf[m] = drain[x].sess /\ SessionOf[m] = drain[c].sess
      BY <1>0, <2>6, CurrentDue DEF Trying, Due
    <3>2. Busy(x) /\ Busy(c) /\ x # c
      BY <1>1 DEF Busy, Draining, Trying
    <3> QED
      BY <1>0, <3>1, <3>2 DEF Owned, Exclusive
  <2>8. effects[m] <= unsure[m] /\ effects[m] \in Nat /\ unsure[m] \in Nat
    BY <1>0, <2>6, <2>7 DEF Accounted, Due, TypeOK
  <2>9. AnswersCounted'
    BY <1>1, <2>4, <2>8 DEF CardInv, AnswersCounted
  <2> QED
    BY <2>5, <2>9 DEF CardInv
<1> QED
  BY <1>2, <1>3, <1>4

LEMMA CardCaller ==
    ASSUME DeliveryInv, TypeOK', CardInv, NEW c \in Callers, CallerStep(c) PROVE CardInv'
<1>0. /\ TypeOK /\ Owned /\ drain \in [Callers -> Drain] /\ drain[c] \in Drain
      /\ effects \in [Msgs -> Nat] /\ unsure \in [Msgs -> Nat]
  BY DEF DeliveryInv, TypeOK
<1>1. ASSUME UNCHANGED <<out, kind, asked, effects, answers, unsure>>,
             \A m : Shows(m)' => Shows(m)
      PROVE  CardInv'
  BY <1>0, <1>1, CardStays
<1>2. CASE Visit(c)
  <2>1. PICK s \in drain[c].visit : Skip(c, s) \/ Enter(c, s)
    BY <1>2 DEF Visit
  <2>2. \A m : Shows(m)' => Shows(m)
    <3>1. CASE Skip(c, s)
      <4>1. Visiting(drain[c].visit \ {s}).st \notin {"sending", "accepted"}
        BY DEF Visiting
      <4> QED
        BY <1>0, <3>1, <4>1, ShowsFewer DEF Skip
    <3>2. CASE Enter(c, s)
      BY <1>0, <3>2, ShowsFewer DEF Enter
    <3> QED
      BY <2>1, <3>1, <3>2
  <2> QED
    BY <1>1, <1>2, <2>2 DEF Visit, diskVars, histVars
<1>3. CASE VisitFails(c)
  BY <1>0, <1>1, <1>3, ShowsFewer DEF VisitFails, Idle, diskVars
<1>4. CASE Attempt(c)
  BY <1>4, CardAttempt
<1>5. CASE Accept(c)
  <2> DEFINE m == drain[c].cur
  <2>1. drain[c].st = "sending" /\ UNCHANGED <<out, kind, asked, answers, unsure>>
    BY <1>5 DEF Accept, At, diskVars
  <2>2. m \in Msgs /\ out[m] > 0 /\ Shows(m)
    BY <1>0, <2>1, CurrentDue DEF Trying, Shows
  <2>3. effects'[m] = effects[m] + 1 /\ \A n \in Msgs : n # m => effects'[n] = effects[n]
    BY <1>0, <1>5, <2>2 DEF Accept
  <2>4. \A n : Shows(n)' => Shows(n)
    BY <1>0, <1>5, <2>1, ShowsFewer DEF Accept, Drain
  <2>5. \A n \in Msgs : effects[n] \in Nat
    BY <1>0
  <2>6. CardKept'
    BY <2>1, <2>2, <2>3, <2>4, <2>5 DEF CardInv, CardKept
  <2>7. AnswersCounted'
    BY <2>1, <2>2, <2>3, <2>5 DEF CardInv, AnswersCounted
  <2> QED
    BY <2>6, <2>7 DEF CardInv
<1>6. CASE Reject(c)
  BY <1>0, <1>1, <1>6, ShowsFewer DEF Reject, Drain, diskVars, histVars
<1>7. CASE Delivered(c)
  BY <1>0, <1>1, <1>7, AdvanceShowsFewer DEF Delivered, histVars
<1>8. CASE Threw(c)
  <2>1. drain[c].cur \in Msgs
    BY <1>0, <1>8, CurrentDue DEF Threw, At, Trying
  <2>2. \A m \in Msgs : unsure'[m] >= unsure[m]
    BY <1>0, <1>8, <2>1 DEF Threw
  <2> QED
    BY <1>0, <1>8, <2>2, AdvanceShowsFewer, CardStays DEF Threw
<1> QED
  BY <1>2, <1>3, <1>4, <1>5, <1>6, <1>7, <1>8 DEF CallerStep

LEMMA CardOther ==
    ASSUME DeliveryInv, TypeOK', CardInv,
           \/ \E m \in Msgs : Write(m) \/ Answer(m)
           \/ \E p \in {"active", "sweep"} : StartPoll(p)
           \/ \E s \in Sessions : Wake(s)
           \/ HostStops \/ HostStarts
    PROVE  CardInv'
<1>0. /\ TypeOK /\ Owned /\ drain \in [Callers -> Drain] /\ out \in [Msgs -> Nat]
      /\ effects \in [Msgs -> Nat] /\ unsure \in [Msgs -> Nat] /\ answers \in [Msgs -> Nat]
      /\ asked \in [Msgs -> BOOLEAN]
      /\ kind \in [Msgs -> {"chat", "question", "unrouted"}]
  BY DEF DeliveryInv, TypeOK
<1>1. ASSUME UNCHANGED <<out, kind, asked, effects, answers, unsure>>,
             \A m : Shows(m)' => Shows(m)
      PROVE  CardInv'
  BY <1>0, <1>1, CardStays
<1>2. ASSUME NEW m \in Msgs, Write(m) PROVE CardInv'
  <2>1. /\ out[m] = 0 /\ \A n \in Msgs : n # m => out'[n] = out[n] /\ kind'[n] = kind[n]
        /\ UNCHANGED <<asked, effects, answers, unsure, drain>>
    BY <1>0, <1>2 DEF Write, diskVars, hostVars, histVars
  <2>2. \A n : Shows(n)' = Shows(n)
    BY <2>1 DEF Shows
  <2>3. ~Shows(m) /\ effects[m] = 0
    BY <1>0, <2>1, CurrentDue DEF Shows, Trying, CardInv, CardKept
  <2>4. CardKept'
    BY <2>1, <2>2, <2>3 DEF CardInv, CardKept
  <2> QED
    BY <2>1, <2>4 DEF CardInv, AnswersCounted
<1>3. ASSUME NEW m \in Msgs, Answer(m) PROVE CardInv'
  <2>1. /\ effects[m] > 0 /\ asked[m] /\ UNCHANGED <<out, kind, effects, unsure, drain>>
        /\ answers'[m] = answers[m] + 1 /\ ~asked'[m]
        /\ \A n \in Msgs : n # m => asked'[n] = asked[n] /\ answers'[n] = answers[n]
    BY <1>0, <1>3 DEF Answer, hostVars
  <2>2. \A n : Shows(n)' = Shows(n)
    BY <2>1 DEF Shows
  <2>3. \A n \in Msgs : answers[n] \in Nat
    BY <1>0
  <2>4. CardKept'
    BY <2>1, <2>2, <2>3 DEF CardInv, CardKept
  <2>5. AnswersCounted'
    BY <2>1, <2>3 DEF CardInv, AnswersCounted
  <2> QED
    BY <2>4, <2>5 DEF CardInv
<1>4. ASSUME NEW c \in Callers, NEW S, drain' = [drain EXCEPT ![c] = Visiting(S)]
      PROVE  \A m : Shows(m)' => Shows(m)
  BY <1>0, <1>4, ShowsFewer DEF Visiting
<1>5. ASSUME NEW p \in {"active", "sweep"}, StartPoll(p) PROVE CardInv'
  BY <1>1, <1>4, <1>5 DEF StartPoll, Callers, diskVars, histVars
<1>6. ASSUME NEW s \in Sessions, Wake(s) PROVE CardInv'
  BY <1>1, <1>4, <1>6 DEF Wake, Callers, diskVars, histVars
<1>7. CASE HostStops
  <2> DEFINE cur(st) == {m \in Msgs : \E c \in Callers : drain[c].st = st /\ drain[c].cur = m}
  <2>1. PICK landed \in SUBSET cur("sending") :
           /\ effects' = [m \in Msgs |-> IF m \in landed THEN effects[m] + 1 ELSE effects[m]]
           /\ unsure' = [m \in Msgs |-> IF m \in landed \cup cur("accepted")
                                        THEN unsure[m] + 1 ELSE unsure[m]]
    BY <1>7 DEF HostStops
  <2>2. UNCHANGED <<out, kind, asked, answers>> /\ drain' = [c \in Callers |-> Idle]
    BY <1>7 DEF HostStops, diskVars
  <2>3. \A m : ~Shows(m)'
    BY <2>2 DEF Shows, Idle
  <2> SUFFICES ASSUME NEW m \in Msgs
               PROVE  /\ kind[m] = "question" /\ answers[m] = 0 /\ effects'[m] > 0 => asked[m]
                      /\ out[m] = 0 => effects'[m] = 0
                      /\ answers[m] > 0 => effects'[m] > 0
                      /\ answers[m] > 0 /\ asked[m] => unsure'[m] > 0
                      /\ answers[m] > 1 => unsure'[m] > 0
    BY <2>2, <2>3 DEF CardInv, CardKept, AnswersCounted
  <2>4. effects[m] \in Nat /\ unsure[m] \in Nat
    BY <1>0
  <2>5. effects'[m] >= effects[m] /\ unsure'[m] >= unsure[m]
    BY <2>1, <2>4
  <2>6. m \in landed => Shows(m) /\ out[m] > 0
    BY <1>0, CurrentDue DEF Shows, Trying
  <2>7. m \notin landed => effects'[m] = effects[m]
    BY <2>1
  <2>8. /\ kind[m] = "question" /\ answers[m] = 0 /\ (effects[m] > 0 \/ Shows(m)) => asked[m]
        /\ out[m] = 0 => effects[m] = 0
    BY DEF CardInv, CardKept
  <2>9. /\ answers[m] > 0 => effects[m] > 0
        /\ answers[m] > 0 /\ asked[m] => unsure[m] > 0
        /\ answers[m] > 1 => unsure[m] > 0
    BY DEF CardInv, AnswersCounted
  <2>10. effects'[m] \in Nat /\ unsure'[m] \in Nat
    BY DEF TypeOK
  <2> QED
    BY <2>4, <2>5, <2>6, <2>7, <2>8, <2>9, <2>10
<1>8. CASE HostStarts
  BY <1>1, <1>8 DEF HostStarts, Shows, diskVars, histVars
<1> QED
  BY <1>2, <1>3, <1>5, <1>6, <1>7, <1>8

LEMMA CardInvInit == Init => CardInv
  BY DEF Init, Idle, CardInv, CardKept, AnswersCounted, Shows

LEMMA CardInvNext == DeliveryInv /\ CardInv /\ [Next]_vars => CardInv'
<1> SUFFICES ASSUME DeliveryInv, CardInv, [Next]_vars PROVE CardInv'
  OBVIOUS
<1>1. TypeOK /\ TypeOK'
  BY TypeNext DEF DeliveryInv
<1>2. CASE UNCHANGED vars
  BY <1>1, <1>2 DEF vars, CardInv, CardKept, AnswersCounted, Shows
<1>3. CASE Next
  BY <1>1, <1>3, CardCaller, CardOther DEF Next
<1> QED
  BY <1>2, <1>3

(* A card on the user's screen has its row until an answer has been taken: *)
(* createPendingQuestion comes before the await of the adapter, and a      *)
(* click drops the row of a card that took effect, never of one on its way.*)
THEOREM CardsCanBeAnswered == Spec => []CardsAnswerable
<1>1. CardInv => CardsAnswerable
  BY DEF CardInv, CardKept, CardsAnswerable
<1> QED
  BY <1>1, DeliveryInvInit, DeliveryInvNext, CardInvInit, CardInvNext, PTL DEF Spec

(* An agent is answered twice only after the host lost track of the card:  *)
(* the row that a second answer takes was written by a retry, and what is  *)
(* retried had taken effect without the host learning it.                  *)
THEOREM AnswersAreSingle == Spec => []AnsweredOnce
<1>1. CardInv => AnsweredOnce
  BY DEF CardInv, AnswersCounted, AnsweredOnce
<1> QED
  BY <1>1, DeliveryInvInit, DeliveryInvNext, CardInvInit, CardInvNext, PTL DEF Spec

-----------------------------------------------------------------------------
(* Order.  A drain tries the first of the rows it still has, and what is   *)
(* due in its session and not on its list was written later than all of    *)
(* the list, or threw.                                                     *)

Placed == \A m \in Msgs : out[m] <= Cardinality(Written)

Ordered ==
    \A c \in Callers :
       /\ drain[c].st \in Trying => IsFirst(drain[c].cur, drain[c].todo)
       /\ drain[c].st \in Draining =>
             \A n \in Due(drain[c].sess) \ drain[c].todo : \A k \in drain[c].todo :
                out[n] < out[k] => throws[n] > 0

OrderInv == Placed /\ Ordered

\* a drain that keeps its list, or loses from it only rows that are due no more or
\* threw, or has just read it
LEMMA OrderedStays ==
    ASSUME DeliveryInv, TypeOK', OrderInv, UNCHANGED out,
           \A m \in Msgs : status[m] # "none" => status'[m] # "none",
           \A m \in Msgs : throws'[m] >= throws[m],
           \A c \in Callers :
              \/ drain'[c].st \notin Draining
              \/ drain'[c] = drain[c]
              \/ drain'[c].st = "next" /\ drain'[c].todo = Due(drain'[c].sess)
              \/ /\ drain[c].st \in Draining /\ drain'[c].sess = drain[c].sess
                 /\ drain'[c].todo \subseteq drain[c].todo
                 /\ \A n \in drain[c].todo \ drain'[c].todo : status'[n] # "none" \/ throws'[n] > 0
                 /\ drain'[c].st \in Trying => IsFirst(drain'[c].cur, drain'[c].todo)
    PROVE  OrderInv'
<1>0. \A m \in Msgs : throws[m] \in Nat /\ throws'[m] \in Nat
  BY DEF DeliveryInv, TypeOK
<1>1. \A s : Due(s)' \subseteq Due(s)
  BY DEF Due, Written, DeliveryInv, TypeOK
<1>2. Placed'
  BY DEF OrderInv, Placed, Written
<1>3. ASSUME NEW c \in Callers, drain'[c].st \in Trying
      PROVE  IsFirst(drain[c].cur, drain[c].todo)'
  BY <1>3 DEF OrderInv, Ordered, IsFirst, Draining, Trying
<1>4. ASSUME NEW c \in Callers, drain'[c].st \in Draining,
             NEW n \in Due(drain[c].sess)' \ drain'[c].todo, NEW k \in drain'[c].todo,
             out[n] < out[k]
      PROVE  throws'[n] > 0
  <2>1. n \in Msgs /\ n \in Due(drain'[c].sess) /\ status'[n] = "none"
    BY <1>1, <1>4 DEF Due, Written
  <2>2. /\ drain[c].st \in Draining /\ drain'[c].sess = drain[c].sess /\ k \in drain[c].todo
        /\ \A x \in drain[c].todo \ drain'[c].todo : status'[x] # "none" \/ throws'[x] > 0
    BY <1>4, <2>1
  <2>3. CASE n \in drain[c].todo
    BY <1>4, <2>1, <2>2, <2>3
  <2>4. CASE n \notin drain[c].todo
    <3>1. throws[n] > 0
      BY <1>4, <2>1, <2>2, <2>4 DEF OrderInv, Ordered
    <3> QED
      BY <1>0, <2>1, <3>1
  <2> QED
    BY <2>3, <2>4
<1>5. Ordered'
  BY <1>3, <1>4 DEF Ordered
<1> QED
  BY <1>2, <1>5 DEF OrderInv

\* a row that is written comes after every other
LEMMA OrderedWrite ==
    ASSUME DeliveryInv, OrderInv, NEW m \in Msgs, Write(m) PROVE OrderInv'
<1>0. TypeOK /\ Owned /\ out \in [Msgs -> Nat]
  BY DEF DeliveryInv, TypeOK
<1>1. /\ out[m] = 0 /\ out'[m] = Cardinality(Written) + 1
      /\ \A n \in Msgs : n # m => out'[n] = out[n]
      /\ UNCHANGED <<status, drain, throws>>
  BY <1>0 DEF Write, diskVars, hostVars, histVars
<1>2. Cardinality(Written) \in Nat
  BY WrittenFinite
<1>3. Written' = Written \cup {m} /\ m \notin Written
  BY <1>0, <1>1, <1>2 DEF Written
<1>4. Cardinality(Written') = Cardinality(Written) + 1
  <2>1. IsFiniteSet(Written)
    BY FiniteAssumption, FS_Subset DEF Written
  <2> QED
    BY <1>3, <2>1, FS_AddElement
<1>5. Placed'
  <2> SUFFICES ASSUME NEW n \in Msgs PROVE out'[n] <= Cardinality(Written')
    BY DEF Placed
  <2>1. out[n] \in Nat /\ out[n] <= Cardinality(Written)
    BY <1>0 DEF OrderInv, Placed
  <2> QED
    BY <1>1, <1>2, <1>4, <2>1
<1>6. \A c \in Callers : drain[c].st \in Draining => m \notin drain[c].todo /\ drain[c].todo \subseteq Written
  BY <1>0, <1>3 DEF Owned, Fresh, Busy, Due
<1>7. ASSUME NEW c \in Callers, drain[c].st \in Trying
      PROVE  IsFirst(drain[c].cur, drain[c].todo)'
  <2>1. IsFirst(drain[c].cur, drain[c].todo) /\ drain[c].todo \subseteq Msgs /\ m \notin drain[c].todo
    BY <1>6, <1>7 DEF OrderInv, Ordered, Draining, Written
  <2> QED
    BY <1>1, <2>1 DEF IsFirst
<1>8. ASSUME NEW c \in Callers, drain[c].st \in Draining,
             NEW n \in Due(drain[c].sess)' \ drain[c].todo, NEW k \in drain[c].todo,
             out'[n] < out'[k]
      PROVE  throws[n] > 0
  <2>1. k \in Msgs /\ k # m /\ out'[k] = out[k] /\ n \in Msgs
    BY <1>1, <1>6, <1>8 DEF Written, Due
  <2>2. out[k] \in Nat /\ out[k] <= Cardinality(Written)
    BY <1>0, <2>1 DEF OrderInv, Placed
  <2>3. n # m
    BY <1>1, <1>2, <1>8, <2>1, <2>2
  <2>4. out'[n] = out[n] /\ n \in Due(drain[c].sess)
    BY <1>1, <1>8, <2>1, <2>3 DEF Due, Written
  <2> QED
    BY <1>8, <2>1, <2>4 DEF OrderInv, Ordered
<1>9. Ordered'
  BY <1>1, <1>7, <1>8 DEF Ordered
<1> QED
  BY <1>5, <1>9 DEF OrderInv

\* the rest of a list, once the row that was tried is recorded or threw
LEMMA OrderedAdvance ==
    ASSUME DeliveryInv, TypeOK', OrderInv, NEW c \in Callers, drain[c].st \in Trying, Advance(c),
           UNCHANGED out,
           status'[drain[c].cur] # "none" \/ throws'[drain[c].cur] > 0,
           \A m \in Msgs : status[m] # "none" => status'[m] # "none",
           \A m \in Msgs : throws'[m] >= throws[m]
    PROVE  OrderInv'
<1> DEFINE d == drain[c]
<1>0. drain \in [Callers -> Drain] /\ d \in Drain
  BY DEF DeliveryInv, TypeOK
<1>1. \A x \in Callers : x # c => drain'[x] = drain[x]
  BY <1>0 DEF Advance
<1>2. \/ drain'[c] = Visiting(d.visit)
      \/ drain'[c] = [d EXCEPT !.todo = d.todo \ {d.cur}, !.cur = None, !.st = "next"]
  BY <1>0 DEF Advance
<1>3. CASE drain'[c] = Visiting(d.visit)
  <2>1. drain'[c].st \notin Draining
    BY <1>3 DEF Visiting, Draining, Trying
  <2> QED
    BY <1>1, <2>1, OrderedStays
<1>4. CASE drain'[c] = [d EXCEPT !.todo = d.todo \ {d.cur}, !.cur = None, !.st = "next"]
  <2>1. drain'[c].sess = d.sess /\ drain'[c].todo = d.todo \ {d.cur} /\ drain'[c].st = "next"
    BY <1>0, <1>4 DEF Drain
  <2>2. /\ d.st \in Draining /\ drain'[c].st \notin Trying
        /\ \A n \in d.todo \ drain'[c].todo : status'[n] # "none" \/ throws'[n] > 0
    BY <2>1 DEF Draining, Trying
  <2> QED
    BY <1>1, <2>1, <2>2, OrderedStays
<1> QED
  BY <1>2, <1>3, <1>4

LEMMA OrderCaller ==
    ASSUME DeliveryInv, TypeOK', OrderInv, NEW c \in Callers, CallerStep(c) PROVE OrderInv'
<1>0. /\ TypeOK /\ Owned /\ drain \in [Callers -> Drain] /\ drain[c] \in Drain
      /\ throws \in [Msgs -> Nat] /\ status \in [Msgs -> {"none", "delivered", "failed"}]
  BY DEF DeliveryInv, TypeOK
<1>1. ASSUME UNCHANGED <<out, status, throws>>, NEW d, drain' = [drain EXCEPT ![c] = d],
             \/ d.st \notin Draining
             \/ d.st = "next" /\ d.todo = Due(d.sess)
             \/ /\ drain[c].st \in Draining /\ d.sess = drain[c].sess /\ d.todo = drain[c].todo
                /\ d.st \in Trying => IsFirst(d.cur, d.todo)
      PROVE  OrderInv'
  <2>1. drain'[c] = d /\ \A x \in Callers : x # c => drain'[x] = drain[x]
    BY <1>0, <1>1
  <2>2. \A m \in Msgs : throws'[m] >= throws[m]
    BY <1>0, <1>1
  <2> QED
    BY <1>1, <2>1, <2>2, OrderedStays
<1>2. CASE Visit(c)
  <2>1. PICK s \in drain[c].visit : Skip(c, s) \/ Enter(c, s)
    BY <1>2 DEF Visit
  <2>2. UNCHANGED <<out, status, throws>>
    BY <1>2 DEF Visit, diskVars, histVars
  <2>3. CASE Skip(c, s)
    <3>1. Visiting(drain[c].visit \ {s}).st \notin Draining
      BY DEF Visiting, Draining, Trying
    <3> QED
      BY <1>1, <2>2, <2>3, <3>1 DEF Skip
  <2>4. CASE Enter(c, s)
    BY <1>1, <2>2, <2>4 DEF Enter
  <2> QED
    BY <2>1, <2>3, <2>4
<1>3. CASE VisitFails(c)
  BY <1>1, <1>3 DEF VisitFails, Idle, Draining, Trying, diskVars
<1>4. CASE Attempt(c)
  <2>1. PICK m \in Msgs, st \in Trying : IsFirst(m, drain[c].todo) /\ Goes(c, m, st)
    BY <1>4 DEF Attempt, Trying
  <2> DEFINE d == [drain[c] EXCEPT !.cur = m, !.st = st]
  <2>2. d.sess = drain[c].sess /\ d.todo = drain[c].todo /\ d.cur = m
    BY <1>0 DEF Drain
  <2>3. drain' = [drain EXCEPT ![c] = d]
    BY <2>1 DEF Goes
  <2>4. UNCHANGED <<out, status, throws>> /\ drain[c].st \in Draining
    BY <1>4 DEF Attempt, At, Draining, histVars
  <2> HIDE DEF d
  <2> QED
    BY <1>1, <2>1, <2>2, <2>3, <2>4
<1>5. ASSUME NEW st \in Trying, drain' = [drain EXCEPT ![c] = [@ EXCEPT !.st = st]],
             drain[c].st \in Trying, UNCHANGED <<out, status, throws>>
      PROVE  OrderInv'
  <2> DEFINE d == [drain[c] EXCEPT !.st = st]
  <2>1. d.sess = drain[c].sess /\ d.todo = drain[c].todo /\ d.cur = drain[c].cur
    BY <1>0 DEF Drain
  <2>2. IsFirst(d.cur, d.todo) /\ drain[c].st \in Draining /\ drain' = [drain EXCEPT ![c] = d]
    BY <1>5, <2>1 DEF OrderInv, Ordered, Draining
  <2> HIDE DEF d
  <2> QED
    BY <1>1, <1>5, <2>1, <2>2
<1>6. CASE Accept(c)
  BY <1>5, <1>6 DEF Accept, At, Trying, diskVars
<1>7. CASE Reject(c)
  BY <1>5, <1>7 DEF Reject, At, Trying, diskVars, histVars
<1>8. CASE Delivered(c)
  <2>1. drain[c].st \in Trying /\ drain[c].cur \in Msgs
    BY <1>0, <1>8, CurrentDue DEF Delivered, At, Trying
  <2>2. UNCHANGED <<out, throws>> /\ Advance(c) /\ status' = [status EXCEPT ![drain[c].cur] = "delivered"]
    BY <1>8 DEF Delivered, histVars
  <2>3. status'[drain[c].cur] # "none" /\ \A m \in Msgs : status[m] # "none" => status'[m] # "none"
    BY <1>0, <2>1, <2>2
  <2>4. \A m \in Msgs : throws'[m] >= throws[m]
    BY <1>0, <2>2
  <2> QED
    BY <2>1, <2>2, <2>3, <2>4, OrderedAdvance
<1>9. CASE Threw(c)
  <2>1. drain[c].st \in Trying /\ drain[c].cur \in Msgs
    BY <1>0, <1>9, CurrentDue DEF Threw, At, Trying
  <2>2. UNCHANGED out /\ Advance(c) /\ throws' = [throws EXCEPT ![drain[c].cur] = @ + 1]
    BY <1>9 DEF Threw
  <2>3. throws'[drain[c].cur] > 0 /\ \A m \in Msgs : throws'[m] >= throws[m]
    BY <1>0, <2>1, <2>2
  <2>4. \A m \in Msgs : status[m] # "none" => status'[m] # "none"
    BY <1>0, <1>9, <2>1 DEF Threw, CountAttempt
  <2> QED
    BY <2>1, <2>2, <2>3, <2>4, OrderedAdvance
<1> QED
  BY <1>2, <1>3, <1>4, <1>6, <1>7, <1>8, <1>9 DEF CallerStep

LEMMA OrderInvInit == Init => OrderInv
<1> SUFFICES ASSUME Init PROVE OrderInv
  OBVIOUS
<1>1. Ordered
  BY DEF Init, Ordered, Idle, Draining, Trying
<1>2. Placed
  BY WrittenFinite DEF Init, Placed
<1> QED
  BY <1>1, <1>2 DEF OrderInv

LEMMA OrderInvNext == DeliveryInv /\ OrderInv /\ [Next]_vars => OrderInv'
<1> SUFFICES ASSUME DeliveryInv, OrderInv, [Next]_vars PROVE OrderInv'
  OBVIOUS
<1>0. TypeOK /\ TypeOK' /\ throws \in [Msgs -> Nat] /\ drain \in [Callers -> Drain]
  BY TypeNext DEF DeliveryInv, TypeOK
<1>1. ASSUME UNCHANGED <<out, status, throws>>,
             \A c \in Callers : drain'[c] = drain[c] \/ drain'[c].st \notin Draining
      PROVE  OrderInv'
  <2>1. \A m \in Msgs : throws'[m] >= throws[m]
    BY <1>0, <1>1
  <2> QED
    BY <1>0, <1>1, <2>1, OrderedStays
<1>2. ASSUME NEW c \in Callers, NEW S, drain' = [drain EXCEPT ![c] = Visiting(S)]
      PROVE  \A x \in Callers : drain'[x] = drain[x] \/ drain'[x].st \notin Draining
  BY <1>0, <1>2 DEF Visiting, Draining, Trying
<1>3. CASE UNCHANGED vars
  BY <1>1, <1>3 DEF vars
<1>4. ASSUME NEW m \in Msgs, Write(m) PROVE OrderInv'
  BY <1>4, OrderedWrite
<1>5. ASSUME NEW m \in Msgs, Answer(m) PROVE OrderInv'
  BY <1>1, <1>5 DEF Answer, hostVars
<1>6. ASSUME NEW p \in {"active", "sweep"}, StartPoll(p) PROVE OrderInv'
  BY <1>1, <1>2, <1>6 DEF StartPoll, Callers, diskVars, histVars
<1>7. ASSUME NEW s \in Sessions, Wake(s) PROVE OrderInv'
  BY <1>1, <1>2, <1>7 DEF Wake, Callers, diskVars, histVars
<1>8. CASE HostStops
  <2>1. drain' = [c \in Callers |-> Idle] /\ UNCHANGED <<out, status, throws>>
    BY <1>8 DEF HostStops, diskVars
  <2> QED
    BY <1>1, <2>1 DEF Idle, Draining, Trying
<1>9. CASE HostStarts
  BY <1>1, <1>9 DEF HostStarts, diskVars, histVars
<1> QED
  BY <1>0, <1>3, <1>4, <1>5, <1>6, <1>7, <1>8, <1>9, OrderCaller DEF Next

\* what a caller is sending is the first of its session's rows that have not thrown
LEMMA SendingFirst ==
    ASSUME DeliveryInv, OrderInv, NEW c \in Callers, drain[c].st \in Trying,
           NEW n \in Due(SessionOf[drain[c].cur]), out[n] < out[drain[c].cur]
    PROVE  throws[n] > 0
<1>1. /\ drain[c].cur \in Msgs /\ drain[c].cur \in drain[c].todo
      /\ SessionOf[drain[c].cur] = drain[c].sess
  BY CurrentDue DEF DeliveryInv
<1>2. IsFirst(drain[c].cur, drain[c].todo) /\ drain[c].st \in Draining
  BY DEF OrderInv, Ordered, Draining
<1>3. n \in Msgs /\ out[n] \in Nat /\ out[drain[c].cur] \in Nat
  BY <1>1 DEF Due, Written, DeliveryInv, TypeOK
<1>4. n \notin drain[c].todo
  BY <1>2, <1>3 DEF IsFirst
<1> QED
  BY <1>1, <1>2, <1>4 DEF OrderInv, Ordered

LEMMA InOrderStep ==
    ASSUME DeliveryInv, OrderInv, Next, NEW m \in Msgs, effects'[m] > effects[m],
           NEW n \in Due(SessionOf[m]), out[n] < out[m]
    PROVE  throws[n] > 0
<1>0. TypeOK /\ Owned /\ effects[m] \in Nat /\ effects \in [Msgs -> Nat]
  BY DEF DeliveryInv, TypeOK
<1>1. \/ \E c \in Callers : Accept(c)
      \/ HostStops
      \/ UNCHANGED effects
  BY DEF Next, CallerStep, Write, Answer, StartPoll, Wake, Visit, VisitFails, Attempt, Reject,
         Delivered, Threw, HostStarts, histVars
<1>2. ASSUME NEW c \in Callers, drain[c].st = "sending", drain[c].cur = m PROVE throws[n] > 0
  BY <1>2, SendingFirst DEF Trying
<1>3. ASSUME NEW c \in Callers, Accept(c) PROVE throws[n] > 0
  <2>1. drain[c].st = "sending" /\ drain[c].cur = m
    BY <1>0, <1>3 DEF Accept, At
  <2> QED
    BY <1>2, <2>1
<1>4. CASE HostStops
  <2>1. \E c \in Callers : drain[c].st = "sending" /\ drain[c].cur = m
    BY <1>0, <1>4 DEF HostStops
  <2> QED
    BY <1>2, <2>1
<1>5. CASE UNCHANGED effects
  BY <1>0, <1>5
<1> QED
  BY <1>1, <1>3, <1>4, <1>5

(* Messages of one session take effect in the order they were written,     *)
(* except that one whose delivery threw may be overtaken: each drain goes  *)
(* through its rows in order (getDueOutboundMessages), no other drain of   *)
(* the session runs beside it, and rows written meanwhile come later.      *)
THEOREM SentInOrder == Spec => InOrder
<1> DEFINE A == \A m \in Msgs : effects'[m] > effects[m] =>
                   \A n \in Due(SessionOf[m]) : out[n] < out[m] => throws[n] > 0
<1>1. DeliveryInv /\ OrderInv /\ [Next]_vars => [A]_vars
  BY InOrderStep
<1>2. Spec => [][A]_vars
  BY <1>1, DeliveryInvInit, DeliveryInvNext, OrderInvInit, OrderInvNext, PTL DEF Spec
<1> QED
  BY <1>2 DEF InOrder

-----------------------------------------------------------------------------
(* The refinement of Outbox, its safety                                    *)

LEMMA PromiseInit == Init => Promise!Init
  BY DEF Init, Promise!Init, Written

\* steps the promise does not see
LEMMA PromiseStutter ==
    ASSUME UNCHANGED <<out, status, effects>>
    PROVE  UNCHANGED Promise!vars
  BY DEF Promise!vars, Written

\* rows that are tried are waiting
LEMMA TriedWaits ==
    ASSUME TypeOK, Owned, NEW c \in Callers, drain[c].st \in Trying
    PROVE  drain[c].cur \in Promise!Waiting
  BY CurrentDue DEF Promise!Waiting, Written

LEMMA PromiseRecord ==
    ASSUME TypeOK, Owned, NEW c \in Callers, drain[c].st \in Trying, UNCHANGED <<out, effects>>,
           NEW how \in {"delivered", "failed"}, status' = [status EXCEPT ![drain[c].cur] = how]
    PROVE  Promise!Next
<1>1. Promise!Record(drain[c].cur, how)
  BY DEF Promise!Record, Written
<1> QED
  BY <1>1, TriedWaits DEF Promise!Next

LEMMA PromiseStep == ASSUME DeliveryInv, Next PROVE Promise!Next \/ UNCHANGED Promise!vars
<1>0. TypeOK /\ Owned /\ effects \in [Msgs -> Nat] /\ status \in [Msgs -> {"none", "delivered", "failed"}]
  BY DEF DeliveryInv, TypeOK
<1>1. ASSUME NEW m \in Msgs, Write(m) PROVE Promise!Next
  <2>1. out[m] = 0 /\ out' = [out EXCEPT ![m] = Cardinality(Written) + 1] /\ UNCHANGED <<status, effects>>
    BY <1>1 DEF Write, diskVars, histVars
  <2>2. out'[m] > 0 /\ \A n \in Msgs : n # m => out'[n] = out[n]
    BY <1>0, <2>1, WrittenFinite DEF TypeOK
  <2>3. m \notin Written /\ Written' = Written \cup {m}
    BY <2>1, <2>2 DEF Written
  <2>4. Promise!Write(m)
    BY <2>1, <2>3 DEF Promise!Write
  <2> QED
    BY <2>4 DEF Promise!Next
<1>2. ASSUME NEW m \in Msgs, Answer(m) PROVE UNCHANGED Promise!vars
  BY <1>2, PromiseStutter DEF Answer
<1>3. ASSUME NEW p, StartPoll(p) \/ Wake(p) PROVE UNCHANGED Promise!vars
  BY <1>3, PromiseStutter DEF StartPoll, Wake, diskVars, histVars
<1>4. ASSUME NEW c, Visit(c) \/ VisitFails(c) \/ Attempt(c) \/ Reject(c) PROVE UNCHANGED Promise!vars
  BY <1>4, PromiseStutter DEF Visit, VisitFails, Attempt, Reject, diskVars, histVars
<1>5. ASSUME NEW c \in Callers, Accept(c) PROVE Promise!Next
  <2> DEFINE m == drain[c].cur
  <2>1. m \in Promise!Waiting /\ m \in Msgs
    BY <1>0, <1>5, TriedWaits, CurrentDue DEF Accept, At, Trying
  <2>2. effects' = [n \in Msgs |-> IF n \in {m} THEN effects[n] + 1 ELSE effects[n]]
    BY <1>0, <1>5, <2>1 DEF Accept
  <2>3. UNCHANGED <<Written, status>>
    BY <1>5 DEF Accept, diskVars, Written
  <2>4. Promise!TakeEffect({m})
    BY <2>2, <2>3 DEF Promise!TakeEffect
  <2> QED
    BY <2>1, <2>4 DEF Promise!Next
<1>6. ASSUME NEW c \in Callers, Delivered(c) PROVE Promise!Next
  BY <1>0, <1>6, PromiseRecord DEF Delivered, At, Trying, histVars
<1>7. ASSUME NEW c \in Callers, Threw(c) PROVE Promise!Next \/ UNCHANGED Promise!vars
  <2>1. drain[c].st \in Trying /\ CountAttempt(drain[c].cur) /\ UNCHANGED <<out, effects>>
    BY <1>7 DEF Threw, At, Trying
  <2>2. \/ status' = [status EXCEPT ![drain[c].cur] = "failed"]
        \/ UNCHANGED status
    BY <2>1 DEF CountAttempt
  <2> QED
    BY <1>0, <2>1, <2>2, PromiseRecord, PromiseStutter
<1>8. CASE HostStops
  <2> DEFINE cur(st) == {m \in Msgs : \E c \in Callers : drain[c].st = st /\ drain[c].cur = m}
  <2>1. PICK landed \in SUBSET cur("sending") :
           effects' = [m \in Msgs |-> IF m \in landed THEN effects[m] + 1 ELSE effects[m]]
    BY <1>8 DEF HostStops
  <2>2. landed \subseteq Promise!Waiting
    BY <1>0, TriedWaits DEF Trying
  <2>3. UNCHANGED <<Written, status>>
    BY <1>8 DEF HostStops, diskVars, Written
  <2>4. Promise!TakeEffect(landed)
    BY <2>1, <2>3 DEF Promise!TakeEffect
  <2> QED
    BY <2>2, <2>4 DEF Promise!Next
<1>9. CASE HostStarts
  BY <1>9, PromiseStutter DEF HostStarts, diskVars, histVars
<1> QED
  BY <1>1, <1>2, <1>3, <1>4, <1>5, <1>6, <1>7, <1>8, <1>9 DEF Next, CallerStep

(* Delivery keeps the promise of Outbox: a message takes effect only while *)
(* nothing is recorded of it, and is recorded once, as delivered or failed *)
(* (markDelivered, markDeliveryFailed).                                    *)
THEOREM PromiseKept == Spec => KeepsPromise
<1>1. DeliveryInv /\ [Next]_vars => [Promise!Next]_Promise!vars
  BY PromiseStep, PromiseStutter DEF vars
<1> QED
  BY <1>1, PromiseInit, DeliveryInvInit, DeliveryInvNext, PTL DEF Spec, KeepsPromise, Promise!Safe
=============================================================================
