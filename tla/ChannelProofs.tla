---------------------------- MODULE ChannelProofs ----------------------------
(***************************************************************************)
(* What people see of the agent in their channels, proved for any number   *)
(* of messages, ticks, handlers, events and posts: the status pin, the     *)
(* state the chat SDK keeps, the typing line and the status reactions, and *)
(* the text the bridge posts.                                              *)
(***************************************************************************)
EXTENDS Operations, TLAPS

-----------------------------------------------------------------------------
(* The status pin: the invariant follows a message from its post to its    *)
(* pin.  No two ticks have posted the same one (Own), one that is not      *)
(* recorded yet is pinned nowhere and on no list (Unrecorded), and the     *)
(* list a scan works off never names the message of the table (Spared).    *)

PinSeen == posted \cup deleted

PinTyped ==
    /\ tick \in [Ticks -> PinUpdates \cup {None}]
    /\ posted \subseteq Ids /\ deleted \subseteq Ids
    /\ pinned \subseteq PinSeen
    /\ kv \in Ids \cup {None}

PinOwn ==
    /\ kv \in PinSeen \cup {None}
    /\ \A t \in Ticks : tick[t] # None =>
         /\ tick[t].pins \subseteq PinSeen
         /\ tick[t].id # None => tick[t].id \in PinSeen /\ tick[t].at \in {"post", "pin"}
    /\ \A t, u \in Ticks : /\ tick[t] # None /\ tick[u] # None
                           /\ tick[t].id # None /\ tick[t].id = tick[u].id
                           => t = u

PinUnrecorded == \A t \in Ticks : Pin!At(t, "post") /\ tick[t].id # None =>
    /\ tick[t].id \notin pinned
    /\ kv # tick[t].id
    /\ \A u \in Ticks : tick[u] # None => tick[t].id \notin tick[u].pins

PinSpared == \A t \in Ticks : Pin!At(t, "unpin") => kv \notin tick[t].pins

PinInv == PinTyped /\ PinOwn /\ PinUnrecorded /\ PinSpared /\ Pin!CurrentStaysPinned

(* A step of one tick that posts, records and pins nothing.                *)
LEMMA PinQuietStep ==
    ASSUME None \notin Ids, None \notin PinUpdates, PinInv, NEW t \in Ticks,
           NEW k \in PinUpdates \cup {None}, tick' = [tick EXCEPT ![t] = k],
           k # None => /\ k.id = None
                       /\ k.pins \subseteq PinSeen
                       /\ k.at = "unpin" => kv' \notin k.pins
                       /\ \A u \in Ticks : Pin!At(u, "post") /\ tick[u].id # None
                                             => tick[u].id \notin k.pins,
           kv' \in {kv, None}, UNCHANGED <<posted, deleted, unpinned>>,
           pinned' \subseteq pinned
    PROVE  PinInv'
<1> USE DEF PinInv, PinTyped
<1>1. /\ tick' \in [Ticks -> PinUpdates \cup {None}]
      /\ tick'[t] = k
      /\ \A u \in Ticks : u # t => tick'[u] = tick[u]
  OBVIOUS
<1>2. \A u \in Ticks : tick[u] # None => tick[u] \in PinUpdates
  OBVIOUS
<1>3. PinTyped'
  BY <1>1 DEF PinSeen
<1>4. PinOwn'
  BY <1>1, <1>2 DEF PinOwn, PinSeen
<1>5. PinUnrecorded'
  BY <1>1, <1>2 DEF PinOwn, PinUnrecorded, Pin!At
<1>6. PinSpared'
  BY <1>1, <1>2 DEF PinSpared, Pin!At, PinUpdates
<1>7. QED
  BY <1>3, <1>4, <1>5, <1>6 DEF Pin!CurrentStaysPinned

(* A tick that ends is such a step.                                        *)
LEMMA PinEndingStep ==
    ASSUME None \notin Ids, None \notin PinUpdates, PinInv, NEW t \in Ticks, Pin!Ends(t),
           UNCHANGED <<kv, posted, pinned, deleted, unpinned>>
    PROVE  PinInv'
BY PinQuietStep DEF Pin!Ends

(* And so is what follows a scan.                                          *)
LEMMA PinAfterScanStep ==
    ASSUME None \notin Ids, None \notin PinUpdates, PinInv, NEW t \in Ticks,
           NEW k \in PinUpdates, k.id = None, k.pins = {}, k.at # "unpin",
           tick' = [tick EXCEPT ![t] = Pin!AfterScan(k)],
           UNCHANGED <<kv, posted, pinned, deleted, unpinned>>
    PROVE  PinInv'
<1> DEFINE again == [k EXCEPT !.at = "list", !.scan = 2, !.pins = {}]
           edit  == [k EXCEPT !.at = "edit"]
           post  == [k EXCEPT !.at = "post", !.pins = {}]
<1>1. edit \in PinUpdates /\ again \in PinUpdates /\ post \in PinUpdates
  BY DEF PinUpdates, PinPlaces
<1>2. Pin!AfterScan(k) \in {edit, again, post}
  BY DEF Pin!AfterScan
<1> HIDE DEF again, edit, post
<1>3. Pin!AfterScan(k) \in PinUpdates /\ Pin!AfterScan(k) # None
  BY <1>1, <1>2
<1>4. Pin!AfterScan(k).id = None /\ Pin!AfterScan(k).pins = {} /\ Pin!AfterScan(k).at # "unpin"
  BY DEF Pin!AfterScan, PinUpdates
<1>5. QED
  BY <1>3, <1>4, PinQuietStep

LEMMA PinNext == ASSUME None \notin Ids, None \notin PinUpdates, PinInv, [Pin!Next]_statusPinVars PROVE PinInv'
<1> USE DEF PinInv, PinTyped
<1>1. ASSUME NEW t \in Ticks, tick[t] # None PROVE tick[t] \in PinUpdates
  BY <1>1
<1>2. CASE \E t \in Ticks : Pin!Begin(t)
  <2>1. PICK t \in Ticks : Pin!Begin(t)
    BY <1>2
  <2> DEFINE k == [at |-> "list", scan |-> 1, had |-> kv, pins |-> {}, id |-> None]
  <2>2. k \in PinUpdates /\ k.id = None /\ k.pins = {} /\ k.at # "unpin"
    BY DEF PinUpdates, PinPlaces
  <2>3. tick' = [tick EXCEPT ![t] = Pin!AfterScan(k)] \/ tick' = [tick EXCEPT ![t] = k]
    BY <2>1 DEF Pin!Begin
  <2>4. UNCHANGED <<kv, posted, pinned, deleted, unpinned>>
    BY <2>1 DEF Pin!Begin
  <2> HIDE DEF k
  <2>5. k # None
    BY <2>2
  <2>6. QED
    BY <2>2, <2>3, <2>4, <2>5, PinAfterScanStep, PinQuietStep
<1>3. CASE \E t \in Ticks : Pin!DiscordLists(t)
  <2>1. PICK t \in Ticks : Pin!DiscordLists(t)
    BY <1>3
  <2>2. tick[t] \in PinUpdates /\ tick[t].at = "list"
    BY <1>1, <2>1 DEF Pin!DiscordLists, Pin!At
  <2> DEFINE k == [tick[t] EXCEPT !.at = "listed", !.pins = pinned]
  <2>3. k \in PinUpdates /\ k.id = tick[t].id /\ k.pins = pinned /\ k.at = "listed"
    BY <2>2 DEF PinUpdates, PinPlaces, PinSeen
  <2>4. tick' = [tick EXCEPT ![t] = k]
    BY <2>1 DEF Pin!DiscordLists
  <2>5. k.id = None
    BY <2>2, <2>3 DEF PinOwn
  <2>6. UNCHANGED <<kv, posted, pinned, deleted, unpinned>>
    BY <2>1 DEF Pin!DiscordLists
  <2>7. \A u \in Ticks : Pin!At(u, "post") /\ tick[u].id # None => tick[u].id \notin k.pins
    BY <2>3 DEF PinUnrecorded
  <2> HIDE DEF k
  <2>8. QED
    BY <2>3, <2>4, <2>5, <2>6, <2>7, PinQuietStep
<1>4. CASE \E t \in Ticks : Pin!Listed(t)
  <2>1. PICK t \in Ticks : Pin!Listed(t)
    BY <1>4
  <2>2. tick[t] \in PinUpdates /\ tick[t].at = "listed" /\ tick[t] # None
    BY <1>1, <2>1 DEF Pin!Listed, Pin!At
  <2> DEFINE k == [tick[t] EXCEPT !.at = "unpin", !.pins = tick[t].pins \ {kv}]
  <2>3. k \in PinUpdates /\ k.id = tick[t].id /\ k.pins = tick[t].pins \ {kv}
    BY <2>2 DEF PinUpdates, PinPlaces
  <2>4. tick' = [tick EXCEPT ![t] = k]
    BY <2>1 DEF Pin!Listed
  <2>5. k.id = None /\ k.pins \subseteq PinSeen /\ kv \notin k.pins
    BY <2>2, <2>3 DEF PinOwn
  <2>6. UNCHANGED <<kv, posted, pinned, deleted, unpinned>>
    BY <2>1 DEF Pin!Listed
  <2>7. \A u \in Ticks : Pin!At(u, "post") /\ tick[u].id # None => tick[u].id \notin k.pins
    BY <2>2, <2>3 DEF PinUnrecorded
  <2> HIDE DEF k
  <2>8. QED
    BY <2>3, <2>4, <2>5, <2>6, <2>7, PinQuietStep
<1>5. CASE \E t \in Ticks : Pin!ScanEnds(t)
  <2>1. PICK t \in Ticks : Pin!ScanEnds(t)
    BY <1>5
  <2>2. /\ tick[t] \in PinUpdates /\ tick[t] # None
        /\ tick[t].at = "list" \/ tick[t].at = "listed" \/ tick[t].at = "unpin"
    BY <1>1, <2>1 DEF Pin!ScanEnds, Pin!At
  <2> DEFINE k == [tick[t] EXCEPT !.pins = {}]
  <2>3. k \in PinUpdates /\ k.id = tick[t].id /\ k.pins = {} /\ k.at = tick[t].at
    BY <2>2 DEF PinUpdates
  <2>4. tick' = [tick EXCEPT ![t] = Pin!AfterScan(k)]
    BY <2>1 DEF Pin!ScanEnds
  <2>5. k.id = None
    BY <2>2, <2>3 DEF PinOwn
  <2>6. UNCHANGED <<kv, posted, pinned, deleted, unpinned>>
    BY <2>1 DEF Pin!ScanEnds
  <2> HIDE DEF k
  <2>7. Pin!AfterScan(k) \in PinUpdates /\ Pin!AfterScan(k).id = None /\ Pin!AfterScan(k).pins = {}
    BY <2>3, <2>5 DEF Pin!AfterScan, PinUpdates, PinPlaces
  <2>8. QED
    BY <2>4, <2>6, <2>7, PinQuietStep
<1>6. CASE \E t \in Ticks : Pin!Edited(t) \/ Pin!PostFails(t)
  BY <1>6, PinEndingStep DEF Pin!Edited, Pin!PostFails
<1>7. CASE \E t \in Ticks : Pin!Missing(t)
  <2>1. PICK t \in Ticks : Pin!Missing(t)
    BY <1>7
  <2>2. tick[t] \in PinUpdates /\ tick[t].at = "edit" /\ tick[t] # None
    BY <1>1, <2>1 DEF Pin!Missing, Pin!At
  <2> DEFINE k == [tick[t] EXCEPT !.at = "list", !.scan = 2]
  <2>3. k \in PinUpdates /\ k.id = tick[t].id /\ k.pins = tick[t].pins /\ k.at = "list"
    BY <2>2 DEF PinUpdates, PinPlaces
  <2>4. tick' = [tick EXCEPT ![t] = k]
    BY <2>1 DEF Pin!Missing
  <2>5. k.id = None /\ k.pins \subseteq PinSeen
    BY <2>2, <2>3 DEF PinOwn
  <2>6. kv' = None /\ UNCHANGED <<posted, pinned, deleted, unpinned>>
    BY <2>1 DEF Pin!Missing
  <2>7. \A u \in Ticks : Pin!At(u, "post") /\ tick[u].id # None => tick[u].id \notin k.pins
    BY <2>2, <2>3 DEF PinUnrecorded
  <2> HIDE DEF k
  <2>8. QED
    BY <2>3, <2>4, <2>5, <2>6, <2>7, PinQuietStep
<1>8. CASE \E t \in Ticks, m \in Ids : Pin!Unpin(t, m)
  <2>1. PICK t \in Ticks, m \in Ids : Pin!Unpin(t, m)
    BY <1>8
  <2>2. tick[t] \in PinUpdates /\ tick[t].at = "unpin" /\ tick[t] # None /\ m \in tick[t].pins
    BY <1>1, <2>1 DEF Pin!Unpin, Pin!At
  <2> DEFINE k == [tick[t] EXCEPT !.pins = tick[t].pins \ {m}]
  <2>3. k \in PinUpdates /\ k.id = tick[t].id /\ k.pins = tick[t].pins \ {m}
    BY <2>2 DEF PinUpdates
  <2>4. tick' = [tick EXCEPT ![t] = k]
    BY <2>1 DEF Pin!Unpin
  <2>5. k.id = None /\ k.pins \subseteq PinSeen /\ kv \notin k.pins /\ m # kv
    BY <2>2, <2>3 DEF PinOwn, PinSpared, Pin!At
  <2>6. UNCHANGED <<kv, posted, deleted, unpinned>> /\ pinned' \subseteq pinned
    BY <2>1, <2>5 DEF Pin!Unpin
  <2>7. \A u \in Ticks : Pin!At(u, "post") /\ tick[u].id # None => tick[u].id \notin k.pins
    BY <2>2, <2>3 DEF PinUnrecorded
  <2> HIDE DEF k
  <2>8. QED
    BY <2>3, <2>4, <2>5, <2>6, <2>7, PinQuietStep
<1>9. CASE \E t \in Ticks, m \in Ids : Pin!DiscordPosts(t, m)
  <2>1. PICK t \in Ticks, m \in Ids : Pin!DiscordPosts(t, m)
    BY <1>9
  <2>2. /\ tick[t] \in PinUpdates /\ tick[t].at = "post" /\ tick[t].id = None /\ tick[t] # None
        /\ m \notin PinSeen /\ m # None
    BY <1>1, <2>1 DEF Pin!DiscordPosts, Pin!At, PinSeen
  <2> DEFINE k == [tick[t] EXCEPT !.id = m]
  <2>3. k \in PinUpdates /\ k.id = m /\ k.pins = tick[t].pins /\ k.at = "post" /\ k # None
    BY <2>2 DEF PinUpdates
  <2>4. tick' = [tick EXCEPT ![t] = k]
    BY <2>1 DEF Pin!DiscordPosts
  <2>5. posted' = posted \cup {m} /\ UNCHANGED <<kv, pinned, deleted, unpinned>>
    BY <2>1 DEF Pin!DiscordPosts
  <2> HIDE DEF k
  <2>6. /\ tick'[t] = k
        /\ \A u \in Ticks : u # t => tick'[u] = tick[u]
        /\ tick' \in [Ticks -> PinUpdates \cup {None}]
    BY <2>3, <2>4
  <2>7. PinSeen' = PinSeen \cup {m}
    BY <2>5 DEF PinSeen
  <2>8. PinTyped'
    BY <2>5, <2>6, <2>7
  <2>9. PinOwn'
    BY <2>2, <2>3, <2>5, <2>6, <2>7 DEF PinOwn
  <2>10. kv \in PinSeen \cup {None}
    BY DEF PinOwn
  <2>11. PinUnrecorded'
    BY <2>2, <2>3, <2>5, <2>6, <2>10 DEF PinOwn, PinUnrecorded, Pin!At
  <2>12. PinSpared'
    BY <2>2, <2>3, <2>5, <2>6 DEF PinSpared, Pin!At
  <2>13. QED
    BY <2>5, <2>8, <2>9, <2>11, <2>12 DEF Pin!CurrentStaysPinned
<1>10. CASE \E t \in Ticks : Pin!Posted(t)
  <2>1. PICK t \in Ticks : Pin!Posted(t)
    BY <1>10
  <2>2. tick[t] \in PinUpdates /\ tick[t].at = "post" /\ tick[t].id # None /\ tick[t] # None
    BY <1>1, <2>1 DEF Pin!Posted, Pin!At
  <2> DEFINE k == [tick[t] EXCEPT !.at = "pin"]
  <2>3. k \in PinUpdates /\ k.id = tick[t].id /\ k.pins = tick[t].pins /\ k.at = "pin" /\ k # None
    BY <2>2 DEF PinUpdates, PinPlaces
  <2>4. tick' = [tick EXCEPT ![t] = k]
    BY <2>1 DEF Pin!Posted
  <2>5. kv' = tick[t].id /\ UNCHANGED <<posted, pinned, deleted, unpinned>>
    BY <2>1 DEF Pin!Posted
  <2> HIDE DEF k
  <2>6. /\ tick'[t] = k
        /\ \A u \in Ticks : u # t => tick'[u] = tick[u]
        /\ tick' \in [Ticks -> PinUpdates \cup {None}]
    BY <2>3, <2>4
  <2>7. PinTyped' /\ PinSeen' = PinSeen
    BY <2>2, <2>5, <2>6 DEF PinUpdates, PinSeen, PinOwn
  <2>8. PinOwn'
    BY <2>2, <2>3, <2>5, <2>6, <2>7 DEF PinOwn
  <2>9. PinUnrecorded'
    BY <2>2, <2>3, <2>5, <2>6 DEF PinOwn, PinUnrecorded, Pin!At
  <2>10. PinSpared'
    BY <2>2, <2>3, <2>5, <2>6 DEF PinUnrecorded, PinSpared, Pin!At
  <2>11. QED
    BY <2>5, <2>7, <2>8, <2>9, <2>10 DEF Pin!CurrentStaysPinned
<1>11. CASE \E t \in Ticks : Pin!Pins(t)
  <2>1. PICK t \in Ticks : Pin!Pins(t)
    BY <1>11
  <2>2. tick[t] \in PinUpdates /\ tick[t].at = "pin" /\ tick[t] # None
    BY <1>1, <2>1 DEF Pin!Pins, Pin!At
  <2>3. /\ tick'[t] = None
        /\ \A u \in Ticks : u # t => tick'[u] = tick[u]
        /\ tick' \in [Ticks -> PinUpdates \cup {None}]
    BY <2>1 DEF Pin!Pins, Pin!Ends
  <2>4. /\ pinned' \subseteq pinned \cup ({tick[t].id} \cap posted)
        /\ UNCHANGED <<kv, posted, deleted, unpinned>>
    BY <2>1 DEF Pin!Pins
  <2>5. PinTyped' /\ PinSeen' = PinSeen
    BY <2>3, <2>4 DEF PinSeen
  <2>6. PinOwn'
    BY <2>3, <2>4, <2>5 DEF PinOwn
  <2>7. \A u \in Ticks : Pin!At(u, "post") /\ tick[u].id # None /\ u # t => tick[u].id # tick[t].id
    BY <2>2 DEF PinOwn, Pin!At
  <2>8. PinUnrecorded'
    BY <2>3, <2>4, <2>7 DEF PinUnrecorded, Pin!At
  <2>9. PinSpared'
    BY <2>3, <2>4 DEF PinSpared, Pin!At
  <2>10. QED
    BY <2>4, <2>5, <2>6, <2>8, <2>9 DEF Pin!CurrentStaysPinned
<1>12. CASE \E m \in Ids : Pin!SomebodyDeletes(m)
  BY <1>12 DEF Pin!SomebodyDeletes, PinSeen, PinOwn, PinUnrecorded, PinSpared, Pin!At, Pin!CurrentStaysPinned
<1>13. CASE Pin!ScanDue \/ UNCHANGED statusPinVars
  BY <1>13 DEF Pin!ScanDue, statusPinVars, PinSeen, PinOwn, PinUnrecorded, PinSpared, Pin!At, Pin!CurrentStaysPinned
<1>14. CASE Pin!Restart
  BY <1>14 DEF Pin!Restart, PinSeen, PinOwn, PinUnrecorded, PinSpared, Pin!At, Pin!CurrentStaysPinned
<1>15. QED
  BY <1>2, <1>3, <1>4, <1>5, <1>6, <1>7, <1>8, <1>9, <1>10, <1>11, <1>12, <1>13, <1>14
  DEF Pin!Next

PinPart == part = "status pin" => PinInv

LEMMA PinPartStarts == SystemInit => PinPart
BY PinAssumption DEF SystemInit, PinPart, Pin!Init, PinInv, PinTyped, PinOwn, PinUnrecorded, PinSpared,
       Pin!CurrentStaysPinned, Pin!At, PinSeen

LEMMA PinPartKeeps == PinPart /\ [SystemNext]_systemVars => PinPart'
<1> USE PinAssumption
<1> SUFFICES ASSUME PinPart, [SystemNext]_systemVars, part' = "status pin"
             PROVE  PinInv'
  BY DEF PinPart
<1>1. part = "status pin" /\ [Pin!Next]_statusPinVars
  BY DEF SystemNext, OthersStay, systemVars
<1>2. QED
  BY <1>1, PinNext DEF PinPart

(* However many ticks of the status pin overlap, and whatever fails or is  *)
(* deleted meanwhile, no scan unpins the message the table names           *)
(* (modules/status-pin/index.ts).                                          *)
THEOREM CurrentIsSpared == SystemSpec => []CurrentStaysPinned
<1>1. PinPart => CurrentStaysPinned
  BY DEF PinPart, PinInv, CurrentStaysPinned
<1>2. QED
  BY <1>1, PinPartStarts, PinPartKeeps, PTL DEF SystemSpec

-----------------------------------------------------------------------------
(* The SDK's state: a lock that is within its time and was not broken is    *)
(* the row of its thread, tokens are never shared, and a claim that is      *)
(* within its time is the expiry of the key.                                *)

SdkTyped == now \in Nat /\ tokens \in Nat
         /\ lock \in SdkLocks \cup {None} /\ mine \in [Handlers -> SdkLocks \cup {None}]
         /\ key \in Nat \cup {None} /\ claims \in [Handlers -> Nat \cup {None}]

SdkDrawn == \A h \in Handlers : mine[h] # None => mine[h].token < tokens

SdkUnshared == \A g, h \in Handlers :
  mine[g] # None /\ mine[h] # None /\ mine[g].token = mine[h].token => g = h

SdkBacked == \A h \in Handlers :
  mine[h] # None /\ ~Sdk!Lapsed(mine[h].until) /\ mine[h].token \notin forced => lock = mine[h]

SdkKeyed == \A h \in Handlers : claims[h] # None /\ ~Sdk!Lapsed(claims[h]) => key = claims[h]

SdkInv == SdkTyped /\ SdkDrawn /\ SdkUnshared /\ SdkBacked /\ SdkKeyed /\ Sdk!ClaimsExclude

LEMMA SdkNext ==
  ASSUME Ttl \in Nat, None \notin Nat, None \notin SdkLocks, SdkInv, [Sdk!Next]_sdkStateVars
  PROVE  SdkInv'
<1> USE DEF SdkInv, SdkTyped, SdkDrawn, SdkUnshared, SdkBacked, SdkKeyed, Sdk!ClaimsExclude,
           Sdk!Lapsed, Sdk!locks
<1>1. CASE Sdk!Tick
  <2>1. now' = now + 1 /\ UNCHANGED <<lock, mine, tokens, forced, key, claims>>
    BY <1>1 DEF Sdk!Tick
  <2>2. \A h \in Handlers : mine[h] # None => mine[h].until \in Nat
    BY DEF SdkLocks
  <2>3. \A t \in Nat : Sdk!Lapsed(t) => t < now'
    BY <2>1
  <2>4. SdkTyped' /\ SdkDrawn' /\ SdkUnshared'
    BY <2>1
  <2>5. SdkBacked'
    BY <2>1, <2>2, <2>3
  <2>6. SdkKeyed' /\ Sdk!ClaimsExclude'
    BY <2>1, <2>3
  <2>7. QED
    BY <2>4, <2>5, <2>6
<1>2. ASSUME NEW h \in Handlers, Sdk!AcquireLock(h) PROVE SdkInv'
  <2>1. CASE UNCHANGED <<lock, mine>>
    <3>1. tokens' = tokens + 1 /\ UNCHANGED <<now, forced, key, claims>>
      BY <1>2 DEF Sdk!AcquireLock
    <3>2. SdkDrawn'
      BY <2>1, <3>1 DEF SdkLocks
    <3>3. SdkTyped' /\ SdkUnshared' /\ SdkBacked' /\ SdkKeyed' /\ Sdk!ClaimsExclude'
      BY <2>1, <3>1
    <3>4. QED
      BY <3>2, <3>3
  <2>2. CASE /\ Sdk!Standing = None
             /\ lock' = [token |-> tokens, until |-> now + Ttl]
             /\ mine' = [mine EXCEPT ![h] = lock']
    <3>1. lock' \in SdkLocks /\ lock'.token = tokens
      BY <2>2 DEF SdkLocks
    <3>2. \A g \in Handlers : mine'[g] = IF g = h THEN lock' ELSE mine[g]
      BY <2>2
    <3>3. \A g \in Handlers : mine[g] # None => mine[g] \in SdkLocks
      OBVIOUS
    <3>4. ASSUME NEW g \in Handlers, g # h, mine[g] # None, ~Sdk!Lapsed(mine[g].until)
          PROVE  mine[g].token \in forced
      BY <2>2, <3>4 DEF Sdk!Standing
    <3>5. UNCHANGED <<now, forced, key, claims>> /\ tokens' = tokens + 1
      BY <1>2 DEF Sdk!AcquireLock
    <3>6. SdkDrawn' /\ SdkUnshared'
      BY <3>1, <3>2, <3>3, <3>5 DEF SdkLocks
    <3>7. SdkBacked'
      BY <3>1, <3>2, <3>4, <3>5
    <3>8. SdkTyped'
      BY <2>2, <3>1, <3>5
    <3>9. QED
      BY <3>5, <3>6, <3>7, <3>8
  <2>3. QED
    BY <1>2, <2>1, <2>2 DEF Sdk!AcquireLock
<1>3. ASSUME NEW h \in Handlers, Sdk!ReleaseLock(h) PROVE SdkInv'
  BY <1>3 DEF Sdk!ReleaseLock
<1>4. ASSUME NEW h \in Handlers, Sdk!ExtendLock(h) PROVE SdkInv'
  <2>1. CASE UNCHANGED <<lock, mine>>
    BY <1>4, <2>1 DEF Sdk!ExtendLock
  <2>2. CASE /\ mine[h] # None /\ lock # None /\ lock.token = mine[h].token
             /\ lock' = [lock EXCEPT !.until = now + Ttl]
             /\ mine' = [mine EXCEPT ![h] = lock']
    <3>1. lock' \in SdkLocks /\ lock'.token = mine[h].token
      BY <2>2 DEF SdkLocks
    <3>2. \A g \in Handlers : mine'[g] = IF g = h THEN lock' ELSE mine[g]
      BY <2>2
    <3>3. UNCHANGED <<now, tokens, forced, key, claims>>
      BY <1>4 DEF Sdk!ExtendLock
    <3>4. SdkTyped' /\ SdkDrawn' /\ SdkUnshared'
      BY <2>2, <3>1, <3>2, <3>3
    <3>5. SdkBacked'
      BY <2>2, <3>1, <3>2, <3>3
    <3>6. QED
      BY <3>3, <3>4, <3>5
  <2>3. QED
    BY <1>4, <2>1, <2>2 DEF Sdk!ExtendLock
<1>5. CASE Sdk!ForceReleaseLock
  BY <1>5 DEF Sdk!ForceReleaseLock
<1>6. ASSUME NEW h \in Handlers, Sdk!SetIfNotExists(h) PROVE SdkInv'
  BY <1>6 DEF Sdk!SetIfNotExists
<1>7. ASSUME NEW h \in Handlers, Sdk!Handled(h) PROVE SdkInv'
  BY <1>7 DEF Sdk!Handled
<1>8. CASE Sdk!Cleanup
  BY <1>8 DEF Sdk!Cleanup, Sdk!Standing
<1>9. CASE UNCHANGED <<now, lock, mine, tokens, forced, key, claims>>
  BY <1>9
<1>10. QED
  BY <1>1, <1>2, <1>3, <1>4, <1>5, <1>6, <1>7, <1>8, <1>9
  DEF Sdk!Next, sdkStateVars, Sdk!Enqueue, Sdk!Dequeue

SdkPart == part = "sdk state" => SdkInv

LEMMA SdkPartStarts == SystemInit => SdkPart
<1> USE SdkAssumption
<1>1. Sdk!Init => SdkInv
  BY DEF Sdk!Init, SdkInv, SdkTyped, SdkDrawn, SdkUnshared, SdkBacked, SdkKeyed,
         Sdk!ClaimsExclude
<1>2. QED
  BY <1>1 DEF SystemInit, SdkPart

LEMMA SdkPartKeeps == SdkPart /\ [SystemNext]_systemVars => SdkPart'
<1> USE SdkAssumption
<1> SUFFICES ASSUME SdkPart, [SystemNext]_systemVars, part' = "sdk state"
             PROVE  SdkInv'
  BY DEF SdkPart
<1>1. part = "sdk state" /\ [Sdk!Next]_sdkStateVars
  BY DEF SystemNext, OthersStay, systemVars
<1>2. QED
  BY <1>1, SdkNext DEF SdkPart

(* Within their time at most one handler holds a thread's lock and at most *)
(* one a claim, unless a lock was broken by force (state-sqlite.ts).       *)
THEOREM HoldersExclude == SystemSpec => []OneHolder
<1>1. SdkPart => OneHolder
  BY DEF SdkPart, SdkInv, SdkTyped, SdkBacked, SdkUnshared, OneHolder, Sdk!OneHolder,
         Sdk!LocksExclude
<1>2. QED
  BY <1>1, SdkPartStarts, SdkPartKeeps, PTL DEF SystemSpec

-----------------------------------------------------------------------------
(* The reactions: one that shows is of a message the throbber still has,   *)
(* which will be cleared with it, or its own removal is under way; and an  *)
(* addition that has not landed is of a message the throbber has, since    *)
(* stopThrobber excuses the ones that are late (Answered, Pending).        *)

IndCalls == [step : {"add", "remove", "clear"}, msg : Shown, emoji : Ind!Emojis,
             prev : Ind!Emojis \cup {None}, number : Nat, made : Nat]

IndTyped ==
    /\ throbber \in IndTargets \cup {None}
    /\ reacting \subseteq IndCalls
    /\ DOMAIN reactions = Shown
    /\ stops \in Nat /\ beats \in Nat

IndHas(t, m) == t # None /\ Ind!Known(t, m)

IndAnswered == \A m \in Shown \ excused : \A e \in reactions[m] :
    /\ e \in Ind!Emojis
    /\ \/ IndHas(throbber, m)
       \/ \E c \in reacting : c.step = "clear" /\ c.msg = m /\ c.emoji = e

IndPending == \A c \in reacting : c.step = "add" /\ c.msg \notin excused
                                  => IndHas(throbber, c.msg)

IndQuiet == quiet => typing = None

IndInv == IndTyped /\ IndAnswered /\ IndPending /\ IndQuiet

(* What a cycle remembers of its entry leaves the throbber its messages.   *)
LEMMA IndRecorded ==
    ASSUME None \notin IndTargets, IndTyped, NEW c \in reacting
    PROVE  /\ Ind!Recorded(c) \in IndTargets \cup {None}
           /\ \A m \in Shown : IndHas(Ind!Recorded(c), m) <=> IndHas(throbber, m)
<1> DEFINE entries == throbber.inflight
           marked == [i \in DOMAIN entries |->
                        IF entries[i].msg = c.msg THEN [entries[i] EXCEPT !.last = c.emoji]
                        ELSE entries[i]]
<1> USE DEF IndTyped
<1>1. CASE Ind!Recorded(c) = throbber
  BY <1>1
<1>2. CASE throbber # None /\ Ind!Recorded(c) = [throbber EXCEPT !.inflight = marked]
  <2>1. entries \in Seq(IndEntries) /\ entries # << >>
    BY <1>2 DEF IndTargets
  <2>2. ASSUME NEW i \in DOMAIN entries
        PROVE  marked[i] \in IndEntries /\ marked[i].msg = entries[i].msg
    <3>1. entries[i] \in IndEntries /\ c.emoji \in Ind!Emojis
      BY <2>1 DEF IndCalls
    <3>2. QED
      BY <3>1 DEF IndEntries
  <2>3. marked \in Seq(IndEntries) /\ DOMAIN marked = DOMAIN entries
    <3>1. DOMAIN entries = 1 .. Len(entries) /\ Len(entries) \in Nat
      BY <2>1
    <3>2. DOMAIN marked = 1 .. Len(entries)
      BY <3>1
    <3>3. marked \in [1 .. Len(entries) -> IndEntries]
      BY <2>2, <3>1, <3>2
    <3>4. QED
      BY <3>1, <3>2, <3>3
  <2>4. marked # << >>
    BY <2>1, <2>3
  <2> HIDE DEF marked
  <2>5. /\ [throbber EXCEPT !.inflight = marked] \in IndTargets
        /\ [throbber EXCEPT !.inflight = marked].inflight = marked
    BY <1>2, <2>3, <2>4 DEF IndTargets
  <2>6. QED
    BY <1>2, <2>2, <2>3, <2>5 DEF Ind!Known, IndHas
<1>3. QED
  BY <1>1, <1>2 DEF Ind!Recorded

LEMMA IndContinued ==
    ASSUME IndTyped, NEW c \in reacting
    PROVE  /\ Ind!Continued(c) \subseteq IndCalls
           /\ \A d \in Ind!Continued(c) : d.step = "remove"
BY DEF IndTyped, IndCalls, Ind!Continued

(* The calls of a cycle and of the end of a throbber are of its messages.  *)
LEMMA IndMade ==
    ASSUME NumEmojis \in Nat \ {0}, IndTyped, throbber \in IndTargets
    PROVE  /\ Ind!Cycled(throbber) \in IndCalls
           /\ Ind!Known(throbber, Ind!Cycled(throbber).msg)
           /\ Ind!Cleared(throbber) \subseteq IndCalls
           /\ \A d \in Ind!Cleared(throbber) : d.step = "clear"
           /\ \A m \in Shown : Ind!Known(throbber, m) => \A e \in Ind!Emojis :
                \E d \in Ind!Cleared(throbber) :
                    d.step = "clear" /\ d.msg = m /\ d.emoji = e
<1> USE DEF IndTyped
<1>1. /\ throbber.inflight \in Seq(IndEntries)
      /\ throbber.inflight # << >>
      /\ throbber.idx \in Nat /\ throbber.number \in Nat
  BY DEF IndTargets
<1>2. Len(throbber.inflight) \in DOMAIN throbber.inflight
  BY <1>1
<1>3. \A i \in DOMAIN throbber.inflight : throbber.inflight[i] \in IndEntries
  BY <1>1
<1>4. throbber.idx % NumEmojis \in Ind!Emojis
  BY <1>1 DEF Ind!Emojis
<1>5. /\ Ind!Cycled(throbber) \in IndCalls
      /\ Ind!Known(throbber, Ind!Cycled(throbber).msg)
  BY <1>1, <1>2, <1>3, <1>4
  DEF Ind!Cycled, Ind!Call, Ind!Last, Ind!Known, IndCalls, IndEntries
<1>6. /\ Ind!Cleared(throbber) \subseteq IndCalls
      /\ \A d \in Ind!Cleared(throbber) : d.step = "clear"
  BY <1>1, <1>3 DEF Ind!Cleared, Ind!Call, IndCalls, IndEntries
<1>7. ASSUME NEW m \in Shown, Ind!Known(throbber, m), NEW e \in Ind!Emojis
      PROVE  \E d \in Ind!Cleared(throbber) :
                 d.step = "clear" /\ d.msg = m /\ d.emoji = e
  <2>1. PICK i \in DOMAIN throbber.inflight : throbber.inflight[i].msg = m
    BY <1>7 DEF Ind!Known
  <2>2. Ind!Call("clear", throbber.inflight[i].msg, e, None, throbber.number)
            \in Ind!Cleared(throbber)
    BY DEF Ind!Cleared
  <2>3. QED
    BY <2>1, <2>2 DEF Ind!Call
<1>8. QED
  BY <1>5, <1>6, <1>7

(* A message the throbber has is not lost to a new one.                    *)
LEMMA IndRetargeted ==
    ASSUME IndTyped, NEW m \in Shown, throbber \in IndTargets
    PROVE  /\ Ind!Retargeted(throbber, m) \in IndTargets
           /\ \A n \in Shown : Ind!Known(throbber, n)
                                 => Ind!Known(Ind!Retargeted(throbber, m), n)
<1> DEFINE entries == throbber.inflight
           more == Append(entries, [msg |-> m, last |-> None])
<1>1. entries \in Seq(IndEntries) /\ entries # << >>
  BY DEF IndTargets
<1>2. [msg |-> m, last |-> None] \in IndEntries
  BY DEF IndEntries
<1>3. /\ more \in Seq(IndEntries) /\ more # << >>
      /\ \A i \in DOMAIN entries : i \in DOMAIN more /\ more[i] = entries[i]
  BY <1>1, <1>2
<1>4. CASE Ind!Known(throbber, m)
  BY <1>1, <1>4 DEF Ind!Retargeted, Ind!Known, IndTargets
<1>5. CASE ~Ind!Known(throbber, m)
  <2> HIDE DEF more
  <2>1. Ind!Retargeted(throbber, m) = [throbber EXCEPT !.inflight = more, !.idx = 0]
    BY <1>5 DEF Ind!Retargeted, more
  <2>2. /\ Ind!Retargeted(throbber, m) \in IndTargets
        /\ Ind!Retargeted(throbber, m).inflight = more
    <3> DEFINE mid == [throbber EXCEPT !.inflight = more]
    <3>1. mid \in IndTargets /\ mid.inflight = more
      BY <1>3 DEF IndTargets
    <3>2. Ind!Retargeted(throbber, m) = [mid EXCEPT !.idx = 0]
      BY <2>1
    <3> HIDE DEF mid
    <3>3. QED
      BY <3>1, <3>2 DEF IndTargets
  <2>3. QED
    BY <1>3, <2>2 DEF Ind!Known
<1>6. QED
  BY <1>4, <1>5

(* Every step that leaves the throbber, its calls and the reactions.       *)
LEMMA IndQuietStep ==
    ASSUME IndInv, UNCHANGED <<throbber, reacting, reactions, stops, excused>>,
           beats' \in Nat, quiet' => typing' = None
    PROVE  IndInv'
BY DEF IndInv, IndTyped, IndAnswered, IndPending, IndQuiet, IndHas, Ind!Known

(* Every step that leaves the throbber the messages it has.                *)
LEMMA IndKeptStep ==
    ASSUME IndInv, None \notin IndTargets,
           throbber' \in IndTargets \cup {None}, reacting' \subseteq IndCalls,
           DOMAIN reactions' = Shown, stops' \in Nat, beats' \in Nat,
           excused \subseteq excused', quiet' => typing' = None,
           \A m \in Shown : IndHas(throbber, m) => IndHas(throbber', m),
           \A c \in reacting' : c \in reacting \/ c.step # "add"
                                \/ IndHas(throbber', c.msg),
           \A c \in reacting : c \in reacting' \/ c.step # "clear"
                               \/ c.msg \in excused' \/ c.emoji \notin reactions'[c.msg],
           \A m \in Shown \ excused' : \A e \in reactions'[m] :
               e \in reactions[m] \/ (e \in Ind!Emojis /\ IndHas(throbber', m))
    PROVE  IndInv'
<1> USE DEF IndInv, IndTyped
<1>1. IndTyped' /\ IndQuiet'
  BY DEF IndQuiet
<1>2. IndPending'
  BY DEF IndPending, IndCalls, IndHas, Ind!Known
<1>3. ASSUME NEW m \in Shown, m \notin excused', NEW e \in reactions'[m]
      PROVE  /\ e \in Ind!Emojis
             /\ \/ IndHas(throbber', m)
                \/ \E c \in reacting' : c.step = "clear" /\ c.msg = m /\ c.emoji = e
  <2>1. CASE IndHas(throbber', m) /\ e \in Ind!Emojis
    BY <2>1
  <2>2. CASE e \in reactions[m] /\ ~IndHas(throbber', m)
    BY <1>3, <2>2 DEF IndAnswered
  <2>3. QED
    BY <1>3, <2>1, <2>2 DEF IndAnswered
<1>4. IndAnswered'
  BY <1>3 DEF IndAnswered, IndHas, Ind!Known
<1>5. QED
  BY <1>1, <1>2, <1>4

LEMMA IndNext ==
    ASSUME IndGiven, IndInv, [Ind!Next]_indicatorsVars
    PROVE  IndInv'
<1> USE DEF IndInv, IndTyped, IndGiven
<1>1. ASSUME NEW m \in Shown, Ind!Arrive(m) PROVE IndInv'
  <2>1. UNCHANGED <<reacting, reactions, beats, stops, excused>> /\ ~quiet'
    BY <1>1 DEF Ind!Arrive
  <2>2. throbber' \in IndTargets
    <3>1. CASE throbber = None
      BY <1>1, <3>1 DEF Ind!Arrive, Ind!Fresh, IndTargets, IndEntries
    <3>2. CASE throbber # None
      BY <1>1, <3>2, IndRetargeted DEF Ind!Arrive
    <3>3. QED
      BY <3>1, <3>2
  <2>3. \A n \in Shown : IndHas(throbber, n) => IndHas(throbber', n)
    BY <1>1, <2>2, IndRetargeted DEF Ind!Arrive, IndHas
  <2>4. QED
    BY <2>1, <2>2, <2>3, IndKeptStep
<1>2. CASE Ind!Spawn
  BY <1>2, IndQuietStep DEF Ind!Spawn, Ind!counters, IndQuiet
<1>3. CASE Ind!Heartbeat
  BY <1>3, IndQuietStep DEF Ind!Heartbeat, IndQuiet
<1>4. CASE Ind!Watched
  <2>1. /\ throbber \in IndTargets
        /\ throbber' = [throbber EXCEPT !.idx = @ + 1]
        /\ reacting' = reacting \cup {Ind!Cycled(throbber)}
        /\ UNCHANGED <<reactions, beats, stops, excused, typing, quiet>>
    BY <1>4 DEF Ind!Watched, Ind!counters
  <2>2. throbber' \in IndTargets /\ throbber'.inflight = throbber.inflight
    BY <2>1 DEF IndTargets
  <2>3. \A m : IndHas(throbber, m) <=> IndHas(throbber', m)
    BY <2>1, <2>2 DEF IndHas, Ind!Known
  <2>4. Ind!Cycled(throbber) \in IndCalls /\ IndHas(throbber, Ind!Cycled(throbber).msg)
    BY <2>1, IndMade DEF IndHas
  <2>5. QED
    BY <2>1, <2>2, <2>3, <2>4, IndKeptStep DEF IndQuiet
<1>5. CASE Ind!Delivered
  <2>1. CASE throbber = None
    BY <1>5, <2>1, IndQuietStep DEF Ind!Delivered, Ind!counters, IndQuiet
  <2>2. CASE throbber # None
    <3>1. /\ throbber' = None
          /\ typing' = (IF typing = None THEN None ELSE "paused")
          /\ reacting' = reacting \cup Ind!Cleared(throbber)
          /\ excused' = excused \cup {c.msg : c \in {d \in reacting : d.step = "add"}}
          /\ stops' = stops + 1
          /\ UNCHANGED <<reactions, beats, quiet>>
      BY <1>5, <2>2 DEF Ind!Delivered, Ind!counters
    <3>2. IndTyped' /\ IndQuiet'
      BY <2>2, <3>1, IndMade DEF IndQuiet
    <3>3. IndPending'
      BY <2>2, <3>1, IndMade DEF IndPending
    <3>4. ASSUME NEW m \in Shown, m \notin excused', NEW e \in reactions[m]
          PROVE  /\ e \in Ind!Emojis
                 /\ \E c \in reacting' : c.step = "clear" /\ c.msg = m /\ c.emoji = e
      <4>1. m \notin excused
        BY <3>1, <3>4
      <4>2. CASE IndHas(throbber, m)
        BY <2>2, <3>1, <3>4, <4>1, <4>2, IndMade DEF IndAnswered, IndHas
      <4>3. CASE ~IndHas(throbber, m)
        BY <3>1, <3>4, <4>1, <4>3 DEF IndAnswered
      <4>4. QED
        BY <4>2, <4>3
    <3>5. IndAnswered'
      BY <3>1, <3>4 DEF IndAnswered
    <3>6. QED
      BY <3>2, <3>3, <3>5
  <2>3. QED
    BY <2>1, <2>2
<1>6. CASE Ind!Exit
  BY <1>6, IndQuietStep DEF Ind!Exit, Ind!counters
<1>7. CASE Ind!Restart
  BY <1>7 DEF Ind!Restart, IndAnswered, IndPending, IndQuiet
<1>8. CASE Ind!GraceEnds \/ Ind!PauseEnds \/ Ind!TypingTick
  <2>1. /\ quiet' => typing' = None
        /\ UNCHANGED <<throbber, reacting, reactions, beats, stops, excused>>
    <3>1. CASE Ind!GraceEnds
      BY <3>1 DEF Ind!GraceEnds, Ind!TypingChanges, Ind!counters, IndQuiet
    <3>2. CASE Ind!PauseEnds
      BY <3>2 DEF Ind!PauseEnds, Ind!TypingChanges, Ind!counters, IndQuiet
    <3>3. CASE Ind!TypingTick
      BY <3>3 DEF Ind!TypingTick, Ind!TypingChanges, Ind!counters
    <3>4. QED
      BY <1>8, <3>1, <3>2, <3>3
  <2>2. QED
    BY <2>1, IndQuietStep
<1>9. ASSUME NEW c \in reacting, Ind!Lands(c) PROVE IndInv'
  <2>1. /\ reacting' = (reacting \ {c}) \cup Ind!Continued(c)
        /\ throbber' = Ind!Recorded(c)
        /\ UNCHANGED <<beats, stops, excused, typing, quiet>>
    BY <1>9 DEF Ind!Lands, Ind!counters
  <2>2. c.step \in {"add", "remove", "clear"} /\ c.msg \in Shown /\ c.emoji \in Ind!Emojis
    BY DEF IndCalls
  <2>3. /\ DOMAIN reactions' = Shown
        /\ \A m \in Shown : m # c.msg => reactions'[m] = reactions[m]
        /\ \A e \in reactions'[c.msg] : e \in reactions[c.msg]
                                          \/ (c.step = "add" /\ e = c.emoji)
        /\ c.step = "clear" => c.emoji \notin reactions'[c.msg]
    BY <1>9, <2>2 DEF Ind!Lands
  <2>4. c.step = "add" /\ c.msg \notin excused => IndHas(throbber, c.msg)
    BY DEF IndPending
  <2>5. \A m \in Shown : IndHas(throbber, m) => IndHas(throbber', m)
    BY <2>1, IndRecorded
  <2>6. \A m \in Shown \ excused' : \A e \in reactions'[m] :
            e \in reactions[m] \/ (e \in Ind!Emojis /\ IndHas(throbber', m))
    BY <2>1, <2>2, <2>3, <2>4, <2>5
  <2>7. throbber' \in IndTargets \cup {None} /\ reacting' \subseteq IndCalls
    BY <2>1, IndRecorded, IndContinued
  <2>8. \A d \in reacting' : d \in reacting \/ d.step # "add"
    BY <2>1, IndContinued
  <2>9. \A d \in reacting : d \in reacting' \/ d.step # "clear"
                            \/ d.emoji \notin reactions'[d.msg]
    BY <2>1, <2>3
  <2>10. QED
    BY <2>1, <2>3, <2>5, <2>6, <2>7, <2>8, <2>9, IndKeptStep DEF IndQuiet
<1>10. ASSUME NEW c \in reacting, Ind!Fails(c) PROVE IndInv'
  <2>1. /\ reacting' = (reacting \ {c}) \cup Ind!Continued(c)
        /\ throbber' = Ind!Recorded(c)
        /\ excused' = excused \cup {c.msg}
        /\ UNCHANGED <<reactions, beats, stops, typing, quiet>>
    BY <1>10 DEF Ind!Fails, Ind!counters
  <2>2. \A m \in Shown : IndHas(throbber, m) => IndHas(throbber', m)
    BY <2>1, IndRecorded
  <2>3. throbber' \in IndTargets \cup {None} /\ reacting' \subseteq IndCalls
    BY <2>1, IndRecorded, IndContinued
  <2>4. \A d \in reacting' : d \in reacting \/ d.step # "add"
    BY <2>1, IndContinued
  <2>5. QED
    BY <2>1, <2>2, <2>3, <2>4, IndKeptStep DEF IndQuiet
<1>11. CASE UNCHANGED indicatorsVars
  BY <1>11, IndQuietStep DEF indicatorsVars, IndQuiet
<1>12. QED
  BY <1>1, <1>2, <1>3, <1>4, <1>5, <1>6, <1>7, <1>8, <1>9, <1>10, <1>11 DEF Ind!Next

IndPart == part = "indicators" => IndInv

LEMMA IndPartStarts == SystemInit => IndPart
<1> USE IndicatorsAssumption
<1>1. Ind!Init => IndInv
  BY DEF Ind!Init, IndInv, IndTyped, IndAnswered, IndPending, IndQuiet
<1>2. QED
  BY <1>1 DEF SystemInit, IndPart

LEMMA IndPartKeeps == IndPart /\ [SystemNext]_systemVars => IndPart'
<1> USE IndicatorsAssumption
<1> SUFFICES ASSUME IndPart, [SystemNext]_systemVars, part' = "indicators"
             PROVE  IndInv'
  BY DEF IndPart
<1>1. part = "indicators" /\ [Ind!Next]_indicatorsVars
  BY DEF SystemNext, OthersStay, systemVars
<1>2. QED
  BY <1>1, IndNext DEF IndPart

(* Once the reply is delivered and every call has landed, no message keeps  *)
(* a reaction, and typing stops with the container (throbber/index.ts,     *)
(* typing/index.ts).                                                       *)
THEOREM NoReactionIsLeft == SystemSpec => []NothingLeftBehind
<1>1. IndPart => NothingLeftBehind
  BY DEF IndPart, IndInv, IndAnswered, IndQuiet, IndTyped, IndHas,
     NothingLeftBehind, Ind!NothingLeftBehind
<1>2. QED
  BY <1>1, IndPartStarts, IndPartKeeps, PTL DEF SystemSpec

-----------------------------------------------------------------------------
(* The bridge: what an attempt at a reply has posted so far is a copy of   *)
(* the pieces before the next one, from the message whose id it keeps      *)
(* (BrPosted); a reply whose id was reported is not posted again, so that  *)
(* the thread grows by messages of others only (BrReported).               *)

BrMessages == [text : Replies, part : Nat]

BrTyped ==
    /\ thread \in Seq(BrMessages)
    /\ DOMAIN posting = Replies /\ DOMAIN reported = Replies
    /\ \A x \in Replies :
         /\ posting[x] = [part |-> posting[x].part, first |-> posting[x].first]
         /\ posting[x].part \in 0 .. Pieces[x] + 1
    /\ \A x \in Replies : reported[x] # None => reported[x] \in DOMAIN thread

BrPosted == \A x \in Replies : posting[x].part > 1 =>
    posting[x].first \in DOMAIN thread
      /\ Br!CopyFrom(x, posting[x].first, posting[x].part - 1)

BrReported == \A x \in Replies : reported[x] # None =>
    posting[x].part = 0 /\ Br!CopyFrom(x, reported[x], Pieces[x])

BrInv == BrTyped /\ BrPosted /\ BrReported

(* A message of another reply changes no copy.                             *)
LEMMA BrOthersMessage ==
    ASSUME BrTyped, NEW m \in BrMessages, thread' = Append(thread, m),
           NEW x \in Replies, x # m.text, NEW head \in DOMAIN thread, NEW n \in Nat,
           Br!CopyFrom(x, head, n)
    PROVE  Br!CopyFrom(x, head, n)'
<1>1. /\ thread \in Seq(BrMessages) /\ Len(thread) \in Nat
      /\ Len(thread') = Len(thread) + 1
      /\ \A i \in 1 .. Len(thread) : thread'[i] = thread[i]
      /\ thread'[Len(thread) + 1] = m
      /\ head \in 1 .. Len(thread)
  BY DEF BrTyped
<1>2. \A i \in head .. Len(thread') : i \in head .. Len(thread) \/ i = Len(thread) + 1
  BY <1>1
<1>3. Br!ShownFrom(x, head)' = Br!ShownFrom(x, head)
  BY <1>1, <1>2 DEF Br!ShownFrom
<1>4. \A i \in Br!ShownFrom(x, head) : thread'[i] = thread[i]
  BY <1>1 DEF Br!ShownFrom
<1>5. QED
  BY <1>3, <1>4 DEF Br!CopyFrom

(* The first piece begins a copy, and the next one goes on with it.        *)
LEMMA BrFirstPiece ==
    ASSUME BrTyped, NEW x \in Replies, thread' = Append(thread, [text |-> x, part |-> 1]),
           NEW head, head = Len(thread) + 1
    PROVE  Br!CopyFrom(x, head, 1)'
<1>1. /\ thread \in Seq(BrMessages) /\ Len(thread) \in Nat
      /\ Len(thread') = head
      /\ thread'[head] = [text |-> x, part |-> 1]
  BY DEF BrTyped
<1>2. Br!ShownFrom(x, head)' = {head}
  BY <1>1 DEF Br!ShownFrom
<1>3. QED
  BY <1>1, <1>2 DEF Br!CopyFrom

LEMMA BrNextPiece ==
    ASSUME BrTyped, NEW x \in Replies, NEW n \in Nat \ {0}, NEW head \in DOMAIN thread,
           thread' = Append(thread, [text |-> x, part |-> n + 1]),
           Br!CopyFrom(x, head, n), NEW k, k = n + 1
    PROVE  Br!CopyFrom(x, head, k)'
<1> DEFINE own == Br!ShownFrom(x, head)
           last == Len(thread) + 1
<1>1. /\ thread \in Seq(BrMessages) /\ Len(thread) \in Nat
      /\ Len(thread') = last
      /\ \A i \in 1 .. Len(thread) : thread'[i] = thread[i]
      /\ thread'[last] = [text |-> x, part |-> n + 1]
      /\ head \in 1 .. Len(thread)
  BY DEF BrTyped
<1>2. head .. last = (head .. Len(thread)) \cup {last}
  BY <1>1
<1>3. own' = own \cup {last}
  BY <1>1, <1>2 DEF Br!ShownFrom
<1>4. /\ \A i \in own : i \in 1 .. Len(thread) /\ thread'[i] = thread[i]
      /\ head \in own
      /\ {thread[i].part : i \in own} = 1 .. n
      /\ \A i, j \in own : i < j => thread[i].part < thread[j].part
  <2>1. own \subseteq 1 .. Len(thread)
    BY <1>1 DEF Br!ShownFrom
  <2>2. \A i \in own : thread'[i] = thread[i]
    BY <1>1, <2>1
  <2>3. QED
    BY <2>1, <2>2, Zenon DEF Br!CopyFrom
<1> HIDE DEF own
<1>5. \A i \in own : thread[i].part \in 1 .. n
  BY <1>4
<1>6. {thread'[i].part : i \in own'} = 1 .. n + 1
  <2>1. \A i \in own' : thread'[i].part \in 1 .. n + 1
    BY <1>1, <1>3, <1>4, <1>5
  <2>2. ASSUME NEW p \in 1 .. n + 1 PROVE \E i \in own' : thread'[i].part = p
    <3>1. CASE p = n + 1
      BY <1>1, <1>3, <3>1
    <3>2. CASE p \in 1 .. n
      <4>1. PICK i \in own : thread[i].part = p
        <5>1. p \in {thread[i].part : i \in own}
          BY <1>4, <3>2
        <5>2. QED
          BY <5>1
      <4>2. QED
        BY <1>3, <1>4, <4>1
    <3>3. p = n + 1 \/ p \in 1 .. n
      OBVIOUS
    <3>4. QED
      BY <3>1, <3>2, <3>3
  <2>3. QED
    BY <2>1, <2>2
<1>7. ASSUME NEW i \in own', NEW j \in own', i < j PROVE thread'[i].part < thread'[j].part
  <2>1. i \in own
    BY <1>1, <1>3, <1>4, <1>7
  <2>2. CASE j \in own
    BY <1>4, <1>7, <2>1, <2>2
  <2>3. CASE j = last
    BY <1>1, <1>4, <1>5, <2>1, <2>3
  <2>4. QED
    BY <1>3, <2>2, <2>3
<1>8. QED
  BY <1>3, <1>4, <1>6, <1>7 DEF own, Br!CopyFrom

(* A step that posts nothing, ends some attempts and begins others.        *)
LEMMA BrQuietStep ==
    ASSUME BrInv, BrTyped', UNCHANGED <<thread, reported>>,
           \A x \in Replies : \/ posting'[x] = posting[x]
                              \/ posting'[x].part = 0
                              \/ posting'[x].part = 1 /\ reported[x] = None
    PROVE  BrInv'
<1> USE DEF BrInv
<1>1. \A x, head, n : Br!CopyFrom(x, head, n)' <=> Br!CopyFrom(x, head, n)
  BY DEF Br!CopyFrom, Br!ShownFrom
<1>2. BrPosted'
  BY <1>1 DEF BrPosted, Br!CopyFrom, Br!ShownFrom
<1>3. BrReported'
  BY <1>1 DEF BrReported, Br!CopyFrom, Br!ShownFrom
<1>4. QED
  BY <1>2, <1>3

(* The piece an attempt posts.                                             *)
LEMMA BrPostStep ==
    ASSUME BrGiven, BrInv, NEW x \in Replies, Br!Post(x) PROVE BrInv'
<1> USE DEF BrInv, BrGiven
<1> DEFINE n == posting[x].part
           m == [text |-> x, part |-> n]
<1>1. /\ n \in 1 .. Pieces[x] /\ n \in Nat \ {0} /\ Pieces[x] \in Nat
      /\ m \in BrMessages /\ m.text = x
      /\ thread' = Append(thread, m)
      /\ posting'[x] = [part |-> n + 1,
                        first |-> IF n = 1 THEN Len(thread') ELSE posting[x].first]
      /\ DOMAIN posting' = Replies
      /\ \A y \in Replies \ {x} : posting'[y] = posting[y]
      /\ UNCHANGED reported
  BY DEF Br!Post, BrTyped, BrMessages
<1>2. /\ thread' \in Seq(BrMessages) /\ Len(thread') = Len(thread) + 1
      /\ Len(thread) \in Nat
      /\ DOMAIN thread = 1 .. Len(thread) /\ DOMAIN thread' = 1 .. Len(thread')
  BY <1>1 DEF BrTyped
<1>3. BrTyped'
  <2>1. \A y \in Replies \ {x} :
          /\ posting'[y] = [part |-> posting'[y].part, first |-> posting'[y].first]
          /\ posting'[y].part \in 0 .. Pieces[y] + 1
    BY <1>1 DEF BrTyped
  <2>2. /\ posting'[x] = [part |-> posting'[x].part, first |-> posting'[x].first]
        /\ posting'[x].part \in 0 .. Pieces[x] + 1
    BY <1>1
  <2>3. \A y \in Replies : reported[y] # None => reported[y] \in DOMAIN thread'
    BY <1>2 DEF BrTyped
  <2>4. QED
    BY <1>1, <1>2, <2>1, <2>2, <2>3 DEF BrTyped
<1>4. ASSUME NEW y \in Replies, posting'[y].part > 1,
             NEW k, k = posting'[y].part - 1, NEW head, head = posting'[y].first
      PROVE  head \in DOMAIN thread' /\ Br!CopyFrom(y, head, k)'
  <2>1. CASE y # x
    <3>1. k = posting[y].part - 1 /\ posting[y].part > 1 /\ head = posting[y].first
      BY <1>1, <1>4, <2>1
    <3>2. head \in DOMAIN thread /\ Br!CopyFrom(y, head, k) /\ k \in Nat
      BY <3>1 DEF BrPosted, BrTyped
    <3>3. Br!CopyFrom(y, head, k)'
      BY <1>1, <2>1, <3>2, BrOthersMessage
    <3>4. QED
      BY <1>2, <3>2, <3>3
  <2>2. CASE y = x /\ n = 1
    BY <1>1, <1>2, <1>4, <2>2, BrFirstPiece
  <2>3. CASE y = x /\ n # 1
    <3>1. head = posting[x].first /\ n > 1 /\ k = n
      BY <1>1, <1>4, <2>3
    <3>2. PICK j \in Nat \ {0} : j = n - 1
      BY <1>1, <3>1
    <3>3. head \in DOMAIN thread /\ Br!CopyFrom(x, head, j)
      BY <3>1, <3>2 DEF BrPosted
    <3>4. k = j + 1 /\ thread' = Append(thread, [text |-> x, part |-> j + 1])
      BY <1>1, <3>1, <3>2
    <3>5. Br!CopyFrom(x, head, k)'
      BY <3>2, <3>3, <3>4, BrNextPiece
    <3>6. QED
      BY <1>2, <2>3, <3>3, <3>5
  <2>4. QED
    BY <2>1, <2>2, <2>3
<1>5. BrPosted'
  BY <1>4 DEF BrPosted
<1>6. ASSUME NEW y \in Replies, NEW head, head = reported[y], head # None
      PROVE  posting'[y].part = 0 /\ Br!CopyFrom(y, head, Pieces[y])'
  <2>1. y # x /\ posting[y].part = 0 /\ Br!CopyFrom(y, head, Pieces[y])
    BY <1>1, <1>6 DEF BrReported
  <2>2. head \in DOMAIN thread /\ Pieces[y] \in Nat
    BY <1>6 DEF BrTyped
  <2>3. QED
    BY <1>1, <2>1, <2>2, BrOthersMessage
<1>7. BrReported'
  BY <1>1, <1>6 DEF BrReported
<1>8. QED
  BY <1>3, <1>5, <1>7

LEMMA BrNext ==
    ASSUME BrGiven, BrInv, [Br!Next]_bridgeVars PROVE BrInv'
<1> USE DEF BrInv, BrGiven
<1>1. CASE UNCHANGED <<thread, posting, reported>>
  BY <1>1, BrQuietStep DEF BrTyped
<1>2. ASSUME NEW x \in Replies, Br!Deliver(x) PROVE BrInv'
  BY <1>2, BrQuietStep DEF Br!Deliver, Br!Idle, BrTyped
<1>3. ASSUME NEW x \in Replies, Br!PostFails(x) PROVE BrInv'
  BY <1>3, BrQuietStep DEF Br!PostFails, Br!Idle, BrTyped
<1>4. ASSUME NEW x \in Replies, Br!Returns(x) PROVE BrInv'
  <2>1. /\ posting[x].part = Pieces[x] + 1 /\ Pieces[x] \in Nat \ {0}
        /\ DOMAIN reported' = Replies /\ DOMAIN posting' = Replies
        /\ reported'[x] = posting[x].first /\ posting'[x] = [part |-> 0, first |-> None]
        /\ \A y \in Replies \ {x} : reported'[y] = reported[y] /\ posting'[y] = posting[y]
        /\ UNCHANGED thread
    BY <1>4 DEF Br!Returns, Br!Idle, BrTyped
  <2>2. \A y, head, n : Br!CopyFrom(y, head, n)' <=> Br!CopyFrom(y, head, n)
    BY <2>1 DEF Br!CopyFrom, Br!ShownFrom
  <2>3. posting[x].first \in DOMAIN thread /\ Br!CopyFrom(x, posting[x].first, Pieces[x])
    BY <2>1 DEF BrPosted
  <2>4. BrTyped'
    <3>1. \A y \in Replies :
            /\ posting'[y] = [part |-> posting'[y].part, first |-> posting'[y].first]
            /\ posting'[y].part \in 0 .. Pieces[y] + 1
      BY <2>1 DEF BrTyped
    <3>2. \A y \in Replies : reported'[y] # None => reported'[y] \in DOMAIN thread
      BY <2>1, <2>3 DEF BrTyped
    <3>3. QED
      BY <2>1, <3>1, <3>2 DEF BrTyped
  <2>5. BrPosted'
    BY <2>1 DEF BrPosted, Br!CopyFrom, Br!ShownFrom
  <2>6. BrReported'
    <3>1. \A y \in Replies : reported'[y] # None =>
            posting'[y].part = 0 /\ Br!CopyFrom(y, reported'[y], Pieces[y])
      BY <2>1, <2>3 DEF BrReported
    <3>2. QED
      BY <2>1, <3>1 DEF BrReported, Br!CopyFrom, Br!ShownFrom
  <2>7. QED
    BY <2>4, <2>5, <2>6
<1>5. QED
  BY <1>1, <1>2, <1>3, <1>4, BrPostStep
  DEF Br!Next, Br!Subscribe, Br!ListenerEnds, Br!StartGateway, Br!Teardown, Br!Dispatch,
      Br!Downloaded, Br!outgoing, bridgeVars

BrPart == part = "bridge" => BrInv

LEMMA BrPartStarts == SystemInit => BrPart
<1> USE BridgeAssumption
<1>1. Br!Init => BrInv
  BY DEF Br!Init, BrInv, BrTyped, BrPosted, BrReported, Br!Idle, BrGiven
<1>2. QED
  BY <1>1 DEF SystemInit, BrPart

LEMMA BrPartKeeps == BrPart /\ [SystemNext]_systemVars => BrPart'
<1> USE BridgeAssumption
<1> SUFFICES ASSUME BrPart, [SystemNext]_systemVars, part' = "bridge"
             PROVE  BrInv'
  BY DEF BrPart
<1>1. part = "bridge" /\ [Br!Next]_bridgeVars
  BY DEF SystemNext, OthersStay, systemVars
<1>2. QED
  BY <1>1, BrNext DEF BrPart

(* The id the adapter reports heads a whole copy of the reply, however many *)
(* attempts it took and whatever others post (chat-sdk-bridge.ts deliver). *)
THEOREM ReportedIdsHeadCopies == SystemSpec => []IdHeadsTheCopy
<1>1. BrPart => IdHeadsTheCopy
  BY DEF BrPart, BrInv, BrReported, IdHeadsTheCopy, Br!IdHeadsTheCopy
<1>2. QED
  BY <1>1, BrPartStarts, BrPartKeeps, PTL DEF SystemSpec
=============================================================================
