----------------------------- MODULE AgentProofs -----------------------------
(***************************************************************************)
(* The agent's side, proved for any number of rows, sessions, turns and    *)
(* crashes: its conversations, what its container is started with, the     *)
(* numbers its messages carry, and how the shim translates between its SDK *)
(* and a backend that speaks OpenAI.                                       *)
(***************************************************************************)
EXTENDS Operations, FiniteSetTheorems, SequenceTheorems, WellFoundedInduction, TLAPS

-----------------------------------------------------------------------------
(* Conversation: the invariant says where a query stands (CvStage) and that   *)
(* every id that is kept anywhere is the id of a session that was begun and   *)
(* not forgotten (CvKept).                                                    *)

SessionIds == (1..begun) \cup {None}

CvStage ==
  /\ begun \in Nat
  /\ loop = "query" => /\ query \in [from : SessionIds, id : SessionIds]
                       /\ {query.from, query.id} \cap forgotten = {}
  /\ loop # "query" => query = None

CvKept ==
  /\ forgotten \subseteq 1..begun
  /\ stored \in SessionIds \ forgotten
  /\ recalled \in SessionIds
  /\ loop # "down" => recalled \notin forgotten

CvInv == CvStage /\ CvKept

LEMMA CvStarts == ASSUME None \notin Nat PROVE Cv!Init => CvInv
BY DEF Cv!Init, CvInv, CvStage, CvKept, SessionIds

(* The SDK names a session: the one it resumed or the next one.               *)
LEMMA InSessionKeeps ==
  ASSUME None \notin Nat, CvInv, loop = "query", UNCHANGED <<loop, recalled, forgotten>>,
         NEW id \in 1..(begun + 1), id \notin forgotten, Cv!InSession(id)
  PROVE  CvInv'
<1>1. begun' \in Nat /\ 1..begun \subseteq 1..begun' /\ id \in 1..begun'
  BY DEF CvInv, CvStage, Cv!InSession
<1>2. query' \in [from : SessionIds', id : SessionIds']
  BY <1>1 DEF CvInv, CvStage, Cv!InSession, SessionIds
<1>3. query'.from = query.from /\ query'.id = id
  BY DEF CvInv, CvStage, Cv!InSession
<1>4. QED
  BY <1>1, <1>2, <1>3 DEF CvInv, CvStage, CvKept, SessionIds, Cv!InSession

LEMMA CvNext == ASSUME None \notin Nat, CvInv, [Cv!Next]_conversationVars PROVE CvInv'
<1> USE DEF CvInv, CvStage, CvKept, SessionIds
<1>1. ASSUME UNCHANGED <<loop, query, begun, forgotten, stored, recalled>> PROVE CvInv'
  BY <1>1
<1>2. ASSUME NEW kind \in {"chat", "clear"}, Cv!Arrives(kind) PROVE CvInv'
  BY <1>1, <1>2 DEF Cv!Arrives, Cv!container, Cv!history
<1>3. CASE Cv!Boot
  BY <1>3 DEF Cv!Boot, Cv!history
<1>4. CASE Cv!Crash
  BY <1>4 DEF Cv!Crash, Cv!container
<1>5. CASE Cv!Claim
  BY <1>5 DEF Cv!Claim, Cv!container, Cv!history
<1>6. CASE Cv!RunCommands
  <2>1. CASE Cv!Forget /\ forgotten' = 1..begun
    BY <1>6, <2>1 DEF Cv!RunCommands, Cv!Forget
  <2>2. CASE UNCHANGED <<recalled, stored, forgotten>>
    BY <1>6, <2>2 DEF Cv!RunCommands
  <2>3. QED
    BY <1>6, <2>1, <2>2 DEF Cv!RunCommands
<1>7. CASE Cv!OnlyCommands
  BY <1>7 DEF Cv!OnlyCommands, Cv!container, Cv!history
<1>8. CASE Cv!OpenQuery
  BY <1>8 DEF Cv!OpenQuery, Cv!history
<1>9. CASE Cv!Started
  <2>1. UNCHANGED <<loop, recalled, forgotten>> /\ loop = "query"
    BY <1>9 DEF Cv!Started, Cv!container
  <2>2. CASE query.from # None /\ Cv!InSession(query.from)
    <3>1. query.from \in 1..(begun + 1) /\ query.from \notin forgotten
      BY <2>1, <2>2
    <3>2. QED
      BY <2>1, <2>2, <3>1, InSessionKeeps
  <2>3. CASE Cv!InSession(begun + 1)
    <3>1. begun + 1 \in 1..(begun + 1) /\ begun + 1 \notin forgotten
      OBVIOUS
    <3>2. QED
      BY <2>1, <2>3, <3>1, InSessionKeeps
  <2>4. QED
    BY <1>9, <2>2, <2>3 DEF Cv!Started
<1>10. CASE Cv!FollowUp \/ Cv!Read \/ Cv!TurnDone
  BY <1>1, <1>10 DEF Cv!FollowUp, Cv!Read, Cv!TurnDone, Cv!container, Cv!history
<1>11. CASE Cv!Closed
  <2>1. loop = "query" /\ loop' = "idle" /\ query' = None /\ UNCHANGED <<begun, forgotten>>
    BY <1>11 DEF Cv!Closed, Cv!history
  <2>2. CASE query.id # None /\ recalled' = query.id /\ stored' = query.id
    <3>1. query.id \in 1..begun /\ query.id \notin forgotten
      BY <2>1, <2>2
    <3>2. QED
      BY <2>1, <2>2, <3>1
  <2>3. CASE UNCHANGED <<recalled, stored>>
    BY <2>1, <2>3
  <2>4. \/ query.id # None /\ recalled' = query.id /\ stored' = query.id
        \/ UNCHANGED <<recalled, stored>>
    BY <1>11, Zenon DEF Cv!Closed
  <2>5. QED
    BY <2>2, <2>3, <2>4
<1>12. CASE Cv!Throws
  <2>1. loop = "query" /\ loop' = "idle" /\ query' = None /\ UNCHANGED <<begun, forgotten>>
    BY <1>12 DEF Cv!Throws, Cv!history
  <2>2. CASE recalled' = None /\ stored' = None
    <3>1. None \notin forgotten
      <4>1. forgotten \subseteq 1..begun
        OBVIOUS
      <4>2. 1..begun \subseteq Nat
        OBVIOUS
      <4>3. QED
        BY <4>1, <4>2, Zenon
    <3>2. QED
      BY <2>1, <2>2, <3>1
  <2>3. CASE UNCHANGED <<recalled, stored>>
    BY <2>1, <2>3
  <2>4. (recalled' = None /\ stored' = None) \/ UNCHANGED <<recalled, stored>>
    BY <1>12, Zenon DEF Cv!Throws, Cv!Forget
  <2>5. QED
    BY <2>2, <2>3, <2>4
<1>13. CASE Cv!TranscriptLost
  BY <1>13 DEF Cv!TranscriptLost, Cv!container, Cv!history
<1>14. CASE UNCHANGED conversationVars
  BY <1>1, <1>14 DEF conversationVars
<1>15. QED
  BY <1>2, <1>3, <1>4, <1>5, <1>6, <1>7, <1>8, <1>9, <1>10, <1>11, <1>12, <1>13, <1>14
  DEF Cv!Next

CvPart == part = "conversation" => CvInv

LEMMA CvPartStarts == SystemInit => CvPart
BY CvStarts, ConversationAssumption DEF SystemInit, CvPart

LEMMA CvPartKeeps == CvPart /\ [SystemNext]_systemVars => CvPart'
<1> USE ConversationAssumption
<1> SUFFICES ASSUME CvPart, [SystemNext]_systemVars, part' = "conversation"
             PROVE  CvInv'
  BY DEF CvPart
<1>1. part = "conversation" /\ [Cv!Next]_conversationVars
  BY DEF SystemNext, OthersStay, systemVars
<1>2. QED
  BY <1>1, CvNext DEF CvPart

(* Once a /clear was carried out, no query and neither copy of the session id *)
(* leads back to a session from before it, whatever crashes or throws         *)
(* (poll-loop.ts, session-state.ts).                                          *)
THEOREM NothingIsRecalled == SystemSpec => []ClearForgets
<1>1. CvPart => ClearForgets
  BY DEF CvPart, CvInv, CvStage, CvKept, ClearForgets, Cv!ClearForgets
<1>2. QED
  BY <1>1, CvPartStarts, CvPartKeeps, PTL DEF SystemSpec

-----------------------------------------------------------------------------
(* What the library's functions give                                       *)

(* A set of numbers that is not empty has a least one.                     *)
LEMMA LeastNumber ==
    ASSUME NEW S, S \subseteq Nat, S # {}
    PROVE  \E m \in S : \A n \in S : m <= n
<1> DEFINE R == OpToRel(<, Nat)
<1>1. IsWellFoundedOn(R, Nat)
  BY NatLessThanWellFounded
<1>2. \A a, b \in Nat : a < b => <<a, b>> \in R
  BY DEF OpToRel
<1> HIDE DEF R
<1>3. PICK m \in S : \A n \in S : <<n, m>> \notin R
  BY <1>1, WFMin
<1>4. \A n \in S : n \in Nat /\ ~(n < m)
  BY <1>2, <1>3
<1>5. \A n \in S : m <= n
  BY <1>3, <1>4
<1>6. QED
  BY <1>3, <1>5

(* A finite set can be put into a sequence.                                *)
LEMMA SetInSequence ==
    ASSUME NEW S, IsFiniteSet(S)
    PROVE  Spw!SetToSeq(S) \in Seq(S)
<1>1. ExistsBijection(1 .. Cardinality(S), S) /\ Cardinality(S) \in Nat
  BY FS_CardinalityType
<1>2. PICK f \in Bijection(1 .. Cardinality(S), S) : TRUE
  BY <1>1 DEF ExistsBijection
<1>3. f \in [1 .. Cardinality(S) -> S] /\ Spw!IsInjective(f)
  BY <1>2 DEF Bijection, Injection, Spw!IsInjective, IsInjective
<1>4. Spw!Cardinality(S) = Cardinality(S)
  BY DEF Spw!Cardinality, Cardinality
<1>5. Spw!SetToSeq(S) \in [1 .. Cardinality(S) -> S]
  BY <1>3, <1>4 DEF Spw!SetToSeq
<1>6. QED
  BY <1>1, <1>5

-----------------------------------------------------------------------------
(* What a container starts with.  Of the memory the invariant says that a  *)
(* CLAUDE.md of before the cutover is there only until the host has        *)
(* started once (SpwCutOver), of the mounts that the list in use was on    *)
(* disk while this host ran (SpwListSeen).                                 *)

SpwShape(c) == [at |-> c.at, mounts |-> c.mounts, twice |-> c.twice, env |-> c.env,
                own |-> c.own]

SpwTyped ==
    /\ mounts \in Seq(MountRequests)
    /\ profile \subseteq MountRequests
    /\ DOMAIN container = GroupSessions
    /\ \A s \in GroupSessions : container[s] # None => container[s] = SpwShape(container[s])

SpwCutOver == claudeMd = "own" =>
    ~up /\ notes = "none" /\ \A s \in GroupSessions : container[s] = None

SpwKept == owed = None \/ (owed # "none" /\ Spw!MemoryKept)

SpwPreparing(s) == container[s] # None /\ container[s].at = "preparing"

SpwResolved == \A s \in GroupSessions : SpwPreparing(s) =>
                   imports \subseteq frags \cup {"shared", "memory"}

SpwListSeen == up => allowlist \in rootsSeen /\ rootsRead \in rootsSeen \cup {None}

SpwAllowed == \A s \in GroupSessions : container[s] # None =>
    Spw!MountsWithin(container[s].mounts) /\ Spw!OneCredential(container[s].env)

SpwFiles == SpwTyped /\ SpwCutOver /\ SpwKept /\ SpwResolved

SpwGrants == SpwTyped /\ SpwListSeen /\ SpwAllowed

SpwInv == SpwFiles /\ SpwGrants

(* The mounts of a container stay requests: a profile only adds some.      *)
LEMMA SpwWithProfile ==
    ASSUME SpwGiven, SpwTyped, NEW given \in Seq(MountRequests)
    PROVE  Spw!WithProfile(given) \in Seq(MountRequests)
<1>1. IsFiniteSet(profile)
  BY FS_Subset DEF SpwTyped, SpwGiven
<1>2. Spw!SetToSeq(profile) \in Seq(MountRequests)
  BY <1>1, SetInSequence DEF SpwTyped
<1>3. QED
  BY <1>2 DEF Spw!WithProfile

(* A list that was on disk grants nothing beyond its roots.                *)
LEMMA SpwGrantWithin ==
    ASSUME SpwGiven, NEW r \in MountRequests, NEW roots, roots \in rootsSeen,
           NEW m \in Spw!Grant(r, roots)
    PROVE  Spw!MountsWithin({m})
<1> DEFINE real == PathsFound[MountWants[r].path]
           fits == {i \in DOMAIN AllowedRoots[roots] :
                      /\ PathsFound[AllowedRoots[roots][i].path] # None
                      /\ Spw!Under(real, PathsFound[AllowedRoots[roots][i].path])}
           least == CHOOSE i \in fits : \A j \in fits : i <= j
           root == AllowedRoots[roots][least]
<1>1. /\ roots \in Lists
      /\ fits # {}
      /\ m = [path |-> real, at |-> MountWants[r].at,
              write |-> MountWants[r].write /\ root.write]
  BY DEF Spw!Grant, Spw!AllowedRoot
<1>2. least \in fits
  <2>1. fits \subseteq Nat
    BY <1>1 DEF SpwGiven
  <2>2. \E i \in fits : \A j \in fits : i <= j
    BY <1>1, <2>1, LeastNumber
  <2>3. QED
    BY <2>2
<1>3. /\ least \in DOMAIN AllowedRoots[roots]
      /\ PathsFound[root.path] # None
      /\ Spw!Under(m.path, PathsFound[root.path])
  BY <1>1, <1>2
<1>4. m.write => root.write /\ MountWants[r].write /\ MountWants[r].at = m.at
  BY <1>1
<1> HIDE DEF least, fits
<1>5. QED
  BY <1>1, <1>3, <1>4 DEF Spw!MountsWithin

(* All that was granted together.                                          *)
LEMMA SpwGrantedWithin ==
    ASSUME SpwGiven, SpwTyped, NEW roots, roots \in rootsSeen
    PROVE  Spw!MountsWithin(Spw!Granted(roots))
<1>1. \A r \in Spw!Range(mounts) : r \in MountRequests
  BY DEF SpwTyped, Spw!Range
<1>2. ASSUME NEW m \in Spw!Granted(roots) PROVE Spw!MountsWithin({m})
  <2>1. PICK r \in Spw!Range(mounts) : m \in Spw!Grant(r, roots)
    BY DEF Spw!Granted
  <2>2. QED
    BY <1>1, <2>1, SpwGrantWithin
<1>3. QED
  BY <1>2 DEF Spw!MountsWithin

LEMMA SpwTypedNext ==
    ASSUME SpwGiven, SpwTyped, [Spw!Next]_spawnVars PROVE SpwTyped'
<1> USE DEF SpwTyped, SpwShape, Spw!group, Spw!around, Spw!history
<1>1. CASE Spw!HostStart
  BY <1>1, SpwWithProfile DEF Spw!HostStart
<1>2. CASE Spw!Crash
  BY <1>2 DEF Spw!Crash
<1>3. ASSUME NEW text \in {"empty", "seed"}, Spw!CreateGroup(text) PROVE SpwTyped'
  <2>1. << >> \in Seq(MountRequests)
    OBVIOUS
  <2>2. QED
    BY <1>3, <2>1, SpwWithProfile DEF Spw!CreateGroup
<1>4. ASSUME NEW s \in GroupSessions, Spw!Prepare(s) PROVE SpwTyped'
  BY <1>4 DEF Spw!Prepare
<1>5. ASSUME NEW s \in GroupSessions, Spw!PrepareCut(s) PROVE SpwTyped'
  BY <1>5 DEF Spw!PrepareCut
<1>6. ASSUME NEW s \in GroupSessions, Spw!Exit(s) PROVE SpwTyped'
  BY <1>6 DEF Spw!Exit
<1>7. ASSUME NEW s \in GroupSessions, NEW done \in BOOLEAN, Spw!Start(s, done)
      PROVE  SpwTyped'
  BY <1>7 DEF Spw!Start
<1>8. ASSUME NEW text \in {"agent", "none"}, Spw!AgentRemembers(text) PROVE SpwTyped'
  BY <1>8 DEF Spw!AgentRemembers
<1>9. CASE Spw!EditAllowlist \/ Spw!EditSkills \/ Spw!EditServers \/ Spw!EditProfile
  BY <1>9 DEF Spw!EditAllowlist, Spw!EditSkills, Spw!EditServers, Spw!EditProfile, Spw!Edit
<1>10. CASE UNCHANGED spawnVars
  BY <1>10 DEF spawnVars
<1>11. QED
  BY <1>1, <1>2, <1>3, <1>4, <1>5, <1>6, <1>7, <1>8, <1>9, <1>10 DEF Spw!Next

LEMMA SpwFilesNext ==
    ASSUME SpwGiven, SpwFiles, [Spw!Next]_spawnVars
    PROVE  SpwCutOver' /\ SpwKept' /\ SpwResolved'
<1> USE DEF SpwFiles, SpwTyped, SpwCutOver, SpwKept, SpwResolved, SpwPreparing,
            Spw!MemoryKept, Spw!group, Spw!around, Spw!history
<1>1. CASE Spw!HostStart
  BY <1>1 DEF Spw!HostStart, Spw!Migrated
<1>2. CASE Spw!Crash
  BY <1>2 DEF Spw!Crash
<1>3. ASSUME NEW text \in {"empty", "seed"}, Spw!CreateGroup(text)
      PROVE  SpwCutOver' /\ SpwKept' /\ SpwResolved'
  BY <1>3 DEF Spw!CreateGroup, Spw!Completed
<1>4. ASSUME NEW s \in GroupSessions, Spw!Prepare(s)
      PROVE  SpwCutOver' /\ SpwKept' /\ SpwResolved'
  BY <1>4 DEF Spw!Prepare, Spw!Completed, Spw!Imports
<1>5. ASSUME NEW s \in GroupSessions, Spw!PrepareCut(s)
      PROVE  SpwCutOver' /\ SpwKept' /\ SpwResolved'
  BY <1>5 DEF Spw!PrepareCut, Spw!Completed
<1>6. ASSUME NEW s \in GroupSessions, Spw!Exit(s)
      PROVE  SpwCutOver' /\ SpwKept' /\ SpwResolved'
  BY <1>6 DEF Spw!Exit
<1>7. ASSUME NEW s \in GroupSessions, NEW done \in BOOLEAN, Spw!Start(s, done)
      PROVE  SpwCutOver' /\ SpwKept' /\ SpwResolved'
  BY <1>7 DEF Spw!Start, SpwShape
<1>8. ASSUME NEW text \in {"agent", "none"}, Spw!AgentRemembers(text)
      PROVE  SpwCutOver' /\ SpwKept' /\ SpwResolved'
  BY <1>8 DEF Spw!AgentRemembers
<1>9. CASE Spw!EditAllowlist \/ Spw!EditSkills \/ Spw!EditServers \/ Spw!EditProfile
  <2>1. UNCHANGED <<claudeMd, imports, notes, frags, up, container, owed>>
    BY <1>9 DEF Spw!EditAllowlist, Spw!EditSkills, Spw!EditServers, Spw!EditProfile, Spw!Edit
  <2>2. QED
    BY <2>1
<1>10. CASE UNCHANGED spawnVars
  BY <1>10 DEF spawnVars
<1>11. QED
  BY <1>1, <1>2, <1>3, <1>4, <1>5, <1>6, <1>7, <1>8, <1>9, <1>10 DEF Spw!Next

(* A step that starts nothing, and takes no list from those seen.          *)
LEMMA SpwNoGrantStep ==
    ASSUME SpwGrants, rootsSeen \subseteq rootsSeen',
           \A s \in GroupSessions : container'[s] \in {container[s], None}
    PROVE  SpwAllowed'
<1>1. ASSUME NEW s \in GroupSessions, container'[s] # None
      PROVE  /\ container'[s] = container[s]
             /\ Spw!MountsWithin(container[s].mounts)
             /\ Spw!OneCredential(container[s].env)
  BY <1>1 DEF SpwGrants, SpwAllowed
<1>2. ASSUME NEW s \in GroupSessions, container'[s] # None,
             NEW m \in container'[s].mounts
      PROVE  \E roots \in rootsSeen' \cap Lists : \E i \in DOMAIN AllowedRoots[roots] :
                 LET root == AllowedRoots[roots][i] IN
                 /\ PathsFound[root.path] # None
                 /\ Spw!Under(m.path, PathsFound[root.path])
                 /\ m.write => root.write /\ \E r \in MountRequests :
                                   MountWants[r].write /\ MountWants[r].at = m.at
  BY <1>1, <1>2 DEF Spw!MountsWithin
<1>3. QED
  BY <1>1, <1>2 DEF SpwAllowed, Spw!MountsWithin, Spw!OneCredential

LEMMA SpwGrantsNext ==
    ASSUME SpwGiven, SpwGrants, [Spw!Next]_spawnVars
    PROVE  SpwListSeen' /\ SpwAllowed'
<1> USE DEF SpwGrants, SpwListSeen, Spw!group, Spw!around, Spw!history
<1>1. CASE Spw!HostStart
  BY <1>1 DEF Spw!HostStart, SpwAllowed
<1>2. CASE Spw!Crash
  BY <1>2, SpwNoGrantStep DEF Spw!Crash
<1>3. ASSUME NEW text \in {"empty", "seed"}, Spw!CreateGroup(text)
      PROVE  SpwListSeen' /\ SpwAllowed'
  BY <1>3, SpwNoGrantStep DEF Spw!CreateGroup
<1>4. ASSUME NEW s \in GroupSessions, Spw!Prepare(s)
      PROVE  SpwListSeen' /\ SpwAllowed'
  <2>1. /\ allowlist \in rootsSeen /\ rootsRead \in rootsSeen \cup {None}
        /\ UNCHANGED <<rootsSeen, allowlist, up>>
        /\ rootsRead' = (IF mounts = << >> THEN rootsRead ELSE Spw!Loaded)
    BY <1>4 DEF Spw!Prepare
  <2>2. Spw!Loaded \in rootsSeen
    BY <2>1 DEF Spw!Loaded
  <2>3. /\ container'[s].mounts = Spw!Granted(Spw!Loaded) /\ container'[s].env = {}
        /\ \A t \in GroupSessions \ {s} : container'[t] = container[t]
    BY <1>4 DEF Spw!Prepare, SpwTyped
  <2>4. Spw!MountsWithin(container'[s].mounts) /\ Spw!OneCredential(container'[s].env)
    BY <2>2, <2>3, SpwGrantedWithin DEF Spw!OneCredential
  <2>5. \A t \in GroupSessions : container'[t] # None =>
            Spw!MountsWithin(container'[t].mounts) /\ Spw!OneCredential(container'[t].env)
    BY <2>3, <2>4 DEF SpwAllowed
  <2>6. SpwAllowed'
    BY <2>1, <2>5 DEF SpwAllowed, Spw!MountsWithin, Spw!OneCredential
  <2>7. QED
    BY <2>1, <2>2, <2>6
<1>5. ASSUME NEW s \in GroupSessions, Spw!PrepareCut(s)
      PROVE  SpwListSeen' /\ SpwAllowed'
  BY <1>5, SpwNoGrantStep DEF Spw!PrepareCut
<1>6. ASSUME NEW s \in GroupSessions, Spw!Exit(s) PROVE SpwListSeen' /\ SpwAllowed'
  BY <1>6, SpwNoGrantStep DEF Spw!Exit, SpwTyped
<1>7. ASSUME NEW s \in GroupSessions, NEW done \in BOOLEAN, Spw!Start(s, done)
      PROVE  SpwListSeen' /\ SpwAllowed'
  <2>1. UNCHANGED <<rootsSeen, rootsRead, allowlist, up>>
    BY <1>7 DEF Spw!Start
  <2>2. /\ container[s] # None
        /\ container[s] = SpwShape(container[s])
        /\ container' = [container EXCEPT ![s] =
             IF @.twice THEN None
             ELSE [@ EXCEPT !.at = "running",
                     !.own = Spw!Injected,
                     !.env = IF done THEN {} ELSE Spw!Fallback(keys)]]
    BY <1>7 DEF Spw!Start, SpwTyped
  <2>3. CASE container[s].twice
    BY <2>1, <2>2, <2>3, SpwNoGrantStep DEF SpwTyped
  <2>4. CASE ~container[s].twice
    <3>1. /\ container'[s].mounts = container[s].mounts
          /\ container'[s].env = IF done THEN {} ELSE Spw!Fallback(keys)
          /\ \A t \in GroupSessions \ {s} : container'[t] = container[t]
      BY <2>2, <2>4 DEF SpwTyped, SpwShape
    <3>2. Spw!OneCredential(container'[s].env)
      <4>1. "oauth" \in Spw!Fallback(keys) => Spw!Oauth(keys)
        BY DEF Spw!Fallback
      <4>2. "api key" \in Spw!Fallback(keys) => ~Spw!Oauth(keys)
        BY DEF Spw!Fallback
      <4>3. QED
        BY <3>1, <4>1, <4>2 DEF Spw!OneCredential
    <3>3. \A t \in GroupSessions : container'[t] # None =>
            Spw!MountsWithin(container'[t].mounts) /\ Spw!OneCredential(container'[t].env)
      BY <2>2, <3>1, <3>2 DEF SpwAllowed
    <3>4. QED
      BY <2>1, <3>3 DEF SpwAllowed, Spw!MountsWithin, Spw!OneCredential
  <2>5. QED
    BY <2>3, <2>4
<1>8. ASSUME NEW text \in {"agent", "none"}, Spw!AgentRemembers(text)
      PROVE  SpwListSeen' /\ SpwAllowed'
  BY <1>8, SpwNoGrantStep DEF Spw!AgentRemembers
<1>9. CASE Spw!EditAllowlist
  BY <1>9, SpwNoGrantStep DEF Spw!EditAllowlist, Spw!Edit
<1>10. CASE Spw!EditSkills \/ Spw!EditServers \/ Spw!EditProfile
  BY <1>10, SpwNoGrantStep DEF Spw!EditSkills, Spw!EditServers, Spw!EditProfile, Spw!Edit
<1>11. CASE UNCHANGED spawnVars
  BY <1>11, SpwNoGrantStep DEF spawnVars
<1>12. QED
  BY <1>1, <1>2, <1>3, <1>4, <1>5, <1>6, <1>7, <1>8, <1>9, <1>10, <1>11 DEF Spw!Next

LEMMA SpwNext ==
    ASSUME SpwGiven, SpwInv, [Spw!Next]_spawnVars PROVE SpwInv'
BY SpwTypedNext, SpwFilesNext, SpwGrantsNext DEF SpwInv, SpwFiles, SpwGrants

SpwPart == part = "spawn" => SpwInv

LEMMA SpwPartStarts == SystemInit => SpwPart
<1> USE SpawnAssumption
<1>1. Spw!Init => SpwInv
  <2>1. Spw!Init => SpwTyped
    BY DEF Spw!Init, SpwTyped
  <2>2. Spw!Init => SpwCutOver /\ SpwKept /\ SpwResolved
    BY DEF Spw!Init, SpwCutOver, SpwKept, Spw!MemoryKept, SpwResolved, SpwPreparing
  <2>3. Spw!Init => SpwListSeen /\ SpwAllowed
    BY DEF Spw!Init, SpwListSeen, SpwAllowed
  <2>4. QED
    BY <2>1, <2>2, <2>3 DEF SpwInv, SpwFiles, SpwGrants
<1>2. QED
  BY <1>1 DEF SystemInit, SpwPart

LEMMA SpwPartKeeps == SpwPart /\ [SystemNext]_systemVars => SpwPart'
<1> USE SpawnAssumption
<1> SUFFICES ASSUME SpwPart, [SystemNext]_systemVars, part' = "spawn"
             PROVE  SpwInv'
  BY DEF SpwPart
<1>1. part = "spawn" /\ [Spw!Next]_spawnVars
  BY DEF SystemNext, OthersStay, systemVars
<1>2. QED
  BY <1>1, SpwNext DEF SpwPart

(* What an agent group remembers survives the cutover, every composition of *)
(* CLAUDE.md and every crash between two of its writes, and a container    *)
(* starts with a CLAUDE.md whose imports are there (claude-md-compose.ts,  *)
(* group-init.ts).                                                         *)
THEOREM MemoryIsKept == SystemSpec => []GroupFilesHold
<1>1. SpwPart => GroupFilesHold
  BY DEF SpwPart, SpwInv, SpwFiles, SpwKept, SpwResolved, SpwPreparing, SpwTyped,
         GroupFilesHold, Spw!GroupFilesHold, Spw!MemoryKept, Spw!ImportsResolve
<1>2. QED
  BY <1>1, SpwPartStarts, SpwPartKeeps, PTL DEF SystemSpec

(* A container has no mount that no list allowed, none it may write to that *)
(* was to be read, and no API key beside a subscription's token            *)
(* (mount-security/index.ts, container-runner.ts).                         *)
THEOREM NothingBeyondItsGrants == SystemSpec => []GrantsAreAllowed
<1>1. SpwPart => GrantsAreAllowed
  BY DEF SpwPart, SpwInv, SpwGrants, SpwAllowed, GrantsAreAllowed, Spw!GrantsAreAllowed
<1>2. QED
  BY <1>1, SpwPartStarts, SpwPartKeeps, PTL DEF SystemSpec

-----------------------------------------------------------------------------
(* The numbers of a session: those of messages_in are even, those the      *)
(* agent was given for messages_out are odd (OgKnown), so that no later    *)
(* message takes a number over; what writeMessageOut has read is a number. *)

OgWriting(w) == writing[w] = [what |-> writing[w].what, turn |-> writing[w].turn,
                              out |-> writing[w].out, all |-> writing[w].all]

OgTyped ==
    /\ inbound \subseteq Og!Numbers
    /\ Og!Out \subseteq Og!Numbers
    /\ DOMAIN writing = Og!Writers
    /\ \A w \in Og!Writers : writing[w] # None =>
         OgWriting(w) /\ writing[w].out \in Nat /\ writing[w].all \in Nat \cup {None}

OgEven == \A n \in inbound : n % 2 = 0

OgKnown == \A k \in known : \/ \E n \in inbound : k = <<n, "in">>
                            \/ \E n \in Og!Out : n % 2 = 1 /\ k = <<n, "out">>

OgInv == OgTyped /\ OgEven /\ OgKnown

(* The highest number of a table is there, or it is none.                  *)
LEMMA OgHighest ==
    ASSUME MaxSeq \in Nat, NEW S, S \subseteq Og!Numbers
    PROVE  Og!Highest(S) \in S \cup {0} /\ Og!Highest(S) \in Nat
<1> DEFINE below == {MaxSeq - n : n \in S}
<1>1. S \subseteq Nat /\ \A n \in S : n <= MaxSeq
  BY DEF Og!Numbers
<1>2. \E n \in S \cup {0} : \A m \in S : m <= n
  <2>1. CASE S = {}
    BY <2>1
  <2>2. CASE S # {}
    <3>1. below \subseteq Nat /\ below # {}
      <4>1. \A n \in S : MaxSeq - n \in Nat
        BY <1>1
      <4>2. QED
        BY <2>2, <4>1
    <3>2. PICK b \in below : \A c \in below : b <= c
      BY <3>1, LeastNumber
    <3>3. PICK n \in S : b = MaxSeq - n
      OBVIOUS
    <3>4. ASSUME NEW m \in S PROVE m <= n
      <4>1. MaxSeq - m \in below
        OBVIOUS
      <4>2. MaxSeq - n <= MaxSeq - m
        BY <3>2, <3>3, <4>1
      <4>3. QED
        BY <1>1, <4>2
    <3>5. QED
      BY <3>4
  <2>3. QED
    BY <2>1, <2>2
<1>3. Og!Highest(S) \in S \cup {0}
  BY <1>2 DEF Og!Highest
<1>4. CASE Og!Highest(S) \in S
  BY <1>1, <1>4
<1>5. QED
  BY <1>3, <1>4

(* The parity each side writes.                                            *)
LEMMA OgParity ==
    ASSUME NEW n \in Nat
    PROVE  Og!NextOdd(n) % 2 = 1 /\ Og!NextEven(n) % 2 = 0
BY DEF Og!NextOdd, Og!NextEven

(* A step that takes nothing out of a table and tells the agent nothing.   *)
LEMMA OgQuietStep ==
    ASSUME OgInv, OgTyped', inbound \subseteq inbound', Og!Out \subseteq Og!Out',
           \A n \in inbound' \ inbound : n % 2 = 0,
           \A k \in known' \ known : \/ \E n \in inbound' : k = <<n, "in">>
                                     \/ \E n \in Og!Out' : n % 2 = 1 /\ k = <<n, "out">>
    PROVE  OgInv'
BY DEF OgInv, OgEven, OgKnown

LEMMA OgNext ==
    ASSUME MaxSeq \in Nat, OgInv, [Og!Next]_outgoingVars PROVE OgInv'
<1> USE DEF OgInv, OgTyped, OgWriting
<1>0. Og!Highest(inbound) \in Nat /\ Og!Highest(Og!Out) \in Nat
  BY OgHighest
<1>1. CASE Og!HostWritesIn
  BY <1>0, <1>1, OgParity, OgQuietStep DEF Og!HostWritesIn, Og!Out
<1>2. ASSUME NEW w \in Og!Writers, Og!ReadsIn(w) PROVE OgInv'
  BY <1>0, <1>2, OgQuietStep DEF Og!ReadsIn, Og!Out
<1>3. ASSUME NEW w \in Og!Writers, Og!Inserts(w), UNCHANGED inbound PROVE OgInv'
  <2>1. /\ writing[w] # None /\ writing[w].all \in Nat
        /\ Og!NextOdd(writing[w].all) \in Og!Numbers
        /\ writing' = [writing EXCEPT ![w] = None]
        /\ known' = known \cup {<<Og!NextOdd(writing[w].all), "out">>}
    BY <1>3 DEF Og!Inserts, Og!Ready
  <2>2. Og!Out' = Og!Out \cup {Og!NextOdd(writing[w].all)}
    <3>1. PICK r : /\ r.seq = Og!NextOdd(writing[w].all)
                      /\ outbound' = outbound \cup {r}
      BY <1>3 DEF Og!Inserts
    <3>2. QED
      BY <3>1 DEF Og!Out
  <2>3. OgTyped'
    BY <1>3, <2>1, <2>2
  <2>4. QED
    BY <1>3, <2>1, <2>2, <2>3, OgParity, OgQuietStep
<1>4. ASSUME NEW w \in Og!Writers, NEW what, Og!Begin(w, what),
             UNCHANGED <<inbound, outbound, known>>
      PROVE  OgInv'
  BY <1>0, <1>4, OgQuietStep DEF Og!Begin, Og!Out
<1>5. CASE Og!ToolInserts \/ Og!LoopInserts
  BY <1>3, <1>5 DEF Og!ToolInserts, Og!LoopInserts, Og!Writers
<1>6. CASE Og!ToolCollides
  BY <1>6, OgQuietStep DEF Og!ToolCollides, Og!Out
<1>7. CASE Og!LoopCollides
  BY <1>4, <1>7 DEF Og!LoopCollides, Og!Writers
<1>8. CASE Og!TurnBegins \/ Og!TurnEnds
  BY <1>8, OgQuietStep DEF Og!TurnBegins, Og!TurnEnds, Og!Out
<1>9. CASE Og!Tool \/ Og!Notice
  BY <1>4, <1>9 DEF Og!Tool, Og!Notice, Og!Writers
<1>10. CASE Og!Result
  <2>1. CASE UNCHANGED writing
    BY <1>10, <2>1, OgQuietStep DEF Og!Result, Og!Out
  <2>2. QED
    BY <1>4, <1>10, <2>1 DEF Og!Result, Og!Writers
<1>11. CASE UNCHANGED outgoingVars
  BY <1>11, OgQuietStep DEF outgoingVars, Og!Out
<1>12. QED
  BY <1>1, <1>2, <1>5, <1>6, <1>7, <1>8, <1>9, <1>10, <1>11
  DEF Og!Next

OgPart == part = "outgoing" => OgInv

LEMMA OgPartStarts == SystemInit => OgPart
<1> USE OutgoingAssumption
<1>1. Og!Init => OgInv
  BY DEF Og!Init, OgInv, OgTyped, OgEven, OgKnown, Og!Out
<1>2. QED
  BY <1>1 DEF SystemInit, OgPart

LEMMA OgPartKeeps == OgPart /\ [SystemNext]_systemVars => OgPart'
<1> USE OutgoingAssumption
<1> SUFFICES ASSUME OgPart, [SystemNext]_systemVars, part' = "outgoing"
             PROVE  OgInv'
  BY DEF OgPart
<1>1. part = "outgoing" /\ [Og!Next]_outgoingVars
  BY DEF SystemNext, OthersStay, systemVars
<1>2. QED
  BY <1>1, OgNext DEF OgPart

(* A number the agent was given leads to the message it was given for,     *)
(* whoever writes in between (messages-out.ts, session-db.ts).             *)
THEOREM NumbersKeepTheirMeaning == SystemSpec => []NumbersResolve
<1>1. OgPart => NumbersResolve
  <2>1. ASSUME OgInv, NEW k \in known PROVE Og!Found(k[1]) = k[2]
    BY <2>1 DEF OgInv, OgEven, OgKnown, Og!Found
  <2>2. QED
    BY <2>1 DEF OgPart, NumbersResolve, Og!NumbersResolve
<1>2. QED
  BY <1>1, OgPartStarts, OgPartKeeps, PTL DEF SystemSpec

-----------------------------------------------------------------------------
(* The shim: what it makes of an answer first, then what it makes of a     *)
(* request.  While the chunks of a stream come in the usual order, at most *)
(* one block is open, and the next piece is its own (ShAlong).             *)

ShEvents == [kind : {"start", "stop", "delta"}, index : Nat, what : Sh!Kinds \cup {"any"},
             call : ToolCalls \cup {None}]

ShStreams == [index : Nat, open : [Sh!Kinds -> BOOLEAN], calls : SUBSET ToolCalls,
              out : Seq(ShEvents)]

\* the j-th event has opened block i, which is open still
ShOpenAt(out, j, i) ==
    /\ j \in 1 .. Len(out)
    /\ out[j].kind = "start" /\ out[j].index = i
    /\ \A n \in j .. Len(out) : out[n].kind # "stop"

\* e may come next
ShFits(out, e) ==
    /\ e.kind = "start" =>
          IF out = << >> THEN e.index = 0
          ELSE out[Len(out)].kind = "stop" /\ e.index = out[Len(out)].index + 1
    /\ e.kind = "stop" => \E j \in 1 .. Len(out) : ShOpenAt(out, j, e.index)
    /\ e.kind = "delta" => \E j \in 1 .. Len(out) : /\ ShOpenAt(out, j, e.index)
                                                    /\ out[j].what = e.what
                                                    /\ out[j].call = e.call

LEMMA ShExtends ==
    ASSUME NEW out \in Seq(ShEvents), NEW e \in ShEvents, Sh!InBlocks(out), ShFits(out, e)
    PROVE  Sh!InBlocks(Append(out, e)) /\ Append(out, e) \in Seq(ShEvents)
<1> DEFINE new == Append(out, e)
           n == Len(out)
           Open(o, k) == {j \in {x \in 1 .. Len(o) : o[x].kind = "start"} :
                             /\ j < k
                             /\ o[j].index = o[k].index
                             /\ \A i \in j .. k - 1 : o[i].kind # "stop"}
<1>1. /\ n \in Nat /\ Len(new) = n + 1 /\ new[n + 1] = e /\ new \in Seq(ShEvents)
      /\ \A k \in 1 .. n : new[k] = out[k]
  OBVIOUS
<1> HIDE DEF new, n
<1>2. \A k \in 1 .. n : Open(out, k) \subseteq Open(new, k)
  BY <1>1 DEF n
<1>3. \A j \in 1 .. n : ShOpenAt(out, j, e.index) => j \in Open(new, n + 1)
  BY <1>1 DEF ShOpenAt, n
<1>4. ASSUME NEW k \in 1 .. n + 1, new[k].kind = "start"
      PROVE  IF k = 1 THEN new[k].index = 0
             ELSE /\ new[k - 1].kind = "stop"
                  /\ new[k].index = new[k - 1].index + 1
  <2>1. CASE k \in 1 .. n
    BY <1>1, <1>4, <2>1 DEF Sh!InBlocks, n
  <2>2. CASE k = n + 1
    BY <1>1, <1>4, <2>2 DEF ShFits, n
  <2> QED
    BY <1>1, <2>1, <2>2
<1>5. ASSUME NEW k \in 1 .. n + 1, new[k].kind = "stop"
      PROVE  Open(new, k) # {}
  <2>1. CASE k \in 1 .. n
    <3>1. Open(out, k) # {}
      BY <1>1, <1>5, <2>1 DEF Sh!InBlocks, n
    <3> QED
      BY <1>2, <2>1, <3>1
  <2>2. CASE k = n + 1
    <3>1. PICK j \in 1 .. n : ShOpenAt(out, j, e.index)
      BY <1>1, <1>5, <2>2 DEF ShFits, n
    <3> QED
      BY <1>3, <2>2, <3>1
  <2> QED
    BY <1>1, <2>1, <2>2
<1>6. ASSUME NEW k \in 1 .. n + 1, new[k].kind = "delta"
      PROVE  \E j \in Open(new, k) : new[j].what = new[k].what /\ new[j].call = new[k].call
  <2>1. CASE k \in 1 .. n
    <3>1. PICK j \in Open(out, k) : out[j].what = out[k].what /\ out[j].call = out[k].call
      BY <1>1, <1>6, <2>1 DEF Sh!InBlocks, n
    <3> QED
      BY <1>1, <1>2, <2>1, <3>1 DEF n
  <2>2. CASE k = n + 1
    <3>1. PICK j \in 1 .. n : /\ ShOpenAt(out, j, e.index)
                              /\ out[j].what = e.what /\ out[j].call = e.call
      BY <1>1, <1>6, <2>2 DEF ShFits, n
    <3> QED
      BY <1>1, <1>3, <2>2, <3>1
  <2> QED
    BY <1>1, <2>1, <2>2
<1>7. Sh!InBlocks(new)
  BY <1>1, <1>4, <1>5, <1>6 DEF Sh!InBlocks
<1> QED
  BY <1>1, <1>7 DEF new

(***************************************************************************)
(* Where a stream stands: no block is open and the last event stopped one, *)
(* or a block of kind k is open, which the next piece goes to.             *)
(***************************************************************************)
ShClosed(s) ==
    /\ s.open = [x \in Sh!Kinds |-> FALSE]
    /\ IF s.out = << >> THEN s.index = 0
       ELSE s.out[Len(s.out)].kind = "stop" /\ s.index = s.out[Len(s.out)].index + 1

ShOpen(s, k) ==
    /\ s.open = [x \in Sh!Kinds |-> x = k]
    /\ \E j \in 1 .. Len(s.out) :
          /\ ShOpenAt(s.out, j, s.index)
          /\ s.out[j].what = k
          /\ IF k = "tool" THEN s.calls = {s.out[j].call} ELSE s.out[j].call = None

ShGood(s) == s \in ShStreams /\ Sh!InBlocks(s.out)

LEMMA ShSays ==
    ASSUME NEW s \in ShStreams, NEW e \in ShEvents, Sh!InBlocks(s.out), e.index = s.index,
           ShFits(s.out, e)
    PROVE  /\ Sh!Say(s, e.kind, e.what, e.call) = [s EXCEPT !.out = Append(@, e)]
           /\ ShGood([s EXCEPT !.out = Append(@, e)])
<1>1. e = [kind |-> e.kind, index |-> s.index, what |-> e.what, call |-> e.call]
  BY DEF ShEvents
<1>2. Sh!InBlocks(Append(s.out, e)) /\ Append(s.out, e) \in Seq(ShEvents)
  BY ShExtends DEF ShStreams
<1> QED
  BY <1>1, <1>2, Zenon DEF Sh!Say, ShGood, ShStreams

\* a block starts
LEMMA ShStarts ==
    ASSUME NEW s, ShGood(s), ShClosed(s), NEW what \in Sh!Kinds, NEW call \in ToolCalls \cup {None},
           NEW calls \in SUBSET ToolCalls,
           IF what = "tool" THEN calls = {call} ELSE call = None,
           NEW t, t = [Sh!Say(s, "start", what, call) EXCEPT !.open[what] = TRUE, !.calls = calls]
    PROVE  ShGood(t) /\ ShOpen(t, what)
<1> DEFINE e == [kind |-> "start", index |-> s.index, what |-> what, call |-> call]
           u == [s EXCEPT !.out = Append(@, e)]
<1>1. e \in ShEvents /\ s \in ShStreams
  BY DEF ShEvents, ShStreams, ShGood
<1>2. ShFits(s.out, e)
  BY DEF ShFits, ShClosed
<1>3. Sh!Say(s, "start", what, call) = u /\ ShGood(u)
  BY <1>1, <1>2, ShSays, Zenon DEF ShGood
<1>4. t = [u EXCEPT !.open[what] = TRUE, !.calls = calls]
  BY <1>3, Zenon
<1>5. ShGood(t)
  <2>1. u \in ShStreams /\ Sh!InBlocks(u.out)
    BY <1>3 DEF ShGood
  <2> HIDE DEF u
  <2>2. [u EXCEPT !.open[what] = TRUE] \in ShStreams
    BY <2>1, Zenon DEF ShStreams
  <2>3. t \in ShStreams /\ t.out = u.out
    BY <1>4, <2>1, <2>2, Zenon DEF ShStreams
  <2> QED
    BY <2>1, <2>3 DEF ShGood
<1>6. t.open = [x \in Sh!Kinds |-> x = what]
  <2>1. u.open = [x \in Sh!Kinds |-> FALSE]
    BY <1>1 DEF ShClosed, ShStreams
  <2>2. u \in ShStreams
    BY <1>3 DEF ShGood
  <2> HIDE DEF u
  <2>3. t.open = [u.open EXCEPT ![what] = TRUE]
    BY <1>4, <2>2, Zenon DEF ShStreams
  <2> QED
    BY <2>1, <2>3, Zenon
<1>7. t.calls = calls /\ t.index = s.index /\ t.out = Append(s.out, e)
  BY <1>1, <1>4, Zenon DEF ShStreams
<1>8. /\ ShOpenAt(t.out, Len(t.out), t.index) /\ Len(t.out) \in 1 .. Len(t.out)
      /\ t.out[Len(t.out)] = e
  BY <1>1, <1>7 DEF ShOpenAt, ShStreams
<1>9. ShOpen(t, what)
  BY <1>6, <1>7, <1>8 DEF ShOpen
<1> QED
  BY <1>5, <1>9

\* a piece of the open block
LEMMA ShContinues ==
    ASSUME NEW s, ShGood(s), NEW what \in Sh!Kinds, ShOpen(s, what),
           NEW call \in ToolCalls \cup {None},
           IF what = "tool" THEN s.calls = {call} ELSE call = None
    PROVE  LET t == Sh!Say(s, "delta", what, call)
           IN  ShGood(t) /\ ShOpen(t, what) /\ t.calls = s.calls
<1> DEFINE e == [kind |-> "delta", index |-> s.index, what |-> what, call |-> call]
           t == [s EXCEPT !.out = Append(@, e)]
<1>1. e \in ShEvents /\ s \in ShStreams
  BY DEF ShEvents, ShStreams, ShGood
<1>2. PICK j \in 1 .. Len(s.out) :
          /\ ShOpenAt(s.out, j, s.index)
          /\ s.out[j].what = what /\ s.out[j].call = call
  BY DEF ShOpen
<1>3. ShFits(s.out, e)
  BY <1>2 DEF ShFits
<1>4. Sh!Say(s, "delta", what, call) = t /\ ShGood(t)
  BY <1>1, <1>3, ShSays, Zenon DEF ShGood
<1>5. /\ t.calls = s.calls /\ t.index = s.index /\ t.open = s.open
      /\ t.out = Append(s.out, e)
  BY <1>1 DEF ShStreams
<1>6. ShOpenAt(t.out, j, t.index) /\ j \in 1 .. Len(t.out) /\ t.out[j] = s.out[j]
  BY <1>1, <1>2, <1>5 DEF ShOpenAt, ShStreams
<1>7. ShOpen(t, what)
  BY <1>2, <1>5, <1>6 DEF ShOpen
<1> QED
  BY <1>4, <1>5, <1>7, Zenon

\* the open block stops
LEMMA ShStops ==
    ASSUME NEW s, ShGood(s), NEW k \in Sh!Kinds, ShOpen(s, k), NEW what \in Sh!Kinds \cup {"any"}
    PROVE  LET t == [Sh!Say(s, "stop", what, None) EXCEPT !.index = @ + 1, !.open[k] = FALSE]
           IN  /\ ShGood(t) /\ ShClosed(t) /\ t.calls = s.calls
               /\ ShGood(Sh!Say(s, "stop", what, None))
               /\ Sh!Say(s, "stop", what, None).out = t.out
               /\ t.out # << >> /\ t.out[Len(t.out)].kind = "stop"
<1> DEFINE e == [kind |-> "stop", index |-> s.index, what |-> what, call |-> None]
           u == [s EXCEPT !.out = Append(@, e)]
           t == [u EXCEPT !.index = @ + 1, !.open[k] = FALSE]
<1>1. e \in ShEvents /\ s \in ShStreams
  BY DEF ShEvents, ShStreams, ShGood
<1>2. ShFits(s.out, e)
  BY DEF ShFits, ShOpen
<1>3. Sh!Say(s, "stop", what, None) = u /\ ShGood(u)
  BY <1>1, <1>2, ShSays DEF ShGood
<1>4. ShGood(t)
  <2>1. u \in ShStreams /\ Sh!InBlocks(u.out)
    BY <1>3 DEF ShGood
  <2> HIDE DEF u
  <2>2. /\ u.index + 1 \in Nat
        /\ [u.open EXCEPT ![k] = FALSE] \in [Sh!Kinds -> BOOLEAN]
    BY <2>1 DEF ShStreams
  <2>3. [u EXCEPT !.index = @ + 1] \in ShStreams
    BY <2>1, <2>2 DEF ShStreams
  <2>4. t \in ShStreams /\ t.out = u.out
    BY <2>1, <2>2, <2>3, Zenon DEF ShStreams
  <2> QED
    BY <2>1, <2>4 DEF ShGood
<1>5. /\ t.calls = s.calls /\ t.index = s.index + 1 /\ t.out = Append(s.out, e) /\ u.out = t.out
      /\ t.open = [x \in Sh!Kinds |-> FALSE]
  BY <1>1, Zenon DEF ShStreams, ShOpen
<1>6. t.out # << >> /\ t.out[Len(t.out)] = e
  BY <1>1, <1>5 DEF ShStreams
<1>7. ShClosed(t)
  BY <1>5, <1>6 DEF ShClosed
<1>8. t.out[Len(t.out)].kind = "stop"
  BY <1>6
<1>9. [Sh!Say(s, "stop", what, None) EXCEPT !.index = @ + 1, !.open[k] = FALSE] = t
  BY <1>3, Zenon
<1> HIDE DEF t, u
<1> QED
  BY <1>3, <1>4, <1>5, <1>6, <1>7, <1>8, <1>9, Zenon

\* where it can be while chunks come in the usual order
ShAlong(s, chunks) ==
    /\ ShGood(s)
    /\ ShClosed(s) \/ \E k \in Sh!Kinds : ShOpen(s, k)
    /\ s.open["text"] => \E i \in 1 .. Len(chunks) : chunks[i] = "text"
    /\ s.open["tool"] => \E i \in 1 .. Len(chunks) : chunks[i] = "call"
    /\ s.calls # {} => s.open["tool"]

ShChunks == {"reasoning", "text", "call", "args"}

LEMMA ShOrdinary ==
    ASSUME NEW chunks \in Seq(ShChunks), NEW what \in ShChunks, Sh!Ordinary(Append(chunks, what))
    PROVE  /\ Sh!Ordinary(chunks)
           /\ what \in {"reasoning", "text", "call"} =>
                 \A i \in 1 .. Len(chunks) : chunks[i] # "call"
           /\ what = "reasoning" => \A i \in 1 .. Len(chunks) : chunks[i] # "text"
<1> DEFINE n == Len(chunks)
           new == Append(chunks, what)
<1>1. /\ n \in Nat /\ Len(new) = n + 1 /\ new[n + 1] = what
      /\ \A i \in 1 .. n : new[i] = chunks[i]
  OBVIOUS
<1> HIDE DEF n, new
<1>2. \A i, j \in 1 .. n + 1 :
          i < j => /\ Sh!Rank(new[i]) <= Sh!Rank(new[j])
                   /\ ~(new[i] = "call" /\ new[j] = "call")
  BY <1>1 DEF Sh!Ordinary, new
<1>3. Sh!Ordinary(chunks)
  BY <1>1, <1>2 DEF Sh!Ordinary, n
<1>4. \A i \in 1 .. n : /\ Sh!Rank(chunks[i]) <= Sh!Rank(what)
                        /\ ~(chunks[i] = "call" /\ what = "call")
  BY <1>1, <1>2
<1>5. /\ Sh!Rank("reasoning") = 1 /\ Sh!Rank("text") = 2 /\ Sh!Rank("call") = 3
  BY DEF Sh!Rank
<1> QED
  BY <1>3, <1>4, <1>5 DEF n

LEMMA ShSkips ==
    ASSUME NEW s, ShClosed(s) \/ \E k \in Sh!Kinds : ShOpen(s, k)
    PROVE  /\ \A k \in Sh!Kinds : s.open[k] => ShOpen(s, k)
           /\ (\A k \in Sh!Kinds : ~s.open[k]) => ShClosed(s)
           /\ ShClosed(s) => \A k \in Sh!Kinds : ~s.open[k]
           /\ \A j, k \in Sh!Kinds : s.open[k] /\ s.open[j] => j = k
<1>1. CASE ShClosed(s)
  BY <1>1 DEF ShClosed
<1>2. CASE \E k \in Sh!Kinds : ShOpen(s, k)
  <2>1. PICK k \in Sh!Kinds : ShOpen(s, k)
    BY <1>2
  <2>2. \A x \in Sh!Kinds : s.open[x] <=> x = k
    BY <2>1, Zenon DEF ShOpen
  <2>3. ~ShClosed(s)
    BY <2>2 DEF ShClosed
  <2> QED
    BY <2>1, <2>2, <2>3
<1> QED
  BY <1>1, <1>2

LEMMA ShCloses ==
    ASSUME NEW s, ShGood(s), ShClosed(s) \/ \E k \in Sh!Kinds : ShOpen(s, k), NEW what \in Sh!Kinds
    PROVE  LET t == Sh!Closed(s, what)
           IN  ShGood(t) /\ t.calls = s.calls /\ IF s.open[what] THEN ShClosed(t) ELSE t = s
<1>1. CASE s.open[what]
  <2> DEFINE t == [Sh!Say(s, "stop", what, None) EXCEPT !.index = @ + 1, !.open[what] = FALSE]
  <2>1. ShOpen(s, what)
    BY <1>1, ShSkips
  <2>2. ShGood(t) /\ ShClosed(t) /\ t.calls = s.calls
    BY <2>1, ShStops, Zenon
  <2>3. Sh!Closed(s, what) = t
    BY <1>1 DEF Sh!Closed
  <2> HIDE DEF t
  <2> QED
    BY <1>1, <2>2, <2>3
<1>2. CASE ~s.open[what]
  BY <1>2 DEF Sh!Closed
<1> QED
  BY <1>1, <1>2

\* a stream whose open block is of kind k, after one more chunk
LEMMA ShGoesOn ==
    ASSUME NEW t, ShGood(t), NEW k \in Sh!Kinds, ShOpen(t, k), NEW chunks \in Seq(ShChunks),
           NEW what \in ShChunks,
           IF k = "tool" THEN what = "call" \/ \E i \in 1 .. Len(chunks) : chunks[i] = "call"
           ELSE t.calls = {},
           k = "text" => what = "text"
    PROVE  ShAlong(t, Append(chunks, what))
<1>1. /\ Len(Append(chunks, what)) = Len(chunks) + 1 /\ Len(chunks) \in Nat
      /\ Append(chunks, what)[Len(chunks) + 1] = what
      /\ \A i \in 1 .. Len(chunks) : Append(chunks, what)[i] = chunks[i]
  OBVIOUS
<1>2. \A x \in Sh!Kinds : t.open[x] <=> x = k
  BY Zenon DEF ShOpen
<1>3. {"thinking", "text", "tool"} = Sh!Kinds
  BY DEF Sh!Kinds
<1>4. t.open["text"] => \E i \in 1 .. Len(Append(chunks, what)) : Append(chunks, what)[i] = "text"
  BY <1>1, <1>2, <1>3
<1>5. t.open["tool"] => \E i \in 1 .. Len(Append(chunks, what)) : Append(chunks, what)[i] = "call"
  <2>1. CASE what = "call"
    BY <1>1, <2>1
  <2>2. CASE \E i \in 1 .. Len(chunks) : chunks[i] = "call"
    <3>1. PICK i \in 1 .. Len(chunks) : chunks[i] = "call"
      BY <2>2
    <3> QED
      BY <1>1, <3>1
  <2> QED
    BY <1>2, <1>3, <2>1, <2>2
<1> QED
  BY <1>2, <1>3, <1>4, <1>5 DEF ShAlong

LEMMA ShReasons ==
    ASSUME NEW chunks \in Seq(ShChunks), NEW s, ShAlong(s, chunks),
           Sh!Ordinary(Append(chunks, "reasoning"))
    PROVE  ShAlong(Sh!Reasoning(s), Append(chunks, "reasoning"))
<1>0. "reasoning" \in ShChunks /\ "thinking" \in Sh!Kinds /\ "thinking" # "tool"
  BY DEF ShChunks, Sh!Kinds
<1>1. ~s.open["text"] /\ ~s.open["tool"] /\ s.calls = {}
  BY <1>0, ShOrdinary DEF ShAlong
<1> DEFINE t == Sh!Opened(s, "thinking")
<1>2. ShGood(t) /\ ShOpen(t, "thinking") /\ t.calls = {}
  <2>1. CASE s.open["thinking"]
    BY <1>0, <1>1, <2>1, ShSkips DEF Sh!Opened, ShAlong
  <2>2. CASE ~s.open["thinking"]
    <3>1. ShClosed(s) /\ ShGood(s)
      BY <1>1, <2>2, ShSkips DEF ShAlong, Sh!Kinds
    <3>2. Sh!Say(s, "start", "thinking", None).calls = s.calls
      BY <3>1 DEF Sh!Say, ShGood, ShStreams
    <3> DEFINE u == [Sh!Say(s, "start", "thinking", None) EXCEPT !.open["thinking"] = TRUE]
    <3>3. u = [Sh!Say(s, "start", "thinking", None) EXCEPT !.open["thinking"] = TRUE, !.calls = {}]
      BY <1>1, <3>1, Zenon DEF Sh!Say, ShGood, ShStreams
    <3>4. ShGood(u) /\ ShOpen(u, "thinking")
      <4>1. {} \in SUBSET ToolCalls /\ None \in ToolCalls \cup {None}
        OBVIOUS
      <4> HIDE DEF u
      <4> QED
        BY <1>0, <3>1, <3>3, <4>1, ShStarts, Zenon
    <3>5. u.calls = {}
      BY <1>1, <3>1 DEF Sh!Say, ShGood, ShStreams
    <3> QED
      BY <2>2, <3>4, <3>5 DEF Sh!Opened
  <2> QED
    BY <2>1, <2>2
<1> HIDE DEF t
<1>3. /\ ShGood(Sh!Reasoning(s)) /\ ShOpen(Sh!Reasoning(s), "thinking")
      /\ Sh!Reasoning(s).calls = {}
  BY <1>0, <1>2, ShContinues DEF Sh!Reasoning, t
<1> QED
  BY <1>0, <1>3, ShGoesOn

LEMMA ShTexts ==
    ASSUME NEW chunks \in Seq(ShChunks), NEW s, ShAlong(s, chunks),
           Sh!Ordinary(Append(chunks, "text"))
    PROVE  ShAlong(Sh!Text(s), Append(chunks, "text"))
<1>0. /\ "text" \in ShChunks /\ {"thinking", "text"} \subseteq Sh!Kinds
      /\ "thinking" # "tool" /\ "text" # "tool" /\ "thinking" # "text"
  BY DEF ShChunks, Sh!Kinds
<1>1. ~s.open["tool"] /\ s.calls = {}
  BY <1>0, ShOrdinary DEF ShAlong
<1> DEFINE u == Sh!Closed(s, "thinking")
           t == Sh!Opened(u, "text")
<1>2. /\ ShGood(u) /\ u.calls = {}
      /\ IF s.open["thinking"] THEN ShClosed(u) ELSE u = s
  BY <1>0, <1>1, ShCloses DEF ShAlong
<1>3. ShClosed(u) \/ ShOpen(u, "text")
  BY <1>0, <1>1, <1>2, ShSkips DEF ShAlong, Sh!Kinds
<1> HIDE DEF u
<1>4. ShGood(t) /\ ShOpen(t, "text") /\ t.calls = {}
  <2>1. CASE ShOpen(u, "text")
    <3>1. u.open["text"]
      BY <1>0, <2>1, Zenon DEF ShOpen
    <3> QED
      BY <1>2, <2>1, <3>1 DEF Sh!Opened
  <2>2. CASE ShClosed(u)
    <3> DEFINE v == [Sh!Say(u, "start", "text", None) EXCEPT !.open["text"] = TRUE]
    <3>1. /\ v = [Sh!Say(u, "start", "text", None) EXCEPT !.open["text"] = TRUE, !.calls = {}]
          /\ v.calls = {}
      BY <1>2, Zenon DEF Sh!Say, ShGood, ShStreams
    <3>2. ShGood(v) /\ ShOpen(v, "text")
      <4>1. {} \in SUBSET ToolCalls /\ None \in ToolCalls \cup {None}
        OBVIOUS
      <4> HIDE DEF v
      <4> QED
        BY <1>0, <1>2, <2>2, <3>1, <4>1, ShStarts, Zenon
    <3>3. ~u.open["text"]
      BY <1>0, <2>2 DEF ShClosed
    <3> QED
      BY <3>1, <3>2, <3>3 DEF Sh!Opened
  <2> QED
    BY <1>3, <2>1, <2>2
<1> HIDE DEF t
<1>5. /\ ShGood(Sh!Text(s)) /\ ShOpen(Sh!Text(s), "text")
      /\ Sh!Text(s).calls = {}
  BY <1>0, <1>4, ShContinues DEF Sh!Text, t, u
<1> QED
  BY <1>0, <1>5, ShGoesOn

LEMMA ShAnnounces ==
    ASSUME NEW chunks \in Seq(ShChunks), NEW s, ShAlong(s, chunks),
           Sh!Ordinary(Append(chunks, "call")), NEW c \in ToolCalls
    PROVE  ShAlong(Sh!Announced(s, c), Append(chunks, "call"))
<1>0. "call" \in ShChunks /\ Sh!Kinds = {"thinking", "text", "tool"}
  BY DEF ShChunks, Sh!Kinds
<1>1. ~s.open["tool"] /\ s.calls = {}
  BY <1>0, ShOrdinary DEF ShAlong
<1> DEFINE u == Sh!Closed(s, "thinking")
           v == Sh!Closed(u, "text")
           t == Sh!Announced(s, c)
<1>2. /\ ShGood(u) /\ u.calls = {}
      /\ IF s.open["thinking"] THEN ShClosed(u) ELSE u = s
  BY <1>0, <1>1, ShCloses DEF ShAlong
<1>3. ShClosed(u) \/ ShOpen(u, "text")
  BY <1>0, <1>1, <1>2, ShSkips DEF ShAlong
<1> HIDE DEF u
<1>4. ShGood(v) /\ v.calls = {} /\ IF u.open["text"] THEN ShClosed(v) ELSE v = u
  BY <1>0, <1>2, <1>3, ShCloses
<1>5. ShClosed(v)
  BY <1>0, <1>3, <1>4, ShSkips, Zenon DEF ShClosed, ShOpen
<1>6. t = [Sh!Say(v, "start", "tool", c) EXCEPT !.open["tool"] = TRUE, !.calls = {c}]
  <2>1. Sh!Say(v, "start", "tool", c).calls = {}
    BY <1>4 DEF Sh!Say, ShGood, ShStreams
  <2>2. t = [Sh!Say(v, "start", "tool", c) EXCEPT !.open["tool"] = TRUE, !.calls = @ \cup {c}]
    BY DEF Sh!Announced, u, v
  <2>3. [Sh!Say(v, "start", "tool", c) EXCEPT !.open["tool"] = TRUE].calls = {}
    BY <1>4 DEF Sh!Say, ShGood, ShStreams
  <2> HIDE DEF t, v
  <2> QED
    BY <2>2, <2>3, Zenon
<1>7. ShGood(t) /\ ShOpen(t, "tool")
  <2>1. {c} \in SUBSET ToolCalls /\ c \in ToolCalls \cup {None} /\ "tool" \in Sh!Kinds
    BY <1>0
  <2> HIDE DEF t, v
  <2> QED
    BY <1>4, <1>5, <1>6, <2>1, ShStarts, Zenon
<1> HIDE DEF t
<1> QED
  BY <1>0, <1>7, ShGoesOn DEF t

LEMMA ShArgues ==
    ASSUME NEW chunks \in Seq(ShChunks), NEW s, ShAlong(s, chunks), NEW c \in s.calls
    PROVE  ShAlong(Sh!Arguments(s, c), Append(chunks, "args"))
<1>0. "args" \in ShChunks /\ Sh!Kinds = {"thinking", "text", "tool"}
  BY DEF ShChunks, Sh!Kinds
<1>1. /\ ShOpen(s, "tool") /\ ShGood(s)
      /\ \E i \in 1 .. Len(chunks) : chunks[i] = "call"
  BY <1>0, ShSkips DEF ShAlong
<1>2. s.calls = {c} /\ c \in ToolCalls \cup {None}
  BY <1>1 DEF ShOpen, ShGood, ShStreams
<1> DEFINE t == Sh!Arguments(s, c)
<1>3. ShGood(t) /\ ShOpen(t, "tool")
  BY <1>0, <1>1, <1>2, ShContinues DEF Sh!Arguments
<1> HIDE DEF t
<1> QED
  BY <1>0, <1>1, <1>3, ShGoesOn DEF t

LEMMA ShEnds ==
    ASSUME NEW chunks, NEW s, ShAlong(s, chunks)
    PROVE  LET t == Sh!Ended(s)
           IN  ShGood(t) /\ (t.out # << >> => Sh!Last(t.out).kind = "stop")
<1>1. CASE \E k \in Sh!Kinds : s.open[k]
  <2>1. PICK k \in Sh!Kinds : ShOpen(s, k)
    BY <1>1, ShSkips DEF ShAlong
  <2> DEFINE t == Sh!Say(s, "stop", "any", None)
  <2>2. ShGood(t) /\ t.out[Len(t.out)].kind = "stop"
    <3> DEFINE u == [t EXCEPT !.index = @ + 1, !.open[k] = FALSE]
    <3>1. ShGood(t) /\ t.out = u.out /\ u.out[Len(u.out)].kind = "stop"
      BY <2>1, ShStops, Zenon DEF ShAlong
    <3> HIDE DEF t, u
    <3> QED
      BY <3>1
  <2> QED
    BY <1>1, <2>2 DEF Sh!Ended, Sh!Last
<1>2. CASE ~\E k \in Sh!Kinds : s.open[k]
  <2>1. ShClosed(s) /\ ShGood(s)
    BY <1>2, ShSkips DEF ShAlong
  <2> QED
    BY <1>2, <2>1 DEF Sh!Ended, Sh!Last, ShClosed
<1> QED
  BY <1>1, <1>2

-----------------------------------------------------------------------------
(* The request.                                                            *)

(* What flattening returns: the last of a sequence of longer and longer    *)
(* ones.                                                                   *)
LEMMA FlattenedInSteps ==
    ASSUME NEW M, NEW seqs \in Seq(Seq(M)), Len(seqs) > 0
    PROVE  \E f \in [1 .. Len(seqs) -> Seq(M)] :
              /\ f[1] = seqs[1]
              /\ \A i \in 2 .. Len(seqs) : f[i] = f[i - 1] \o seqs[i]
              /\ Sh!FlattenSeq(seqs) = f[Len(seqs)]
<1> DEFINE n == Len(seqs)
           Steps(f, m) == f = [i \in 1 .. m |-> IF i = 1 THEN seqs[i] ELSE f[i - 1] \o seqs[i]]
           Without == {m \in 1 .. n : ~\E f : Steps(f, m)}
           Wrong(f) == {i \in 1 .. n : f[i] \notin Seq(M)}
<1>1. n \in Nat /\ n > 0 /\ \A i \in 1 .. n : seqs[i] \in Seq(M)
  OBVIOUS
<1> HIDE DEF n
<1>2. \E f : Steps(f, n)
  <2>1. Without \subseteq 1 .. n /\ Without \subseteq Nat
    <3> HIDE DEF Steps
    <3> QED
      BY <1>1
  <2>2. ASSUME NEW m \in Without, m = 1 PROVE FALSE
    <3> DEFINE f == [i \in 1 .. 1 |-> seqs[1]]
    <3>1. f = [i \in 1 .. 1 |-> IF i = 1 THEN seqs[i] ELSE f[i - 1] \o seqs[i]]
      OBVIOUS
    <3> QED
      BY <2>2, <3>1, Zenon
  <2>3. ASSUME NEW m \in 2 .. n, NEW f, Steps(f, m - 1) PROVE \E g : Steps(g, m)
    <3> DEFINE last == f[m - 1] \o seqs[m]
               g == [i \in 1 .. m |-> IF i = m THEN last ELSE f[i]]
    <3>1. m \in Nat /\ m > 1 /\ m - 1 \in Nat
      BY <1>1
    <3>2. \A i \in 1 .. m - 1 : f[i] = IF i = 1 THEN seqs[i] ELSE f[i - 1] \o seqs[i]
      BY <2>3, Zenon
    <3>3. ASSUME NEW i \in 1 .. m
          PROVE  g[i] = IF i = 1 THEN seqs[i] ELSE g[i - 1] \o seqs[i]
      <4>1. CASE i = m
        <5>1. g[i] = last /\ g[i - 1] = f[i - 1] /\ i # 1
          <6> HIDE DEF last
          <6> QED
            BY <3>1, <4>1
        <5> QED
          BY <4>1, <5>1, Zenon
      <4>2. CASE i # m /\ i # 1
        <5>1. i \in 1 .. m - 1 /\ i - 1 \in 1 .. m - 1 /\ i - 1 # m
          BY <3>1, <4>2
        <5>2. g[i] = f[i] /\ g[i - 1] = f[i - 1]
          <6> HIDE DEF last
          <6> QED
            BY <3>1, <4>2, <5>1
        <5> HIDE DEF g
        <5> QED
          BY <3>2, <4>2, <5>1, <5>2, Zenon
      <4>3. CASE i # m /\ i = 1
        <5>1. g[i] = f[i] /\ i \in 1 .. m - 1
          <6> HIDE DEF last
          <6> QED
            BY <3>1, <4>3
        <5> HIDE DEF g
        <5> QED
          BY <3>2, <4>3, <5>1
      <4> QED
        BY <4>1, <4>2, <4>3
    <3>4. g = [i \in 1 .. m |-> g[i]]
      OBVIOUS
    <3> HIDE DEF g
    <3>5. g = [i \in 1 .. m |-> IF i = 1 THEN seqs[i] ELSE g[i - 1] \o seqs[i]]
      BY <3>3, <3>4, Zenon
    <3> QED
      BY <3>5, Zenon
  <2>4. ASSUME NEW m \in 1 .. n, m \notin Without PROVE \E f : Steps(f, m)
    BY <2>4, Zenon
  <2>5. \A m \in Without : ~\E f : Steps(f, m)
    BY Zenon
  <2> HIDE DEF Without, Steps
  <2>6. Without = {}
    <3> SUFFICES ASSUME Without # {} PROVE FALSE
      OBVIOUS
    <3>1. PICK m \in Without : \A k \in Without : m <= k
      BY <2>1, LeastNumber, Zenon
    <3>2. m - 1 \in 1 .. n /\ m - 1 \notin Without /\ m \in 2 .. n
      BY <1>1, <2>1, <2>2, <3>1
    <3> QED
      BY <2>3, <2>4, <2>5, <3>1, <3>2
  <2>7. n \in 1 .. n /\ n \notin Without
    BY <1>1, <2>6
  <2> QED
    BY <2>4, <2>7
<1> DEFINE f == CHOOSE f : Steps(f, n)
<1>3. Steps(f, n)
  <2> HIDE DEF Steps
  <2> QED
    BY <1>2, Zenon
<1>4. Sh!FlattenSeq(seqs) = f[n]
  BY <1>1 DEF Sh!FlattenSeq, n
<1> HIDE DEF f
<1>5. /\ f[1] = seqs[1] /\ f = [i \in 1 .. n |-> f[i]]
      /\ \A i \in 2 .. n : f[i] = f[i - 1] \o seqs[i]
  <2>1. DOMAIN f = 1 .. n /\ \A i \in 1 .. n : f[i] = IF i = 1 THEN seqs[i] ELSE f[i - 1] \o seqs[i]
    BY <1>3, Zenon
  <2>2. f = [i \in 1 .. n |-> f[i]]
    BY <1>3, <2>1
  <2> HIDE DEF Steps
  <2>3. 1 \in 1 .. n /\ \A i \in 2 .. n : i \in 1 .. n /\ i # 1
    BY <1>1
  <2> QED
    BY <2>1, <2>2, <2>3, Zenon
<1>6. Wrong(f) = {}
  <2>1. \A i \in 1 .. n : f[i] \notin Seq(M) <=> i \in Wrong(f)
    OBVIOUS
  <2>2. Wrong(f) \subseteq Nat /\ Wrong(f) \subseteq 1 .. n
    BY <1>1
  <2> HIDE DEF Wrong, Steps
  <2> SUFFICES ASSUME Wrong(f) # {} PROVE FALSE
    OBVIOUS
  <2>3. PICK i \in Wrong(f) : \A k \in Wrong(f) : i <= k
    BY <2>2, LeastNumber
  <2>4. i # 1
    BY <1>1, <1>5, <2>1, <2>2, <2>3
  <2>5. i - 1 \in 1 .. n /\ i - 1 \notin Wrong(f) /\ i \in 2 .. n
    BY <1>1, <2>2, <2>3, <2>4
  <2>6. f[i - 1] \in Seq(M) /\ seqs[i] \in Seq(M)
    BY <1>1, <2>1, <2>5
  <2>7. f[i - 1] \o seqs[i] \in Seq(M)
    BY <2>6
  <2> QED
    BY <1>5, <2>1, <2>2, <2>3, <2>5, <2>7, Zenon
<1>7. f \in [1 .. n -> Seq(M)]
  BY <1>5, <1>6, Zenon
<1> HIDE DEF Steps
<1> QED
  BY <1>4, <1>5, <1>7, Zenon DEF n

\* two pieces, one of which may be empty
LEMMA SmallPieces ==
    ASSUME NEW a, NEW b
    PROVE  <<a>> \o << >> = <<a>> /\ << >> \o <<b>> = <<b>> /\ <<a>> \o <<b>> = <<a, b>>
<1> DEFINE S == {a, b}
<1>1. /\ <<a>> \in Seq(S) /\ <<b>> \in Seq(S) /\ <<a, b>> \in Seq(S)
      /\ Len(<<a>>) = 1 /\ Len(<<b>>) = 1 /\ Len(<<a, b>>) = 2
  OBVIOUS
<1> HIDE DEF S
<1>2. <<a>> \o << >> = <<a>> /\ << >> \o <<b>> = <<b>>
  BY <1>1, ConcatEmptySeq
<1>3. /\ <<a>> \o <<b>> \in Seq(S) /\ Len(<<a>> \o <<b>>) = 2
      /\ (<<a>> \o <<b>>)[1] = a /\ (<<a>> \o <<b>>)[2] = b
  BY <1>1, ConcatProperties
<1>4. \A i \in 1 .. 2 : (<<a>> \o <<b>>)[i] = <<a, b>>[i]
  BY <1>3
<1>5. <<a>> \o <<b>> = <<a, b>>
  <2> DEFINE s == <<a>> \o <<b>>
             t == <<a, b>>
  <2>1. s \in Seq(S) /\ t \in Seq(S) /\ Len(s) = 2 /\ Len(t) = 2 /\ \A i \in 1 .. 2 : s[i] = t[i]
    BY <1>1, <1>3, <1>4
  <2> HIDE DEF s, t
  <2>2. s = t
    BY <2>1, SeqEqual
  <2> QED
    BY <2>2 DEF s, t
<1> QED
  BY <1>2, <1>5

ShMessages == [role : {"system", "assistant", "user", "tool"}, tools : SUBSET ToolCalls]

LEMMA ShTranslated ==
    ASSUME NEW msg \in [role : {"user", "assistant"}, text : BOOLEAN, tools : SUBSET ToolCalls]
    PROVE  LET t == Sh!Translated(msg)
           IN  /\ t \in Seq(ShMessages) /\ Len(t) > 0
               /\ msg.role = "assistant" =>
                     t = <<[role |-> "assistant", tools |-> msg.tools]>>
               /\ msg.role = "user" =>
                     /\ \A k \in 1 .. Len(t) : t[k].role # "assistant"
                     /\ msg.tools # {} => t[1] = [role |-> "tool", tools |-> msg.tools]
<1> DEFINE a == [role |-> "assistant", tools |-> msg.tools]
           r == [role |-> "tool", tools |-> msg.tools]
           u == [role |-> "user", tools |-> {}]
<1>1. {a, r, u} \subseteq ShMessages /\ r.role # "assistant" /\ u.role # "assistant"
  BY DEF ShMessages
<1> HIDE DEF a, r, u
<1>2. CASE msg.role = "assistant"
  <2>1. Sh!Translated(msg) = <<a>>
    BY <1>2 DEF Sh!Translated, a
  <2> QED
    BY <1>1, <1>2, <2>1 DEF a
<1>3. CASE msg.role # "assistant"
  <2>1. Sh!Translated(msg) \in {<<r>>, <<u>>, <<r, u>>} /\ (msg.tools # {} => Sh!Translated(msg) # <<u>>)
    <3>1. Sh!Translated(msg) = (IF msg.tools = {} THEN << >> ELSE <<r>>)
                               \o (IF msg.text \/ msg.tools = {} THEN <<u>> ELSE << >>)
      BY <1>3 DEF Sh!Translated, Sh!FromUser, r, u
    <3>2. CASE msg.tools = {}
      BY <3>1, <3>2, SmallPieces
    <3>3. CASE msg.tools # {} /\ msg.text
      <4>1. Sh!Translated(msg) = <<r>> \o <<u>>
        BY <3>1, <3>3, Zenon
      <4>2. <<r, u>> # <<u>>
        OBVIOUS
      <4> QED
        BY <3>3, <4>1, <4>2, SmallPieces, Zenon
    <3>4. CASE msg.tools # {} /\ ~msg.text
      <4>1. Sh!Translated(msg) = <<r>> \o << >>
        BY <3>1, <3>4, Zenon
      <4>2. <<r>> # <<u>>
        BY DEF r, u
      <4> QED
        BY <3>4, <4>1, <4>2, SmallPieces, Zenon
    <3> QED
      BY <3>2, <3>3, <3>4
  <2>2. CASE Sh!Translated(msg) = <<r>>
    BY <1>1, <1>3, <2>2 DEF r
  <2>3. CASE Sh!Translated(msg) = <<u>>
    BY <1>1, <1>3, <2>1, <2>3
  <2>4. CASE Sh!Translated(msg) = <<r, u>>
    BY <1>1, <1>3, <2>4 DEF r
  <2> QED
    BY <2>1, <2>2, <2>3, <2>4
<1> QED
  BY <1>2, <1>3

\* what the translation of the first i messages is like
ShAnswered(ms, last) ==
    /\ ms \in Seq(ShMessages) /\ Len(ms) > 0
    /\ \A k \in 1 .. Len(ms) - 1 :
          ms[k].role = "assistant" /\ ms[k].tools # {} =>
              ms[k + 1] = [role |-> "tool", tools |-> ms[k].tools]
    /\ ms[Len(ms)].role = "assistant" =>
          last.role = "assistant" /\ last.tools = ms[Len(ms)].tools

LEMMA ShAnswers ==
    ASSUME ShHistories, NEW h \in Histories
    PROVE  Sh!CallsAnswered(Sh!ToOpenAI(h))
<1> DEFINE Said == [role : {"user", "assistant"}, text : BOOLEAN, tools : SUBSET ToolCalls]
           n == Len(h)
           system == [role |-> "system", tools |-> {}]
           seqs == [i \in 1 .. n |-> Sh!Translated(h[i])]
<1>1. h \in Seq(Said) /\ n \in Nat
  <2>1. h \in Seq(Said)
    BY Zenon DEF ShHistories
  <2> HIDE DEF Said
  <2> QED
    BY <2>1
<1>2. \A i \in 1 .. n : h[i].role = "assistant" /\ h[i].tools # {} =>
                           i < n /\ h[i + 1].role = "user" /\ h[i + 1].tools = h[i].tools
  BY DEF ShHistories
<1>3. \A i \in 1 .. n : h[i] \in Said
  <2> HIDE DEF Said
  <2> QED
    BY <1>1
<1>4. \A i \in 1 .. n :
         /\ seqs[i] \in Seq(ShMessages) /\ Len(seqs[i]) > 0
         /\ h[i].role = "assistant" => seqs[i] = <<[role |-> "assistant", tools |-> h[i].tools]>>
         /\ h[i].role = "user" =>
               /\ \A k \in 1 .. Len(seqs[i]) : seqs[i][k].role # "assistant"
               /\ h[i].tools # {} => seqs[i][1] = [role |-> "tool", tools |-> h[i].tools]
  BY <1>3, ShTranslated
<1>5. \A i \in 1 .. n : h[i].role \in {"user", "assistant"}
  BY <1>3
<1>6. seqs \in Seq(Seq(ShMessages)) /\ Len(seqs) = n
  <2>1. seqs = [i \in 1 .. n |-> seqs[i]] /\ \A i \in 1 .. n : seqs[i] \in Seq(ShMessages)
    BY <1>4, Zenon
  <2> HIDE DEF seqs, n
  <2>2. seqs \in [1 .. n -> Seq(ShMessages)]
    BY <2>1
  <2> QED
    BY <1>1, <2>2
<1>7. system \in ShMessages /\ system.role # "assistant"
  BY DEF ShMessages
<1>8. Sh!ToOpenAI(h) = <<system>> \o Sh!FlattenSeq(seqs)
  BY DEF Sh!ToOpenAI
<1> HIDE DEF n
<1>9. CASE n = 0
  <2>1. seqs = << >>
    BY <1>6, <1>9
  <2>2. Sh!ToOpenAI(h) = <<system>>
    BY <1>6, <1>8, <1>9, <2>1, SmallPieces DEF Sh!FlattenSeq
  <2> HIDE DEF system
  <2> QED
    BY <1>7, <2>2 DEF Sh!CallsAnswered
<1>10. CASE n > 0
  <2> HIDE DEF seqs, system, Said
  <2>1. PICK f \in [1 .. n -> Seq(ShMessages)] :
           /\ f[1] = seqs[1]
           /\ \A i \in 2 .. n : f[i] = f[i - 1] \o seqs[i]
           /\ Sh!FlattenSeq(seqs) = f[n]
    <3>1. Len(seqs) > 0
      BY <1>6, <1>10
    <3>2. \E f \in [1 .. Len(seqs) -> Seq(ShMessages)] :
              /\ f[1] = seqs[1]
              /\ \A i \in 2 .. Len(seqs) : f[i] = f[i - 1] \o seqs[i]
              /\ Sh!FlattenSeq(seqs) = f[Len(seqs)]
      BY <1>6, <3>1, FlattenedInSteps, Zenon
    <3> QED
      BY <1>6, <3>2, Zenon
  <2> DEFINE Good(i) == ShAnswered(f[i], h[i])
             Bad == {i \in 1 .. n : ~Good(i)}
  <2>2. ASSUME NEW t \in Seq(ShMessages), NEW i \in 1 .. n, t = seqs[i]
        PROVE  ShAnswered(t, h[i])
    <3>1. CASE h[i].role = "assistant"
      <4> DEFINE m == [role |-> "assistant", tools |-> h[i].tools]
      <4>1. t = <<m>> /\ m.tools = h[i].tools
        BY <1>4, <2>2, <3>1, Zenon
      <4> HIDE DEF m
      <4> QED
        BY <2>2, <3>1, <4>1 DEF ShAnswered
    <3>2. CASE h[i].role = "user"
      <4>1. Len(t) > 0 /\ \A k \in 1 .. Len(t) : t[k].role # "assistant"
        BY <1>4, <2>2, <3>2, Zenon
      <4>2. Len(t) \in Nat
        BY <2>2
      <4>3. \A k \in 1 .. Len(t) - 1 : k \in 1 .. Len(t)
        BY <4>2
      <4>4. Len(t) \in 1 .. Len(t)
        BY <4>1, <4>2
      <4> QED
        BY <2>2, <4>1, <4>3, <4>4, Zenon DEF ShAnswered
    <3> QED
      BY <1>5, <3>1, <3>2
  <2>3. Good(1)
    <3>1. 1 \in 1 .. n
      BY <1>1, <1>10
    <3>2. seqs[1] \in Seq(ShMessages)
      BY <1>4, <3>1, Zenon
    <3> QED
      BY <2>1, <2>2, <3>1, <3>2
  <2>4. ASSUME NEW i \in 2 .. n, Good(i - 1) PROVE Good(i)
    <3> DEFINE p == f[i - 1]
               t == seqs[i]
               new == p \o t
    <3>1. i \in 1 .. n /\ i - 1 \in 1 .. n /\ i = (i - 1) + 1
      BY <1>1
    <3>2. p \in Seq(ShMessages) /\ t \in Seq(ShMessages) /\ f[i] = new
      BY <1>4, <2>1, <3>1, Zenon
    <3>3. ShAnswered(p, h[i - 1]) /\ ShAnswered(t, h[i])
      BY <2>2, <2>4, <3>1, <3>2
    <3>4. h[i - 1].role = "assistant" /\ h[i - 1].tools # {} =>
             t[1] = [role |-> "tool", tools |-> h[i - 1].tools]
      <4> HIDE DEF p
      <4>1. ASSUME h[i - 1].role = "assistant", h[i - 1].tools # {}
            PROVE  h[i].role = "user" /\ h[i].tools = h[i - 1].tools
        BY <1>2, <3>1, <4>1
      <4> QED
        BY <1>4, <3>1, <4>1, Zenon
    <3> HIDE DEF p, t
    <3> DEFINE a == Len(p)
               b == Len(t)
    <3>5. a \in Nat /\ b \in Nat /\ a > 0 /\ b > 0
      BY <3>2, <3>3 DEF ShAnswered
    <3>6. /\ new \in Seq(ShMessages) /\ Len(new) = a + b
          /\ \A k \in 1 .. a + b : new[k] = IF k <= a THEN p[k] ELSE t[k - a]
      BY <3>2, ConcatProperties
    <3>7. /\ \A k \in 1 .. a : new[k] = p[k]
          /\ \A k \in 1 .. b : new[a + k] = t[k]
      BY <3>5, <3>6
    <3>8. ASSUME NEW k \in 1 .. a + b - 1, new[k].role = "assistant", new[k].tools # {}
          PROVE  new[k + 1] = [role |-> "tool", tools |-> new[k].tools]
      <4> HIDE DEF new, a, b
      <4>1. CASE k < a
        <5>1. k \in 1 .. a - 1 /\ k \in 1 .. a /\ k + 1 \in 1 .. a
          BY <3>5, <4>1
        <5> QED
          BY <3>3, <3>7, <3>8, <5>1 DEF ShAnswered, a
      <4>2. CASE k = a
        <5>1. k \in 1 .. a /\ 1 \in 1 .. b
          BY <3>5, <4>2
        <5>2. new[k] = p[Len(p)] /\ new[k + 1] = t[1]
          BY <3>7, <4>2, <5>1 DEF a
        <5>3. h[i - 1].role = "assistant" /\ h[i - 1].tools = new[k].tools
          BY <3>3, <3>8, <5>2 DEF ShAnswered
        <5> QED
          BY <3>4, <3>8, <5>2, <5>3
      <4>3. CASE k > a
        <5> DEFINE j == k - a
        <5>1. j \in 1 .. b - 1 /\ j \in 1 .. b /\ j + 1 \in 1 .. b /\ a + j = k /\ a + (j + 1) = k + 1
          BY <3>5, <4>3
        <5> HIDE DEF j
        <5>2. new[k] = t[j] /\ new[k + 1] = t[j + 1]
          BY <3>7, <5>1
        <5> QED
          BY <3>3, <3>8, <5>1, <5>2 DEF ShAnswered, b
      <4> QED
        BY <3>5, <4>1, <4>2, <4>3
    <3>9. new[Len(new)] = t[Len(t)]
      BY <3>5, <3>6, <3>7
    <3> HIDE DEF new
    <3> QED
      BY <3>2, <3>3, <3>5, <3>6, <3>8, <3>9 DEF ShAnswered
  <2>5. Bad = {}
    <3>1. Bad \subseteq 1 .. n /\ Bad \subseteq Nat /\ \A i \in 1 .. n : i \notin Bad <=> Good(i)
      <4> HIDE DEF Good
      <4> QED
        BY <1>1
    <3> HIDE DEF Bad, Good
    <3> SUFFICES ASSUME Bad # {} PROVE FALSE
      OBVIOUS
    <3>2. PICK i \in Bad : \A k \in Bad : i <= k
      BY <3>1, LeastNumber, Zenon
    <3>3. i \in 2 .. n /\ i - 1 \in 1 .. n /\ i - 1 \notin Bad
      <4>1. i # 1
        BY <1>10, <2>3, <3>1, <3>2
      <4> QED
        BY <1>1, <3>1, <3>2, <4>1
    <3> QED
      BY <2>4, <3>1, <3>2, <3>3
  <2>6. Good(n)
    <3>1. n \in 1 .. n /\ n \notin Bad
      BY <1>1, <1>10, <2>5
    <3> QED
      BY <3>1
  <2>7. f[n] \in Seq(ShMessages) /\ Len(f[n]) \in Nat /\ Len(f[n]) > 0
    BY <2>6 DEF ShAnswered
  <2>8. ASSUME f[n][Len(f[n])].role = "assistant" PROVE f[n][Len(f[n])].tools = {}
    BY <1>1, <1>2, <1>10, <2>6, <2>8 DEF ShAnswered
  <2> DEFINE ms == Sh!ToOpenAI(h)
             w == f[n]
  <2>9. /\ ms \in Seq(ShMessages) /\ Len(ms) = 1 + Len(w)
        /\ ms[1] = system /\ \A k \in 1 .. Len(w) : ms[k + 1] = w[k]
    <3>1. /\ <<system>> \in Seq(ShMessages) /\ Len(<<system>>) = 1
          /\ <<system>>[1] = system
      BY <1>7
    <3>2. ms = <<system>> \o w
      BY <1>8, <2>1
    <3> HIDE DEF ms, w
    <3>3. w \in Seq(ShMessages) /\ Len(w) \in Nat
      BY <2>7 DEF w
    <3> DEFINE q == <<system>>
    <3>4. q \in Seq(ShMessages) /\ Len(q) = 1 /\ q[1] = system /\ ms = q \o w
      BY <3>1, <3>2
    <3> HIDE DEF q
    <3>5. /\ ms \in Seq(ShMessages) /\ Len(ms) = 1 + Len(w)
          /\ \A k \in 1 .. 1 + Len(w) : ms[k] = IF k <= 1 THEN q[k] ELSE w[k - 1]
      <4> DEFINE z == q \o w
      <4>1. /\ z \in Seq(ShMessages) /\ Len(z) = Len(q) + Len(w)
            /\ \A k \in 1 .. Len(q) + Len(w) : z[k] = IF k <= Len(q) THEN q[k] ELSE w[k - Len(q)]
        BY <3>3, <3>4, ConcatProperties, Zenon
      <4>2. ms = z
        BY <3>4
      <4> HIDE DEF z
      <4> QED
        BY <3>4, <4>1, <4>2
    <3> QED
      BY <3>3, <3>4, <3>5
  <2> HIDE DEF ms
  <2>10. ASSUME NEW k \in 1 .. Len(ms), ms[k].tools # {}, ms[k].role = "assistant"
         PROVE  k < Len(ms) /\ ms[k + 1] = [role |-> "tool", tools |-> ms[k].tools]
    <3>1. k # 1
      BY <1>7, <2>9, <2>10
    <3> DEFINE j == k - 1
    <3>2. j \in 1 .. Len(w) /\ k = j + 1
      BY <2>7, <2>9, <3>1
    <3> HIDE DEF j
    <3>3. ms[k] = w[j]
      BY <2>9, <3>2
    <3>4. j # Len(w)
      BY <2>8, <2>10, <3>3
    <3>5. j \in 1 .. Len(w) - 1 /\ j + 1 \in 1 .. Len(w) /\ k + 1 = (j + 1) + 1 /\ k < Len(ms)
      BY <2>7, <2>9, <3>2, <3>4
    <3>6. w[j + 1] = [role |-> "tool", tools |-> w[j].tools]
      BY <2>6, <2>10, <3>3, <3>5 DEF ShAnswered
    <3>7. ms[k + 1] = w[j + 1]
      <4>1. ms[(j + 1) + 1] = w[j + 1]
        BY <2>9, <3>5
      <4> QED
        BY <3>5, <4>1
    <3> QED
      BY <3>3, <3>5, <3>6, <3>7
  <2> QED
    BY <2>10 DEF Sh!CallsAnswered, ms
<1> QED
  BY <1>1, <1>9, <1>10

-----------------------------------------------------------------------------
(* The invariant: what is known of each request.                           *)

ShTyped ==
    /\ DOMAIN stage = Prompts /\ DOMAIN sent = Prompts
    /\ stream \in [Prompts -> ShStreams]
    /\ seen \in [Prompts -> Seq(ShChunks)]

ShBefore(r) ==
    stage[r] \in {"idle", "upstream"} =>
        stream[r] = Sh!Fresh /\ seen[r] = << >> /\ r \notin gone

ShStream(r) ==
    Sh!Ordinary(seen[r]) =>
        /\ Sh!InBlocks(stream[r].out)
        /\ r \notin gone =>
              /\ stage[r] = "streaming" => ShAlong(stream[r], seen[r])
              /\ stage[r] = "done" /\ stream[r].out # << >> =>
                    Sh!Last(stream[r].out).kind = "stop"

ShRequest(r) == Sh!CallsAnswered(sent[r]) /\ ShBefore(r) /\ ShStream(r)

ShInv == ShTyped /\ \A r \in Prompts : ShRequest(r)

LEMMA ShFresh == /\ Sh!Fresh \in ShStreams /\ Sh!InBlocks(Sh!Fresh.out) /\ Sh!Fresh.out = << >>
                 /\ ShAlong(Sh!Fresh, << >>)
<1>1. /\ Sh!Fresh.index = 0 /\ Sh!Fresh.open = [k \in Sh!Kinds |-> FALSE] /\ Sh!Fresh.calls = {}
      /\ Sh!Fresh.out = << >>
  BY DEF Sh!Fresh
<1>2. << >> \in Seq(ShEvents)
  OBVIOUS
<1>3. Sh!Fresh \in ShStreams
  BY <1>2 DEF Sh!Fresh, ShStreams
<1>4. Sh!InBlocks(<< >>)
  BY DEF Sh!InBlocks
<1>5. "text" \in Sh!Kinds /\ "tool" \in Sh!Kinds
  BY DEF Sh!Kinds
<1>6. ShClosed(Sh!Fresh)
  BY <1>1 DEF ShClosed
<1> QED
  BY <1>1, <1>3, <1>4, <1>5, <1>6 DEF ShAlong, ShGood

(* Every chunk, in whatever order, leaves a stream.                        *)
LEMMA ShSaysTyped ==
    ASSUME NEW s \in ShStreams, NEW kind \in {"start", "stop", "delta"},
           NEW what \in Sh!Kinds \cup {"any"}, NEW call \in ToolCalls \cup {None}
    PROVE  Sh!Say(s, kind, what, call) \in ShStreams
<1> DEFINE e == [kind |-> kind, index |-> s.index, what |-> what, call |-> call]
<1>1. e \in ShEvents
  BY DEF ShStreams, ShEvents
<1>2. Sh!Say(s, kind, what, call) = [s EXCEPT !.out = Append(@, e)]
  BY DEF Sh!Say
<1> HIDE DEF e
<1>3. Append(s.out, e) \in Seq(ShEvents)
  BY <1>1 DEF ShStreams
<1> QED
  BY <1>2, <1>3, Zenon DEF ShStreams

LEMMA ShBlocksTyped ==
    ASSUME NEW s \in ShStreams, NEW what \in Sh!Kinds
    PROVE  Sh!Opened(s, what) \in ShStreams /\ Sh!Closed(s, what) \in ShStreams
<1>1. /\ Sh!Say(s, "start", what, None) \in ShStreams
      /\ Sh!Say(s, "stop", what, None) \in ShStreams
  BY ShSaysTyped
<1>2. ASSUME NEW t \in ShStreams
      PROVE  /\ [t EXCEPT !.open[what] = TRUE] \in ShStreams
             /\ [t EXCEPT !.index = @ + 1, !.open[what] = FALSE] \in ShStreams
  <2>1. [t EXCEPT !.index = @ + 1] \in ShStreams
    BY DEF ShStreams
  <2>2. \A u \in ShStreams, b \in BOOLEAN : [u EXCEPT !.open[what] = b] \in ShStreams
    BY Zenon DEF ShStreams
  <2> QED
    BY <2>1, <2>2, Zenon
<1> QED
  BY <1>1, <1>2, Zenon DEF Sh!Opened, Sh!Closed

LEMMA ShChunksTyped ==
    ASSUME NEW s \in ShStreams, NEW c \in ToolCalls
    PROVE  /\ Sh!Reasoning(s) \in ShStreams /\ Sh!Text(s) \in ShStreams
           /\ Sh!Announced(s, c) \in ShStreams /\ Sh!Arguments(s, c) \in ShStreams
           /\ Sh!Ended(s) \in ShStreams
<1>1. /\ {"thinking", "text", "tool"} \subseteq Sh!Kinds
      /\ {"thinking", "text", "tool", "any"} \subseteq Sh!Kinds \cup {"any"}
      /\ {c, None} \subseteq ToolCalls \cup {None}
  BY DEF Sh!Kinds
<1>2. Sh!Reasoning(s) \in ShStreams
  BY <1>1, ShSaysTyped, ShBlocksTyped DEF Sh!Reasoning
<1>3. Sh!Text(s) \in ShStreams
  BY <1>1, ShSaysTyped, ShBlocksTyped DEF Sh!Text
<1>4. Sh!Announced(s, c) \in ShStreams
  <2> DEFINE t == Sh!Closed(Sh!Closed(s, "thinking"), "text")
             u == Sh!Say(t, "start", "tool", c)
  <2>1. u \in ShStreams
    BY <1>1, ShSaysTyped, ShBlocksTyped
  <2>2. Sh!Announced(s, c) = [u EXCEPT !.open["tool"] = TRUE, !.calls = @ \cup {c}]
    BY DEF Sh!Announced
  <2> HIDE DEF u
  <2> DEFINE v == [u EXCEPT !.open["tool"] = TRUE]
  <2>3. v \in ShStreams
    BY <1>1, <2>1, Zenon DEF ShStreams
  <2>4. Sh!Announced(s, c) = [v EXCEPT !.calls = @ \cup {c}]
    BY <2>2
  <2> HIDE DEF v
  <2> QED
    BY <2>3, <2>4 DEF ShStreams
<1>5. Sh!Arguments(s, c) \in ShStreams
  BY <1>1, ShSaysTyped DEF Sh!Arguments
<1>6. Sh!Ended(s) \in ShStreams
  BY <1>1, ShSaysTyped, Zenon DEF Sh!Ended
<1> QED
  BY <1>2, <1>3, <1>4, <1>5, <1>6

\* a step that touches one request at most
LEMMA ShOneRequest ==
    ASSUME ShInv, ShTyped', NEW r \in Prompts, ShRequest(r)',
           \A q \in Prompts \ {r} :
              /\ stage'[q] = stage[q] /\ sent'[q] = sent[q] /\ stream'[q] = stream[q]
              /\ seen'[q] = seen[q] /\ (q \in gone' <=> q \in gone)
    PROVE  ShInv'
<1>1. \A q \in Prompts \ {r} : ShRequest(q)'
  BY DEF ShInv, ShRequest, ShBefore, ShStream
<1> QED
  BY <1>1 DEF ShInv

LEMMA ShStarting == ASSUME Sh!Init PROVE ShInv
<1>1. << >> \in Seq(ShChunks) /\ Sh!CallsAnswered(<< >>)
  BY DEF Sh!CallsAnswered
<1>2. ShTyped
  BY <1>1, ShFresh DEF Sh!Init, ShTyped
<1>3. ASSUME NEW r \in Prompts PROVE ShRequest(r)
  BY <1>1, ShFresh DEF Sh!Init, ShRequest, ShBefore, ShStream
<1> QED
  BY <1>2, <1>3 DEF ShInv

\* what a chunk or the end leaves of an answer
LEMMA ShInto ==
    ASSUME ShInv, NEW r \in Prompts, NEW s \in ShStreams, Sh!Into(r, s)
    PROVE  /\ stream' \in [Prompts -> ShStreams]
           /\ \A q \in Prompts \ {r} : stream'[q] = stream[q]
           /\ IF r \in gone THEN stream'[r].out = stream[r].out ELSE stream'[r] = s
<1>1. stream \in [Prompts -> ShStreams]
  BY DEF ShInv, ShTyped
<1> DEFINE t == [s EXCEPT !.out = stream[r].out]
<1>2. t \in ShStreams /\ t.out = stream[r].out
  BY <1>1, Zenon DEF ShStreams
<1>3. stream' = [stream EXCEPT ![r] = IF r \in gone THEN t ELSE s]
  BY DEF Sh!Into
<1> HIDE DEF t
<1> QED
  BY <1>1, <1>2, <1>3

LEMMA ShChunkStep ==
    ASSUME ShInv, NEW r \in Prompts, NEW what \in ShChunks, NEW c \in ToolCalls,
           Sh!Chunk(r, what, c)
    PROVE  ShInv'
<1>1. /\ ShTyped /\ ShRequest(r)
      /\ stream[r] \in ShStreams /\ seen[r] \in Seq(ShChunks)
  BY DEF ShInv, ShTyped
<1>2. /\ stage[r] = "streaming" /\ UNCHANGED <<sent, gone>>
      /\ seen' = [seen EXCEPT ![r] = Append(@, what)]
      /\ \A q \in Prompts \ {r} : stage'[q] = stage[q]
      /\ DOMAIN stage' = Prompts
  BY <1>1 DEF Sh!Chunk, ShTyped
<1>3. /\ seen' \in [Prompts -> Seq(ShChunks)] /\ seen'[r] = Append(seen[r], what)
      /\ \A q \in Prompts \ {r} : seen'[q] = seen[q]
  BY <1>1, <1>2 DEF ShTyped
<1>4. Sh!Ordinary(seen'[r]) => Sh!Ordinary(seen[r])
  BY <1>1, <1>3, ShOrdinary
<1>5. ASSUME NEW s \in ShStreams, Sh!Into(r, s), UNCHANGED stage,
             ShAlong(stream[r], seen[r]) /\ Sh!Ordinary(seen'[r]) => ShAlong(s, seen'[r])
      PROVE  ShInv'
  <2>1. /\ stream' \in [Prompts -> ShStreams]
        /\ \A q \in Prompts \ {r} : stream'[q] = stream[q]
        /\ IF r \in gone THEN stream'[r].out = stream[r].out ELSE stream'[r] = s
    BY <1>5, ShInto
  <2>2. ShTyped'
    BY <1>1, <1>2, <1>3, <2>1 DEF ShTyped
  <2>3. ShStream(r)'
    <3> SUFFICES ASSUME Sh!Ordinary(seen'[r])
                 PROVE  /\ Sh!InBlocks(stream'[r].out)
                        /\ r \notin gone => ShAlong(stream'[r], seen'[r])
      BY <1>2, <1>5 DEF ShStream
    <3>1. CASE r \in gone
      BY <1>1, <1>4, <2>1, <3>1 DEF ShRequest, ShStream
    <3>2. CASE r \notin gone
      <4>1. ShAlong(stream'[r], seen'[r])
        BY <1>1, <1>2, <1>4, <1>5, <2>1, <3>2 DEF ShRequest, ShStream
      <4> QED
        BY <4>1 DEF ShAlong, ShGood
    <3> QED
      BY <3>1, <3>2
  <2>4. ShRequest(r)'
    BY <1>1, <1>2, <1>5, <2>3 DEF ShRequest, ShBefore
  <2> QED
    BY <1>2, <1>3, <2>1, <2>2, <2>4, ShOneRequest
<1>6. CASE what = "reasoning" /\ Sh!Into(r, Sh!Reasoning(stream[r])) /\ UNCHANGED stage
  BY <1>1, <1>3, <1>5, <1>6, ShReasons, ShChunksTyped
<1>7. CASE what = "text" /\ Sh!Into(r, Sh!Text(stream[r])) /\ UNCHANGED stage
  BY <1>1, <1>3, <1>5, <1>7, ShTexts, ShChunksTyped
<1>8. CASE what = "call" /\ Sh!Into(r, Sh!Announced(stream[r], c)) /\ UNCHANGED stage
  BY <1>1, <1>3, <1>5, <1>8, ShAnnounces, ShChunksTyped, Zenon
<1>9. CASE /\ what = "args" /\ c \in stream[r].calls
           /\ Sh!Into(r, Sh!Arguments(stream[r], c)) /\ UNCHANGED stage
  BY <1>1, <1>3, <1>5, <1>9, ShArgues, ShChunksTyped, Zenon
<1>10. CASE stage' = [stage EXCEPT ![r] = "failed"] /\ UNCHANGED stream
  <2>1. ShTyped'
    BY <1>1, <1>2, <1>3, <1>10 DEF ShTyped
  <2>2. stage'[r] = "failed"
    BY <1>1, <1>10 DEF ShTyped
  <2>3. ShRequest(r)'
    BY <1>1, <1>2, <1>4, <1>10, <2>2 DEF ShRequest, ShBefore, ShStream
  <2> QED
    BY <1>2, <1>3, <1>10, <2>1, <2>3, ShOneRequest
<1> QED
  BY <1>6, <1>7, <1>8, <1>9, <1>10 DEF Sh!Chunk

(* The blocks of an answer that came at once.                              *)
ShBlocks == [what : Sh!Kinds, call : ToolCalls \cup {None}]

LEMMA ShContent ==
    ASSUME NEW reasoning \in BOOLEAN, NEW text \in BOOLEAN, NEW calls \in Seq(ToolCalls)
    PROVE  Sh!Content(reasoning, text, calls) \in Seq(ShBlocks)
<1> DEFINE x == IF reasoning THEN <<[what |-> "thinking", call |-> None]>> ELSE << >>
           y == IF text \/ calls = << >> THEN <<[what |-> "text", call |-> None]>> ELSE << >>
           z == [i \in 1 .. Len(calls) |-> [what |-> "tool", call |-> calls[i]]]
<1>1. x \in Seq(ShBlocks) /\ y \in Seq(ShBlocks)
  <2>1. \A w \in Sh!Kinds : [what |-> w, call |-> None] \in ShBlocks
    BY DEF ShBlocks
  <2>2. \A b \in ShBlocks : <<b>> \in Seq(ShBlocks)
    OBVIOUS
  <2>3. << >> \in Seq(ShBlocks)
    OBVIOUS
  <2>4. "thinking" \in Sh!Kinds /\ "text" \in Sh!Kinds
    BY DEF Sh!Kinds
  <2>5. /\ <<[what |-> "thinking", call |-> None]>> \in Seq(ShBlocks)
        /\ <<[what |-> "text", call |-> None]>> \in Seq(ShBlocks)
    BY <2>1, <2>2, <2>4
  <2> QED
    BY <2>3, <2>5, Zenon
<1>2. z \in Seq(ShBlocks)
  <2>1. \A i \in 1 .. Len(calls) : calls[i] \in ToolCalls
    OBVIOUS
  <2>2. \A i \in 1 .. Len(calls) : [what |-> "tool", call |-> calls[i]] \in ShBlocks
    BY <2>1 DEF ShBlocks, Sh!Kinds
  <2> QED
    BY <2>2
<1>3. Sh!Content(reasoning, text, calls) = x \o y \o z
  BY DEF Sh!Content
<1> HIDE DEF x, y, z
<1> QED
  BY <1>1, <1>2, <1>3

LEMMA ShInPlace ==
    ASSUME NEW blocks \in Seq(ShBlocks)
    PROVE  LET out == Sh!InPlace(blocks)
           IN  /\ out \in Seq(ShEvents) /\ Sh!InBlocks(out)
               /\ out # << >> => Sh!Last(out).kind = "stop"
<1> DEFINE out == Sh!InPlace(blocks)
           n == Len(blocks)
           h(k) == (k + 1) \div 2
<1>1. n \in Nat /\ \A k \in 1 .. 2 * n : h(k) \in 1 .. n /\ h(k) - 1 \in Nat
  OBVIOUS
<1>2. \A k \in 1 .. 2 * n : blocks[h(k)] \in ShBlocks
  BY <1>1
<1>3. /\ DOMAIN out = 1 .. 2 * n
      /\ \A k \in 1 .. 2 * n :
            out[k] = [kind |-> IF k % 2 = 1 THEN "start" ELSE "stop", index |-> h(k) - 1,
                      what |-> blocks[h(k)].what, call |-> blocks[h(k)].call]
  BY DEF Sh!InPlace
<1>4. \A k \in 1 .. 2 * n : out[k] \in ShEvents
  <2> HIDE DEF h, out
  <2> QED
    BY <1>1, <1>2, <1>3 DEF ShBlocks, ShEvents
<1>5. \A k \in 1 .. 2 * n : /\ out[k].index = h(k) - 1
                            /\ out[k].kind = IF k % 2 = 1 THEN "start" ELSE "stop"
  <2> HIDE DEF h, out
  <2> QED
    BY <1>3
<1>6. out = [k \in 1 .. 2 * n |-> out[k]]
  BY DEF Sh!InPlace
<1> HIDE DEF out
<1>7. out \in Seq(ShEvents) /\ Len(out) = 2 * n
  <2>1. 2 * n \in Nat /\ out \in [1 .. 2 * n -> ShEvents]
    BY <1>1, <1>4, <1>6
  <2> QED
    BY <2>1
<1>8. ASSUME NEW k \in 1 .. 2 * n, k % 2 = 1
      PROVE  IF k = 1 THEN out[k].index = 0
             ELSE out[k - 1].kind = "stop" /\ out[k].index = out[k - 1].index + 1
  <2>1. CASE k = 1
    BY <1>5, <2>1
  <2>2. CASE k # 1
    <3>1. k - 1 \in 1 .. 2 * n /\ (k - 1) % 2 = 0 /\ h(k) = h(k - 1) + 1
      BY <1>1, <1>8, <2>2
    <3>2. h(k) \in Int /\ h(k - 1) \in Int
      BY <1>1, <3>1
    <3> HIDE DEF h, n
    <3> QED
      BY <1>5, <2>2, <3>1, <3>2
  <2> QED
    BY <2>1, <2>2
<1>9. ASSUME NEW k \in 1 .. 2 * n, k % 2 # 1
      PROVE  /\ k - 1 \in 1 .. 2 * n /\ out[k - 1].kind = "start"
             /\ out[k - 1].index = out[k].index
             /\ \A i \in k - 1 .. k - 1 : out[i].kind # "stop"
  <2>1. k - 1 \in 1 .. 2 * n /\ (k - 1) % 2 = 1 /\ h(k - 1) = h(k)
    BY <1>1, <1>9
  <2> HIDE DEF h, n
  <2>2. out[k - 1].kind = "start" /\ out[k - 1].index = out[k].index
    BY <1>5, <2>1
  <2>3. \A i \in k - 1 .. k - 1 : i = k - 1
    BY <2>1
  <2> QED
    BY <2>1, <2>2, <2>3
<1>10. \A k \in 1 .. 2 * n : out[k].kind = "start" <=> k % 2 = 1
  BY <1>5
<1>11. \A k \in 1 .. 2 * n : out[k].kind # "delta"
  BY <1>5
<1>12. Sh!InBlocks(out)
  <2> HIDE DEF n, h
  <2>1. ASSUME NEW k \in 1 .. 2 * n, out[k].kind = "stop"
        PROVE  \E j \in {x \in 1 .. 2 * n : out[x].kind = "start"} :
                  /\ j < k /\ out[j].index = out[k].index
                  /\ \A i \in j .. k - 1 : out[i].kind # "stop"
    <3>1. k % 2 # 1
      BY <1>10, <2>1
    <3> DEFINE j == k - 1
    <3>2. /\ j \in 1 .. 2 * n /\ out[j].kind = "start" /\ out[j].index = out[k].index
          /\ \A i \in j .. k - 1 : out[i].kind # "stop"
      BY <1>9, <3>1
    <3>3. j < k
      BY <1>1
    <3> HIDE DEF j
    <3> QED
      BY <3>2, <3>3
  <2> QED
    BY <1>7, <1>8, <1>10, <1>11, <2>1 DEF Sh!InBlocks
<1>13. out # << >> => Sh!Last(out).kind = "stop"
  <2> SUFFICES ASSUME n > 0 PROVE out[2 * n].kind = "stop"
    BY <1>1, <1>7 DEF Sh!Last
  <2>1. 2 * n \in 1 .. 2 * n /\ (2 * n) % 2 = 0
    BY <1>1
  <2> HIDE DEF n, h
  <2> QED
    BY <1>5, <2>1
<1> QED
  BY <1>7, <1>12, <1>13 DEF out

LEMMA ShAnswerStep ==
    ASSUME ShInv, NEW r \in Prompts, NEW reasoning \in BOOLEAN, NEW text \in BOOLEAN,
           NEW calls \in Seq(ToolCalls), Sh!Answered(r, reasoning, text, calls)
    PROVE  ShInv'
<1> DEFINE out == Sh!InPlace(Sh!Content(reasoning, text, calls))
<1>1. /\ ShTyped /\ ShRequest(r)
      /\ stream \in [Prompts -> ShStreams] /\ seen[r] \in Seq(ShChunks)
  BY DEF ShInv, ShTyped
<1>2. /\ stage[r] = "upstream" /\ stage' = [stage EXCEPT ![r] = "done"]
      /\ stream' = [stream EXCEPT ![r].out = out] /\ UNCHANGED <<sent, seen, gone>>
  BY DEF Sh!Answered
<1>3. /\ out \in Seq(ShEvents) /\ Sh!InBlocks(out)
      /\ out # << >> => Sh!Last(out).kind = "stop"
  BY ShContent, ShInPlace
<1> HIDE DEF out
<1>4. stream'[r] \in ShStreams /\ stream'[r].out = out
  BY <1>1, <1>2, <1>3, Zenon DEF ShStreams
<1>5. /\ stream' \in [Prompts -> ShStreams]
      /\ \A q \in Prompts \ {r} : stream'[q] = stream[q]
  BY <1>1, <1>2, <1>4
<1>6. stage'[r] = "done" /\ DOMAIN stage' = Prompts /\ \A q \in Prompts \ {r} : stage'[q] = stage[q]
  BY <1>1, <1>2 DEF ShTyped
<1>7. ShTyped'
  BY <1>1, <1>2, <1>5, <1>6 DEF ShTyped
<1>8. ShRequest(r)'
  BY <1>1, <1>2, <1>3, <1>4, <1>6 DEF ShRequest, ShBefore, ShStream
<1> QED
  BY <1>2, <1>5, <1>6, <1>7, <1>8, ShOneRequest

LEMMA ShNext == ASSUME ShHistories, ShInv, [Sh!Next]_shimVars PROVE ShInv'
<1>0. ShTyped /\ \A r \in Prompts : ShRequest(r)
  BY DEF ShInv
<1>1. ASSUME UNCHANGED <<sent, stage, stream, seen, gone>> PROVE ShInv'
  BY <1>1 DEF ShInv, ShTyped, ShRequest, ShBefore, ShStream
<1>2. ASSUME NEW r \in Prompts, NEW to \in {"passed", "failed", "streaming"},
             stage' = [stage EXCEPT ![r] = to], to = "streaming" => stage[r] = "upstream",
             UNCHANGED <<sent, stream, seen, gone>>
      PROVE  ShInv'
  <2>1. stage'[r] = to /\ DOMAIN stage' = Prompts /\ \A q \in Prompts \ {r} : stage'[q] = stage[q]
    BY <1>0, <1>2 DEF ShTyped
  <2>2. ShTyped'
    BY <1>0, <1>2, <2>1 DEF ShTyped
  <2>3. ShStream(r)'
    BY <1>0, <1>2, <2>1, ShFresh DEF ShRequest, ShBefore, ShStream
  <2>4. ShRequest(r)'
    BY <1>0, <1>2, <2>1, <2>3 DEF ShRequest, ShBefore
  <2> QED
    BY <1>2, <2>1, <2>2, <2>4, ShOneRequest
<1>3. ASSUME NEW r \in Prompts, NEW h \in Histories, Sh!Asked(r, h) PROVE ShInv'
  <2>1. CASE stage' = [stage EXCEPT ![r] = "passed"] /\ UNCHANGED sent
    <3>1. UNCHANGED <<stream, seen, gone>>
      BY <1>3 DEF Sh!Asked
    <3> QED
      BY <1>2, <2>1, <3>1, Zenon
  <2>2. CASE stage' = [stage EXCEPT ![r] = "upstream"] /\ sent' = [sent EXCEPT ![r] = Sh!ToOpenAI(h)]
    <3>1. stage[r] = "idle" /\ UNCHANGED <<stream, seen, gone>>
      BY <1>3 DEF Sh!Asked
    <3>2. /\ stage'[r] = "upstream" /\ sent'[r] = Sh!ToOpenAI(h)
          /\ DOMAIN stage' = Prompts /\ DOMAIN sent' = Prompts
          /\ \A q \in Prompts \ {r} : stage'[q] = stage[q] /\ sent'[q] = sent[q]
      BY <1>0, <2>2 DEF ShTyped
    <3>3. ShTyped'
      BY <1>0, <3>1, <3>2 DEF ShTyped
    <3>4. Sh!CallsAnswered(sent'[r])
      BY <3>2, ShAnswers
    <3>5. ShRequest(r)'
      BY <1>0, <3>1, <3>2, <3>4 DEF ShRequest, ShBefore, ShStream
    <3> QED
      BY <3>1, <3>2, <3>3, <3>5, ShOneRequest
  <2> QED
    BY <1>3, <2>1, <2>2 DEF Sh!Asked
<1>4. ASSUME NEW r \in Prompts, Sh!Refused(r) \/ Sh!StreamBreaks(r) PROVE ShInv'
  <2>1. stage' = [stage EXCEPT ![r] = "failed"] /\ UNCHANGED <<sent, stream, seen, gone>>
    BY <1>4 DEF Sh!Refused, Sh!StreamBreaks
  <2> QED
    BY <1>2, <2>1, Zenon
<1>5. ASSUME NEW r \in Prompts, Sh!StreamStarts(r) PROVE ShInv'
  <2>1. /\ stage[r] = "upstream" /\ stage' = [stage EXCEPT ![r] = "streaming"]
        /\ UNCHANGED <<sent, stream, seen, gone>>
    BY <1>5 DEF Sh!StreamStarts
  <2> QED
    BY <1>2, <2>1, Zenon
<1>6. ASSUME NEW r \in Prompts, Sh!StreamEnds(r) PROVE ShInv'
  <2> DEFINE s == Sh!Ended(stream[r])
  <2>1. /\ stage[r] = "streaming" /\ stage' = [stage EXCEPT ![r] = "done"]
        /\ Sh!Into(r, s) /\ UNCHANGED <<sent, seen, gone>>
    BY <1>6 DEF Sh!StreamEnds
  <2>2. s \in ShStreams
    <3>1. stream[r] \in ShStreams
      BY <1>0 DEF ShTyped
    <3> QED
      BY <3>1, ShSaysTyped DEF Sh!Ended
  <2>3. ShAlong(stream[r], seen[r]) =>
           Sh!InBlocks(s.out) /\ (s.out # << >> => Sh!Last(s.out).kind = "stop")
    BY ShEnds DEF ShGood
  <2> HIDE DEF s
  <2>4. /\ stream' \in [Prompts -> ShStreams]
        /\ \A q \in Prompts \ {r} : stream'[q] = stream[q]
        /\ IF r \in gone THEN stream'[r].out = stream[r].out ELSE stream'[r] = s
    BY <2>1, <2>2, ShInto
  <2>5. stage'[r] = "done" /\ DOMAIN stage' = Prompts /\ \A q \in Prompts \ {r} : stage'[q] = stage[q]
    BY <1>0, <2>1 DEF ShTyped
  <2>6. ShTyped'
    BY <1>0, <2>1, <2>4, <2>5 DEF ShTyped
  <2>7. ShStream(r)'
    BY <1>0, <2>1, <2>3, <2>4, <2>5 DEF ShRequest, ShStream
  <2>8. ShRequest(r)'
    BY <1>0, <2>1, <2>5, <2>7 DEF ShRequest, ShBefore
  <2> QED
    BY <2>1, <2>4, <2>5, <2>6, <2>8, ShOneRequest
<1>7. ASSUME NEW r \in Prompts, Sh!ClientLeaves(r) PROVE ShInv'
  <2>1. ShTyped'
    BY <1>0, <1>7 DEF Sh!ClientLeaves, ShTyped
  <2>2. ShRequest(r)'
    BY <1>0, <1>7 DEF Sh!ClientLeaves, ShRequest, ShBefore, ShStream
  <2> QED
    BY <1>7, <2>1, <2>2, ShOneRequest DEF Sh!ClientLeaves
<1>8. ASSUME NEW r \in Prompts, NEW x \in BOOLEAN, NEW t \in BOOLEAN,
             NEW n \in 0 .. Sh!Cardinality(ToolCalls), NEW cs \in [1 .. n -> ToolCalls],
             Sh!Answered(r, x, t, cs)
      PROVE  ShInv'
  <2>1. n \in Nat
    OBVIOUS
  <2>2. cs \in Seq(ToolCalls)
    BY <2>1
  <2> QED
    BY <1>8, <2>2, ShAnswerStep
<1>9. ASSUME NEW r \in Prompts, NEW w \in ShChunks, NEW c \in ToolCalls, Sh!Chunk(r, w, c)
      PROVE  ShInv'
  BY <1>9, ShChunkStep
<1>10. ASSUME NEW b \in Sh!Models, Sh!ConfigWritten(b) PROVE ShInv'
  BY <1>1, <1>10 DEF Sh!ConfigWritten
<1>11. CASE UNCHANGED shimVars
  BY <1>1, <1>11 DEF shimVars
<1> QED
  BY <1>3, <1>4, <1>5, <1>6, <1>7, <1>8, <1>9, <1>10, <1>11 DEF Sh!Next, ShChunks

ShPart == part = "shim" => ShInv

LEMMA ShPartStarts == SystemInit => ShPart
BY ShStarting DEF SystemInit, ShPart

LEMMA ShPartKeeps == ShPart /\ [SystemNext]_systemVars => ShPart'
<1> SUFFICES ASSUME ShPart, [SystemNext]_systemVars, part' = "shim"
             PROVE  ShInv'
  BY DEF ShPart
<1>1. part = "shim" /\ [Sh!Next]_shimVars
  BY Zenon DEF SystemNext, OthersStay, systemVars
<1> QED
  BY <1>1, ShNext, ShimAssumption DEF ShPart

(* In every request the results follow their calls at once, and the blocks *)
(* of an answer nest and end, wherever its stream breaks and its reader    *)
(* leaves, if the chunks come in the usual order (anthropic-shim.ts).      *)
THEOREM TranslationsKeepShape == SystemSpec => []KeepsShape
<1>1. ShPart => KeepsShape
  BY DEF ShPart, ShInv, ShRequest, ShStream, KeepsShape, Sh!KeepsShape
<1>2. QED
  BY <1>1, ShPartStarts, ShPartKeeps, PTL DEF SystemSpec

=============================================================================
