------------------------- MODULE SessionQueueProofs -------------------------
(***************************************************************************)
(* Theorems about SessionQueue, for any rows, containers, prompt limit,    *)
(* number of tries and kind and number of faults.                          *)
(***************************************************************************)
EXTENDS SessionQueue, TLAPS

USE DEF outVars

-----------------------------------------------------------------------------
(* Type correctness                                                        *)

\* What the sweep writes into messages_in are rows.
LEMMA RetriedRow ==
    ASSUME NEW r \in Row
    PROVE  /\ [r EXCEPT !.st = "failed"] \in Row
           /\ [r EXCEPT !.st = "completed"] \in Row
           /\ [r EXCEPT !.tries = @ + 1, !.later = TRUE] \in Row
<1>1. [r EXCEPT !.st = "failed"] \in Row /\ [r EXCEPT !.st = "completed"] \in Row
  BY DEF Row, Statuses
<1>2. [r EXCEPT !.tries = @ + 1] \in Row
  BY DEF Row
<1>3. \A q \in Row : [q EXCEPT !.later = TRUE] \in Row
  BY DEF Row
<1>4. [r EXCEPT !.tries = @ + 1, !.later = TRUE] = [[r EXCEPT !.tries = @ + 1] EXCEPT !.later = TRUE]
  OBVIOUS
<1>5. QED
  BY <1>1, <1>2, <1>3, <1>4

LEMMA SweepTypes ==
    ASSUME TypeOK
    PROVE  Synced \in [Msgs -> Row] /\ (ResetStuck => row' \in [Msgs -> Row])
<1>1. \A m \in Msgs : row[m] \in Row
  BY DEF TypeOK
<1>2. Synced \in [Msgs -> Row]
  BY <1>1, RetriedRow DEF Synced
<1>3. ResetStuck => row' \in [Msgs -> Row]
  BY <1>1, RetriedRow DEF ResetStuck
<1>4. QED
  BY <1>2, <1>3

\* What the containers write into processing_ack are acks.
LEMMA AckTypes ==
    ASSUME NEW S, NEW a \in [Msgs -> Ack]
    PROVE  Complete(S, a) \in [Msgs -> Ack]
BY DEF Complete, Done, Ack

LEMMA BeatType == ASSUME TypeOK PROVE Beat \in [Msgs -> Ack]
BY DEF TypeOK, Beat, Ack

Fates == {"none", "answered", "command", "gated", "consumed"}

LEMMA DisposeType == ASSUME TypeOK, NEW S, NEW how \in Fates PROVE Dispose(S, how) \in [Msgs -> Fates]
BY DEF TypeOK, Dispose, Fates

LEMMA PromptType == ASSUME TypeOK, NEW S, Prompt(S) PROVE prompts' \in [Msgs -> Nat]
BY DEF TypeOK, Prompt

LEMMA PendingType == GetPending \subseteq Msgs
BY DEF GetPending, Newest

\* Every way a container's state changes leaves it a container's state.
LEMMA BoxMoves ==
    ASSUME NEW r \in Box, NEW p \in Places
    PROVE  [r EXCEPT !.pc = p] \in Box
BY DEF Box

LEMMA BoxTakes ==
    ASSUME NEW r \in Box, NEW p \in Places, NEW S \in SUBSET Msgs
    PROVE  /\ [r EXCEPT !.pc = p, !.batch = S] \in Box
           /\ [r EXCEPT !.pc = p, !.batch = S, !.open = S] \in Box
<1>1. [r EXCEPT !.pc = p, !.batch = S] \in Box
  BY DEF Box
<1>2. [r EXCEPT !.pc = p, !.batch = S, !.open = S] \in Box
  BY DEF Box
<1>3. QED
  BY <1>1, <1>2

LEMMA BoxPrompts ==
    ASSUME NEW r \in Box, NEW p \in Places, NEW S \in SUBSET Msgs
    PROVE  [r EXCEPT !.pc = p, !.batch = S, !.seen = @ \cup S, !.answered = FALSE] \in Box
BY DEF Box

LEMMA BoxPushes ==
    ASSUME NEW r \in Box, NEW S \in SUBSET Msgs
    PROVE  [r EXCEPT !.open = @ \cup S, !.seen = @ \cup S] \in Box
BY DEF Box

LEMMA BoxFlags ==
    ASSUME NEW r \in Box
    PROVE  /\ [r EXCEPT !.open = {}] \in Box
           /\ [r EXCEPT !.answered = TRUE] \in Box
           /\ [r EXCEPT !.hung = TRUE] \in Box
BY DEF Box

LEMMA NewBoxTypes == NoBox \in Box /\ [NoBox EXCEPT !.pc = "boot"] \in Box
BY DEF NoBox, Box, Places

\* Replacing one container's state.
LEMMA BoxStore ==
    ASSUME TypeOK, NEW b \in Boxes, NEW r \in Box, box' = [box EXCEPT ![b] = r]
    PROVE  box' \in [Boxes -> Box]
BY DEF TypeOK

LEMMA KillType == ASSUME TypeOK, KillContainer PROVE box' \in [Boxes -> Box] /\ exited' \in BOOLEAN /\ failedStop' \in BOOLEAN
<1>1. box' = [box EXCEPT ![tracked] = NoBox] \/ box' = box
  BY DEF KillContainer
<1>2. box' \in [Boxes -> Box]
  BY <1>1, NewBoxTypes DEF TypeOK
<1>3. QED
  BY <1>2 DEF KillContainer, TypeOK

LEMMA TypeHost == ASSUME TypeOK, HostStep PROVE TypeOK'
<1> USE BoundAssumption, KindAssumption
<1>1. ASSUME NEW m \in Msgs, Route(m) PROVE TypeOK'
  BY <1>1 DEF TypeOK, Route, Insert, Row, Statuses, WakeContainer, histVars
<1>2. ASSUME NEW m \in Msgs, AnswerQuestion(m) PROVE TypeOK'
  BY <1>2 DEF TypeOK, AnswerQuestion, Insert, Row, Statuses, WakeContainer, histVars
<1>3. ASSUME NEW m \in Msgs, ScheduleTask(m) PROVE TypeOK'
  BY <1>3 DEF TypeOK, ScheduleTask, Insert, Row, Statuses, hostVars, histVars
<1>4. ASSUME NEW b \in Boxes, SpawnDone(b) PROVE TypeOK'
  <2>1. ack' \in [Msgs -> Ack]
    BY <1>4 DEF TypeOK, SpawnDone, Ack
  <2>2. box' \in [Boxes -> Box]
    BY <1>4, BoxStore, NewBoxTypes DEF SpawnDone
  <2>3. spawning' \in Nat
    BY <1>4 DEF TypeOK, SpawnDone
  <2>a. tracked' \in Boxes \cup {None} /\ exited' \in BOOLEAN /\ fresh' \in BOOLEAN
    BY <1>4 DEF SpawnDone
  <2>4. sweep' \in {"idle", "waking", "check", "kill"}
    BY <1>4 DEF TypeOK, SpawnDone
  <2>5. UNCHANGED <<row, lastSeq, up, cooling, prompts, fate, failedStop, faults>>
    BY <1>4 DEF SpawnDone, dbVars, histVars
  <2>6. QED
    BY <2>1, <2>2, <2>3, <2>a, <2>4, <2>5 DEF TypeOK
<1>5. CASE SpawnFails
  BY <1>5 DEF TypeOK, SpawnFails, Fault, dbVars, histVars
<1>6. CASE Close
  BY <1>6 DEF TypeOK, Close, dbVars, histVars
<1>7. CASE OperatorKill
  <2>1. faults' \in Nat
    BY <1>7 DEF TypeOK, OperatorKill, Fault
  <2>2. KillContainer /\ UNCHANGED <<row, lastSeq, ack, fresh, up, tracked, spawning, cooling, sweep, prompts, fate>>
    BY <1>7 DEF OperatorKill, dbVars
  <2>3. QED
    BY <2>1, <2>2, KillType DEF TypeOK
<1>8. CASE SweepStart
  BY <1>8, SweepTypes DEF TypeOK, SweepStart, WakeContainer, histVars
<1>9. CASE SweepInspect
  BY <1>9 DEF TypeOK, SweepInspect, Fault, dbVars, histVars
<1>10. CASE SweepKill
  <2>1. KillContainer /\ ResetStuck /\ sweep' = "idle"
        /\ UNCHANGED <<lastSeq, ack, fresh, up, tracked, spawning, cooling, prompts, fate, faults>>
    BY <1>10 DEF SweepKill
  <2>2. QED
    BY <2>1, KillType, SweepTypes DEF TypeOK
<1>11. CASE SweepReset
  BY <1>11, SweepTypes DEF TypeOK, SweepReset, histVars
<1>12. CASE HostCrash
  <2>1. faults' \in Nat
    BY <1>12 DEF TypeOK, HostCrash, Fault
  <2>2. /\ up' = FALSE /\ tracked' = None /\ exited' = FALSE /\ spawning' = 0
        /\ cooling' = FALSE /\ sweep' = "idle"
        /\ UNCHANGED <<row, lastSeq, ack, fresh, box, prompts, fate, failedStop>>
    BY <1>12 DEF HostCrash, dbVars, histVars
  <2>3. QED
    BY <2>1, <2>2 DEF TypeOK
<1>13. CASE HostStart
  <2>1. box' \in [Boxes -> Box] /\ failedStop' \in BOOLEAN
    BY <1>13, NewBoxTypes DEF TypeOK, HostStart
  <2>2. /\ up' = TRUE
        /\ UNCHANGED <<row, lastSeq, ack, fresh, tracked, exited, spawning, cooling, sweep, prompts, fate, faults>>
    BY <1>13 DEF HostStart, dbVars
  <2>3. QED
    BY <2>1, <2>2 DEF TypeOK
<1>14. QED
  BY <1>1, <1>2, <1>3, <1>4, <1>5, <1>6, <1>7, <1>8, <1>9, <1>10, <1>11, <1>12, <1>13
  DEF HostStep

LEMMA TypeContainer == ASSUME TypeOK, NEW b \in Boxes, ContainerStep(b) PROVE TypeOK'
<1> USE DEF inContainer, dbVars, histVars
<1>a. ack \in [Msgs -> Ack] /\ Beat \in [Msgs -> Ack]
  BY BeatType DEF TypeOK
<1>b. box[b] \in Box /\ box[b].batch \in SUBSET Msgs /\ box[b].open \in SUBSET Msgs
  BY DEF TypeOK, Box
<1>c. {"gone", "poll", "fetched", "claimed", "gating", "query"} \subseteq Places
  BY DEF Places
<1>1. CASE Boot(b)
  <2>1. ack' \in [Msgs -> Ack]
    BY <1>1 DEF TypeOK, Boot, Ack, NoAck
  <2>2. box' = [box EXCEPT ![b] = [@ EXCEPT !.pc = "poll"]]
    BY <1>1 DEF Boot
  <2>3. box' \in [Boxes -> Box]
    BY <2>2, <1>b, <1>c, BoxMoves, BoxStore
  <2>4. UNCHANGED <<row, lastSeq, fresh, up, tracked, spawning, cooling, sweep, exited, prompts,
                    fate, failedStop, faults>>
    BY <1>1 DEF Boot
  <2>5. QED
    BY <2>1, <2>3, <2>4 DEF TypeOK
<1>2. CASE Fetch(b)
  <2>1. Fetched \subseteq Msgs
    BY PendingType DEF Fetched
  <2>2. box' \in [Boxes -> Box]
    BY <1>2, <2>1, <1>b, <1>c, BoxTakes, BoxStore DEF Fetch
  <2>3. QED
    BY <1>2, <2>2 DEF TypeOK, Fetch
<1>3. CASE Claim(b)
  <2>1. ack' \in [Msgs -> Ack]
    BY <1>3 DEF TypeOK, Claim, Ack, Claimed
  <2>2. box' = [box EXCEPT ![b] = [@ EXCEPT !.pc = "claimed"]]
    BY <1>3 DEF Claim
  <2>3. box' \in [Boxes -> Box]
    BY <2>2, <1>b, <1>c, BoxMoves, BoxStore
  <2>4. UNCHANGED <<row, lastSeq, fresh, up, tracked, spawning, cooling, sweep, exited, prompts,
                    fate, failedStop, faults>>
    BY <1>3 DEF Claim
  <2>5. QED
    BY <2>1, <2>3, <2>4 DEF TypeOK
<1>4. CASE RunCommands(b)
  <2> DEFINE cmds == {m \in box[b].batch : row[m].kind = "clear"}
             rest == box[b].batch \ cmds
  <2>1. ack' = Complete(cmds, ack) /\ fate' = Dispose(cmds, "command")
    BY <1>4 DEF RunCommands
  <2>2. ack' \in [Msgs -> Ack] /\ fate' \in [Msgs -> Fates]
    BY <2>1, <1>a, AckTypes, DisposeType DEF Fates
  <2>3. rest \subseteq Msgs
    BY DEF TypeOK, Box
  <2>4. box' = [box EXCEPT ![b] = [@ EXCEPT !.pc = IF rest = {} THEN "poll" ELSE "gating",
                                            !.batch = rest]]
    BY <1>4 DEF RunCommands
  <2>5. box' \in [Boxes -> Box]
    <3> HIDE DEF rest
    <3>1. QED
      BY <2>3, <2>4, <1>b, <1>c, BoxTakes, BoxStore
  <2>6. UNCHANGED <<row, lastSeq, fresh, up, tracked, spawning, cooling, sweep, exited, prompts,
                    failedStop, faults>>
    BY <1>4 DEF RunCommands
  <2>7. QED
    BY <2>2, <2>5, <2>6 DEF TypeOK, Fates
<1>5. CASE RunScripts(b)
  <2>1. PICK skip \in SUBSET {m \in box[b].batch : row[m].kind = "task"}, beat \in BOOLEAN :
           LET keep == box[b].batch \ skip
           IN  /\ ack' = Complete(skip, IF beat THEN Beat ELSE ack)
               /\ fresh' = (fresh \/ beat)
               /\ fate' = Dispose(skip, "gated")
               /\ Prompt(keep)
               /\ box' = [box EXCEPT ![b] = [box[b] EXCEPT !.pc = IF keep = {} THEN "poll" ELSE "query",
                                                    !.batch = keep,
                                                    !.seen = @ \cup keep,
                                                    !.answered = FALSE]]
               /\ UNCHANGED <<inContainer, exited, failedStop, faults>>
    BY <1>5 DEF RunScripts
  <2> DEFINE keep == box[b].batch \ skip
  <2>2. ack' \in [Msgs -> Ack] /\ fate' \in [Msgs -> Fates] /\ prompts' \in [Msgs -> Nat]
    BY <2>1, <1>a, AckTypes, DisposeType, PromptType DEF Fates
  <2>3. keep \subseteq Msgs
    BY DEF TypeOK, Box
  <2>4. box' \in [Boxes -> Box]
    <3> DEFINE new == [box[b] EXCEPT !.pc = IF keep = {} THEN "poll" ELSE "query",
                                     !.batch = keep,
                                     !.seen = @ \cup keep,
                                     !.answered = FALSE]
    <3>1. box' = [box EXCEPT ![b] = new]
      BY <2>1
    <3>2. new \in Box
      <4> DEFINE to == IF keep = {} THEN "poll" ELSE "query"
      <4>1. to \in Places /\ keep \in SUBSET Msgs /\ box[b] \in Box
        BY <2>3, <1>b, <1>c
      <4> HIDE DEF to, keep
      <4>2. QED
        BY <4>1, BoxPrompts DEF to
    <3> HIDE DEF new
    <3>3. QED
      BY <3>1, <3>2, BoxStore
  <2>5. QED
    BY <2>1, <2>2, <2>4 DEF TypeOK, Fates
<1>6. CASE FollowUp(b)
  <2> DEFINE new == {m \in GetPending : row[m].kind \notin {"system", "clear"}}
  <2>1. new \subseteq Msgs
    BY PendingType
  <2>2. ack' = Complete(new, ack) /\ Prompt(new)
    BY <1>6 DEF FollowUp
  <2>3. ack' \in [Msgs -> Ack] /\ prompts' \in [Msgs -> Nat]
    BY <2>2, <1>a, AckTypes, PromptType
  <2>5. box' \in [Boxes -> Box]
    <3> DEFINE r == [box[b] EXCEPT !.open = @ \cup new, !.seen = @ \cup new]
    <3>1. box' = [box EXCEPT ![b] = r]
      BY <1>6 DEF FollowUp
    <3>2. r \in Box
      <4>1. new \in SUBSET Msgs /\ box[b] \in Box
        BY <2>1, <1>b
      <4> HIDE DEF new
      <4>2. QED
        BY <4>1, BoxPushes
    <3> HIDE DEF r
    <3>3. QED
      BY <3>1, <3>2, BoxStore
  <2>6. UNCHANGED <<row, lastSeq, fresh, up, tracked, spawning, cooling, sweep, exited, fate,
                    failedStop, faults>>
    BY <1>6 DEF FollowUp
  <2>7. QED
    BY <2>3, <2>5, <2>6 DEF TypeOK
<1>7. CASE Progress(b)
  BY <1>7, <1>a DEF TypeOK, Progress
<1>8. CASE Result(b)
  <2>1. ack' \in [Msgs -> Ack]
    BY <1>8, <1>a, AckTypes DEF Result
  <2>2. fate' \in [Msgs -> Fates]
    BY <1>8, DisposeType DEF Result, Fates
  <2>3. box' \in [Boxes -> Box]
    BY <1>8, <1>b, <1>c, BoxFlags, BoxStore DEF Result
  <2>4. QED
    BY <1>8, <2>1, <2>2, <2>3 DEF TypeOK, Result, Fates
<1>9. CASE EndQuery(b)
  <2>1. ack' \in [Msgs -> Ack]
    BY <1>9, <1>a, AckTypes DEF EndQuery
  <2>2. fate' \in [Msgs -> Fates]
    BY <1>9, DisposeType DEF TypeOK, EndQuery, Fates
  <2>3. box' \in [Boxes -> Box]
    BY <1>9, <1>b, <1>c, BoxTakes, BoxStore DEF EndQuery
  <2>4. QED
    BY <1>9, <2>1, <2>2, <2>3 DEF TypeOK, EndQuery, Fates
<1>10. ASSUME NEW m \in Msgs, TakeAnswer(b, m) PROVE TypeOK'
  <2>1. ack' \in [Msgs -> Ack] /\ fate' \in [Msgs -> Fates]
    BY <1>10, <1>a, AckTypes, DisposeType DEF TakeAnswer, Fates
  <2>2. QED
    BY <1>10, <2>1 DEF TypeOK, TakeAnswer, Fates
<1>11. CASE Crash(b)
  <2>1. box' \in [Boxes -> Box]
    BY <1>11, NewBoxTypes, BoxStore DEF Crash
  <2>2. exited' \in BOOLEAN /\ faults' \in Nat
    BY <1>11 DEF TypeOK, Crash, Fault
  <2>3. UNCHANGED <<row, lastSeq, ack, fresh, up, tracked, spawning, cooling, sweep, prompts, fate,
                    failedStop>>
    BY <1>11 DEF Crash
  <2>4. QED
    BY <2>1, <2>2, <2>3 DEF TypeOK
<1>12. CASE Hang(b)
  <2>1. box' \in [Boxes -> Box]
    BY <1>12, <1>b, <1>c, BoxFlags, BoxStore DEF Hang
  <2>2. faults' \in Nat
    BY <1>12 DEF TypeOK, Hang, Fault
  <2>3. UNCHANGED <<row, lastSeq, ack, fresh, up, tracked, spawning, cooling, sweep, exited, prompts,
                    fate, failedStop>>
    BY <1>12 DEF Hang
  <2>4. QED
    BY <2>1, <2>2, <2>3 DEF TypeOK
<1>13. QED
  BY <1>1, <1>2, <1>3, <1>4, <1>5, <1>6, <1>7, <1>8, <1>9, <1>10, <1>11, <1>12
  DEF ContainerStep

LEMMA TypeTime == ASSUME TypeOK, TimeStep PROVE TypeOK'
<1>1. ASSUME NEW m \in Msgs, ClaimAges(m) PROVE TypeOK'
  BY <1>1 DEF TypeOK, ClaimAges, Ack, dbVars, hostVars, histVars
<1>2. ASSUME NEW m \in Msgs, BackoffElapses(m) PROVE TypeOK'
  BY <1>2 DEF TypeOK, BackoffElapses, Row, Statuses, hostVars, histVars
<1>3. CASE CoolingOver
  BY <1>3 DEF TypeOK, CoolingOver, dbVars, histVars
<1>4. CASE SecondEnds
  BY <1>4 DEF TypeOK, SecondEnds, dbVars, hostVars, histVars
<1>5. QED
  BY <1>1, <1>2, <1>3, <1>4 DEF TimeStep

LEMMA TypeInit == Init => TypeOK
<1>1. NoRow \in Row /\ NoAck \in Ack /\ NoBox \in Box
  BY NewBoxTypes DEF NoRow, NoAck, Row, Ack, Statuses
<1>2. ASSUME Init PROVE /\ row \in [Msgs -> Row] /\ ack \in [Msgs -> Ack] /\ box \in [Boxes -> Box]
                          /\ prompts \in [Msgs -> Nat]
  BY <1>1, <1>2 DEF Init
<1>3. Init => fresh \in BOOLEAN /\ up \in BOOLEAN /\ exited \in BOOLEAN /\ cooling \in BOOLEAN /\ failedStop \in BOOLEAN
  BY DEF Init
<1>a. Init => spawning \in Nat /\ faults \in Nat /\ lastSeq \in Nat
  BY DEF Init
<1>4. Init => /\ tracked \in Boxes \cup {None}
                /\ sweep \in {"idle", "waking", "check", "kill"}
                /\ fate \in [Msgs -> {"none", "answered", "command", "gated", "consumed"}]
  BY DEF Init
<1>5. QED
  BY <1>2, <1>3, <1>a, <1>4 DEF TypeOK

LEMMA TypeNext == TypeOK /\ [Next]_vars => TypeOK'
<1>1. CASE UNCHANGED vars
  BY <1>1 DEF TypeOK, vars
<1>2. CASE HostStep
  BY <1>2, TypeHost
<1>3. ASSUME TypeOK, NEW b \in Boxes, ContainerStep(b) PROVE TypeOK'
  BY <1>3, TypeContainer
<1>4. CASE TimeStep
  BY <1>4, TypeTime
<1>5. QED
  BY <1>1, <1>2, <1>3, <1>4 DEF Next

(* Every variable keeps its type: the tables of both databases, the poll   *)
(* loops and the memory of the host.                                       *)
THEOREM TypeCorrect == Spec => []TypeOK
BY TypeInit, TypeNext, PTL DEF Spec

-----------------------------------------------------------------------------
(* One container per session                                               *)

\* What the host remembers is consistent with itself.
Memory ==
    /\ spawning \in {0, 1}
    /\ spawning = 1 => tracked = None
    /\ ~up => tracked = None /\ spawning = 0 /\ sweep = "idle"
    /\ sweep = "kill" => tracked # None
    /\ tracked = None => ~exited

\* ... and with the containers, as long as docker stop works.
OneBox ==
    ~failedStop =>
       /\ up => \A b \in Boxes : Live(b) => b = tracked
       /\ exited => \A b \in Boxes : ~Live(b)
       /\ \A a, b \in Boxes : Live(a) /\ Live(b) => a = b

HostInv == TypeOK /\ Memory /\ OneBox

\* A container never touches the host's memory; it can only die, and if the
\* tracked one does, its docker client exits.
DiesAlone(b) ==
    /\ UNCHANGED <<up, tracked, spawning, cooling, sweep, failedStop, row, lastSeq>>
    /\ \A c \in Boxes \ {b} : box'[c] = box[c]
    /\ Live(b)
    /\ \/ Live(b)' /\ UNCHANGED exited
       \/ ~Live(b)' /\ exited' = (exited \/ tracked = b)

LEMMA ContainerFrame ==
    ASSUME TypeOK, NEW b \in Boxes, ContainerStep(b)
    PROVE  DiesAlone(b)
<1> USE DEF DiesAlone, inContainer, dbVars, histVars, Live, TypeOK
<1>1. CASE Boot(b)
  BY <1>1 DEF Boot
<1>2. CASE Fetch(b)
  BY <1>2 DEF Fetch
<1>3. CASE Claim(b)
  BY <1>3 DEF Claim
<1>4. CASE RunCommands(b)
  BY <1>4 DEF RunCommands
<1>5. CASE RunScripts(b)
  BY <1>5 DEF RunScripts
<1>6. CASE FollowUp(b)
  BY <1>6 DEF FollowUp
<1>7. CASE Progress(b)
  BY <1>7 DEF Progress
<1>8. CASE Result(b)
  <2>1. \/ box' = [box EXCEPT ![b].open = {}]
        \/ box' = [box EXCEPT ![b].answered = TRUE]
    BY <1>8 DEF Result
  <2>2. box[b].pc # "gone" /\ UNCHANGED <<inContainer, exited, failedStop>>
    BY <1>8 DEF Result
  <2>3. box'[b].pc = box[b].pc
    <3>1. box' = [box EXCEPT ![b].open = {}] => box'[b].pc = box[b].pc
      BY DEF Box
    <3>2. box' = [box EXCEPT ![b].answered = TRUE] => box'[b].pc = box[b].pc
      BY DEF Box
    <3>3. QED
      BY <2>1, <3>1, <3>2
  <2>4. \A c \in Boxes \ {b} : box'[c] = box[c]
    BY <2>1
  <2>5. QED
    BY <2>2, <2>3, <2>4
<1>9. CASE EndQuery(b)
  BY <1>9 DEF EndQuery
<1>10. CASE \E m \in Msgs : TakeAnswer(b, m)
  BY <1>10 DEF TakeAnswer
<1>11. CASE Crash(b)
  BY <1>11 DEF Crash, NoBox
<1>12. CASE Hang(b)
  BY <1>12 DEF Hang
<1> HIDE DEF DiesAlone, inContainer, dbVars, histVars, Live, TypeOK
<1>13. QED
  BY <1>1, <1>2, <1>3, <1>4, <1>5, <1>6, <1>7, <1>8, <1>9, <1>10, <1>11, <1>12
  DEF ContainerStep

\* Stopping the tracked container.
LEMMA KillFrame ==
    ASSUME HostInv, KillContainer, tracked # None, UNCHANGED <<up, tracked, spawning>>,
           sweep' \in {"idle", "waking", "check"}
    PROVE  Memory' /\ OneBox'
<1>1. Memory'
  BY DEF HostInv, Memory
<1>2. ASSUME ~failedStop' PROVE \A c \in Boxes : ~Live(c)'
  <2>1. ~failedStop /\ box' = [box EXCEPT ![tracked] = NoBox]
    BY <1>2 DEF KillContainer, HostInv, TypeOK
  <2>2. up /\ tracked \in Boxes
    BY DEF HostInv, Memory, TypeOK
  <2>3. \A c \in Boxes : Live(c) => c = tracked
    BY <2>1, <2>2 DEF HostInv, OneBox
  <2>4. QED
    BY <2>1, <2>2, <2>3 DEF Live, NoBox, HostInv, TypeOK
<1>3. QED
  BY <1>1, <1>2 DEF OneBox

LEMMA HostInvHost == ASSUME HostInv, HostStep PROVE Memory' /\ OneBox'
<1> USE NoneAssumption DEF HostInv, HostFree, dbVars, hostVars, histVars
<1>1. ASSUME NEW m \in Msgs, Route(m) \/ AnswerQuestion(m) \/ ScheduleTask(m)
      PROVE  Memory' /\ OneBox'
  <2>1. /\ UNCHANGED <<box, up, tracked, exited, sweep, failedStop>>
        /\ WakeContainer \/ UNCHANGED spawning
    BY <1>1 DEF Route, AnswerQuestion, ScheduleTask
  <2>2. up
    BY <1>1 DEF Route, AnswerQuestion, ScheduleTask
  <2>3. QED
    BY <2>1, <2>2 DEF WakeContainer, CanSpawn, Memory, OneBox, Live
<1>2. ASSUME NEW b \in Boxes, SpawnDone(b) PROVE Memory' /\ OneBox'
  <2>1. up /\ spawning = 1 /\ tracked = None
    BY <1>2 DEF SpawnDone, Memory
  <2>2. /\ spawning' = 0 /\ tracked' = b /\ exited' = FALSE
        /\ sweep' # "kill"
        /\ UNCHANGED <<up, failedStop>>
        /\ box' = [box EXCEPT ![b] = [NoBox EXCEPT !.pc = "boot"]]
    BY <1>2, <2>1 DEF SpawnDone
  <2>3. Memory'
    BY <2>1, <2>2 DEF Memory
  <2>4. ASSUME ~failedStop PROVE \A c \in Boxes : Live(c)' => c = b
    <3>1. \A c \in Boxes : ~Live(c)
      BY <2>1, <2>4 DEF OneBox
    <3>2. QED
      BY <2>2, <3>1 DEF Live, TypeOK
  <2>5. QED
    BY <2>2, <2>3, <2>4 DEF OneBox
<1>3. CASE SpawnFails \/ SweepStart \/ SweepInspect
  <2>1. UNCHANGED <<box, up, tracked, exited, failedStop>> /\ up
    BY <1>3 DEF SpawnFails, SweepStart, SweepInspect
  <2>2. OneBox'
    BY <2>1 DEF OneBox, Live
  <2>3. CASE SpawnFails
    <3>1. spawning = 1 /\ spawning' = 0 /\ (sweep' = "kill" => sweep = "kill")
      BY <2>3 DEF SpawnFails, Memory
    <3>2. QED
      BY <2>1, <2>2, <3>1 DEF Memory
  <2>4. CASE SweepStart
    <3>1. sweep' # "kill"
      BY <2>4 DEF SweepStart
    <3>2. spawning' = spawning \/ (tracked = None /\ spawning = 0 /\ spawning' = 1)
      BY <2>4 DEF SweepStart, WakeContainer, CanSpawn
    <3>3. QED
      BY <2>1, <2>2, <3>1, <3>2 DEF Memory
  <2>5. CASE SweepInspect
    <3>1. tracked # None /\ spawning' = spawning
      BY <2>5 DEF SweepInspect
    <3>2. QED
      BY <2>1, <2>2, <3>1 DEF Memory
  <2>6. QED
    BY <1>3, <2>2, <2>3, <2>4, <2>5
<1>4. CASE Close
  <2>1. Memory'
    BY <1>4 DEF Close, Memory
  <2>2. QED
    BY <1>4, <2>1 DEF Close, OneBox, Live
<1>5. CASE OperatorKill
  <2>1. /\ KillContainer /\ tracked # None /\ UNCHANGED <<up, tracked, spawning, sweep>>
        /\ sweep \in {"idle", "waking", "check"}
    BY <1>5 DEF OperatorKill, TypeOK
  <2>2. QED
    BY <2>1, KillFrame
<1>6. CASE SweepKill
  <2>1. /\ KillContainer /\ UNCHANGED <<up, tracked, spawning>> /\ sweep' = "idle"
        /\ tracked # None
    BY <1>6 DEF SweepKill, Memory
  <2>2. QED
    BY <2>1, KillFrame
<1>7. CASE SweepReset
  <2>1. UNCHANGED <<box, up, tracked, exited, spawning, failedStop>> /\ up /\ sweep' = "idle"
    BY <1>7 DEF SweepReset
  <2>2. QED
    BY <2>1 DEF OneBox, Live, Memory
<1>8. CASE HostCrash
  <2>1. /\ up' = FALSE /\ tracked' = None /\ exited' = FALSE /\ spawning' = 0 /\ sweep' = "idle"
        /\ UNCHANGED <<box, failedStop>>
    BY <1>8 DEF HostCrash
  <2>2. QED
    BY <2>1 DEF OneBox, Live, Memory
<1>9. CASE HostStart
  <2>1. /\ up' = TRUE /\ UNCHANGED <<tracked, exited, spawning, sweep>> /\ ~up
        /\ (box' = [b \in Boxes |-> NoBox]) \/ failedStop'
    BY <1>9 DEF HostStart
  <2>2. QED
    BY <2>1 DEF OneBox, Live, Memory, NoBox
<1>10. QED
  BY <1>1, <1>2, <1>3, <1>4, <1>5, <1>6, <1>7, <1>8, <1>9 DEF HostStep

LEMMA HostInvNext == HostInv /\ [Next]_vars => HostInv'
<1>1. CASE UNCHANGED vars
  BY <1>1 DEF HostInv, TypeOK, Memory, OneBox, Live, vars
<1> SUFFICES ASSUME HostInv, Next PROVE Memory' /\ OneBox'
  BY <1>1, TypeNext DEF HostInv
<1>2. CASE HostStep
  BY <1>2, HostInvHost
<1>3. ASSUME NEW b \in Boxes, ContainerStep(b) PROVE Memory' /\ OneBox'
  <2>1. TypeOK
    BY DEF HostInv
  <2>2. UNCHANGED <<up, tracked, spawning, sweep, failedStop>>
    BY <1>3, <2>1, ContainerFrame DEF DiesAlone
  <2>3. \A c \in Boxes : Live(c)' => Live(c)
    BY <1>3, <2>1, ContainerFrame DEF Live, DiesAlone
  <2>4. exited' => \/ exited
                   \/ tracked = b /\ ~Live(b)'
    BY <1>3, <2>1, ContainerFrame DEF DiesAlone
  <2>5. Memory'
    BY <2>2, <2>4, NoneAssumption DEF HostInv, Memory
  <2>6. OneBox'
    BY <2>2, <2>3, <2>4, NoneAssumption DEF HostInv, Memory, OneBox
  <2>7. QED
    BY <2>5, <2>6
<1>4. CASE TimeStep
  <2>1. UNCHANGED <<box, up, tracked, exited, spawning, sweep, failedStop>>
    BY <1>4 DEF TimeStep, ClaimAges, BackoffElapses, SecondEnds, CoolingOver, hostVars, histVars
  <2>2. QED
    BY <2>1 DEF HostInv, Memory, OneBox, Live
<1>5. QED
  BY <1>2, <1>3, <1>4 DEF Next

LEMMA HostInvInit == Init => HostInv
<1>1. Init => TypeOK
  BY TypeInit
<1>2. Init => Memory /\ OneBox
  BY DEF Init, Memory, OneBox, Live, NoBox
<1>3. QED
  BY <1>1, <1>2 DEF HostInv

(* While the host runs, and until a docker stop fails, the only container  *)
(* of the session is the tracked one.                                      *)
THEOREM OneLoop == Spec => []OnlyTrackedRuns
<1>1. HostInv => OnlyTrackedRuns
  BY DEF HostInv, OneBox, OnlyTrackedRuns
<1>2. QED
  BY <1>1, HostInvInit, HostInvNext, PTL DEF Spec

-----------------------------------------------------------------------------
(* What holds between the poll loop of the one container of a session and  *)
(* the tables it shares with the host.                                     *)

\* the batch is claimed but its prompt is not made yet
Before == {"fetched", "claimed", "gating"}

\* What a live container's loop knows about the tables.
LoopOf(b) ==
    /\ box[b].pc \in {"boot", "poll"} => box[b].batch = {}
    /\ box[b].pc # "boot" => \A m \in Msgs : ack[m].st = "processing" => m \in box[b].batch
    /\ box[b].pc \in {"claimed", "gating"} => \A m \in box[b].batch : ack[m].st # "none"
    /\ box[b].pc \in Before =>
          \A m \in box[b].batch : row[m].st # "absent" /\ ~row[m].later /\ m \notin box[b].seen
    /\ box[b].pc = "boot" => box[b].seen = {}
    /\ \A m \in box[b].seen : ack[m].st # "none"
    /\ \A m \in box[b].batch : row[m].st # "failed"

\* A failed row was not completed by a container.
FailedStays == \A m \in Msgs : row[m].st = "failed" => ack[m].st # "completed"

LoopInv ==
    /\ HostInv
    /\ ~failedStop => FailedStays /\ \A b \in Boxes : Live(b) => LoopOf(b)

\* A step of a container that completes the acks of S and changes no other.
Settles(S) == \A m \in Msgs : ack'[m].st = IF m \in S THEN "completed" ELSE ack[m].st

LEMMA BeatSt == ASSUME TypeOK PROVE \A m \in Msgs : Beat[m].st = ack[m].st
BY DEF Beat, TypeOK, Ack

LEMMA CompleteSt ==
    ASSUME TypeOK, NEW S, ack' = Complete(S, ack) \/ ack' = Complete(S, Beat)
    PROVE  Settles(S)
<1>1. CASE ack' = Complete(S, ack)
  BY <1>1 DEF Complete, Settles, Done
<1>2. CASE ack' = Complete(S, Beat)
  BY <1>2, BeatSt DEF Complete, Settles, Done
<1>3. QED
  BY <1>1, <1>2

\* Fetched rows are due and nobody has acknowledged them.
LEMMA PendingFacts ==
    \A m \in GetPending : m \in Msgs /\ row[m].st = "pending" /\ ~row[m].later /\ ack[m].st = "none"
BY DEF GetPending, Newest, Due

\* One step of a live container's loop.
LEMMA LoopStep ==
    ASSUME TypeOK, NEW b \in Boxes, Live(b), LoopOf(b), FailedStays, ContainerStep(b)
    PROVE  (Live(b)' => LoopOf(b)') /\ FailedStays'
<1> USE DEF Before
<1>a. UNCHANGED row
  BY ContainerFrame DEF DiesAlone
<1>b. box[b] \in Box /\ box[b].batch \subseteq Msgs /\ box[b].seen \subseteq Msgs
  BY DEF TypeOK, Box
<1>1. CASE Boot(b)
  <2>1. /\ box[b].pc = "boot"
        /\ \A m \in Msgs : ack'[m].st = IF ack[m].st = "processing" THEN "none" ELSE ack[m].st
    BY <1>1 DEF Boot, Claims, NoAck
  <2>2. box'[b].pc = "poll" /\ box'[b].batch = box[b].batch /\ box'[b].seen = box[b].seen
    BY <1>1 DEF Boot, TypeOK, Box
  <2>3. QED
    BY <2>1, <2>2, <1>a, <1>b DEF LoopOf, FailedStays
<1>2. CASE Fetch(b)
  <2>1. box[b].pc = "poll" /\ UNCHANGED ack
    BY <1>2 DEF Fetch
  <2>2. box'[b].pc = "fetched" /\ box'[b].batch = Fetched /\ box'[b].seen = box[b].seen
    BY <1>2 DEF Fetch, TypeOK, Box
  <2>3. \A m \in Fetched : m \in Msgs /\ row[m].st = "pending" /\ ~row[m].later /\ ack[m].st = "none"
    BY PendingFacts DEF Fetched
  <2>4. QED
    BY <2>1, <2>2, <2>3, <1>a, <1>b DEF LoopOf, FailedStays
<1>3. CASE Claim(b)
  <2>1. /\ box[b].pc = "fetched"
        /\ \A m \in Msgs : ack'[m].st = IF m \in box[b].batch THEN "processing" ELSE ack[m].st
    BY <1>3 DEF Claim, Claimed
  <2>2. box'[b].pc = "claimed" /\ box'[b].batch = box[b].batch /\ box'[b].seen = box[b].seen
    BY <1>3 DEF Claim, TypeOK, Box
  <2>3. QED
    BY <2>1, <2>2, <1>a, <1>b DEF LoopOf, FailedStays
<1>4. CASE RunCommands(b)
  <2> DEFINE cmds == {m \in box[b].batch : row[m].kind = "clear"}
             rest == box[b].batch \ cmds
  <2>1. box[b].pc = "claimed" /\ Settles(cmds)
    BY <1>4, CompleteSt DEF RunCommands
  <2>2. /\ box'[b].pc = IF rest = {} THEN "poll" ELSE "gating"
        /\ box'[b].batch = rest
        /\ box'[b].seen = box[b].seen
    BY <1>4 DEF RunCommands, TypeOK, Box
  <2>3. cmds \subseteq box[b].batch
    OBVIOUS
  <2> HIDE DEF cmds
  <2>4. QED
    BY <2>1, <2>2, <2>3, <1>a, <1>b DEF LoopOf, FailedStays, Settles
<1>5. CASE RunScripts(b)
  <2>1. PICK skip \in SUBSET box[b].batch :
           /\ box[b].pc = "gating"
           /\ Settles(skip)
           /\ box' = [box EXCEPT ![b] = [box[b] EXCEPT
                         !.pc = IF box[b].batch \ skip = {} THEN "poll" ELSE "query",
                         !.batch = box[b].batch \ skip,
                         !.seen = @ \cup (box[b].batch \ skip),
                         !.answered = FALSE]]
    <3>1. PICK skip \in SUBSET {m \in box[b].batch : row[m].kind = "task"}, beat \in BOOLEAN :
           /\ box[b].pc = "gating"
           /\ ack' = Complete(skip, IF beat THEN Beat ELSE ack)
           /\ box' = [box EXCEPT ![b] = [box[b] EXCEPT
                         !.pc = IF box[b].batch \ skip = {} THEN "poll" ELSE "query",
                         !.batch = box[b].batch \ skip,
                         !.seen = @ \cup (box[b].batch \ skip),
                         !.answered = FALSE]]
      BY <1>5 DEF RunScripts
    <3>2. Settles(skip)
      BY <3>1, CompleteSt
    <3>3. QED
      BY <3>1, <3>2
  <2> DEFINE keep == box[b].batch \ skip
  <2>2. /\ box'[b].pc = IF keep = {} THEN "poll" ELSE "query"
        /\ box'[b].batch = keep
        /\ box'[b].seen = box[b].seen \cup keep
    BY <2>1 DEF TypeOK, Box
  <2>3. /\ keep \subseteq box[b].batch
        /\ \A m \in Msgs : ack'[m].st = IF m \in box[b].batch \ keep THEN "completed" ELSE ack[m].st
    BY <2>1 DEF Settles
  <2>4. box[b].pc = "gating"
    BY <2>1
  <2> HIDE DEF keep
  <2>5. LoopOf(b)'
    <3>1. /\ \A m \in Msgs : ack[m].st = "processing" => m \in box[b].batch
          /\ \A m \in box[b].batch : row[m].st # "failed"
          /\ \A m \in box[b].seen : ack[m].st # "none"
          /\ \A m \in box[b].batch : m \notin box[b].seen
      BY <2>4 DEF LoopOf
    <3>2. box'[b].pc \in {"poll", "query"} /\ (box'[b].pc = "poll" => box'[b].batch = {})
      BY <2>2
    <3>3. \A m \in Msgs : ack'[m].st = "processing" => m \in box'[b].batch
      BY <2>2, <2>3, <3>1
    <3>4. \A m \in box'[b].batch : row'[m].st # "failed"
      BY <2>2, <2>3, <3>1, <1>a
    <3>5. \A m \in keep : ack[m].st # "none"
      BY <1>5, <2>3, <2>4 DEF LoopOf
    <3>6. \A m \in box'[b].seen : ack'[m].st # "none"
      BY <2>2, <2>3, <3>1, <3>5, <1>b
    <3>7. QED
      BY <3>2, <3>3, <3>4, <3>6 DEF LoopOf
  <2>6. FailedStays'
    BY <2>3, <1>a, <1>b DEF LoopOf, FailedStays
  <2>7. QED
    BY <2>5, <2>6
<1>6. CASE FollowUp(b)
  <2> DEFINE new == {m \in GetPending : row[m].kind \notin {"system", "clear"}}
  <2>1. box[b].pc = "query" /\ Settles(new)
    BY <1>6, CompleteSt DEF FollowUp
  <2>2. box'[b].pc = "query" /\ box'[b].batch = box[b].batch /\ box'[b].seen = box[b].seen \cup new
    BY <1>6 DEF FollowUp, TypeOK, Box
  <2>3. \A m \in new : m \in Msgs /\ row[m].st = "pending"
    BY PendingFacts
  <2> HIDE DEF new
  <2>4. QED
    BY <2>1, <2>2, <2>3, <1>a, <1>b DEF LoopOf, FailedStays, Settles
<1>7. CASE Progress(b)
  <2>1. /\ \A m \in Msgs : ack'[m].st = ack[m].st
        /\ UNCHANGED box
    BY <1>7, BeatSt DEF Progress
  <2>2. QED
    BY <2>1, <1>a, <1>b DEF LoopOf, FailedStays
<1>8. CASE Result(b)
  <2>1. box[b].pc = "query" /\ Settles(box[b].batch)
    BY <1>8, CompleteSt DEF Result
  <2>2. box'[b].pc = box[b].pc /\ box'[b].batch = box[b].batch /\ box'[b].seen = box[b].seen
    <3>1. box' = [box EXCEPT ![b].open = {}] =>
             box'[b].pc = box[b].pc /\ box'[b].batch = box[b].batch /\ box'[b].seen = box[b].seen
      BY DEF TypeOK, Box
    <3>2. box' = [box EXCEPT ![b].answered = TRUE] =>
             box'[b].pc = box[b].pc /\ box'[b].batch = box[b].batch /\ box'[b].seen = box[b].seen
      BY DEF TypeOK, Box
    <3>3. QED
      BY <1>8, <3>1, <3>2 DEF Result
  <2>3. QED
    BY <2>1, <2>2, <1>a, <1>b DEF LoopOf, FailedStays, Settles
<1>9. CASE EndQuery(b)
  <2>1. box[b].pc = "query" /\ Settles(box[b].batch)
    BY <1>9, CompleteSt DEF EndQuery
  <2>2. box'[b].pc = "poll" /\ box'[b].batch = {} /\ box'[b].seen = box[b].seen
    BY <1>9 DEF EndQuery, TypeOK, Box
  <2>3. QED
    BY <2>1, <2>2, <1>a, <1>b DEF LoopOf, FailedStays, Settles
<1>10. ASSUME NEW m \in Msgs, TakeAnswer(b, m) PROVE (Live(b)' => LoopOf(b)') /\ FailedStays'
  <2>1. row[m].st = "pending" /\ Settles({m}) /\ UNCHANGED box
    BY <1>10, CompleteSt DEF TakeAnswer
  <2>2. QED
    BY <2>1, <1>a, <1>b DEF LoopOf, FailedStays, Settles
<1>11. CASE Crash(b)
  <2>1. ~Live(b)' /\ UNCHANGED ack
    BY <1>11 DEF Crash, Live, NoBox, TypeOK
  <2>2. QED
    BY <2>1, <1>a DEF FailedStays
<1>12. CASE Hang(b)
  <2>1. UNCHANGED ack
    BY <1>12 DEF Hang
  <2>2. box'[b].pc = box[b].pc /\ box'[b].batch = box[b].batch /\ box'[b].seen = box[b].seen
    BY <1>12 DEF Hang, TypeOK, Box
  <2>3. QED
    BY <2>1, <2>2, <1>a, <1>b DEF LoopOf, FailedStays
<1>13. QED
  BY <1>1, <1>2, <1>3, <1>4, <1>5, <1>6, <1>7, <1>8, <1>9, <1>10, <1>11, <1>12
  DEF ContainerStep

\* A step of a container that is not live does not exist; one of the live one
\* leaves all others as they are.
LEMMA LoopInvContainer ==
    ASSUME LoopInv, NEW b \in Boxes, ContainerStep(b), HostInv' PROVE LoopInv'
<1>1. TypeOK
  BY DEF LoopInv, HostInv
<1>2. DiesAlone(b)
  BY <1>1, ContainerFrame
<1>3. SUFFICES ASSUME ~failedStop PROVE FailedStays' /\ \A c \in Boxes : Live(c)' => LoopOf(c)'
  BY <1>2 DEF DiesAlone, LoopInv
<1>4. Live(b) /\ LoopOf(b) /\ FailedStays
  BY <1>2, <1>3 DEF DiesAlone, LoopInv
<1>5. (Live(b)' => LoopOf(b)') /\ FailedStays'
  BY <1>1, <1>4, LoopStep
<1>6. \A c \in Boxes : Live(c)' => c = b
  BY <1>2, <1>3, <1>4 DEF DiesAlone, Live, LoopInv, HostInv, OneBox
<1>7. QED
  BY <1>5, <1>6

\* Steps that keep what the loops rest on.
LEMMA LoopKept ==
    ASSUME LoopInv, HostInv', failedStop => failedStop',
           \A c \in Boxes : Live(c)' => box'[c] = box[c],
           \A m \in Msgs : ack'[m].st = ack[m].st,
           \A m \in Msgs : row[m].st # "absent" => row'[m].st # "absent",
           \A m \in Msgs : row[m].st # "absent" /\ row'[m].later => row[m].later,
           \A m \in Msgs : row'[m].st = "failed" => row[m].st = "failed"
    PROVE  LoopInv'
<1>1. SUFFICES ASSUME ~failedStop PROVE FailedStays' /\ \A c \in Boxes : Live(c)' => LoopOf(c)'
  BY DEF LoopInv
<1>2. FailedStays'
  <2>1. FailedStays
    BY <1>1 DEF LoopInv
  <2>2. QED
    BY <2>1 DEF FailedStays
<1>3. ASSUME NEW c \in Boxes, Live(c)' PROVE LoopOf(c)'
  <2>1. LoopOf(c) /\ box'[c] = box[c]
    BY <1>1, <1>3 DEF LoopInv, Live
  <2>2. box[c].batch \subseteq Msgs /\ box[c].seen \subseteq Msgs
    BY DEF LoopInv, HostInv, TypeOK, Box
  <2>3. \A m \in Msgs : ack'[m].st = ack[m].st
    OBVIOUS
  <2>4. \A m \in box[c].batch : row[m].st # "failed" => row'[m].st # "failed"
    BY <2>2
  <2>5. \A m \in box[c].batch : row[m].st # "absent" /\ ~row[m].later
                                 => row'[m].st # "absent" /\ ~row'[m].later
    BY <2>2
  <2>6. QED
    BY <2>1, <2>2, <2>3, <2>4, <2>5 DEF LoopOf
<1>4. QED
  BY <1>2, <1>3

\* Nothing runs after the reset of stuck claims.
LEMMA ResetKept ==
    ASSUME LoopInv, HostInv', ResetStuck, UNCHANGED ack, failedStop => failedStop',
           ~failedStop' => \A c \in Boxes : ~Live(c)'
    PROVE  LoopInv'
<1>1. SUFFICES ASSUME ~failedStop' PROVE FailedStays'
  BY DEF LoopInv
<1>2. \A m \in Msgs : row'[m].st = "failed" => row[m].st = "failed" \/ ack[m].st = "processing"
  BY DEF ResetStuck, Claims, LoopInv, HostInv, TypeOK, Row
<1>3. FailedStays
  BY <1>1 DEF LoopInv
<1>4. QED
  BY <1>2, <1>3 DEF FailedStays

LEMMA LoopInvHost == ASSUME LoopInv, HostStep, HostInv' PROVE LoopInv'
<1> USE DEF HostFree, dbVars, hostVars, histVars
<1>t. TypeOK /\ Memory /\ OneBox
  BY DEF LoopInv, HostInv
<1>1. ASSUME NEW m \in Msgs, Route(m) \/ AnswerQuestion(m) \/ ScheduleTask(m) PROVE LoopInv'
  <2>1. UNCHANGED <<ack, box, failedStop>>
    BY <1>1 DEF Route, AnswerQuestion, ScheduleTask
  <2>2. \A n \in Msgs : \/ row'[n] = row[n]
                        \/ row[n].st = "absent" /\ row'[n].st = "pending"
    BY <1>1, <1>t DEF Route, AnswerQuestion, ScheduleTask, Insert, TypeOK
  <2>3. QED
    BY <2>1, <2>2, LoopKept
<1>2. ASSUME NEW b \in Boxes, SpawnDone(b) PROVE LoopInv'
  <2>1. /\ UNCHANGED <<row, failedStop, up>> /\ tracked' = b /\ up
        /\ box' = [box EXCEPT ![b] = [NoBox EXCEPT !.pc = "boot"]]
    BY <1>2 DEF SpawnDone
  <2>2. \A m \in Msgs : ack'[m].st = ack[m].st
    BY <1>2, <1>t DEF SpawnDone, TypeOK, Ack
  <2>3. FailedStays => FailedStays'
    BY <2>1, <2>2 DEF FailedStays
  <2>4. /\ box'[b].pc = "boot" /\ box'[b].batch = {} /\ box'[b].seen = {}
    BY <2>1, <1>t DEF TypeOK, NoBox
  <2>5. LoopOf(b)'
    BY <2>4 DEF LoopOf, Before
  <2>6. ~failedStop => \A c \in Boxes : Live(c)' => c = b
    BY <2>1 DEF HostInv, OneBox
  <2>7. QED
    BY <2>1, <2>3, <2>5, <2>6 DEF LoopInv
<1>3. CASE SpawnFails \/ Close \/ SweepInspect \/ HostCrash
  <2>1. UNCHANGED <<row, ack, box, failedStop>>
    BY <1>3 DEF SpawnFails, Close, SweepInspect, HostCrash
  <2>2. QED
    BY <2>1, LoopKept
<1>4. CASE OperatorKill \/ HostStart
  <2>1. UNCHANGED <<row, ack>> /\ (failedStop => failedStop')
    BY <1>4 DEF OperatorKill, HostStart, KillContainer
  <2>2. \A c \in Boxes : Live(c)' => box'[c] = box[c]
    BY <1>4, <1>t DEF OperatorKill, HostStart, KillContainer, Live, NoBox, TypeOK
  <2>3. QED
    BY <2>1, <2>2, LoopKept
<1>5. CASE SweepStart
  <2>1. UNCHANGED <<ack, box, failedStop>> /\ row' = Synced
    BY <1>5 DEF SweepStart
  <2>2. \A m \in Msgs : \/ row'[m] = row[m]
                        \/ row'[m].st = "completed" /\ row'[m].later = row[m].later
    BY <2>1, <1>t DEF Synced, TypeOK, Row
  <2>3. QED
    BY <2>1, <2>2, LoopKept
<1>6. CASE SweepKill
  <2>1. /\ ResetStuck /\ UNCHANGED ack /\ exited' /\ (failedStop => failedStop')
    BY <1>6 DEF SweepKill, KillContainer
  <2>2. QED
    BY <2>1, ResetKept DEF HostInv, OneBox
<1>7. CASE SweepReset
  <2>1. /\ ResetStuck /\ UNCHANGED <<ack, box, failedStop>> /\ up /\ tracked = None
    BY <1>7 DEF SweepReset
  <2>2. ~failedStop' => \A c \in Boxes : ~Live(c)'
    BY <2>1, <1>t, NoneAssumption DEF OneBox, Live
  <2>3. QED
    BY <2>1, <2>2, ResetKept
<1>8. QED
  BY <1>1, <1>2, <1>3, <1>4, <1>5, <1>6, <1>7 DEF HostStep

LEMMA LoopInvTime == ASSUME LoopInv, TimeStep, HostInv' PROVE LoopInv'
<1> USE DEF dbVars, hostVars, histVars
<1>t. TypeOK
  BY DEF LoopInv, HostInv
<1>1. UNCHANGED <<box, failedStop>>
  BY DEF TimeStep, ClaimAges, BackoffElapses, SecondEnds, CoolingOver
<1>2. \A m \in Msgs : ack'[m].st = ack[m].st
  BY <1>t DEF TimeStep, ClaimAges, BackoffElapses, SecondEnds, CoolingOver, TypeOK, Ack
<1>3. \A m \in Msgs : row'[m].st = row[m].st /\ (row'[m].later => row[m].later)
  BY <1>t DEF TimeStep, ClaimAges, BackoffElapses, SecondEnds, CoolingOver, TypeOK, Row
<1>4. QED
  BY <1>1, <1>2, <1>3, LoopKept

LEMMA LoopInvInit == Init => LoopInv
<1> SUFFICES ASSUME Init PROVE LoopInv
  OBVIOUS
<1>1. HostInv
  BY HostInvInit
<1>2. FailedStays /\ \A b \in Boxes : ~Live(b)
  BY DEF Init, FailedStays, Live, NoBox, NoRow
<1>3. QED
  BY <1>1, <1>2 DEF LoopInv

LEMMA LoopInvNext == LoopInv /\ [Next]_vars => LoopInv'
<1> SUFFICES ASSUME LoopInv, [Next]_vars PROVE LoopInv'
  OBVIOUS
<1>1. HostInv'
  BY HostInvNext DEF LoopInv
<1>2. CASE UNCHANGED vars
  BY <1>1, <1>2, LoopKept DEF vars
<1>3. CASE Next
  BY <1>1, <1>3, LoopInvHost, LoopInvContainer, LoopInvTime DEF Next
<1>4. QED
  BY <1>2, <1>3

(* Until a docker stop fails, every 'processing' ack belongs to the batch  *)
(* of the running container.                                               *)
THEOREM ClaimsOwned == Spec => []ClaimsAreOwned
<1>1. LoopInv => ClaimsAreOwned
  BY DEF LoopInv, LoopOf, ClaimsAreOwned, Claims
<1>2. QED
  BY <1>1, LoopInvInit, LoopInvNext, PTL DEF Spec

\* Who makes prompts: a live container, of rows of its claimed batch or of due
\* rows nobody has acknowledged.
LEMMA PromptStep ==
    ASSUME LoopInv, ~failedStop, [Next]_vars, NEW m \in Msgs, prompts'[m] # prompts[m]
    PROVE  \E b \in Boxes :
              /\ Live(b)
              /\ \A c \in Boxes : Live(c) => c = b
              /\ m \notin box[b].seen
              /\ ~row[m].later
<1> USE DEF dbVars, hostVars, histVars, inContainer
<1>t. TypeOK /\ prompts \in [Msgs -> Nat]
  BY DEF LoopInv, HostInv, TypeOK
<1>1. CASE UNCHANGED vars
  BY <1>1 DEF vars
<1>2. CASE HostStep
  <2>1. UNCHANGED prompts
    BY <1>2 DEF HostStep, Route, AnswerQuestion, ScheduleTask, SpawnDone, SpawnFails, Close,
                OperatorKill, SweepStart, SweepInspect, SweepKill, SweepReset, HostCrash, HostStart
  <2>2. QED
    BY <2>1
<1>3. CASE TimeStep
  BY <1>3 DEF TimeStep, ClaimAges, BackoffElapses, SecondEnds, CoolingOver
<1>4. ASSUME NEW b \in Boxes, ContainerStep(b)
      PROVE  /\ Live(b)
             /\ \A c \in Boxes : Live(c) => c = b
             /\ m \notin box[b].seen
             /\ ~row[m].later
  <2>1. Live(b)
    BY <1>t, <1>4, ContainerFrame DEF DiesAlone
  <2>2. \A c \in Boxes : Live(c) => c = b
    BY <2>1 DEF LoopInv, HostInv, OneBox
  <2>3. LoopOf(b)
    BY <2>1 DEF LoopInv
  <2>4. CASE RunScripts(b)
    <3>1. box[b].pc = "gating" /\ m \in box[b].batch
      BY <1>t, <2>4 DEF RunScripts, Prompt
    <3>2. QED
      BY <2>1, <2>2, <2>3, <3>1 DEF LoopOf, Before
  <2>5. CASE FollowUp(b)
    <3>1. m \in GetPending
      BY <1>t, <2>5 DEF FollowUp, Prompt
    <3>2. ~row[m].later /\ ack[m].st = "none"
      BY <3>1, PendingFacts
    <3>3. QED
      BY <2>1, <2>2, <2>3, <3>2 DEF LoopOf
  <2>6. RunScripts(b) \/ FollowUp(b)
    BY <1>4 DEF ContainerStep, Boot, Fetch, Claim, RunCommands, Progress, Result, EndQuery,
                TakeAnswer, Crash, Hang
  <2>7. QED
    BY <2>4, <2>5, <2>6
<1>5. QED
  BY <1>1, <1>2, <1>3, <1>4 DEF Next

(* Until a docker stop fails, a row in backoff is not prompted.            *)
THEOREM BackoffHolds == Spec => BackoffRespected
<1>1. LoopInv /\ [Next]_vars =>
         [\A m \in Msgs : prompts'[m] > prompts[m] /\ ~failedStop => ~row[m].later]_vars
  <2> SUFFICES ASSUME LoopInv, [Next]_vars, ~failedStop, NEW m \in Msgs, prompts'[m] > prompts[m]
               PROVE  ~row[m].later
    OBVIOUS
  <2>1. prompts'[m] # prompts[m]
    BY DEF LoopInv, HostInv, TypeOK
  <2>2. QED
    BY <2>1, PromptStep
<1>2. QED
  BY <1>1, LoopInvInit, LoopInvNext, PTL DEF Spec, BackoffRespected

(* Until a docker stop fails, a container never prompts its agent twice    *)
(* with the same row.                                                      *)
THEOREM PromptedOnce == Spec => OncePerContainer
<1>1. LoopInv /\ [Next]_vars =>
         [\A b \in Boxes, m \in Msgs :
            m \in box[b].seen /\ Live(b) /\ box'[b].pc # "gone" /\ ~failedStop
               => prompts'[m] = prompts[m]]_vars
  BY PromptStep
<1>2. QED
  BY <1>1, LoopInvInit, LoopInvNext, PTL DEF Spec, OncePerContainer

(* Until a docker stop fails, a completed or failed row stays as it is.    *)
THEOREM TerminalStays == Spec => TerminalIsFinal
<1>1. ASSUME LoopInv, [Next]_vars, ~failedStop, NEW m \in Msgs, row[m].st \in {"completed", "failed"}
      PROVE  row'[m].st = row[m].st /\ row'[m].tries = row[m].tries
  <2> USE DEF dbVars, hostVars, histVars
  <2>t. TypeOK /\ FailedStays
    BY <1>1 DEF LoopInv, HostInv
  <2>1. CASE UNCHANGED row
    BY <2>1
  <2>2. CASE \E n \in Msgs, k \in {"chat", "clear", "task", "system"}, t, l \in BOOLEAN : Insert(n, k, t, l)
    BY <1>1, <2>2, <2>t DEF Insert, TypeOK
  <2>3. CASE row' = Synced
    BY <1>1, <2>3, <2>t DEF Synced, FailedStays, TypeOK, Row
  <2>4. CASE ResetStuck
    BY <1>1, <2>4 DEF ResetStuck, Due
  <2>5. CASE TimeStep
    BY <1>1, <2>5, <2>t DEF TimeStep, ClaimAges, BackoffElapses, SecondEnds, CoolingOver, TypeOK, Row
  <2>6. CASE HostStep
    <3>1. ASSUME NEW n \in Msgs, Route(n) \/ AnswerQuestion(n) \/ ScheduleTask(n)
          PROVE  \E k \in {"chat", "clear", "task", "system"}, t, l \in BOOLEAN : Insert(n, k, t, l)
      BY <3>1 DEF Route, AnswerQuestion, ScheduleTask
    <3>2. ASSUME NEW b \in Boxes, SpawnDone(b) PROVE UNCHANGED row
      BY <3>2 DEF SpawnDone
    <3>3. SpawnFails \/ Close \/ OperatorKill \/ SweepInspect \/ HostCrash \/ HostStart => UNCHANGED row
      BY DEF SpawnFails, Close, OperatorKill, SweepInspect, HostCrash, HostStart
    <3>4. SweepStart => row' = Synced
      BY DEF SweepStart
    <3>5. SweepKill \/ SweepReset => ResetStuck
      BY DEF SweepKill, SweepReset
    <3>6. QED
      BY <2>6, <2>1, <2>2, <2>3, <2>4, <3>1, <3>2, <3>3, <3>4, <3>5 DEF HostStep
  <2>7. ASSUME NEW b \in Boxes, ContainerStep(b) PROVE UNCHANGED row
    BY <2>t, <2>7, ContainerFrame DEF DiesAlone
  <2>8. QED
    BY <1>1, <2>1, <2>5, <2>6, <2>7 DEF Next, vars
<1>2. LoopInv /\ [Next]_vars =>
         [\A m \in Msgs : row[m].st \in {"completed", "failed"} /\ ~failedStop
                        => row'[m].st = row[m].st /\ row'[m].tries = row[m].tries]_vars
  BY <1>1
<1>3. QED
  BY <1>2, LoopInvInit, LoopInvNext, PTL DEF Spec, TerminalIsFinal

-----------------------------------------------------------------------------
(* Nothing is dropped                                                      *)

\* A completed row was handled, and the rows of an open query were prompted.
Handled ==
    /\ TypeOK
    /\ NothingSilentlyDropped
    /\ \A b \in Boxes : box[b].pc = "query" => \A m \in box[b].batch : prompts[m] > 0

\* Steps that complete only rows whose acks are completed.
LEMMA HandledKept ==
    ASSUME Handled, TypeOK', UNCHANGED <<prompts, fate>>,
           \A b \in Boxes : box'[b].pc = "query" => box'[b] = box[b],
           \A m \in Msgs : ack'[m].st = ack[m].st,
           \A m \in Msgs : row'[m].st = "completed" => row[m].st = "completed" \/ ack[m].st = "completed"
    PROVE  Handled'
BY DEF Handled, NothingSilentlyDropped

LEMMA HandledHost == ASSUME Handled, HostStep, TypeOK' PROVE Handled'
<1> USE DEF dbVars, hostVars, histVars
<1>t. TypeOK
  BY DEF Handled
<1>1. ASSUME NEW m \in Msgs, Route(m) \/ AnswerQuestion(m) \/ ScheduleTask(m) PROVE Handled'
  <2>1. UNCHANGED <<ack, box, prompts, fate>>
    BY <1>1 DEF Route, AnswerQuestion, ScheduleTask
  <2>2. \A n \in Msgs : row'[n] = row[n] \/ row'[n].st = "pending"
    BY <1>1, <1>t DEF Route, AnswerQuestion, ScheduleTask, Insert, TypeOK
  <2>3. QED
    BY <2>1, <2>2, HandledKept
<1>2. ASSUME NEW b \in Boxes, SpawnDone(b) PROVE Handled'
  <2>1. UNCHANGED <<row, prompts, fate>>
    BY <1>2 DEF SpawnDone
  <2>2. \A m \in Msgs : ack'[m].st = ack[m].st
    BY <1>2, <1>t DEF SpawnDone, TypeOK, Ack
  <2>3. \A c \in Boxes : box'[c].pc = "query" => box'[c] = box[c]
    BY <1>2, <1>t DEF SpawnDone, NoBox, TypeOK
  <2>4. QED
    BY <2>1, <2>2, <2>3, HandledKept
<1>3. CASE SpawnFails \/ Close \/ SweepInspect \/ HostCrash
  <2>1. UNCHANGED <<row, ack, box, prompts, fate>>
    BY <1>3 DEF SpawnFails, Close, SweepInspect, HostCrash
  <2>2. QED
    BY <2>1, HandledKept
<1>4. CASE OperatorKill \/ HostStart
  <2>1. UNCHANGED <<row, ack, prompts, fate>>
    BY <1>4 DEF OperatorKill, HostStart
  <2>2. \A c \in Boxes : box'[c].pc = "query" => box'[c] = box[c]
    BY <1>4, <1>t DEF OperatorKill, HostStart, KillContainer, NoBox, TypeOK
  <2>3. QED
    BY <2>1, <2>2, HandledKept
<1>5. CASE SweepStart
  <2>1. UNCHANGED <<ack, box, prompts, fate>> /\ row' = Synced
    BY <1>5 DEF SweepStart
  <2>2. \A m \in Msgs : row'[m] = row[m] \/ ack[m].st = "completed"
    BY <2>1 DEF Synced
  <2>3. QED
    BY <2>1, <2>2, HandledKept
<1>6. CASE SweepKill \/ SweepReset
  <2>1. UNCHANGED <<ack, prompts, fate>> /\ ResetStuck
    BY <1>6 DEF SweepKill, SweepReset
  <2>2. \A m \in Msgs : row'[m].st = "completed" => row[m].st = "completed"
    BY <2>1, <1>t DEF ResetStuck, TypeOK, Row
  <2>3. \A c \in Boxes : box'[c].pc = "query" => box'[c] = box[c]
    BY <1>6, <1>t DEF SweepKill, SweepReset, KillContainer, NoBox, TypeOK
  <2>4. QED
    BY <2>1, <2>2, <2>3, HandledKept
<1>7. QED
  BY <1>1, <1>2, <1>3, <1>4, <1>5, <1>6 DEF HostStep

\* Rows disposed of have a fate from then on; a prompted row stays prompted.
LEMMA DisposeFacts ==
    ASSUME TypeOK, NEW S, NEW how \in Fates \ {"none"}, fate' = Dispose(S, how)
    PROVE  \A m \in Msgs : (fate[m] # "none" \/ m \in S) => fate'[m] # "none"
BY DEF Dispose

LEMMA PromptFacts ==
    ASSUME TypeOK, NEW S, Prompt(S)
    PROVE  \A m \in Msgs : (prompts[m] > 0 \/ m \in S) => prompts'[m] > 0
BY DEF Prompt, TypeOK

\* Container steps that complete the acks of handled rows only.
LEMMA HandledSettles ==
    ASSUME Handled, TypeOK', UNCHANGED row, NEW S, Settles(S), NEW b \in Boxes,
           \A m \in Msgs : fate[m] # "none" => fate'[m] # "none",
           \A m \in Msgs : prompts[m] > 0 => prompts'[m] > 0,
           \A m \in Msgs : m \in S => prompts'[m] > 0 \/ fate'[m] # "none",
           \A c \in Boxes \ {b} : box'[c] = box[c],
           box'[b].pc = "query" => \A m \in box'[b].batch : prompts'[m] > 0
    PROVE  Handled'
<1>1. NothingSilentlyDropped'
  BY DEF Handled, NothingSilentlyDropped, Settles
<1>2. ASSUME NEW c \in Boxes, box'[c].pc = "query", NEW m \in box'[c].batch PROVE prompts'[m] > 0
  <2>1. CASE c = b
    BY <1>2, <2>1
  <2>2. CASE c # b
    <3>1. box'[c] = box[c]
      BY <2>2
    <3>2. m \in Msgs /\ prompts[m] > 0
      BY <1>2, <3>1 DEF Handled, TypeOK, Box
    <3>3. QED
      BY <3>2
  <2>3. QED
    BY <2>1, <2>2
<1>3. QED
  BY <1>1, <1>2 DEF Handled

LEMMA HandledContainer ==
    ASSUME Handled, NEW b \in Boxes, ContainerStep(b), TypeOK' PROVE Handled'
<1>t. TypeOK /\ prompts \in [Msgs -> Nat]
  BY DEF Handled, TypeOK
<1>a. UNCHANGED row /\ \A c \in Boxes \ {b} : box'[c] = box[c]
  BY <1>t, ContainerFrame DEF DiesAlone
<1>b. box[b] \in Box /\ box[b].batch \subseteq Msgs
  BY <1>t DEF TypeOK, Box
<1>1. CASE Boot(b)
  <2>1. UNCHANGED <<prompts, fate>> /\ box'[b].pc = "poll"
    BY <1>1, <1>t DEF Boot, histVars, TypeOK
  <2>2. \A m \in Msgs : ack'[m].st = "completed" => ack[m].st = "completed"
    BY <1>1 DEF Boot, NoAck
  <2>3. QED
    BY <2>1, <2>2, <1>a DEF Handled, NothingSilentlyDropped
<1>2. CASE Fetch(b) \/ Hang(b) \/ Crash(b)
  <2>1. UNCHANGED <<prompts, fate, ack>>
    BY <1>2 DEF Fetch, Hang, Crash, histVars
  <2>2. \/ box'[b].pc \in {"fetched", "gone"}
        \/ box'[b].pc = box[b].pc /\ box'[b].batch = box[b].batch
    <3>1. Fetch(b) => box'[b].pc = "fetched"
      BY <1>t DEF Fetch, TypeOK, Box
    <3>2. Crash(b) => box'[b].pc = "gone"
      BY <1>t DEF Crash, NoBox, TypeOK
    <3>3. Hang(b) => box'[b].pc = box[b].pc /\ box'[b].batch = box[b].batch
      BY <1>t DEF Hang, TypeOK, Box
    <3>4. QED
      BY <1>2, <3>1, <3>2, <3>3
  <2>3. Settles({})
    BY <2>1 DEF Settles
  <2>4. QED
    BY <2>1, <2>2, <2>3, <1>a, HandledSettles DEF Handled
<1>3. CASE Claim(b)
  <2>1. UNCHANGED <<prompts, fate>> /\ box'[b].pc = "claimed"
    BY <1>3, <1>t DEF Claim, histVars, TypeOK
  <2>2. \A m \in Msgs : ack'[m].st = "completed" => ack[m].st = "completed"
    BY <1>3 DEF Claim, Claimed
  <2>3. QED
    BY <2>1, <2>2, <1>a DEF Handled, NothingSilentlyDropped
<1>4. CASE RunCommands(b)
  <2> DEFINE cmds == {m \in box[b].batch : row[m].kind = "clear"}
  <2>1. Settles(cmds) /\ UNCHANGED prompts
    BY <1>4, <1>t, CompleteSt DEF RunCommands
  <2>2. fate' = Dispose(cmds, "command")
    BY <1>4 DEF RunCommands
  <2>3. box'[b].pc # "query"
    BY <1>4, <1>t DEF RunCommands, TypeOK, Box
  <2> HIDE DEF cmds
  <2>4. \A m \in Msgs : (fate[m] # "none" \/ m \in cmds) => fate'[m] # "none"
    BY <2>2, <1>t, DisposeFacts DEF Fates
  <2>5. QED
    BY <2>1, <2>3, <2>4, <1>a, HandledSettles
<1>5. CASE RunScripts(b)
  <2>1. PICK skip \in SUBSET {m \in box[b].batch : row[m].kind = "task"}, beat \in BOOLEAN :
           /\ ack' = Complete(skip, IF beat THEN Beat ELSE ack)
           /\ fate' = Dispose(skip, "gated")
           /\ Prompt(box[b].batch \ skip)
           /\ box' = [box EXCEPT ![b] = [box[b] EXCEPT
                         !.pc = IF box[b].batch \ skip = {} THEN "poll" ELSE "query",
                         !.batch = box[b].batch \ skip,
                         !.seen = @ \cup (box[b].batch \ skip),
                         !.answered = FALSE]]
    BY <1>5 DEF RunScripts
  <2>2. Settles(skip)
    BY <2>1, <1>t, CompleteSt
  <2>3. \A m \in Msgs : (fate[m] # "none" \/ m \in skip) => fate'[m] # "none"
    BY <2>1, <1>t, DisposeFacts DEF Fates
  <2>4. \A m \in Msgs : (prompts[m] > 0 \/ m \in box[b].batch \ skip) => prompts'[m] > 0
    BY <2>1, <1>t, PromptFacts
  <2>5. box'[b].batch = box[b].batch \ skip
    BY <2>1, <1>t DEF TypeOK, Box
  <2>6. QED
    BY <2>2, <2>3, <2>4, <2>5, <1>a, <1>b, HandledSettles
<1>6. CASE FollowUp(b)
  <2> DEFINE new == {m \in GetPending : row[m].kind \notin {"system", "clear"}}
  <2>1. Settles(new) /\ Prompt(new) /\ UNCHANGED fate /\ box[b].pc = "query"
    BY <1>6, <1>t, CompleteSt DEF FollowUp
  <2>2. box'[b].batch = box[b].batch
    BY <1>6, <1>t DEF FollowUp, TypeOK, Box
  <2> HIDE DEF new
  <2>3. \A m \in Msgs : (prompts[m] > 0 \/ m \in new) => prompts'[m] > 0
    BY <2>1, <1>t, PromptFacts
  <2>4. \A m \in box'[b].batch : prompts'[m] > 0
    BY <2>1, <2>2, <2>3, <1>b DEF Handled
  <2>5. QED
    BY <2>1, <2>3, <2>4, <1>a, HandledSettles
<1>7. CASE Progress(b)
  <2>1. Settles({}) /\ UNCHANGED <<box, prompts, fate>>
    BY <1>7, <1>t, BeatSt DEF Progress, Settles, histVars
  <2>2. QED
    BY <2>1, <1>a, HandledSettles DEF Handled
<1>8. CASE Result(b) \/ EndQuery(b)
  <2>1. box[b].pc = "query" /\ Settles(box[b].batch) /\ UNCHANGED prompts
    BY <1>8, <1>t, CompleteSt DEF Result, EndQuery
  <2>2. \/ UNCHANGED fate
        \/ fate' = Dispose(box[b].open, "answered")
        \/ fate' = Dispose(box[b].batch, "answered")
    BY <1>8 DEF Result, EndQuery
  <2>3. \A m \in Msgs : fate[m] # "none" => fate'[m] # "none"
    BY <2>2, <1>t, DisposeFacts DEF Fates
  <2>4. box'[b].pc = "query" => box'[b].batch = box[b].batch
    <3>1. EndQuery(b) => box'[b].pc = "poll"
      BY <1>t DEF EndQuery, TypeOK, Box
    <3>2. box' = [box EXCEPT ![b].open = {}] => box'[b].batch = box[b].batch
      BY <1>t DEF TypeOK, Box
    <3>3. box' = [box EXCEPT ![b].answered = TRUE] => box'[b].batch = box[b].batch
      BY <1>t DEF TypeOK, Box
    <3>4. QED
      BY <1>8, <3>1, <3>2, <3>3 DEF Result
  <2>5. \A m \in box[b].batch : m \in Msgs /\ prompts[m] > 0
    BY <2>1, <1>b DEF Handled
  <2>6. QED
    BY <2>1, <2>3, <2>4, <2>5, <1>a, HandledSettles
<1>9. ASSUME NEW m \in Msgs, TakeAnswer(b, m) PROVE Handled'
  <2>1. Settles({m}) /\ fate' = Dispose({m}, "consumed") /\ UNCHANGED <<box, prompts>>
    BY <1>9, <1>t, CompleteSt DEF TakeAnswer
  <2>2. \A n \in Msgs : (fate[n] # "none" \/ n \in {m}) => fate'[n] # "none"
    BY <2>1, <1>t, DisposeFacts DEF Fates
  <2>3. QED
    BY <2>1, <2>2, <1>a, HandledSettles DEF Handled
<1>10. QED
  BY <1>1, <1>2, <1>3, <1>4, <1>5, <1>6, <1>7, <1>8, <1>9 DEF ContainerStep

LEMMA HandledTime == ASSUME Handled, TimeStep, TypeOK' PROVE Handled'
<1> USE DEF dbVars, hostVars, histVars
<1>t. TypeOK
  BY DEF Handled
<1>1. UNCHANGED <<box, prompts, fate>>
  BY DEF TimeStep, ClaimAges, BackoffElapses, SecondEnds, CoolingOver
<1>2. \A m \in Msgs : ack'[m].st = ack[m].st
  BY <1>t DEF TimeStep, ClaimAges, BackoffElapses, SecondEnds, CoolingOver, TypeOK, Ack
<1>3. \A m \in Msgs : row'[m].st = row[m].st
  BY <1>t DEF TimeStep, ClaimAges, BackoffElapses, SecondEnds, CoolingOver, TypeOK, Row
<1>4. QED
  BY <1>1, <1>2, <1>3, HandledKept

(* No row is completed before it was prompted, answered as a command,      *)
(* skipped by its script or taken by a tool, whatever fails.               *)
THEOREM NothingDropped == Spec => []NothingSilentlyDropped
<1>1. Init => Handled
  <2>1. Init => NothingSilentlyDropped /\ \A b \in Boxes : box[b].pc # "query"
    BY DEF Init, NothingSilentlyDropped, NoAck, NoRow, NoBox
  <2>2. QED
    BY <2>1, TypeInit DEF Handled
<1>2. Handled /\ [Next]_vars => Handled'
  <2> SUFFICES ASSUME Handled, [Next]_vars PROVE Handled'
    OBVIOUS
  <2>1. TypeOK'
    BY TypeNext DEF Handled
  <2>2. CASE UNCHANGED vars
    BY <2>1, <2>2, HandledKept DEF vars
  <2>3. CASE Next
    BY <2>1, <2>3, HandledHost, HandledContainer, HandledTime DEF Next
  <2>4. QED
    BY <2>2, <2>3
<1>3. QED
  BY <1>1, <1>2, PTL DEF Spec, Handled

-----------------------------------------------------------------------------
(* Retries are charged.  A row that may still be prompted by the next      *)
(* container has a prompt less behind it than one the present container    *)
(* has seen, and a host that is down has a fault more.                     *)

Again(m) ==
    /\ row[m].st \notin {"completed", "failed"}
    /\ ack[m].st # "completed"
    /\ \A b \in Boxes : Live(b) => m \notin box[b].seen

Dues(m) == (IF Again(m) THEN 1 ELSE 0) + (IF up THEN 0 ELSE 1)

Charged(m) == prompts[m] + Dues(m) <= 1 + row[m].tries + faults

\* a batch is of pending rows until they are completed
BatchOf(b) ==
    \A m \in box[b].batch :
       /\ box[b].pc \in Before => row[m].st = "pending" /\ ack[m].st # "completed"
       /\ box[b].pc = "query" /\ ack[m].st = "processing" => row[m].st = "pending" /\ ~row[m].later

Charges ==
    /\ \A m \in Msgs : Charged(m) /\ (row[m].st = "absent" => prompts[m] = 0)
    /\ \A b \in Boxes : Live(b) => BatchOf(b)

ChargeInv == LoopInv /\ (~failedStop => Charges)

\* steps that prompt nothing and charge no less
LEMMA ChargedStays ==
    ASSUME TypeOK, TypeOK', NEW m \in Msgs, Charged(m), UNCHANGED prompts,
           Dues(m)' <= Dues(m) + 1,
           \/ Dues(m)' <= Dues(m) /\ row'[m].tries >= row[m].tries /\ faults' >= faults
           \/ row'[m].tries >= row[m].tries /\ faults' >= faults + 1
           \/ row'[m].tries >= row[m].tries + 1 /\ faults' >= faults
    PROVE  Charged(m)'
<1>1. /\ prompts[m] \in Nat /\ faults \in Nat /\ faults' \in Nat
      /\ row[m].tries \in Nat /\ row'[m].tries \in Nat
  BY DEF TypeOK, Row
<1>2. Dues(m) \in Nat /\ Dues(m)' \in Nat
  BY DEF Dues
<1> QED
  BY <1>1, <1>2 DEF Charged

\* a step of the loop of b that prompts the rows of P, which it had not seen
LEMMA ChargesLoop ==
    ASSUME LoopInv, ~failedStop, Charges, TypeOK', NEW b \in Boxes, DiesAlone(b), Live(b)',
           NEW P \in SUBSET Msgs, Prompt(P), faults' >= faults,
           \A m \in P : Again(m) /\ row[m].st # "absent" /\ m \in box'[b].seen,
           \A m \in Msgs : ack[m].st = "completed" => ack'[m].st = "completed",
           box[b].seen \subseteq box'[b].seen,
           BatchOf(b)'
    PROVE  Charges'
<1>0. TypeOK /\ OneBox
  BY DEF LoopInv, HostInv
<1>1. /\ UNCHANGED <<row, up, failedStop>> /\ \A c \in Boxes \ {b} : box'[c] = box[c]
      /\ Live(b) /\ \A c \in Boxes : Live(c) <=> c = b
  BY <1>0 DEF DiesAlone, OneBox
<1>2. \A c \in Boxes : Live(c)' <=> c = b
  BY <1>1 DEF Live
<1>3. \A m \in Msgs : Again(m)' => Again(m)
  BY <1>1, <1>2 DEF Again
<1>4. \A m \in P : Again(m) /\ ~Again(m)'
  BY <1>2 DEF Again
<1>5. ASSUME NEW m \in Msgs PROVE Charged(m)'
  <2>1. /\ prompts[m] \in Nat /\ faults \in Nat /\ faults' \in Nat /\ row[m].tries \in Nat
        /\ prompts'[m] = IF m \in P THEN prompts[m] + 1 ELSE prompts[m]
    BY <1>0 DEF TypeOK, Row, Prompt
  <2>2. Charged(m) /\ Dues(m) \in Nat /\ Dues(m)' \in Nat
    BY DEF Charges, Dues
  <2>3. CASE m \in P
    <3>1. Dues(m) = Dues(m)' + 1
      BY <1>1, <1>4, <2>3 DEF Dues
    <3> QED
      BY <1>1, <2>1, <2>2, <2>3, <3>1 DEF Charged
  <2>4. CASE m \notin P
    <3>1. Dues(m)' <= Dues(m)
      BY <1>1, <1>3 DEF Dues
    <3> QED
      BY <1>1, <2>1, <2>2, <2>4, <3>1 DEF Charged
  <2> QED
    BY <2>3, <2>4
<1>6. \A m \in Msgs : row'[m].st = "absent" => prompts'[m] = 0
  BY <1>1 DEF Prompt, Charges
<1>7. \A c \in Boxes : Live(c)' => BatchOf(c)'
  BY <1>2
<1> QED
  BY <1>5, <1>6, <1>7 DEF Charges

LEMMA ChargesContainer ==
    ASSUME LoopInv, ~failedStop, Charges, TypeOK', NEW b \in Boxes, ContainerStep(b)
    PROVE  Charges'
<1> USE DEF Before, histVars
<1>0. /\ TypeOK /\ OneBox /\ DiesAlone(b) /\ Live(b) /\ LoopOf(b) /\ BatchOf(b)
      /\ prompts \in [Msgs -> Nat] /\ faults \in Nat
  BY ContainerFrame DEF LoopInv, HostInv, DiesAlone, Charges, TypeOK
<1>a. UNCHANGED row
  BY <1>0 DEF DiesAlone
<1>b. box[b] \in Box /\ box[b].batch \subseteq Msgs /\ box[b].seen \subseteq Msgs
  BY <1>0 DEF TypeOK, Box
<1>c. ASSUME UNCHANGED prompts, Live(b)', faults' >= faults, box'[b].seen = box[b].seen,
             \A m \in Msgs : ack[m].st = "completed" => ack'[m].st = "completed", BatchOf(b)'
      PROVE  Charges'
  <2>1. Prompt({})
    BY <1>0, <1>c DEF Prompt
  <2> QED
    BY <1>0, <1>c, <2>1, ChargesLoop
<1>d. faults' >= faults
  <2>1. Crash(b) \/ Hang(b) => faults' = faults + 1
    BY DEF Crash, Hang, Fault
  <2>2. Crash(b) \/ Hang(b) \/ UNCHANGED faults
    BY DEF ContainerStep, Boot, Fetch, Claim, RunCommands, RunScripts, FollowUp, Progress,
           Result, EndQuery, TakeAnswer
  <2> QED
    BY <1>0, <2>1, <2>2
<1>1. CASE Boot(b)
  <2>1. \A m \in Msgs : ack[m].st = "completed" => ack'[m].st = "completed"
    BY <1>1 DEF Boot, Claims
  <2>2. box'[b].pc = "poll" /\ box'[b].batch = {} /\ box'[b].seen = box[b].seen /\ UNCHANGED prompts
    BY <1>0, <1>1, <1>b DEF Boot, TypeOK, Box, LoopOf
  <2> QED
    BY <1>c, <1>d, <2>1, <2>2 DEF Live, BatchOf
<1>2. CASE Fetch(b)
  <2>1. UNCHANGED <<ack, prompts>>
    BY <1>2 DEF Fetch
  <2>2. box'[b].pc = "fetched" /\ box'[b].batch = Fetched /\ box'[b].seen = box[b].seen
    BY <1>0, <1>2, <1>b DEF Fetch, TypeOK, Box
  <2>3. \A m \in Fetched : row[m].st = "pending" /\ ack[m].st = "none"
    BY PendingFacts DEF Fetched
  <2> QED
    BY <1>a, <1>c, <1>d, <2>1, <2>2, <2>3 DEF Live, BatchOf
<1>3. CASE Claim(b)
  <2>1. /\ box[b].pc = "fetched" /\ UNCHANGED prompts
        /\ \A m \in Msgs : ack'[m].st = IF m \in box[b].batch THEN "processing" ELSE ack[m].st
    BY <1>3 DEF Claim, Claimed
  <2>2. box'[b].pc = "claimed" /\ box'[b].batch = box[b].batch /\ box'[b].seen = box[b].seen
    BY <1>0, <1>3, <1>b DEF Claim, TypeOK, Box
  <2>3. \A m \in Msgs : ack[m].st = "completed" => ack'[m].st = "completed"
    BY <1>0, <2>1 DEF BatchOf
  <2>4. BatchOf(b)'
    BY <1>0, <1>a, <1>b, <2>1, <2>2 DEF BatchOf
  <2> QED
    BY <1>c, <1>d, <2>1, <2>2, <2>3, <2>4 DEF Live
<1>4. CASE RunCommands(b)
  <2> DEFINE cmds == {m \in box[b].batch : row[m].kind = "clear"}
             rest == box[b].batch \ cmds
  <2>1. box[b].pc = "claimed" /\ Settles(cmds) /\ UNCHANGED prompts
    BY <1>0, <1>4, CompleteSt DEF RunCommands
  <2>2. /\ box'[b].pc \in {"poll", "gating"} /\ box'[b].batch = rest
        /\ box'[b].seen = box[b].seen
    BY <1>0, <1>4, <1>b DEF RunCommands, TypeOK, Box
  <2> HIDE DEF cmds
  <2>3. BatchOf(b)'
    BY <1>0, <1>a, <1>b, <2>1, <2>2 DEF BatchOf, Settles
  <2> QED
    BY <1>c, <1>d, <2>1, <2>2, <2>3 DEF Live, Settles
<1>5. CASE RunScripts(b)
  <2>1. PICK skip \in SUBSET {m \in box[b].batch : row[m].kind = "task"}, beat \in BOOLEAN :
           /\ box[b].pc = "gating"
           /\ ack' = Complete(skip, IF beat THEN Beat ELSE ack)
           /\ Prompt(box[b].batch \ skip)
           /\ box' = [box EXCEPT ![b] = [box[b] EXCEPT
                         !.pc = IF box[b].batch \ skip = {} THEN "poll" ELSE "query",
                         !.batch = box[b].batch \ skip,
                         !.seen = @ \cup (box[b].batch \ skip),
                         !.answered = FALSE]]
    BY <1>5 DEF RunScripts
  <2> DEFINE keep == box[b].batch \ skip
  <2>2. Settles(skip) /\ Prompt(keep) /\ keep \in SUBSET Msgs
    BY <1>0, <1>b, <2>1, CompleteSt
  <2>3. /\ box'[b].pc \in {"poll", "query"} /\ box'[b].batch = keep
        /\ box'[b].seen = box[b].seen \cup keep
    BY <1>0, <1>b, <2>1 DEF TypeOK, Box
  <2>4. \A m \in keep : /\ row[m].st = "pending" /\ ack[m].st # "completed"
                        /\ ~row[m].later /\ m \notin box[b].seen
    BY <1>0, <2>1 DEF BatchOf, LoopOf
  <2>5. \A m \in keep : Again(m)
    BY <1>0, <2>4 DEF Again, OneBox
  <2>6. BatchOf(b)'
    BY <1>a, <2>3, <2>4 DEF BatchOf
  <2>7. \A m \in Msgs : ack[m].st = "completed" => ack'[m].st = "completed"
    BY <2>2 DEF Settles
  <2>8. Live(b)'
    BY <2>3 DEF Live
  <2> HIDE DEF keep
  <2> QED
    BY <1>0, <1>d, <2>2, <2>3, <2>4, <2>5, <2>6, <2>7, <2>8, ChargesLoop
<1>6. CASE FollowUp(b)
  <2> DEFINE new == {m \in GetPending : row[m].kind \notin {"system", "clear"}}
  <2>1. Settles(new) /\ Prompt(new) /\ new \in SUBSET Msgs /\ box[b].pc = "query"
    BY <1>0, <1>6, CompleteSt, PendingFacts DEF FollowUp
  <2>2. \A m \in new : row[m].st = "pending" /\ ack[m].st = "none"
    BY PendingFacts
  <2>3. /\ box'[b].pc = "query" /\ box'[b].batch = box[b].batch
        /\ box'[b].seen = box[b].seen \cup new
    BY <1>0, <1>6, <1>b DEF FollowUp, TypeOK, Box
  <2> HIDE DEF new
  <2>4. \A m \in new : m \notin box[b].seen
    BY <1>0, <2>2 DEF LoopOf
  <2>5. \A m \in new : Again(m)
    BY <1>0, <2>2, <2>4 DEF Again, OneBox
  <2>6. BatchOf(b)'
    BY <1>0, <1>a, <1>b, <2>1, <2>3 DEF BatchOf, Settles
  <2>7. \A m \in Msgs : ack[m].st = "completed" => ack'[m].st = "completed"
    BY <2>1 DEF Settles
  <2>8. Live(b)'
    BY <2>3 DEF Live
  <2> QED
    BY <1>0, <1>d, <2>1, <2>2, <2>3, <2>5, <2>6, <2>7, <2>8, ChargesLoop
<1>7. CASE Progress(b)
  <2>1. Settles({}) /\ UNCHANGED <<box, prompts>>
    BY <1>0, <1>7, BeatSt DEF Progress, Settles
  <2>2. BatchOf(b)'
    BY <1>0, <1>a, <1>b, <2>1 DEF BatchOf, Settles
  <2> QED
    BY <1>0, <1>c, <1>d, <2>1, <2>2 DEF Live, Settles
<1>8. CASE Result(b) \/ EndQuery(b)
  <2>1. box[b].pc = "query" /\ Settles(box[b].batch) /\ UNCHANGED prompts
    BY <1>0, <1>8, CompleteSt DEF Result, EndQuery
  <2>2. /\ box'[b].pc \in {"poll", "query"} /\ box'[b].seen = box[b].seen
        /\ box'[b].batch \subseteq box[b].batch
    <3>1. EndQuery(b) => box'[b].pc = "poll" /\ box'[b].seen = box[b].seen /\ box'[b].batch = {}
      BY <1>0, <1>b DEF EndQuery, TypeOK, Box
    <3>2. box' = [box EXCEPT ![b].open = {}] =>
             box'[b].pc = box[b].pc /\ box'[b].seen = box[b].seen /\ box'[b].batch = box[b].batch
      BY <1>0, <1>b DEF TypeOK, Box
    <3>3. box' = [box EXCEPT ![b].answered = TRUE] =>
             box'[b].pc = box[b].pc /\ box'[b].seen = box[b].seen /\ box'[b].batch = box[b].batch
      BY <1>0, <1>b DEF TypeOK, Box
    <3> QED
      BY <1>8, <2>1, <3>1, <3>2, <3>3 DEF Result
  <2>3. BatchOf(b)'
    BY <1>a, <1>b, <2>1, <2>2 DEF BatchOf, Settles
  <2> QED
    BY <1>c, <1>d, <2>1, <2>2, <2>3 DEF Live, Settles
<1>9. ASSUME NEW m \in Msgs, TakeAnswer(b, m) PROVE Charges'
  <2>1. Settles({m}) /\ UNCHANGED <<box, prompts>> /\ box[b].pc = "query"
    BY <1>0, <1>9, CompleteSt DEF TakeAnswer
  <2>2. BatchOf(b)'
    BY <1>0, <1>a, <1>b, <2>1 DEF BatchOf, Settles
  <2> QED
    BY <1>0, <1>c, <1>d, <2>1, <2>2 DEF Live, Settles
<1>10. CASE Crash(b)
  <2>1. faults' = faults + 1 /\ UNCHANGED <<row, up, prompts>> /\ ~Live(b)'
    BY <1>0, <1>10 DEF Crash, Fault, Live, NoBox, TypeOK, inContainer, dbVars
  <2>2. \A c \in Boxes : ~Live(c)'
    BY <1>0, <2>1 DEF DiesAlone, Live, OneBox
  <2>3. ASSUME NEW m \in Msgs PROVE Charged(m)'
    <3>1. Charged(m) /\ Dues(m)' <= Dues(m) + 1 /\ row'[m].tries >= row[m].tries
      BY <1>0, <2>1 DEF Charges, Dues, TypeOK, Row
    <3> QED
      BY <1>0, <2>1, <3>1, ChargedStays
  <2> QED
    BY <2>1, <2>2, <2>3 DEF Charges
<1>11. CASE Hang(b)
  <2>1. UNCHANGED <<ack, prompts>>
    BY <1>11 DEF Hang
  <2>2. box'[b].pc = box[b].pc /\ box'[b].seen = box[b].seen /\ box'[b].batch = box[b].batch
    BY <1>0, <1>11, <1>b DEF Hang, TypeOK, Box
  <2>3. BatchOf(b)'
    BY <1>0, <1>a, <2>1, <2>2 DEF BatchOf
  <2> QED
    BY <1>0, <1>c, <1>d, <2>1, <2>2, <2>3 DEF Live
<1> QED
  BY <1>1, <1>2, <1>3, <1>4, <1>5, <1>6, <1>7, <1>8, <1>9, <1>10, <1>11 DEF ContainerStep

\* steps that reset no claim: a new row is not charged yet, and a container
\* ends or the host dies by a fault
LEMMA ChargesKept ==
    ASSUME LoopInv, ~failedStop, Charges, TypeOK', UNCHANGED prompts,
           \A c \in Boxes : Live(c)' => \/ box'[c] = box[c]
                                        \/ box'[c].pc = "boot" /\ box'[c].batch = {},
           \A m \in Msgs : ack'[m].st = ack[m].st,
           \A m \in Msgs :
              \/ row[m].st = "absent" /\ row'[m].st # "absent" /\ up'
              \/ /\ row'[m].st = "absent" => row[m].st = "absent"
                 /\ row'[m].later => row[m].later
                 /\ row[m].st = "pending" /\ ack[m].st # "completed" => row'[m].st = "pending"
                 /\ row'[m].tries >= row[m].tries
                 /\ \/ Dues(m)' <= Dues(m) /\ faults' >= faults
                    \/ Dues(m)' <= Dues(m) + 1 /\ faults' >= faults + 1
    PROVE  Charges'
<1>0. TypeOK /\ prompts \in [Msgs -> Nat] /\ faults' \in Nat
  BY DEF LoopInv, HostInv, TypeOK
<1>1. ASSUME NEW m \in Msgs PROVE Charged(m)' /\ (row'[m].st = "absent" => prompts'[m] = 0)
  <2>1. Charged(m) /\ (row[m].st = "absent" => prompts[m] = 0)
    BY DEF Charges
  <2>2. CASE row[m].st = "absent" /\ row'[m].st # "absent" /\ up'
    <3>1. prompts'[m] = 0 /\ Dues(m)' \in {0, 1} /\ row'[m].tries \in Nat
      BY <2>1, <2>2 DEF Dues, TypeOK, Row
    <3> QED
      BY <1>0, <2>2, <3>1 DEF Charged
  <2>3. CASE /\ row'[m].st = "absent" => row[m].st = "absent"
             /\ row'[m].tries >= row[m].tries
             /\ \/ Dues(m)' <= Dues(m) /\ faults' >= faults
                \/ Dues(m)' <= Dues(m) + 1 /\ faults' >= faults + 1
    <3>1. Dues(m) \in Nat /\ Dues(m)' \in Nat
      BY DEF Dues
    <3>2. Charged(m)'
      BY <1>0, <2>1, <2>3, <3>1, ChargedStays
    <3> QED
      BY <2>1, <2>3, <3>2
  <2> QED
    BY <2>2, <2>3
<1>2. ASSUME NEW c \in Boxes, Live(c)' PROVE BatchOf(c)'
  <2>1. CASE box'[c] = box[c]
    <3>1. BatchOf(c) /\ box[c].batch \subseteq Msgs
      BY <1>0, <1>2, <2>1 DEF Charges, Live, TypeOK, Box
    <3>2. ASSUME NEW m \in box[c].batch, row[m].st = "pending", ack[m].st # "completed"
          PROVE  row'[m].st = "pending" /\ (row'[m].later => row[m].later)
      BY <3>1, <3>2
    <3>3. \A m \in box[c].batch : ack'[m].st = ack[m].st
      BY <3>1
    <3> QED
      BY <2>1, <3>1, <3>2, <3>3 DEF BatchOf
  <2>2. CASE box'[c].pc = "boot" /\ box'[c].batch = {}
    BY <2>2 DEF BatchOf
  <2> QED
    BY <1>2, <2>1, <2>2
<1> QED
  BY <1>1, <1>2 DEF Charges

\* what a container has seen and not completed is its open batch, so that the
\* reset that follows its end charges it
LEMMA SeenIsDue ==
    ASSUME LoopInv, ~failedStop, Charges, NEW m \in Msgs, ~Again(m),
           row[m].st \notin {"completed", "failed"}, ack[m].st # "completed"
    PROVE  m \in Claims /\ Due(m)
<1>1. PICK b \in Boxes : Live(b) /\ m \in box[b].seen
  BY DEF Again
<1>2. LoopOf(b) /\ BatchOf(b) /\ box[b].pc \in Places
  BY <1>1 DEF LoopInv, HostInv, TypeOK, Box, Charges
<1>3. ack[m].st = "processing" /\ box[b].pc # "boot" /\ m \in box[b].batch
  <2>1. ack[m].st \in {"none", "processing", "completed"}
    BY DEF LoopInv, HostInv, TypeOK, Ack
  <2> QED
    BY <1>1, <1>2, <2>1 DEF LoopOf
<1>4. box[b].pc = "query"
  BY <1>1, <1>2, <1>3 DEF LoopOf, Places, Before, Live
<1> QED
  BY <1>2, <1>3, <1>4 DEF BatchOf, Claims, Due

\* the reset of stuck claims, when nothing runs any more
LEMMA ChargesReset ==
    ASSUME LoopInv, ~failedStop, Charges, TypeOK', ResetStuck,
           UNCHANGED <<ack, prompts, up, faults>>, \A c \in Boxes : ~Live(c)'
    PROVE  Charges'
<1>0. TypeOK
  BY DEF LoopInv, HostInv
<1>1. ASSUME NEW m \in Msgs
      PROVE  /\ row'[m].tries >= row[m].tries
             /\ row'[m].st = row[m].st \/ row'[m].st = "failed"
             /\ row[m].st = "absent" <=> row'[m].st = "absent"
             /\ m \in Claims /\ Due(m) => row'[m].st = "failed" \/ row'[m].tries = row[m].tries + 1
  <2>1. row[m] \in Row /\ row[m].tries \in Nat
    BY <1>0 DEF TypeOK, Row
  <2>2. CASE ~(m \in Claims /\ Due(m))
    <3>1. row'[m] = row[m]
      BY <2>2 DEF ResetStuck
    <3> QED
      BY <2>1, <2>2, <3>1
  <2>3. CASE m \in Claims /\ Due(m) /\ row[m].tries >= MaxTries
    <3>1. row'[m] = [row[m] EXCEPT !.st = "failed"]
      BY <2>3 DEF ResetStuck
    <3> QED
      BY <2>1, <2>3, <3>1 DEF Row, Due
  <2>4. CASE m \in Claims /\ Due(m) /\ ~(row[m].tries >= MaxTries)
    <3>1. row'[m] = [row[m] EXCEPT !.tries = @ + 1, !.later = TRUE]
      BY <2>4 DEF ResetStuck
    <3> QED
      BY <2>1, <2>4, <3>1 DEF Row, Due
  <2> QED
    BY <2>2, <2>3, <2>4
<1>2. ASSUME NEW m \in Msgs PROVE Charged(m)'
  <2>0. Charged(m) /\ Dues(m)' <= Dues(m) + 1
    BY DEF Charges, Dues
  <2>1. row[m].tries \in Nat /\ faults \in Nat
    BY <1>0 DEF TypeOK, Row
  <2>2. CASE Again(m)' => Again(m)
    <3>1. Dues(m)' <= Dues(m)
      BY <2>2 DEF Dues
    <3> QED
      BY <1>0, <1>1, <2>0, <2>1, <3>1, ChargedStays
  <2>3. CASE Again(m)' /\ ~Again(m)
    <3>1. /\ row'[m].st \notin {"completed", "failed"} /\ ack[m].st # "completed"
      BY <2>3 DEF Again
    <3>2. row'[m].tries = row[m].tries + 1
      BY <1>1, <2>3, <3>1, SeenIsDue
    <3> QED
      BY <1>0, <2>0, <2>1, <3>2, ChargedStays
  <2> QED
    BY <2>2, <2>3
<1> QED
  BY <1>1, <1>2 DEF Charges

LEMMA ChargesHost ==
    ASSUME LoopInv, ~failedStop, ~failedStop', Charges, HostInv', HostStep PROVE Charges'
<1> USE DEF HostFree, dbVars, hostVars, histVars
<1>t. TypeOK /\ Memory /\ OneBox /\ TypeOK' /\ faults \in Nat /\ row \in [Msgs -> Row]
  BY DEF LoopInv, HostInv, TypeOK
<1>r. \A m \in Msgs : row[m].tries >= row[m].tries
  BY <1>t DEF Row
<1>d. \A m \in Msgs : Dues(m) \in Nat /\ Dues(m)' \in Nat
  BY DEF Dues
<1>1. ASSUME NEW m \in Msgs, Route(m) \/ AnswerQuestion(m) \/ ScheduleTask(m) PROVE Charges'
  <2>1. UNCHANGED <<ack, box, prompts, faults, up>> /\ up
    BY <1>1 DEF Route, AnswerQuestion, ScheduleTask
  <2>2. \A n \in Msgs : \/ row'[n] = row[n]
                        \/ row[n].st = "absent" /\ row'[n].st = "pending"
    BY <1>1, <1>t DEF Route, AnswerQuestion, ScheduleTask, Insert
  <2>3. \A n \in Msgs : row'[n] = row[n] => Dues(n)' <= Dues(n)
    BY <2>1 DEF Dues, Again, Live
  <2> QED
    BY <1>t, <1>r, <2>1, <2>2, <2>3, ChargesKept
<1>2. ASSUME NEW b \in Boxes, SpawnDone(b) PROVE Charges'
  <2>1. UNCHANGED <<row, up, prompts, faults>> /\ up /\ tracked = None
    BY <1>2, <1>t DEF SpawnDone, Memory
  <2>2. \A m \in Msgs : ack'[m].st = ack[m].st
    BY <1>2, <1>t DEF SpawnDone, TypeOK, Ack
  <2>3. \A c \in Boxes : ~Live(c)
    BY <1>t, <2>1, NoneAssumption DEF OneBox
  <2>4. /\ box'[b].pc = "boot" /\ box'[b].batch = {} /\ box'[b].seen = {}
        /\ \A c \in Boxes : c # b => box'[c] = box[c]
    BY <1>2, <1>t DEF SpawnDone, TypeOK, NoBox
  <2>5. \A m \in Msgs : Dues(m)' <= Dues(m)
    BY <2>1, <2>2, <2>3 DEF Dues, Again
  <2> QED
    BY <1>t, <1>r, <2>1, <2>2, <2>4, <2>5, ChargesKept
<1>3. CASE SpawnFails \/ Close \/ SweepInspect
  <2>1. UNCHANGED <<row, ack, box, prompts, up>> /\ faults' >= faults
    BY <1>3, <1>t DEF SpawnFails, Close, SweepInspect, Fault
  <2>2. \A m \in Msgs : Dues(m)' <= Dues(m)
    BY <2>1 DEF Dues, Again, Live
  <2> QED
    BY <1>t, <1>r, <2>1, <2>2, ChargesKept
<1>4. CASE HostCrash
  <2>1. UNCHANGED <<row, ack, box, prompts>> /\ faults' = faults + 1 /\ up
    BY <1>4 DEF HostCrash, Fault
  <2>2. \A m \in Msgs : Dues(m)' <= Dues(m) + 1
    BY <2>1 DEF Dues, Again, Live
  <2> QED
    BY <1>t, <1>r, <2>1, <2>2, ChargesKept
<1>5. CASE OperatorKill
  <2>1. UNCHANGED <<row, ack, prompts, up>> /\ faults' = faults + 1
    BY <1>5 DEF OperatorKill, Fault
  <2>2. \A c \in Boxes : Live(c)' => box'[c] = box[c]
    BY <1>5, <1>t DEF OperatorKill, KillContainer, Live, NoBox, TypeOK
  <2>3. \A m \in Msgs : Dues(m)' <= Dues(m) + 1
    BY <2>1 DEF Dues
  <2> QED
    BY <1>t, <1>r, <2>1, <2>2, <2>3, ChargesKept
<1>6. CASE HostStart
  <2>1. UNCHANGED <<row, ack, prompts, faults>> /\ ~up /\ up'
    BY <1>6 DEF HostStart
  <2>2. \A c \in Boxes : Live(c)' => box'[c] = box[c]
    BY <1>6, <1>t DEF HostStart, Live, NoBox, TypeOK
  <2>3. \A m \in Msgs : Dues(m)' <= Dues(m)
    BY <2>1 DEF Dues
  <2> QED
    BY <1>t, <1>r, <2>1, <2>2, <2>3, ChargesKept
<1>7. CASE SweepStart
  <2>1. UNCHANGED <<ack, box, prompts, up, faults>> /\ row' = Synced
    BY <1>7 DEF SweepStart
  <2>2. \A m \in Msgs : /\ row'[m].later = row[m].later /\ row'[m].tries = row[m].tries
                        /\ \/ row'[m].st = row[m].st
                           \/ /\ row'[m].st = "completed" /\ ack[m].st = "completed"
                              /\ row[m].st # "absent"
    BY <1>t, <2>1 DEF Synced, Row
  <2>3. \A m \in Msgs : Again(m)' => Again(m)
    BY <2>1, <2>2 DEF Again, Live
  <2>4. \A m \in Msgs : Dues(m)' <= Dues(m)
    BY <2>1, <2>3 DEF Dues
  <2> QED
    BY <1>t, <1>r, <2>1, <2>2, <2>4, ChargesKept
<1>8. CASE SweepKill
  <2>1. ResetStuck /\ UNCHANGED <<ack, prompts, up, faults>> /\ exited'
    BY <1>8 DEF SweepKill, KillContainer
  <2>2. \A c \in Boxes : ~Live(c)'
    BY <2>1 DEF HostInv, OneBox
  <2> QED
    BY <1>t, <2>1, <2>2, ChargesReset
<1>9. CASE SweepReset
  <2>1. ResetStuck /\ UNCHANGED <<ack, box, prompts, up, faults>> /\ up /\ tracked = None
    BY <1>9 DEF SweepReset
  <2>2. \A c \in Boxes : ~Live(c)'
    BY <1>t, <2>1, NoneAssumption DEF OneBox, Live
  <2> QED
    BY <1>t, <2>1, <2>2, ChargesReset
<1> QED
  BY <1>1, <1>2, <1>3, <1>4, <1>5, <1>6, <1>7, <1>8, <1>9 DEF HostStep

LEMMA ChargesTime ==
    ASSUME LoopInv, ~failedStop, Charges, TypeOK', TimeStep PROVE Charges'
<1> USE DEF dbVars, hostVars, histVars
<1>t. TypeOK /\ faults \in Nat
  BY DEF LoopInv, HostInv, TypeOK
<1>1. UNCHANGED <<box, prompts, up, faults>>
  BY DEF TimeStep, ClaimAges, BackoffElapses, SecondEnds, CoolingOver
<1>2. \A m \in Msgs : ack'[m].st = ack[m].st
  BY <1>t DEF TimeStep, ClaimAges, BackoffElapses, SecondEnds, CoolingOver, TypeOK, Ack
<1>3. \A m \in Msgs : /\ row'[m].st = row[m].st /\ (row'[m].later => row[m].later)
                      /\ row'[m].tries = row[m].tries /\ row[m].tries \in Nat
  BY <1>t DEF TimeStep, ClaimAges, BackoffElapses, SecondEnds, CoolingOver, TypeOK, Row
<1>4. \A m \in Msgs : Dues(m)' <= Dues(m)
  BY <1>1, <1>2, <1>3 DEF Dues, Again, Live
<1> QED
  BY <1>t, <1>1, <1>2, <1>3, <1>4, ChargesKept

LEMMA ChargeInvInit == Init => ChargeInv
<1> SUFFICES ASSUME Init PROVE ChargeInv
  OBVIOUS
<1>1. Charges
  BY DEF Init, Charges, Charged, Dues, Live, NoBox, NoRow
<1> QED
  BY <1>1, LoopInvInit DEF ChargeInv

LEMMA ChargeInvNext == ChargeInv /\ [Next]_vars => ChargeInv'
<1> SUFFICES ASSUME ChargeInv, [Next]_vars PROVE ChargeInv'
  OBVIOUS
<1>1. LoopInv /\ LoopInv' /\ HostInv' /\ TypeOK' /\ TypeOK
  BY LoopInvNext DEF ChargeInv, LoopInv, HostInv
<1>2. failedStop => failedStop'
  <2>1. HostStep => (failedStop => failedStop')
    BY DEF HostStep, Route, AnswerQuestion, ScheduleTask, SpawnDone, SpawnFails, Close,
           OperatorKill, KillContainer, SweepStart, SweepInspect, SweepKill, SweepReset,
           HostCrash, HostStart, histVars
  <2>2. TimeStep => (failedStop => failedStop')
    BY DEF TimeStep, ClaimAges, BackoffElapses, SecondEnds, CoolingOver, histVars
  <2>3. \A b \in Boxes : ContainerStep(b) => (failedStop => failedStop')
    BY <1>1, ContainerFrame DEF DiesAlone
  <2> QED
    BY <2>1, <2>2, <2>3 DEF Next, vars
<1> SUFFICES ASSUME ~failedStop' PROVE Charges'
  BY <1>1 DEF ChargeInv
<1>3. ~failedStop /\ Charges
  BY <1>2 DEF ChargeInv
<1>4. CASE UNCHANGED vars
  BY <1>3, <1>4 DEF vars, Charges, Charged, Dues, Again, BatchOf, Live
<1>5. CASE Next
  BY <1>1, <1>3, <1>5, ChargesHost, ChargesContainer, ChargesTime DEF Next
<1> QED
  BY <1>4, <1>5

(* Until a docker stop fails, only a try charged to a row or a fault can   *)
(* have it prompted again: whatever the sweep and the containers do        *)
(* between, resetStuckProcessingRows charges every row it hands out anew.  *)
THEOREM RetriesAreCharged == Spec => []PromptsAreCharged
<1>1. ChargeInv => PromptsAreCharged
  <2> SUFFICES ASSUME ChargeInv, ~failedStop, NEW m \in Msgs
               PROVE  prompts[m] <= 1 + row[m].tries + faults
    BY DEF PromptsAreCharged
  <2>1. Charged(m) /\ Dues(m) \in Nat
    BY DEF ChargeInv, Charges, Dues
  <2>2. prompts[m] \in Nat /\ row[m].tries \in Nat /\ faults \in Nat
    BY DEF ChargeInv, LoopInv, HostInv, TypeOK, Row
  <2> QED
    BY <2>1, <2>2 DEF Charged
<1> QED
  BY <1>1, ChargeInvInit, ChargeInvNext, PTL DEF Spec

=============================================================================
