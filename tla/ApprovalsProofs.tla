--------------------------- MODULE ApprovalsProofs ---------------------------
(***************************************************************************)
(* Approvals, proved for any number of requests, presses and restarts: no  *)
(* credential is released late, and no agent waits for an answer that went *)
(* astray.                                                                 *)
(*                                                                         *)
(* Both rest on where the call that serves a request is.  For a credential *)
(* request: the promise is in the map exactly while the call waits, nobody *)
(* marks the card expired before the call has ended, and what was released *)
(* has no row left that a restart could sweep.  For a module's request:    *)
(* once its row was written, the row only goes away with a word.           *)
(***************************************************************************)
EXTENDS Operations, TLAPS

\* no card is pressed before it is shown, and it never disappears; only packages
\* take a while to install
Pressed ==
    \A k \in Clicks : click[k] # None =>
        /\ card[click[k].req] # "none"
        /\ click[k].stage = "applying" => click[k].req \in Installs

\* the call has not yet come to its row
Unrowed(r) ==
    step[r] \in {"idle", "picking", "sending"} => row[r] = None /\ outcome[r] = None
Unshown(r) == step[r] \in {"idle", "picking"} => card[r] = "none"

\* the promise, its row and its card
Waits(r) ==
    /\ r \in held <=> step[r] = "waiting"
    /\ r \in held => row[r] = "pending" /\ outcome[r] = None /\ card[r] # "none"

\* the card is marked only after the call
MarkedLate(r) ==
    step[r] # "done" => card[r] # "expired" /\ r \notin expiring \cup sweeping

\* a released credential has nothing left to expire
Released(r) ==
    outcome[r] = "approve" =>
        /\ row[r] = None
        /\ card[r] \notin {"none", "expired"}
        /\ r \notin expiring \cup sweeping

\* once written, a module's row only goes away with a word
RowOrWord(r) == step[r] \in {"sending", "done"} /\ row[r] = None => told[r] # {}
NeverWaits(r) == step[r] # "waiting"

\* a change that was made is being built, or the agent heard of it
BuiltOrTold(r) ==
    applied[r] > 0 => \/ told[r] \cap {"done", "broken"} # {}
                      \/ \E k \in Clicks : /\ click[k] # None
                                           /\ click[k].req = r
                                           /\ click[k].stage = "applying"

CredentialInv(r) == Unrowed(r) /\ Unshown(r) /\ Waits(r) /\ MarkedLate(r) /\ Released(r)
ModuleInv(r) == NeverWaits(r) /\ (r \notin cutRequests => RowOrWord(r) /\ BuiltOrTold(r))

ApprovalsInv ==
    /\ Ap!TypeOK
    /\ Pressed
    /\ \A r \in Credentials : CredentialInv(r)
    /\ \A r \in Ap!Modules : ModuleInv(r)

-----------------------------------------------------------------------------

(* Types, and what the presses of a button stand on. *)
LEMMA ApprovalsTyped ==
    ASSUME ApprovalsDistinct, ApprovalsInv, [Ap!Next]_approvalsVars
    PROVE  Ap!TypeOK' /\ Pressed'
<1> USE DEF ApprovalsDistinct, Ap!Requests, Ap!Modules, Ap!TypeOK, Ap!Presses, Pressed
<1>1. Ap!TypeOK /\ Pressed
  BY DEF ApprovalsInv
<1>2. CASE \E r \in Ap!Requests : Ap!Ask(r)
  BY <1>1, <1>2 DEF Ap!Ask
<1>3. CASE \E r \in Ap!Requests : Ap!NobodyReached(r)
  BY <1>1, <1>3 DEF Ap!NobodyReached, Ap!GiveUp
<1>4. CASE \E r \in Ap!Requests : Ap!Picked(r)
  BY <1>1, <1>4 DEF Ap!Picked
<1>5. CASE \E r \in Ap!Requests : Ap!CardAppears(r)
  BY <1>1, <1>5 DEF Ap!CardAppears
<1>6. CASE \E r \in Ap!Requests : Ap!Sent(r)
  BY <1>1, <1>6 DEF Ap!Sent
<1>7. CASE \E r \in Ap!Requests : Ap!SendFails(r)
  BY <1>1, <1>7 DEF Ap!SendFails, Ap!GiveUp
<1>8. CASE \E r \in Ap!Requests, k \in Clicks, b \in {"approve", "reject"} : Ap!Press(k, r, b)
  BY <1>1, <1>8 DEF Ap!Press
<1>9. CASE \E k \in Clicks : Ap!Resolve(k)
  BY <1>1, <1>9 DEF Ap!Resolve, Ap!Answered
<1>10. CASE \E k \in Clicks : Ap!Unclaimed(k)
  BY <1>1, <1>10 DEF Ap!Unclaimed, Ap!Answered
<1>11. CASE \E k \in Clicks : Ap!Rejected(k)
  BY <1>1, <1>11 DEF Ap!Rejected, Ap!Answered
<1>12. CASE \E k \in Clicks : Ap!AddServer(k)
  BY <1>1, <1>12 DEF Ap!AddServer, Ap!Answered
<1>13. CASE \E k \in Clicks : Ap!Install(k)
  BY <1>1, <1>13 DEF Ap!Install, Ap!Answered
<1>14. CASE \E k \in Clicks, how \in {"done", "broken"} : Ap!Built(k, how)
  BY <1>1, <1>14 DEF Ap!Built
<1>15. CASE \E r \in Credentials : Ap!TimerFires(r)
  BY <1>1, <1>15 DEF Ap!TimerFires
<1>16. CASE \E r \in Credentials : Ap!Expired(r)
  BY <1>1, <1>16 DEF Ap!Expired, Ap!Marked
<1>17. CASE \E r \in Credentials : Ap!Sweep(r)
  BY <1>1, <1>17 DEF Ap!Sweep, Ap!Marked
<1>18. CASE Ap!Restart
  BY <1>1, <1>18 DEF Ap!Restart, Ap!UnderWay
<1>19. CASE UNCHANGED approvalsVars
  BY <1>1, <1>19 DEF approvalsVars
<1>20. QED
  BY <1>2, <1>3, <1>4, <1>5, <1>6, <1>7, <1>8, <1>9, <1>10, <1>11, <1>12,
     <1>13, <1>14, <1>15, <1>16, <1>17, <1>18, <1>19 DEF Ap!Next

(* The promises of the gateway: every step keeps what holds of a credential. *)
LEMMA CredentialsKeep ==
    ASSUME ApprovalsDistinct, ApprovalsInv, NEW q \in Credentials,
            [Ap!Next]_approvalsVars
    PROVE  CredentialInv(q)'
<1> USE DEF ApprovalsDistinct, Ap!Requests, Ap!Modules, Ap!TypeOK, Ap!Presses, Pressed,
           CredentialInv, Unrowed, Unshown, Waits, MarkedLate, Released
<1>1. Ap!TypeOK /\ Pressed /\ CredentialInv(q)
  BY DEF ApprovalsInv
<1>2. CASE \E r \in Ap!Requests : Ap!Ask(r)
  BY <1>1, <1>2 DEF Ap!Ask
<1>3. CASE \E r \in Ap!Requests : Ap!NobodyReached(r)
  BY <1>1, <1>3 DEF Ap!NobodyReached, Ap!GiveUp
<1>4. CASE \E r \in Ap!Requests : Ap!Picked(r)
  BY <1>1, <1>4 DEF Ap!Picked
<1>5. CASE \E r \in Ap!Requests : Ap!CardAppears(r)
  BY <1>1, <1>5 DEF Ap!CardAppears
<1>6. CASE \E r \in Ap!Requests : Ap!Sent(r)
  BY <1>1, <1>6 DEF Ap!Sent
<1>7. CASE \E r \in Ap!Requests : Ap!SendFails(r)
  BY <1>1, <1>7 DEF Ap!SendFails, Ap!GiveUp
<1>8. CASE \E r \in Ap!Requests, k \in Clicks, b \in {"approve", "reject"} : Ap!Press(k, r, b)
  BY <1>1, <1>8 DEF Ap!Press
<1>9. CASE \E k \in Clicks : Ap!Resolve(k)
  BY <1>1, <1>9 DEF Ap!Resolve, Ap!Answered
<1>10. CASE \E k \in Clicks : Ap!Unclaimed(k)
  BY <1>1, <1>10 DEF Ap!Unclaimed, Ap!Answered
<1>11. CASE \E k \in Clicks : Ap!Rejected(k)
  BY <1>1, <1>11 DEF Ap!Rejected, Ap!Answered
<1>12. CASE \E k \in Clicks : Ap!AddServer(k)
  BY <1>1, <1>12 DEF Ap!AddServer, Ap!Answered
<1>13. CASE \E k \in Clicks : Ap!Install(k)
  BY <1>1, <1>13 DEF Ap!Install, Ap!Answered
<1>14. CASE \E k \in Clicks, how \in {"done", "broken"} : Ap!Built(k, how)
  BY <1>1, <1>14 DEF Ap!Built
<1>15. CASE \E r \in Credentials : Ap!TimerFires(r)
  BY <1>1, <1>15 DEF Ap!TimerFires
<1>16. CASE \E r \in Credentials : Ap!Expired(r)
  BY <1>1, <1>16 DEF Ap!Expired, Ap!Marked
<1>17. CASE \E r \in Credentials : Ap!Sweep(r)
  BY <1>1, <1>17 DEF Ap!Sweep, Ap!Marked
<1>18. CASE Ap!Restart
  BY <1>1, <1>18 DEF Ap!Restart, Ap!UnderWay
<1>19. CASE UNCHANGED approvalsVars
  BY <1>1, <1>19 DEF approvalsVars
<1>20. QED
  BY <1>2, <1>3, <1>4, <1>5, <1>6, <1>7, <1>8, <1>9, <1>10, <1>11, <1>12,
     <1>13, <1>14, <1>15, <1>16, <1>17, <1>18, <1>19 DEF Ap!Next

(* The requests of the modules: every step keeps what holds of one. *)
LEMMA ModulesKeep ==
    ASSUME ApprovalsDistinct, ApprovalsInv, NEW q \in Ap!Modules,
            [Ap!Next]_approvalsVars
    PROVE  ModuleInv(q)'
<1> USE DEF ApprovalsDistinct, Ap!Requests, Ap!Modules, Ap!TypeOK, Ap!Presses, Pressed,
           ModuleInv, NeverWaits, RowOrWord, BuiltOrTold
<1>1. Ap!TypeOK /\ Pressed /\ ModuleInv(q)
  BY DEF ApprovalsInv
<1>2. CASE \E r \in Ap!Requests : Ap!Ask(r)
  BY <1>1, <1>2 DEF Ap!Ask
<1>3. CASE \E r \in Ap!Requests : Ap!NobodyReached(r)
  BY <1>1, <1>3 DEF Ap!NobodyReached, Ap!GiveUp
<1>4. CASE \E r \in Ap!Requests : Ap!Picked(r)
  BY <1>1, <1>4 DEF Ap!Picked
<1>5. CASE \E r \in Ap!Requests : Ap!CardAppears(r)
  BY <1>1, <1>5 DEF Ap!CardAppears
<1>6. CASE \E r \in Ap!Requests : Ap!Sent(r)
  BY <1>1, <1>6 DEF Ap!Sent
<1>7. CASE \E r \in Ap!Requests : Ap!SendFails(r)
  BY <1>1, <1>7 DEF Ap!SendFails, Ap!GiveUp
<1>8. CASE \E r \in Ap!Requests, k \in Clicks, b \in {"approve", "reject"} : Ap!Press(k, r, b)
  BY <1>1, <1>8 DEF Ap!Press
<1>9. CASE \E k \in Clicks : Ap!Resolve(k)
  BY <1>1, <1>9 DEF Ap!Resolve, Ap!Answered
<1>10. CASE \E k \in Clicks : Ap!Unclaimed(k)
  BY <1>1, <1>10 DEF Ap!Unclaimed, Ap!Answered
<1>11. CASE \E k \in Clicks : Ap!Rejected(k)
  <2>1. PICK k \in Clicks : Ap!Rejected(k)
    BY <1>11
  <2>2. told[q] \subseteq told'[q]
    BY <1>1, <2>1 DEF Ap!Rejected, Ap!Answered
  <2>3. NeverWaits(q)' /\ (q \notin cutRequests' => RowOrWord(q)')
    BY <1>1, <2>1 DEF Ap!Rejected, Ap!Answered
  <2>4. \A j \in Clicks \ {k} : click'[j] = click[j]
    BY <1>1, <2>1 DEF Ap!Rejected, Ap!Answered
  <2>5. q \notin cutRequests' => BuiltOrTold(q)'
    BY <1>1, <2>1, <2>2, <2>4 DEF Ap!Rejected, Ap!Answered
  <2>6. QED
    BY <2>3, <2>5
<1>12. CASE \E k \in Clicks : Ap!AddServer(k)
  <2>1. PICK k \in Clicks : Ap!AddServer(k)
    BY <1>12
  <2>2. told[q] \subseteq told'[q]
    BY <1>1, <2>1 DEF Ap!AddServer, Ap!Answered
  <2>3. NeverWaits(q)' /\ (q \notin cutRequests' => RowOrWord(q)')
    BY <1>1, <2>1 DEF Ap!AddServer, Ap!Answered
  <2>4. \A j \in Clicks \ {k} : click'[j] = click[j]
    BY <1>1, <2>1 DEF Ap!AddServer, Ap!Answered
  <2>5. q \notin cutRequests' => BuiltOrTold(q)'
    BY <1>1, <2>1, <2>2, <2>4 DEF Ap!AddServer, Ap!Answered
  <2>6. QED
    BY <2>3, <2>5
<1>13. CASE \E k \in Clicks : Ap!Install(k)
  BY <1>1, <1>13 DEF Ap!Install, Ap!Answered
<1>14. CASE \E k \in Clicks, how \in {"done", "broken"} : Ap!Built(k, how)
  <2>1. PICK k \in Clicks, how \in {"done", "broken"} : Ap!Built(k, how)
    BY <1>14
  <2>2. told[q] \subseteq told'[q]
    BY <1>1, <2>1 DEF Ap!Built
  <2>3. NeverWaits(q)' /\ (q \notin cutRequests' => RowOrWord(q)')
    BY <1>1, <2>1 DEF Ap!Built
  <2>4. \A j \in Clicks \ {k} : click'[j] = click[j]
    BY <1>1, <2>1 DEF Ap!Built
  <2>5. q \notin cutRequests' => BuiltOrTold(q)'
    BY <1>1, <2>1, <2>2, <2>4 DEF Ap!Built
  <2>6. QED
    BY <2>3, <2>5
<1>15. CASE \E r \in Credentials : Ap!TimerFires(r)
  BY <1>1, <1>15 DEF Ap!TimerFires
<1>16. CASE \E r \in Credentials : Ap!Expired(r)
  BY <1>1, <1>16 DEF Ap!Expired, Ap!Marked
<1>17. CASE \E r \in Credentials : Ap!Sweep(r)
  BY <1>1, <1>17 DEF Ap!Sweep, Ap!Marked
<1>18. CASE Ap!Restart
  BY <1>1, <1>18 DEF Ap!Restart, Ap!UnderWay
<1>19. CASE UNCHANGED approvalsVars
  BY <1>1, <1>19 DEF approvalsVars
<1>20. QED
  BY <1>2, <1>3, <1>4, <1>5, <1>6, <1>7, <1>8, <1>9, <1>10, <1>11, <1>12,
     <1>13, <1>14, <1>15, <1>16, <1>17, <1>18, <1>19 DEF Ap!Next

(* The invariant is inductive. *)
LEMMA ApprovalsNext ==
    ASSUME ApprovalsDistinct, ApprovalsInv, [Ap!Next]_approvalsVars
    PROVE  ApprovalsInv'
BY ApprovalsTyped, CredentialsKeep, ModulesKeep DEF ApprovalsInv, Ap!Modules

-----------------------------------------------------------------------------
(* The approvals as a part of the operations: they keep the invariant when *)
(* they run, and when another part does there is nothing to keep.          *)

PartInv == part = "approvals" => ApprovalsInv

LEMMA PartStarts == SystemInit => PartInv
BY ApprovalsAssumption DEF ApprovalsDistinct, SystemInit, PartInv, Ap!Init, ApprovalsInv, Ap!TypeOK, Ap!Requests,
       Ap!Modules, Pressed, CredentialInv, Unrowed, Unshown, Waits, MarkedLate, Released,
       ModuleInv, NeverWaits, RowOrWord, BuiltOrTold

LEMMA PartKeeps == PartInv /\ [SystemNext]_systemVars => PartInv'
<1> USE ApprovalsAssumption
<1> SUFFICES ASSUME PartInv, [SystemNext]_systemVars, part' = "approvals"
             PROVE  ApprovalsInv'
  BY DEF PartInv
<1>1. part = "approvals" /\ [Ap!Next]_approvalsVars
  BY DEF SystemNext, OthersStay, systemVars
<1>2. QED
  BY <1>1, ApprovalsNext DEF PartInv

(* However presses, timers, edits under way and restarts meet, a           *)
(* credential the gateway was given was approved before its card expired,  *)
(* and nobody holds a promise that was settled (onecli-approvals.ts).      *)
THEOREM CredentialsReleasedInTime == SystemSpec => []ReleasedInTime
<1>1. PartInv => ReleasedInTime
  BY DEF PartInv, ApprovalsInv, CredentialInv, Waits, Released, ReleasedInTime,
         Ap!ReleasedInTime
<1>2. QED
  BY <1>1, PartStarts, PartKeeps, PTL DEF SystemSpec

(* However many presses of a card are dealt with at once, and whatever     *)
(* fails, the row of an agent's request only goes away with a word to the  *)
(* agent, and so does every change made for it (response-handler.ts,       *)
(* self-mod/apply.ts).                                                     *)
THEOREM AgentsAreTold == SystemSpec => []AgentIsTold
<1>1. PartInv => AgentIsTold
  BY DEF PartInv, ApprovalsInv, ModuleInv, RowOrWord, BuiltOrTold, AgentIsTold,
         Ap!AgentIsTold
<1>2. QED
  BY <1>1, PartStarts, PartKeeps, PTL DEF SystemSpec
=============================================================================
