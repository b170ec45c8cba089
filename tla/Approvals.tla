------------------------------ MODULE Approvals ------------------------------
(***************************************************************************)
(* Actions an admin must allow: packages and MCP servers an agent asks for *)
(* (self-mod over requestApproval), and credentialed requests the OneCLI   *)
(* gateway holds back until its callback returns.                          *)
(*                                                                         *)
(* Node runs one piece of code at a time; the actions below are the pieces *)
(* between two awaits.  A module's request writes its row before the card  *)
(* is sent, a credential request after.  The buttons of a card carry the   *)
(* index of an option, which the bridge turns into its value with the      *)
(* options of the row: without a row it stays a number ("raw").  The bridge*)
(* then edits the card, and only after that dispatches the answer.         *)
(***************************************************************************)
EXTENDS Integers, FiniteSets

CONSTANTS
    Installs,     \* install_packages requests
    Servers,      \* add_mcp_server requests
    Credentials,  \* requests the OneCLI gateway holds
    Clicks,       \* bound: presses of a button that are being dealt with
    MaxAsked,     \* bound: requests made
    MaxRestarts,  \* bound: restarts of the host
    None

Modules  == Installs \cup Servers
Requests == Modules \cup Credentials

VARIABLES
    row,      \* pending_approvals: the status of the request's row
    step,     \* where the call that serves the request is
    held,     \* the pending map: credential requests with a promise and a timer
    expiring, \* expireApproval waits for its edit
    sweeping, \* rows the sweep of this start has read and not yet dropped
    card,     \* what the approver sees
    click,    \* presses on their way through the bridge and the handlers
    outcome,  \* what the gateway was told
    applied,  \* how often the container configuration was changed for it
    told,     \* what the agent was told of its request
    cut,      \* requests whose handling a restart cut short
    restarts

vars == <<row, step, held, expiring, sweeping, card, click, outcome, applied, told, cut,
          restarts>>

Presses == [req : Requests, value : {"approve", "reject", "raw"},
            stage : {"editing", "applying"}]

TypeOK ==
    /\ row \in [Requests -> {"pending", "expired", None}]
    /\ step \in [Requests -> {"idle", "picking", "sending", "waiting", "done"}]
    /\ held \subseteq Credentials
    /\ expiring \subseteq Credentials
    /\ sweeping \subseteq Credentials
    /\ card \in [Requests -> {"none", "open", "approve", "reject", "raw", "expired"}]
    /\ click \in [Clicks -> Presses \cup {None}]
    /\ outcome \in [Requests -> {"approve", "deny", None}]
    /\ applied \in [Requests -> Nat]
    /\ told \in [Requests -> SUBSET {"failed", "rejected", "done", "broken"}]
    /\ cut \subseteq Requests
    /\ restarts \in Nat

Init ==
    /\ row = [r \in Requests |-> None]
    /\ step = [r \in Requests |-> "idle"]
    /\ held = {}
    /\ expiring = {}
    /\ sweeping = {}
    /\ card = [r \in Requests |-> "none"]
    /\ click = [k \in Clicks |-> None]
    /\ outcome = [r \in Requests |-> None]
    /\ applied = [r \in Requests |-> 0]
    /\ told = [r \in Requests |-> {}]
    /\ cut = {}
    /\ restarts = 0

-----------------------------------------------------------------------------
(* The request                                                             *)

\* the agent's action or the gateway's callback, up to the opening of a DM
Ask(r) ==
    /\ step[r] = "idle"
    /\ Cardinality({q \in Requests : step[q] # "idle"}) < MaxAsked
    /\ step' = [step EXCEPT ![r] = "picking"]
    /\ UNCHANGED <<row, held, expiring, sweeping, card, click, outcome, applied, told, cut,
                   restarts>>

\* a module tells its agent, the gateway is told to deny
GiveUp(r) ==
    /\ step' = [step EXCEPT ![r] = "done"]
    /\ told' = IF r \in Modules THEN [told EXCEPT ![r] = @ \cup {"failed"}] ELSE told
    /\ outcome' = IF r \in Credentials THEN [outcome EXCEPT ![r] = "deny"] ELSE outcome
    /\ UNCHANGED <<row, held, expiring, sweeping, click, applied, cut, restarts>>

\* no approver is configured, or none has a DM
NobodyReached(r) ==
    /\ step[r] = "picking"
    /\ GiveUp(r)
    /\ UNCHANGED card

Picked(r) ==
    /\ step[r] = "picking"
    /\ step' = [step EXCEPT ![r] = "sending"]
    /\ row' = IF r \in Modules THEN [row EXCEPT ![r] = "pending"] ELSE row
    /\ UNCHANGED <<held, expiring, sweeping, card, click, outcome, applied, told, cut,
                   restarts>>

\* the platform shows the card before the call that sent it has returned
CardAppears(r) ==
    /\ step[r] = "sending"
    /\ card[r] = "none"
    /\ card' = [card EXCEPT ![r] = "open"]
    /\ UNCHANGED <<row, step, held, expiring, sweeping, click, outcome, applied, told, cut,
                   restarts>>

\* only now has a credential request its row, its timer and its promise
Sent(r) ==
    /\ step[r] = "sending"
    /\ card[r] # "none"
    /\ IF r \in Credentials
       THEN /\ row' = [row EXCEPT ![r] = "pending"]
            /\ held' = held \cup {r}
            /\ step' = [step EXCEPT ![r] = "waiting"]
       ELSE /\ step' = [step EXCEPT ![r] = "done"]
            /\ UNCHANGED <<row, held>>
    /\ UNCHANGED <<expiring, sweeping, card, click, outcome, applied, told, cut, restarts>>

\* the call rejects, whether or not the card is there; a module's row stays
SendFails(r) ==
    /\ step[r] = "sending"
    /\ GiveUp(r)
    /\ UNCHANGED card

-----------------------------------------------------------------------------
(* The answer                                                              *)

\* the bridge decodes the button by the row's options, then edits the card
Press(k, r, button) ==
    /\ click[k] = None
    /\ card[r] = "open"
    /\ click' = [click EXCEPT ![k] =
                   [req |-> r, value |-> IF row[r] = None THEN "raw" ELSE button,
                    stage |-> "editing"]]
    /\ UNCHANGED <<row, step, held, expiring, sweeping, card, outcome, applied, told, cut,
                   restarts>>

\* the edit has landed or failed; now the response handlers are called
Answered(k) ==
    /\ click[k] # None
    /\ click[k].stage = "editing"
    /\ \/ card' = [card EXCEPT ![click[k].req] = click[k].value]
       \/ UNCHANGED card

\* resolveOneCLIApproval
Resolve(k) ==
    LET r == click[k].req IN
    /\ Answered(k)
    /\ r \in held
    /\ held' = held \ {r}
    /\ row' = [row EXCEPT ![r] = None]
    /\ outcome' = [outcome EXCEPT ![r] = IF click[k].value = "approve" THEN "approve" ELSE "deny"]
    /\ step' = [step EXCEPT ![r] = "done"]
    /\ click' = [click EXCEPT ![k] = None]
    /\ UNCHANGED <<expiring, sweeping, applied, told, cut, restarts>>

\* no row and no promise: unclaimed; a credential row without a promise is dropped
Unclaimed(k) ==
    LET r == click[k].req IN
    /\ Answered(k)
    /\ r \notin held
    /\ row[r] = None \/ r \in Credentials
    /\ row' = [row EXCEPT ![r] = None]
    /\ click' = [click EXCEPT ![k] = None]
    /\ UNCHANGED <<step, held, expiring, sweeping, outcome, applied, told, cut, restarts>>

\* anything but "approve"
Rejected(k) ==
    LET r == click[k].req IN
    /\ Answered(k)
    /\ r \in Modules
    /\ row[r] # None
    /\ click[k].value # "approve"
    /\ told' = [told EXCEPT ![r] = @ \cup {"rejected"}]
    /\ row' = [row EXCEPT ![r] = None]
    /\ click' = [click EXCEPT ![k] = None]
    /\ UNCHANGED <<step, held, expiring, sweeping, outcome, applied, cut, restarts>>

\* applyAddMcpServer runs through
AddServer(k) ==
    LET r == click[k].req IN
    /\ Answered(k)
    /\ r \in Servers
    /\ row[r] # None
    /\ click[k].value = "approve"
    /\ applied' = [applied EXCEPT ![r] = @ + 1]
    /\ told' = [told EXCEPT ![r] = @ \cup {"done"}]
    /\ row' = [row EXCEPT ![r] = None]
    /\ click' = [click EXCEPT ![k] = None]
    /\ UNCHANGED <<step, held, expiring, sweeping, outcome, cut, restarts>>

\* applyInstallPackages changes the configuration and builds the image; the row stays
Install(k) ==
    LET r == click[k].req IN
    /\ Answered(k)
    /\ r \in Installs
    /\ row[r] # None
    /\ click[k].value = "approve"
    /\ applied' = [applied EXCEPT ![r] = @ + 1]
    /\ click' = [click EXCEPT ![k].stage = "applying"]
    /\ UNCHANGED <<row, step, held, expiring, sweeping, outcome, told, cut, restarts>>

\* faulty variant: a failed build goes without a word
BuiltSilently(k, how) ==
    LET r == click[k].req IN
    /\ click[k] # None
    /\ click[k].stage = "applying"
    /\ how \in {"done", "broken"}
    /\ told' = IF how = "done" THEN [told EXCEPT ![r] = @ \cup {how}] ELSE told
    /\ row' = [row EXCEPT ![r] = None]
    /\ click' = [click EXCEPT ![k] = None]
    /\ UNCHANGED <<step, held, expiring, sweeping, card, outcome, applied, cut, restarts>>

\* the image is built, or the build fails: the agent hears of either
Built(k, how) ==
    LET r == click[k].req IN
    /\ click[k] # None
    /\ click[k].stage = "applying"
    /\ how \in {"done", "broken"}
    /\ told' = [told EXCEPT ![r] = @ \cup {how}]
    /\ row' = [row EXCEPT ![r] = None]
    /\ click' = [click EXCEPT ![k] = None]
    /\ UNCHANGED <<step, held, expiring, sweeping, card, outcome, applied, cut, restarts>>

-----------------------------------------------------------------------------
(* Expiry and restart                                                      *)

\* faulty variant: the request stays in the map until its card is edited
TimerWaits(r) ==
    /\ r \in held \ expiring
    /\ expiring' = expiring \cup {r}
    /\ row' = [row EXCEPT ![r] = "expired"]
    /\ step' = [step EXCEPT ![r] = "done"]
    /\ UNCHANGED <<held, sweeping, card, click, outcome, applied, told, cut, restarts>>

\* the timer releases the gateway and begins to mark the card
TimerFires(r) ==
    /\ r \in held
    /\ held' = held \ {r}
    /\ expiring' = expiring \cup {r}
    /\ row' = [row EXCEPT ![r] = "expired"]
    /\ outcome' = [outcome EXCEPT ![r] = "deny"]
    /\ step' = [step EXCEPT ![r] = "done"]
    /\ UNCHANGED <<sweeping, card, click, applied, told, cut, restarts>>

\* the edit of the card ends, well or not
Marked(r) ==
    /\ \/ card' = [card EXCEPT ![r] = "expired"]
       \/ UNCHANGED card
    /\ row' = [row EXCEPT ![r] = None]

Expired(r) ==
    /\ r \in expiring
    /\ Marked(r)
    /\ expiring' = expiring \ {r}
    /\ UNCHANGED <<step, held, sweeping, click, outcome, applied, told, cut, restarts>>

\* sweepStaleApprovals takes its rows one by one
Sweep(r) ==
    /\ r \in sweeping
    /\ Marked(r)
    /\ sweeping' = sweeping \ {r}
    /\ UNCHANGED <<step, held, expiring, click, outcome, applied, told, cut, restarts>>

UnderWay == {r \in Requests : step[r] \in {"picking", "sending", "waiting"}}

\* rows and cards outlive the process
Restart ==
    /\ restarts < MaxRestarts
    /\ restarts' = restarts + 1
    /\ held' = {}
    /\ expiring' = {}
    /\ sweeping' = {r \in Credentials : row[r] # None}
    /\ step' = [r \in Requests |-> IF r \in UnderWay THEN "done" ELSE step[r]]
    /\ click' = [k \in Clicks |-> None]
    /\ cut' = cut \cup UnderWay
                  \cup {click[k].req : k \in {j \in Clicks : click[j] # None}}
    /\ UNCHANGED <<row, card, outcome, applied, told>>

Next ==
    \/ \E r \in Requests : \/ Ask(r) \/ NobodyReached(r) \/ Picked(r) \/ CardAppears(r)
                           \/ Sent(r) \/ SendFails(r)
                           \/ \E k \in Clicks, b \in {"approve", "reject"} : Press(k, r, b)
    \/ \E k \in Clicks : \/ Resolve(k) \/ Unclaimed(k) \/ Rejected(k) \/ AddServer(k)
                         \/ Install(k) \/ \E how \in {"done", "broken"} : Built(k, how)
    \/ \E r \in Credentials : TimerFires(r) \/ Expired(r) \/ Sweep(r)
    \/ Restart

Spec == Init /\ [][Next]_vars

-----------------------------------------------------------------------------
(* Properties                                                              *)

\* A credential that was released was approved in time: the card of a released
\* request never turns to "Expired", whatever clicks, timers, edits under way
\* and restarts meet, and nobody is holding a promise that was settled.
ReleasedInTime ==
    \A r \in Credentials :
        /\ outcome[r] = "approve" => card[r] \notin {"none", "expired"}
        /\ r \in held => outcome[r] = None /\ row[r] = "pending"

\* An agent learns what became of its request: once the row is gone, or a change
\* has been made and is no longer being built, it has been told so. Restarts
\* in the middle are exempt.
AgentIsTold ==
    \A r \in Modules \ cut :
        /\ step[r] = "done" /\ row[r] = None => told[r] # {}
        /\ applied[r] > 0 => \/ told[r] \cap {"done", "broken"} # {}
                             \/ \E k \in Clicks : /\ click[k] # None
                                                  /\ click[k].req = r
                                                  /\ click[k].stage = "applying"
=============================================================================
