----------------------------- MODULE Operations ------------------------------
(***************************************************************************)
(* The operations beside the queues: twelve components that share no       *)
(* state, side by side.  `part` is the one that runs; the variables of the *)
(* others are None throughout, so that the states of the parts add up when *)
(* they are explored in one run.                                           *)
(***************************************************************************)
EXTENDS FrontDoor

CONSTANTS
    \* fleet
    Names, Folders, Chans, Callers, Backends, Shimmed, MaxJobs,
    \* approvals
    Installs, Servers, Credentials, Clicks, MaxAsked,
    \* shim
    Prompts, ToolCalls, Histories, MaxChunks,
    \* outgoing
    MaxSeq, MaxTurns,
    \* status pin
    Ticks, Ids,
    \* setup
    Offered, MachinesFound, LeftOut, Undoable, MaxRetries,
    \* SDK state
    Handlers, Entries, Ttl, MaxNow, MaxTokens, MaxSize,
    \* bridge
    Incoming, Replies, Pieces, MaxTries, MaxPosts,
    \* conversation
    MaxRows, MaxSessions, MaxCrashes,
    \* spawn
    GroupSessions, Skills, Personal, MountRequests, MountWants, PathsFound, Lists,
    AllowedRoots, KeysFound, KeyFiles, MaxEdits, MaxHostCrashes,
    \* indicators
    Shown, NumEmojis, MaxBeats, MaxWakes

VARIABLES
    part,
    group, recorded, workerWired, toWorker, toMaster, config, channel, job, promised,
    issued, raced, left, jobs, fleetRestarts,
    row, step, held, expiring, sweeping, card, click, outcome, applied, told,
    cutRequests, approvalRestarts,
    file, cached, stage, sent, stream, seen, gone, usage,
    inbound, outbound, writing, count, turn, phase, known,
    kv, posted, pinned, deleted, scanned, tick, unpinned, pinRestarts,
    asked, skip, reexec, completed, at, sub, chosen, failing, have, retries, said, ended,
    now, lock, mine, tokens, forced, key, claims, list,
    subscribed, events, gateway, thread, posting, tries, reported,
    rows, stored, recalled, resuming, loop, batch, first, query, unread, transcripts,
    banner, begun, forgotten, crashes,
    claudeMd, imports, notes, frags, links, mounts, toolServers, shipped, profile,
    allowlist, keys, up, rootsRead, container, owed, rootsSeen, peopleEdits, hostCrashes,
    throbber, typing, beat, busy, reacting, reactions, wakes, beats, indicatorRestarts,
    stops, excused, quiet

fleetVars == <<group, recorded, workerWired, toWorker, toMaster, config, channel, job,
               promised, issued, raced, left, jobs, fleetRestarts>>
approvalsVars == <<row, step, held, expiring, sweeping, card, click, outcome, applied,
                   told, cutRequests, approvalRestarts>>
shimVars == <<file, cached, stage, sent, stream, seen, gone, usage>>
outgoingVars == <<inbound, outbound, writing, count, turn, phase, known>>
statusPinVars == <<kv, posted, pinned, deleted, scanned, tick, unpinned, pinRestarts>>
setupVars == <<asked, skip, reexec, completed, at, sub, chosen, failing, have, retries,
               said, ended>>
sdkStateVars == <<now, lock, mine, tokens, forced, key, claims, list>>
bridgeVars == <<subscribed, events, gateway, thread, posting, tries, reported>>
conversationVars == <<rows, stored, recalled, resuming, loop, batch, first, query,
                      unread, transcripts, banner, begun, forgotten, crashes>>
spawnVars == <<claudeMd, imports, notes, frags, links, mounts, toolServers, shipped,
               profile, allowlist, keys, up, rootsRead, container, owed, rootsSeen,
               peopleEdits, hostCrashes>>
indicatorsVars == <<throbber, typing, beat, busy, reacting, reactions, wakes, beats,
                    indicatorRestarts, stops, excused, quiet>>

-----------------------------------------------------------------------------
(* The parts *)

Fl == INSTANCE Fleet
    WITH Groups <- Folders, wired <- workerWired, restarts <- fleetRestarts
Ap == INSTANCE Approvals
    WITH cut <- cutRequests, restarts <- approvalRestarts
Sh == INSTANCE Shim
    WITH Requests <- Prompts, Calls <- ToolCalls
Og == INSTANCE Outgoing
Pin == INSTANCE StatusPin
    WITH dropped <- unpinned, restarts <- pinRestarts
St == INSTANCE Setup
    WITH AskedFor <- LeftOut, Machines <- MachinesFound, channel <- chosen
Sdk == INSTANCE SdkState
    WITH row <- lock
Br == INSTANCE Bridge
    WITH Events <- Incoming, Texts <- Replies, Parts <- Pieces, inbound <- events
Cv == INSTANCE Conversation
    WITH memory <- recalled, sessions <- begun
Spw == INSTANCE Spawn
    WITH Sessions <- GroupSessions, Requests <- MountRequests, Wants <- MountWants,
         RealPath <- PathsFound, Files <- Lists, Roots <- AllowedRoots,
         Keys <- KeysFound, Named <- KeyFiles, MaxCrashes <- MaxHostCrashes,
         memory <- notes, file <- allowlist, cached <- rootsRead, seen <- rootsSeen,
         servers <- toolServers, edits <- peopleEdits, crashes <- hostCrashes
Ind == INSTANCE Indicators
    WITH Messages <- Shown, MaxArrivals <- MaxWakes, container <- busy,
         calls <- reacting, arrivals <- wakes, restarts <- indicatorRestarts

-----------------------------------------------------------------------------
(* What is asked of the constants: None is apart from what it stands in for, *)
(* and numbers are numbers.                                                  *)

\* the two kinds of request are apart
ApprovalsDistinct ==
    /\ Credentials \cap (Installs \cup Servers) = {}
    /\ None \notin Ap!Presses \cup {"pending", "expired", "approve", "deny"}
ASSUME ApprovalsAssumption == ApprovalsDistinct

FleetDistinct == None \notin Names \cup Folders \cup Chans \cup Fl!AllBackends
                               \cup Fl!GroupRows \cup Fl!Jobs
ASSUME FleetAssumption == FleetDistinct

(* In what the SDK sends, the results of the assistant's tool calls come   *)
(* with the next message, as the Messages API demands.                     *)
ShHistories ==
    \A h \in Histories :
        /\ h \in Seq([role : {"user", "assistant"}, text : BOOLEAN, tools : SUBSET ToolCalls])
        /\ \A i \in 1 .. Len(h) :
              h[i].role = "assistant" /\ h[i].tools # {} =>
                  i < Len(h) /\ h[i + 1].role = "user" /\ h[i + 1].tools = h[i].tools
ASSUME ShimAssumption == ShHistories

\* what an overlapping tick of the pin keeps
PinPlaces == {"list", "listed", "unpin", "edit", "post", "pin"}

PinUpdates == [at : PinPlaces, scan : {1, 2}, had : Ids \cup {None}, pins : SUBSET Ids,
               id : Ids \cup {None}]
ASSUME PinAssumption == None \notin Ids /\ None \notin PinUpdates

SdkLocks == [token : Nat, until : Nat]
ASSUME SdkAssumption == Ttl \in Nat /\ None \notin Nat /\ None \notin SdkLocks

\* what a throbber is about
IndEntries == [msg : Shown, last : Ind!Emojis \cup {None}]

IndTargets == [inflight : Seq(IndEntries) \ {<< >>}, idx : Nat, number : Nat]

\* there is a reaction to show
IndGiven ==
    /\ NumEmojis \in Nat \ {0}
    /\ None \notin IndTargets \cup {"grace", "paused"}
ASSUME IndicatorsAssumption == IndGiven

\* a reply has a piece
BrGiven == Pieces \in [Replies -> Nat \ {0}]
ASSUME BridgeAssumption == BrGiven

(* The mounts that can be asked for are finitely many, and the roots of a   *)
(* list are numbered.                                                      *)
SpwGiven ==
    /\ IsFiniteSet(MountRequests)
    /\ \A roots \in Lists : DOMAIN AllowedRoots[roots] \subseteq Nat
ASSUME SpawnAssumption == SpwGiven

ASSUME OutgoingAssumption == MaxSeq \in Nat
ASSUME ConversationAssumption == None \notin Nat

-----------------------------------------------------------------------------
(* A part that does not run has no state; the front door has no chats. *)

FleetOff ==
    /\ group = None /\ recorded = None /\ workerWired = None /\ toWorker = None
    /\ toMaster = None /\ config = None /\ channel = None /\ job = None
    /\ promised = None /\ issued = None /\ raced = None /\ left = None /\ jobs = None
    /\ fleetRestarts = None
ApprovalsOff ==
    /\ row = None /\ step = None /\ held = None /\ expiring = None /\ sweeping = None
    /\ card = None /\ click = None /\ outcome = None /\ applied = None /\ told = None
    /\ cutRequests = None /\ approvalRestarts = None
ShimOff ==
    /\ file = None /\ cached = None /\ stage = None /\ sent = None /\ stream = None
    /\ seen = None /\ gone = None /\ usage = None
OutgoingOff ==
    /\ inbound = None /\ outbound = None /\ writing = None /\ count = None
    /\ turn = None /\ phase = None /\ known = None
StatusPinOff ==
    /\ kv = None /\ posted = None /\ pinned = None /\ deleted = None /\ scanned = None
    /\ tick = None /\ unpinned = None /\ pinRestarts = None
SetupOff ==
    /\ asked = None /\ skip = None /\ reexec = None /\ completed = None /\ at = None
    /\ sub = None /\ chosen = None /\ failing = None /\ have = None /\ retries = None
    /\ said = None /\ ended = None
SdkStateOff ==
    /\ now = None /\ lock = None /\ mine = None /\ tokens = None /\ forced = None
    /\ key = None /\ claims = None /\ list = None
BridgeOff ==
    /\ subscribed = None /\ events = None /\ gateway = None /\ thread = None
    /\ posting = None /\ tries = None /\ reported = None
ConversationOff ==
    /\ rows = None /\ stored = None /\ recalled = None /\ resuming = None /\ loop = None
    /\ batch = None /\ first = None /\ query = None /\ unread = None
    /\ transcripts = None /\ banner = None /\ begun = None /\ forgotten = None
    /\ crashes = None
SpawnOff ==
    /\ claudeMd = None /\ imports = None /\ notes = None /\ frags = None /\ links = None
    /\ mounts = None /\ toolServers = None /\ shipped = None /\ profile = None
    /\ allowlist = None /\ keys = None /\ up = None /\ rootsRead = None
    /\ container = None /\ owed = None /\ rootsSeen = None /\ peopleEdits = None
    /\ hostCrashes = None
IndicatorsOff ==
    /\ throbber = None /\ typing = None /\ beat = None /\ busy = None /\ reacting = None
    /\ reactions = None /\ wakes = None /\ beats = None /\ indicatorRestarts = None
    /\ stops = None /\ excused = None /\ quiet = None

Parts == {"front door", "fleet", "approvals", "shim", "outgoing", "status pin",
          "setup", "sdk state", "bridge", "conversation", "spawn", "indicators"}

SystemInit ==
    /\ part \in Parts
    /\ Init /\ (part # "front door" => policy = [c \in Chats |-> None])
    /\ IF part = "fleet" THEN Fl!Init ELSE FleetOff
    /\ IF part = "approvals" THEN Ap!Init ELSE ApprovalsOff
    /\ IF part = "shim" THEN Sh!Init ELSE ShimOff
    /\ IF part = "outgoing" THEN Og!Init ELSE OutgoingOff
    /\ IF part = "status pin" THEN Pin!Init ELSE StatusPinOff
    /\ IF part = "setup" THEN St!Init ELSE SetupOff
    /\ IF part = "sdk state" THEN Sdk!Init ELSE SdkStateOff
    /\ IF part = "bridge" THEN Br!Init ELSE BridgeOff
    /\ IF part = "conversation" THEN Cv!Init ELSE ConversationOff
    /\ IF part = "spawn" THEN Spw!Init ELSE SpawnOff
    /\ IF part = "indicators" THEN Ind!Init ELSE IndicatorsOff

OthersStay ==
    /\ UNCHANGED part
    /\ IF part = "front door" THEN TRUE ELSE UNCHANGED vars
    /\ IF part = "fleet" THEN TRUE ELSE UNCHANGED fleetVars
    /\ IF part = "approvals" THEN TRUE ELSE UNCHANGED approvalsVars
    /\ IF part = "shim" THEN TRUE ELSE UNCHANGED shimVars
    /\ IF part = "outgoing" THEN TRUE ELSE UNCHANGED outgoingVars
    /\ IF part = "status pin" THEN TRUE ELSE UNCHANGED statusPinVars
    /\ IF part = "setup" THEN TRUE ELSE UNCHANGED setupVars
    /\ IF part = "sdk state" THEN TRUE ELSE UNCHANGED sdkStateVars
    /\ IF part = "bridge" THEN TRUE ELSE UNCHANGED bridgeVars
    /\ IF part = "conversation" THEN TRUE ELSE UNCHANGED conversationVars
    /\ IF part = "spawn" THEN TRUE ELSE UNCHANGED spawnVars
    /\ IF part = "indicators" THEN TRUE ELSE UNCHANGED indicatorsVars

SystemNext ==
    \/ part = "front door" /\ Next /\ OthersStay
    \/ part = "fleet" /\ Fl!Next /\ OthersStay
    \/ part = "approvals" /\ Ap!Next /\ OthersStay
    \/ part = "shim" /\ Sh!Next /\ OthersStay
    \/ part = "outgoing" /\ Og!Next /\ OthersStay
    \/ part = "status pin" /\ Pin!Next /\ OthersStay
    \/ part = "setup" /\ St!Next /\ OthersStay
    \/ part = "sdk state" /\ Sdk!Next /\ OthersStay
    \/ part = "bridge" /\ Br!Next /\ OthersStay
    \/ part = "conversation" /\ Cv!Next /\ OthersStay
    \/ part = "spawn" /\ Spw!Next /\ OthersStay
    \/ part = "indicators" /\ Ind!Next /\ OthersStay

systemVars == <<part, vars, fleetVars, approvalsVars, shimVars, outgoingVars, statusPinVars,
                setupVars, sdkStateVars, bridgeVars, conversationVars, spawnVars,
                indicatorsVars>>

SystemSpec == SystemInit /\ [][SystemNext]_systemVars

-----------------------------------------------------------------------------
(* Properties of the parts, under the names they have there *)

\* A credential that was released was approved in time, and no settled promise
\* is held (onecli-approvals.ts).
ReleasedInTime == part = "approvals" => Ap!ReleasedInTime

\* An agent learns what became of its request (response-handler.ts).
AgentIsTold == part = "approvals" => Ap!AgentIsTold

\* cleanup_workers deletes no worker's channel but one in the making.
CleanupSpares == part = "fleet" => Fl!CleanupSpares

\* A worker gets no second channel (create-worker.ts).
OneChannel == part = "fleet" => Fl!OneChannel

\* What the master was told of its workers holds (create-worker.ts,
\* destroy-worker.ts).
PromiseKept == part = "fleet" => Fl!PromiseKept

\* A recorded channel without a wiring is being deleted (destroy-worker.ts).
LeftoversAreFound == part = "fleet" => Fl!LeftoversAreFound

\* Both translations keep the shape the other side requires
\* (anthropic-shim.ts).
KeepsShape == part = "shim" => Sh!KeepsShape

\* A number given to the agent keeps its meaning (messages-out.ts).
NumbersResolve == part = "outgoing" => Og!NumbersResolve

\* No scan takes the current status message down (status-pin/index.ts).
CurrentStaysPinned == part = "status pin" => Pin!CurrentStaysPinned

\* "You're ready" is said of a machine on which every step has left its part, or
\* of one from which a proposed command took something away (setup/auto.ts).
ReadyMeansDone == part = "setup" => St!ReadyMeansDone

\* At most one handler is within its time of a lock or claim
\* (state-sqlite.ts).
OneHolder == part = "sdk state" => Sdk!OneHolder

\* The id deliver() reports heads a whole copy of the reply
\* (chat-sdk-bridge.ts).
IdHeadsTheCopy == part = "bridge" => Br!IdHeadsTheCopy

\* No query goes back to a session from before a /clear (poll-loop.ts).
ClearForgets == part = "conversation" => Cv!ClearForgets

\* What the agent wrote is kept, and CLAUDE.md imports only what is there
\* (claude-md-compose.ts).
GroupFilesHold == part = "spawn" => Spw!GroupFilesHold

\* A mount was allowed by a list that was on disk while the host ran
\* (mount-security/index.ts).
GrantsAreAllowed == part = "spawn" => Spw!GrantsAreAllowed

\* No reaction stays that a throbber will not take away (throbber/index.ts).
NothingLeftBehind == part = "indicators" => Ind!NothingLeftBehind
=============================================================================
