---------------------------- MODULE SessionQueue ----------------------------
(***************************************************************************)
(* The inbound life of one session: a row of messages_in from the moment   *)
(* the host writes it until it is completed or failed.  Three programs act *)
(* on it and share no lock:                                                *)
(*                                                                         *)
(*   - the host process (router, container-runner, host-sweep), which is   *)
(*     single threaded: what it does between two awaits is one action;     *)
(*   - the container's poll loop, which reads inbound.db and records its   *)
(*     progress in the processing_ack table of outbound.db;                *)
(*   - docker, which starts containers, kills them and reports their exit. *)
(*                                                                         *)
(* Time is abstracted to what the code compares: whether process_after is  *)
(* in the future, whether a claim is older than its tolerance, whether the *)
(* heartbeat file is younger than a claim (the claim's time being cut to   *)
(* whole seconds: was it touched this second?), whether the last exit is   *)
(* less than MIN_RESPAWN_INTERVAL_MS ago.  The host's clock is taken to be *)
(* in UTC.  Rows have no recurrence here (Scheduling is about those that   *)
(* do).                                                                    *)
(***************************************************************************)
EXTENDS Integers, FiniteSets

CONSTANTS
    Msgs,       \* ids of messages_in rows
    Boxes,      \* container instances; a slot is reused once its container is gone
    Kinds,      \* kinds of row that arrive: subset of "chat", "clear", "task", "system"
    PromptCap,  \* getConfig().maxMessagesPerPrompt
    MaxTries,   \* MAX_TRIES of host-sweep.ts
    Faults,     \* what may go wrong, see FaultNames
    MaxFaults,  \* bound on the number of faults in a behaviour
    None

(* crash: a container dies; hang: a provider wedges; spawn: spawnContainer *)
(* rejects; host: the host dies; kill: an operator command kills the       *)
(* container; ceiling: a heartbeat outlives a declared Bash timeout; stray:*)
(* a docker stop fails, once; slow: a claim may outlive its tolerance (the *)
(* last two are not counted in faults).                                    *)
FaultNames == {"crash", "hang", "spawn", "host", "kill", "ceiling", "stray", "slow"}

ASSUME NoneAssumption  == None \notin Boxes
ASSUME BoundAssumption == /\ MaxTries \in Nat
                          /\ MaxFaults \in Nat
                          /\ PromptCap \in Nat \ {0}
ASSUME KindAssumption  == Kinds \subseteq {"chat", "clear", "task", "system"}
ASSUME FaultAssumption == Faults \subseteq FaultNames

VARIABLES
    \* inbound.db, written by the host
    row,        \* messages_in
    lastSeq,    \* MAX(seq) of messages_in, by rank
    \* outbound.db, written by the container
    ack,        \* processing_ack
    fresh,      \* the heartbeat file was touched within the current second
    \* the containers: poll-loop position, claimed batch, follow-ups pushed and
    \* not answered, rows it has ever prompted, whether its provider is wedged
    box,
    \* host memory
    up,         \* the host process runs
    tracked,    \* activeContainers.get(session): a box or None
    exited,     \* the tracked docker client has exited, 'close' not yet handled
    spawning,   \* spawnContainer calls in flight (wakePromises allows one)
    cooling,    \* Date.now() - lastExitMs < MIN_RESPAWN_INTERVAL_MS
    sweep,      \* where sweepSession stands
    \* history
    prompts,    \* how often a row was put in a prompt
    fate,       \* how the agent disposed of a row
    failedStop, \* a docker stop has failed
    faults      \* faults so far

dbVars   == <<row, lastSeq>>
outVars  == <<ack, fresh>>
hostVars == <<up, tracked, exited, spawning, cooling, sweep>>
histVars == <<prompts, fate, failedStop>>
vars     == <<row, lastSeq, ack, fresh, box, up, tracked, exited, spawning, cooling,
              sweep, prompts, fate, failedStop, faults>>

Statuses == {"absent", "pending", "completed", "failed"}
Row == [st: Statuses, tries: Nat, later: BOOLEAN, trig: BOOLEAN,
        kind: {"chat", "clear", "task", "system"}, seq: Nat]
Ack == [st: {"none", "processing", "completed"}, old: BOOLEAN, beaten: BOOLEAN]
Places == {"gone", "boot", "poll", "fetched", "claimed", "gating", "query"}
Box == [pc: Places, batch: SUBSET Msgs, open: SUBSET Msgs, seen: SUBSET Msgs,
        answered: BOOLEAN, hung: BOOLEAN]

NoRow   == [st |-> "absent", tries |-> 0, later |-> FALSE, trig |-> FALSE,
            kind |-> "chat", seq |-> 0]
NoAck   == [st |-> "none", old |-> FALSE, beaten |-> FALSE]
Claimed == [st |-> "processing", old |-> FALSE, beaten |-> FALSE]
Done    == [st |-> "completed", old |-> FALSE, beaten |-> FALSE]
NoBox   == [pc |-> "gone", batch |-> {}, open |-> {}, seen |-> {},
            answered |-> FALSE, hung |-> FALSE]

TypeOK ==
    /\ row \in [Msgs -> Row]
    /\ lastSeq \in Nat
    /\ ack \in [Msgs -> Ack]
    /\ fresh \in BOOLEAN
    /\ box \in [Boxes -> Box]
    /\ up \in BOOLEAN
    /\ tracked \in Boxes \cup {None}
    /\ exited \in BOOLEAN
    /\ spawning \in Nat
    /\ cooling \in BOOLEAN
    /\ sweep \in {"idle", "waking", "check", "kill"}
    /\ prompts \in [Msgs -> Nat]
    /\ fate \in [Msgs -> {"none", "answered", "command", "gated", "consumed"}]
    /\ failedStop \in BOOLEAN
    /\ faults \in Nat

Init ==
    /\ row = [m \in Msgs |-> NoRow]
    /\ lastSeq = 0
    /\ ack = [m \in Msgs |-> NoAck]
    /\ fresh = FALSE
    /\ box = [b \in Boxes |-> NoBox]
    /\ up = TRUE
    /\ tracked = None
    /\ exited = FALSE
    /\ spawning = 0
    /\ cooling = FALSE
    /\ sweep = "idle"
    /\ prompts = [m \in Msgs |-> 0]
    /\ fate = [m \in Msgs |-> "none"]
    /\ failedStop = FALSE
    /\ faults = 0

-----------------------------------------------------------------------------
(* Queries                                                                 *)

Live(b) == box[b].pc # "gone"

\* status = 'pending' AND process_after IS NULL or past
Due(m) == row[m].st = "pending" /\ ~row[m].later

\* faulty variant: retried rows do not wake
DueOnlyFresh == {m \in Msgs : Due(m) /\ row[m].trig /\ row[m].tries = 0}

\* countDueMessages: due rows that may wake a container
DueToWake == {m \in Msgs : Due(m) /\ row[m].trig}

\* ORDER BY seq DESC LIMIT PromptCap
Newest(S) == {m \in S : Cardinality({n \in S : row[n].seq > row[m].seq}) < PromptCap}

\* faulty variants: acks ignored; process_after ignored
PendingIgnoringAcks == Newest({n \in Msgs : Due(n)})
PendingIgnoringBackoff == {m \in Newest({n \in Msgs : row[n].st = "pending"}) : ack[m].st = "none"}

\* getPendingMessages: the newest due rows, and of those the ones with no ack
GetPending == {m \in Newest({n \in Msgs : Due(n)}) : ack[m].st = "none"}

Claims == {m \in Msgs : ack[m].st = "processing"}

\* faulty variant: heartbeat comparison swapped
StuckSwapped == {m \in Claims : ack[m].old /\ ack[m].beaten}

\* a claim past its tolerance with no heartbeat since
Stuck == {m \in Claims : ack[m].old /\ ~ack[m].beaten}

\* touchHeartbeat: the heartbeat is now younger than every claim
Beat == [m \in Msgs |-> IF ack[m].st = "processing" THEN [ack[m] EXCEPT !.beaten = TRUE]
                                                    ELSE ack[m]]

Complete(S, a) == [m \in Msgs |-> IF m \in S THEN Done ELSE a[m]]

Dispose(S, how) == [m \in Msgs |-> IF m \in S THEN how ELSE fate[m]]

\* The sweep runs from its one await to its end without yielding to the rest
\* of the host; the containers do not wait for it
HostFree == up /\ sweep \notin {"check", "kill"}

Fault(f) == f \in Faults /\ faults < MaxFaults /\ faults' = faults + 1
-----------------------------------------------------------------------------
(* Host: writing rows and waking containers                                *)

\* faulty variant: no wakePromises
CanSpawnTwice == tracked = None /\ ~cooling

CanSpawn == tracked = None /\ spawning = 0 /\ ~cooling

\* wakeContainer: running, in-flight and just-exited sessions are left alone
WakeContainer == spawning' = IF CanSpawn THEN spawning + 1 ELSE spawning

Insert(m, k, t, l) ==
    /\ row[m].st = "absent"
    /\ row' = [row EXCEPT ![m] = [st |-> "pending", tries |-> 0, later |-> l,
                                  trig |-> t, kind |-> k, seq |-> lastSeq + 1]]
    /\ lastSeq' = lastSeq + 1

\* deliverToAgent of an engaged (t) or merely accumulated (~t) chat message
Route(m) ==
    /\ HostFree
    /\ \E k \in Kinds \cap {"chat", "clear"}, t \in BOOLEAN :
          /\ Insert(m, k, t, FALSE)
          /\ IF t THEN WakeContainer ELSE UNCHANGED spawning
    /\ UNCHANGED <<outVars, box, up, tracked, exited, cooling, sweep, histVars, faults>>

\* the user answers an ask_user_question card
AnswerQuestion(m) ==
    /\ HostFree
    /\ "system" \in Kinds
    /\ Insert(m, "system", TRUE, FALSE)
    /\ WakeContainer
    /\ UNCHANGED <<outVars, box, up, tracked, exited, cooling, sweep, histVars, faults>>

\* insertTask: due later, wakes nothing
ScheduleTask(m) ==
    /\ HostFree
    /\ "task" \in Kinds
    /\ Insert(m, "task", TRUE, TRUE)
    /\ UNCHANGED <<outVars, box, hostVars, histVars, faults>>

(* spawnContainer resolves: the heartbeat of the previous container is     *)
(* removed, docker run is started and the session is tracked.              *)
SpawnDone(b) ==
    /\ HostFree
    /\ spawning > 0
    /\ ~Live(b)
    /\ spawning' = spawning - 1
    /\ ack' = [m \in Msgs |-> [ack[m] EXCEPT !.beaten = FALSE]]
    /\ fresh' = FALSE
    /\ box' = [box EXCEPT ![b] = [NoBox EXCEPT !.pc = "boot"]]
    /\ tracked' = b
    /\ exited' = FALSE
    /\ sweep' = IF sweep = "waking" THEN "check" ELSE sweep
    /\ UNCHANGED <<dbVars, up, cooling, histVars, faults>>

\* spawnContainer rejects: a sweep awaiting it abandons the session
SpawnFails ==
    /\ HostFree
    /\ spawning > 0
    /\ Fault("spawn")
    /\ spawning' = spawning - 1
    /\ sweep' = IF sweep = "waking" THEN "idle" ELSE sweep
    /\ UNCHANGED <<dbVars, outVars, box, up, tracked, exited, cooling, histVars>>

\* the 'close' event of the docker client
Close ==
    /\ HostFree
    /\ tracked # None
    /\ exited
    /\ tracked' = None
    /\ exited' = FALSE
    /\ cooling' = TRUE
    /\ UNCHANGED <<dbVars, outVars, box, up, spawning, sweep, histVars, faults>>

(* killContainer of the tracked session.  docker stop ends the container;  *)
(* where it fails, the SIGKILL that follows ends the docker client only.   *)
KillContainer ==
    /\ exited' = TRUE
    /\ \/ /\ box' = [box EXCEPT ![tracked] = NoBox]
          /\ UNCHANGED failedStop
       \/ /\ "stray" \in Faults /\ ~failedStop      \* modelled once per behaviour
          /\ Live(tracked)
          /\ failedStop' = TRUE
          /\ UNCHANGED box

\* killContainer called by fleet or self-modification commands
OperatorKill ==
    /\ HostFree
    /\ tracked # None
    /\ Fault("kill")
    /\ KillContainer
    /\ UNCHANGED <<dbVars, outVars, up, tracked, spawning, cooling, sweep, prompts, fate>>

-----------------------------------------------------------------------------
(* Host: sweepSession                                                      *)

\* faulty variant: getMessageForRetry without its status filter, the try charged first
ResetAnyStatus ==
    row' = [m \in Msgs |->
              IF m \in Claims /\ ~row[m].later
              THEN [row[m] EXCEPT !.tries = @ + 1, !.later = TRUE,
                                  !.st = IF row[m].tries >= MaxTries THEN "failed" ELSE @]
              ELSE row[m]]

\* faulty variant: a retry is not charged
ResetUncharged ==
    row' = [m \in Msgs |-> IF m \in Claims /\ Due(m) THEN [row[m] EXCEPT !.later = TRUE]
                                                    ELSE row[m]]

\* resetStuckProcessingRows
ResetStuck ==
    row' = [m \in Msgs |->
              IF m \in Claims /\ Due(m)
              THEN IF row[m].tries >= MaxTries
                   THEN [row[m] EXCEPT !.st = "failed"]
                   ELSE [row[m] EXCEPT !.tries = @ + 1, !.later = TRUE]
              ELSE row[m]]

\* syncProcessingAcks
Synced == [m \in Msgs |-> IF ack[m].st = "completed" /\ row[m].st # "absent"
                          THEN [row[m] EXCEPT !.st = "completed"]
                          ELSE row[m]]

\* steps 1 and 2: sync, then wake if a row is due and nothing runs
SweepStart ==
    /\ HostFree
    /\ sweep = "idle"
    /\ row' = Synced
    /\ IF tracked = None /\ \E m \in DueToWake : ack[m].st # "completed"
       THEN /\ WakeContainer
            /\ sweep' = IF spawning > 0 \/ ~cooling THEN "waking" ELSE "check"
       ELSE /\ sweep' = "check"
            /\ UNCHANGED spawning
    /\ UNCHANGED <<lastSeq, outVars, box, up, tracked, exited, cooling, histVars, faults>>

\* step 3 of a running container: is one of its claims stuck?
SweepInspect ==
    /\ up
    /\ sweep = "check"
    /\ tracked # None
    /\ \/ /\ sweep' = IF Stuck # {} THEN "kill" ELSE "idle"
          /\ UNCHANGED faults
       \/ /\ Fault("ceiling")        \* heartbeat past a declared Bash timeout
          /\ box[tracked].seen # {}
          /\ sweep' = "kill"
    /\ UNCHANGED <<dbVars, outVars, box, up, tracked, exited, spawning, cooling, histVars>>

\* ... then kill it and give its claims another try
SweepKill ==
    /\ up
    /\ sweep = "kill"
    /\ KillContainer
    /\ ResetStuck
    /\ sweep' = "idle"
    /\ UNCHANGED <<lastSeq, outVars, up, tracked, spawning, cooling, prompts, fate, faults>>

\* step 4: nothing runs, claims left behind get another try
SweepReset ==
    /\ up
    /\ sweep = "check"
    /\ tracked = None
    /\ ResetStuck
    /\ sweep' = "idle"
    /\ UNCHANGED <<lastSeq, outVars, box, up, tracked, exited, spawning, cooling, histVars, faults>>

-----------------------------------------------------------------------------
(* Host: death and restart                                                 *)

\* containers outlive the host
HostCrash ==
    /\ up
    /\ Fault("host")
    /\ up' = FALSE
    /\ tracked' = None
    /\ exited' = FALSE
    /\ spawning' = 0
    /\ cooling' = FALSE
    /\ sweep' = "idle"
    /\ UNCHANGED <<dbVars, outVars, box, histVars>>

\* main: cleanupOrphans stops what the last host left running, and goes on
\* where docker stop fails
HostStart ==
    /\ ~up
    /\ up' = TRUE
    /\ \/ /\ box' = [b \in Boxes |-> NoBox]
          /\ UNCHANGED failedStop
       \/ /\ "stray" \in Faults /\ ~failedStop
          /\ \E b \in Boxes : Live(b)
          /\ failedStop' = TRUE
          /\ UNCHANGED box
    /\ UNCHANGED <<dbVars, outVars, tracked, exited, spawning, cooling, sweep, prompts, fate, faults>>
-----------------------------------------------------------------------------
(* Container: the poll loop                                                *)

inContainer == <<dbVars, up, tracked, spawning, cooling, sweep>>

\* faulty variant: claims of an earlier container survive
BootKeepingClaims(b) ==
    /\ box[b].pc = "boot"
    /\ box' = [box EXCEPT ![b].pc = "poll"]
    /\ UNCHANGED <<inContainer, outVars, exited, histVars, faults>>

\* runPollLoop starts: claims of an earlier container are cleared
Boot(b) ==
    /\ box[b].pc = "boot"
    /\ ack' = [m \in Msgs |-> IF m \in Claims THEN NoAck ELSE ack[m]]
    /\ box' = [box EXCEPT ![b].pc = "poll"]
    /\ UNCHANGED <<inContainer, fresh, exited, histVars, faults>>

\* the rows an idle loop would take: system rows belong to the MCP tools
Fetched == {m \in GetPending : row[m].kind # "system"}

\* read a batch; one of context rows only is left for later (accumulate gate)
Fetch(b) ==
    /\ box[b].pc = "poll"
    /\ \E m \in Fetched : row[m].trig
    /\ box' = [box EXCEPT ![b] = [@ EXCEPT !.pc = "fetched", !.batch = Fetched]]
    /\ UNCHANGED <<inContainer, outVars, exited, histVars, faults>>

\* faulty variant: rows are acknowledged as completed on receipt
ClaimAsCompleted(b) ==
    /\ box[b].pc = "fetched"
    /\ ack' = Complete(box[b].batch, ack)
    /\ box' = [box EXCEPT ![b].pc = "claimed"]
    /\ UNCHANGED <<inContainer, fresh, exited, histVars, faults>>

(* markProcessing(ids).  status_changed is cut to whole seconds and the     *)
(* heartbeat's mtime is not: a heartbeat earlier in the same second counts *)
(* as younger than the claim.                                              *)
Claim(b) ==
    /\ box[b].pc = "fetched"
    /\ ack' = [m \in Msgs |-> IF m \in box[b].batch THEN [Claimed EXCEPT !.beaten = fresh]
                                                    ELSE ack[m]]
    /\ box' = [box EXCEPT ![b].pc = "claimed"]
    /\ UNCHANGED <<inContainer, fresh, exited, histVars, faults>>

\* /clear is answered by the loop itself
RunCommands(b) ==
    LET cmds == {m \in box[b].batch : row[m].kind = "clear"}
        rest == box[b].batch \ cmds
    IN  /\ box[b].pc = "claimed"
        /\ ack' = Complete(cmds, ack)
        /\ fate' = Dispose(cmds, "command")
        /\ box' = [box EXCEPT ![b] = [@ EXCEPT !.pc = IF rest = {} THEN "poll" ELSE "gating",
                                                !.batch = rest]]
        /\ UNCHANGED <<inContainer, fresh, exited, prompts, failedStop, faults>>

\* put the rows of S in a prompt
Prompt(S) == prompts' = [m \in Msgs |-> IF m \in S THEN prompts[m] + 1 ELSE prompts[m]]

(* Pre-task scripts may skip task rows (and touch the heartbeat); what they *)
(* keep becomes the prompt of a new query.                                  *)
RunScripts(b) ==
    \E skip \in SUBSET {m \in box[b].batch : row[m].kind = "task"}, beat \in BOOLEAN :
       LET keep == box[b].batch \ skip
       IN  /\ box[b].pc = "gating"
           /\ skip # {} => beat
           /\ beat => \E m \in box[b].batch : row[m].kind = "task"
           /\ ack' = Complete(skip, IF beat THEN Beat ELSE ack)
           /\ fresh' = (fresh \/ beat)
           /\ fate' = Dispose(skip, "gated")
           /\ Prompt(keep)
           /\ box' = [box EXCEPT ![b] = [box[b] EXCEPT !.pc = IF keep = {} THEN "poll" ELSE "query",
                                                             !.batch = keep,
                                                             !.seen = @ \cup keep,
                                                             !.answered = FALSE]]
           /\ UNCHANGED <<inContainer, exited, failedStop, faults>>

\* the 500 ms timer of processQuery: new rows go straight into the open query
FollowUp(b) ==
    LET new == {m \in GetPending : row[m].kind \notin {"system", "clear"}}
    IN  /\ box[b].pc = "query"
        /\ new # {}
        /\ ack' = Complete(new, ack)
        /\ Prompt(new)
        /\ box' = [box EXCEPT ![b] = [box[b] EXCEPT !.open = @ \cup new, !.seen = @ \cup new]]
        /\ UNCHANGED <<inContainer, fresh, exited, fate, failedStop, faults>>

\* any provider event but a result
Progress(b) ==
    /\ box[b].pc = "query" /\ ~box[b].hung
    /\ ack' = Beat
    /\ fresh' = TRUE
    /\ UNCHANGED <<inContainer, box, exited, histVars, faults>>

\* a turn ends: the first result answers the batch, later ones the follow-ups
Result(b) ==
    /\ box[b].pc = "query" /\ ~box[b].hung
    /\ ~box[b].answered \/ box[b].open # {}
    /\ ack' = Complete(box[b].batch, Beat)
    /\ fresh' = TRUE
    /\ IF box[b].answered
       THEN /\ fate' = Dispose(box[b].open, "answered")
            /\ box' = [box EXCEPT ![b].open = {}]
       ELSE /\ fate' = Dispose(box[b].batch, "answered")
            /\ box' = [box EXCEPT ![b].answered = TRUE]
    /\ UNCHANGED <<inContainer, exited, prompts, failedStop, faults>>

\* the stream closes, or throws and the batch is answered by an error text
EndQuery(b) ==
    /\ box[b].pc = "query" /\ ~box[b].hung
    /\ ack' = Complete(box[b].batch, ack)
    /\ \/ UNCHANGED fate
       \/ fate' = Dispose(box[b].batch, "answered")
    /\ box' = [box EXCEPT ![b] = [@ EXCEPT !.pc = "poll", !.batch = {}, !.open = {}]]
    /\ UNCHANGED <<inContainer, fresh, exited, prompts, failedStop, faults>>

\* ask_user_question finds its response row
TakeAnswer(b, m) ==
    /\ box[b].pc = "query" /\ ~box[b].hung
    /\ row[m].kind = "system"
    /\ row[m].st = "pending"
    /\ ack[m].st = "none"
    /\ ack' = Complete({m}, ack)
    /\ fate' = Dispose({m}, "consumed")
    /\ UNCHANGED <<inContainer, fresh, box, exited, prompts, failedStop, faults>>

\* the runner process or its container dies
Crash(b) ==
    /\ Live(b)
    /\ Fault("crash")
    /\ box' = [box EXCEPT ![b] = NoBox]
    /\ exited' = (exited \/ tracked = b)
    /\ UNCHANGED <<inContainer, outVars, histVars>>

\* the provider stops producing events; the poll timer goes on
Hang(b) ==
    /\ box[b].pc = "query" /\ ~box[b].hung
    /\ Fault("hang")
    /\ box' = [box EXCEPT ![b].hung = TRUE]
    /\ UNCHANGED <<inContainer, outVars, exited, histVars>>

-----------------------------------------------------------------------------
(* Time                                                                    *)

ClaimAges(m) ==
    /\ "slow" \in Faults
    /\ ack[m].st = "processing" /\ ~ack[m].old
    /\ ack' = [ack EXCEPT ![m].old = TRUE]
    /\ UNCHANGED <<dbVars, fresh, box, hostVars, histVars, faults>>

BackoffElapses(m) ==
    /\ row[m].later
    /\ row' = [row EXCEPT ![m].later = FALSE]
    /\ UNCHANGED <<lastSeq, outVars, box, hostVars, histVars, faults>>

\* the second of the last heartbeat ends
SecondEnds ==
    /\ fresh
    /\ fresh' = FALSE
    /\ UNCHANGED <<dbVars, ack, box, hostVars, histVars, faults>>

CoolingOver ==
    /\ cooling
    /\ cooling' = FALSE
    /\ UNCHANGED <<dbVars, outVars, box, up, tracked, exited, spawning, sweep, histVars, faults>>

-----------------------------------------------------------------------------
HostStep ==
    \/ \E m \in Msgs : Route(m) \/ AnswerQuestion(m) \/ ScheduleTask(m)
    \/ \E b \in Boxes : SpawnDone(b)
    \/ SpawnFails \/ Close \/ OperatorKill
    \/ SweepStart \/ SweepInspect \/ SweepKill \/ SweepReset
    \/ HostCrash \/ HostStart

ContainerStep(b) ==
    \/ Boot(b) \/ Fetch(b) \/ Claim(b) \/ RunCommands(b) \/ RunScripts(b)
    \/ FollowUp(b) \/ Progress(b) \/ Result(b) \/ EndQuery(b)
    \/ \E m \in Msgs : TakeAnswer(b, m)
    \/ Crash(b) \/ Hang(b)

TimeStep ==
    \/ \E m \in Msgs : ClaimAges(m) \/ BackoffElapses(m)
    \/ SecondEnds \/ CoolingOver

Next == HostStep \/ (\E b \in Boxes : ContainerStep(b)) \/ TimeStep

Spec == Init /\ [][Next]_vars

(* What the code schedules: the sweep timer, the steps of a poll loop that *)
(* is not waiting for its provider, the clock, and the two events the host *)
(* handles between sweeps: the close event and the spawn in flight (strong *)
(* fairness: the sweep holds the event loop now and then, never for good). *)
Fairness ==
    /\ WF_vars(HostStart) /\ SF_vars(Close)
    /\ WF_vars(SweepStart) /\ WF_vars(SweepInspect) /\ WF_vars(SweepKill) /\ WF_vars(SweepReset)
    /\ SF_vars(\E b \in Boxes : SpawnDone(b))
    /\ \A b \in Boxes : /\ WF_vars(Boot(b)) /\ WF_vars(Fetch(b)) /\ WF_vars(Claim(b))
                        /\ WF_vars(RunCommands(b)) /\ WF_vars(RunScripts(b))
                        /\ WF_vars(FollowUp(b))
    /\ \A m \in Msgs : WF_vars(ClaimAges(m)) /\ WF_vars(BackoffElapses(m))
    /\ WF_vars(CoolingOver)

FairSpec == Spec /\ Fairness

\* ... and a provider that answers unless it hangs
AnsweringSpec == FairSpec /\ \A b \in Boxes : WF_vars(Result(b))

-----------------------------------------------------------------------------
(* Properties                                                              *)

(* While the host runs, the only container of the session is the one it    *)
(* tracks: wakePromises, activeContainers, the close event and             *)
(* cleanupOrphans together never let two poll loops share the session,     *)
(* unless a docker stop fails.                                             *)
OnlyTrackedRuns == up /\ ~failedStop => \A b \in Boxes : Live(b) => b = tracked

(* Once a container has booted, every 'processing' row of processing_ack   *)
(* is a row of its own batch: claims of a dead container do not survive    *)
(* into the next one, where they would hide a row forever.                 *)
ClaimsAreOwned ==
    ~failedStop =>
       \A b \in Boxes : Live(b) /\ box[b].pc # "boot" => Claims \subseteq box[b].batch

(* No row is completed before an agent was prompted with it, or it was     *)
(* handled as a command, skipped by its script, or taken by a tool.        *)
NothingSilentlyDropped ==
    \A m \in Msgs : ack[m].st = "completed" \/ row[m].st = "completed"
                    => prompts[m] > 0 \/ fate[m] # "none"

(* A completed or failed row is never touched again: neither a late ack    *)
(* nor a leftover claim revives it, completes it or charges it a try.      *)
TerminalIsFinal ==
    [][\A m \in Msgs : row[m].st \in {"completed", "failed"} /\ ~failedStop
                        => row'[m].st = row[m].st /\ row'[m].tries = row[m].tries]_vars

(* One container never prompts its agent twice with the same row, whatever *)
(* the sweep does to the row meanwhile: only the death of the container    *)
(* lets a row be prompted again.                                           *)
OncePerContainer ==
    [][\A b \in Boxes, m \in Msgs :
         m \in box[b].seen /\ Live(b) /\ box'[b].pc # "gone" /\ ~failedStop
            => prompts'[m] = prompts[m]]_vars

(* A row in backoff is not prompted before its process_after.              *)
BackoffRespected ==
    [][\A m \in Msgs : prompts'[m] > prompts[m] /\ ~failedStop => ~row[m].later]_vars

(* Every chat or task row that asks for the agent is eventually completed  *)
(* or failed: no wake is lost for good, whatever races with an exit or a   *)
(* restart.                                                                *)
Served ==
    \A m \in Msgs :
       (row[m].st = "pending" /\ row[m].trig /\ row[m].kind \in {"chat", "task"})
          ~> row[m].st \in {"completed", "failed"}

(* ... or else some claim has outlived its tolerance before that.          *)
ServedInTime ==
    \A m \in Msgs :
       (row[m].st = "pending" /\ row[m].trig /\ row[m].kind \in {"chat", "task"})
          ~> \/ row[m].st \in {"completed", "failed"}
             \/ \E n \in Msgs : ack[n].old

(* Only a try charged to a row or the death of a container can have a row  *)
(* prompted again: the sweep never hands out a row twice by itself.        *)
PromptsAreCharged ==
    ~failedStop => \A m \in Msgs : prompts[m] <= 1 + row[m].tries + faults

(* A container whose provider wedges before its first event does not keep  *)
(* the session: its claim goes stale and the sweep kills it, unless an     *)
(* earlier turn ended in the very second of the claim (see Claim).         *)
SilentWedgeDies ==
    \A b \in Boxes :
       (box[b].hung /\ \E m \in box[b].batch : m \in Claims /\ ~ack[m].beaten) ~> ~box[b].hung

-----------------------------------------------------------------------------
(* What comments of the source say and the code does not do                *)

(* poll-loop.ts, processQuery: when the container is killed its messages   *)
(* get reset to pending.                                                   *)
KilledWorkIsRetried ==
    [][\A b \in Boxes : Live(b) /\ box'[b].pc = "gone" =>
         \A m \in box[b].open : ack'[m].st # "completed"]_vars

(* host-sweep.ts: "a wedged-mid-message container always dies".            *)
WedgedDies ==
    \A b \in Boxes : (box[b].hung /\ ~box[b].answered) ~> ~box[b].hung

=============================================================================
