----------------------------- MODULE Scheduling -----------------------------
(***************************************************************************)
(* Recurring tasks of one session.  A series is a chain of messages_in     *)
(* rows that share a series_id, the id of the first: when an occurrence    *)
(* has been completed with its recurrence still set, host-sweep inserts    *)
(* the next one and clears the recurrence of the last.  Three parties      *)
(* change the rows and meet only in the database:                          *)
(*                                                                         *)
(*   - sweepSession, which gives up the host's thread at each of its       *)
(*     awaits: the wake, the import of the hook, cron-parser per row;      *)
(*   - the task commands of the agent, applied by the delivery loop of the *)
(*     same host process, hence between two awaits of the sweep;           *)
(*   - the container, which takes pending rows and acknowledges them in a  *)
(*     database of its own.                                                *)
(*                                                                         *)
(* Time is left out: a pending row may be taken or not.  How claims are    *)
(* found stuck and how often they are tried is the business of             *)
(* SessionQueue; here any stale claim may use up its tries.                *)
(***************************************************************************)
EXTENDS Integers, FiniteSets

CONSTANTS
    Series,     \* recurring or one-shot tasks
    MaxRuns,    \* bound on the occurrences of a series
    MaxFaults,  \* bound on crashes, kills and database errors
    Commands,   \* the commands the agent may give, see CommandNames
    None

CommandNames == {"oneshot", "cancel", "pause", "resume", "update"}

ASSUME RunsAssumption    == MaxRuns \in Nat \ {0}
ASSUME FaultsAssumption  == MaxFaults \in Nat
ASSUME CommandAssumption == Commands \subseteq CommandNames

\* the n-th row of a series; <<s, 1>> is its series_id
Rows == Series \X (1 .. MaxRuns)

ASSUME NoneAssumption == None \notin Rows

VARIABLES
    \* inbound.db
    status,     \* messages_in.status
    recurrence, \* messages_in.recurrence: a cron expression, one that does not parse, or NULL
    \* outbound.db
    ack,        \* processing_ack
    alive,      \* a container runs
    \* sweepSession and handleRecurrence
    pc,         \* the await it is at
    recurring,  \* rows of getCompletedRecurring still to be handled
    msg,        \* the row whose next occurrence was just inserted
    newId,      \* that occurrence
    \* history
    ended,      \* how a series was told to end
    held,       \* series paused by their series id and not resumed since
    torn,       \* series whose occurrence was inserted and the last one not cleared
    faults

rowVars   == <<status, recurrence>>
sweepVars == <<pc, recurring, msg, newId>>
histVars  == <<ended, held, torn>>
vars      == <<status, recurrence, ack, alive, pc, recurring, msg, newId, ended, held,
               torn, faults>>

Crons == {"none", "cron", "bad"}

TypeOK ==
    /\ status \in [Rows -> {"absent", "pending", "paused", "completed", "failed"}]
    /\ recurrence \in [Rows -> Crons]
    /\ ack \in [Rows -> {"none", "processing", "completed"}]
    /\ alive \in BOOLEAN
    /\ pc \in {"idle", "waking", "hook", "parse", "inserted"}
    /\ recurring \subseteq Rows
    /\ msg \in Rows \cup {None}
    /\ newId \in Rows \cup {None}
    /\ ended \in [Series -> {"no", "oneshot", "cancelled"}]
    /\ held \subseteq Series
    /\ torn \subseteq Series
    /\ faults \in Nat

Init ==
    /\ status = [r \in Rows |-> "absent"]
    /\ recurrence = [r \in Rows |-> "none"]
    /\ ack = [r \in Rows |-> "none"]
    /\ alive = FALSE
    /\ pc = "idle"
    /\ recurring = {}
    /\ msg = None
    /\ newId = None
    /\ ended = [s \in Series |-> "no"]
    /\ held = {}
    /\ torn = {}
    /\ faults = 0

-----------------------------------------------------------------------------
(* Queries                                                                 *)

SeriesId(s) == <<s, 1>>

\* WHERE id = ? OR series_id = ?
Matches(id) == {r \in Rows : r = id \/ SeriesId(r[1]) = id}

\* what the commands call a live row
Live == {r \in Rows : status[r] \in {"pending", "paused"}}

\* getCompletedRecurring
CompletedRecurring == {r \in Rows : status[r] = "completed" /\ recurrence[r] # "none"}

\* a row that can still bring about a run of its series
Token(r) == r \in Live \/ recurrence[r] # "none"

Tokens(s) == {r \in Rows : r[1] = s /\ Token(r)}

Claims == {r \in Rows : ack[r] = "processing"}

\* rows the container would take
Takeable == {r \in Rows : status[r] = "pending" /\ ack[r] = "none"}

\* an id nobody has, Math.random() in the code
IsNew(r, s) == /\ r \in Rows
               /\ r[1] = s
               /\ status[r] = "absent"
               /\ \A n \in 1 .. MaxRuns : n < r[2] => status[<<s, n>>] # "absent"

\* bound: no further occurrence of the series is modelled
Full(s) == status[<<s, MaxRuns>>] # "absent"

\* insert and clear follow one another without giving up the thread
HostFree == pc # "inserted"

Fault == faults < MaxFaults /\ faults' = faults + 1

-----------------------------------------------------------------------------
(* Commands of the agent                                                   *)

\* insertTask
Schedule(s) ==
    /\ HostFree
    /\ status[SeriesId(s)] = "absent"
    /\ \E c \in IF "oneshot" \in Commands THEN Crons ELSE {"cron"} :
          /\ recurrence' = [recurrence EXCEPT ![SeriesId(s)] = c]
          /\ ended' = [ended EXCEPT ![s] = IF c = "none" THEN "oneshot" ELSE "no"]
    /\ status' = [status EXCEPT ![SeriesId(s)] = "pending"]
    /\ UNCHANGED <<ack, alive, sweepVars, held, torn, faults>>

\* the command names an occurrence the agent has seen
Known(id) == id \in Rows /\ status[id] # "absent"

\* the series a command names, none if it names a later occurrence
Named(id) == {s \in Series : SeriesId(s) = id}

\* rows moved to another status
Moved(S, st) == [r \in Rows |-> IF r \in S THEN st ELSE status[r]]

\* the series of the rows hit was told how to go on; a cancelled one stays so
Ends(id, hit, how) ==
    ended' = IF hit # {} /\ ended[id[1]] # "cancelled"
             THEN [ended EXCEPT ![id[1]] = how]
             ELSE ended

\* faulty variant: the recurrence survives
CancelStatusOnly(id) ==
    /\ HostFree
    /\ "cancel" \in Commands
    /\ Known(id)
    /\ status' = Moved(Matches(id) \cap Live, "completed")
    /\ Ends(id, Matches(id) \cap Live, "cancelled")
    /\ UNCHANGED <<recurrence, ack, alive, sweepVars, held, torn, faults>>

\* cancelTask
Cancel(id) ==
    /\ HostFree
    /\ "cancel" \in Commands
    /\ Known(id)
    /\ LET hit == Matches(id) \cap Live IN
          /\ status' = Moved(hit, "completed")
          /\ recurrence' = [r \in Rows |-> IF r \in hit THEN "none" ELSE recurrence[r]]
          /\ Ends(id, hit, "cancelled")
    /\ UNCHANGED <<ack, alive, sweepVars, held, torn, faults>>

\* pauseTask
Pause(id) ==
    /\ HostFree
    /\ "pause" \in Commands
    /\ Known(id)
    /\ status' = Moved({r \in Matches(id) : status[r] = "pending"}, "paused")
    /\ held' = held \cup Named(id)
    /\ UNCHANGED <<recurrence, ack, alive, sweepVars, ended, torn, faults>>

\* resumeTask
Resume(id) ==
    /\ HostFree
    /\ "resume" \in Commands
    /\ Known(id)
    /\ status' = Moved({r \in Matches(id) : status[r] = "paused"}, "pending")
    /\ held' = held \ Named(id)
    /\ UNCHANGED <<recurrence, ack, alive, sweepVars, ended, torn, faults>>

\* updateTask of the recurrence; its other fields change no status
Update(id) ==
    /\ HostFree
    /\ "update" \in Commands
    /\ Known(id)
    /\ LET hit == Matches(id) \cap Live IN
          \E c \in Crons :
             /\ recurrence' = [r \in Rows |-> IF r \in hit THEN c ELSE recurrence[r]]
             /\ Ends(id, hit, IF c = "none" THEN "oneshot" ELSE "no")
    /\ UNCHANGED <<status, ack, alive, sweepVars, held, torn, faults>>

-----------------------------------------------------------------------------
(* sweepSession                                                            *)

\* faulty variant: claimed rows count as finished
SyncedClaims ==
    [r \in Rows |-> IF ack[r] # "none" THEN "completed" ELSE status[r]]

\* syncProcessingAcks: whatever the row became meanwhile, it is completed now
Synced == [r \in Rows |-> IF ack[r] = "completed" THEN "completed" ELSE status[r]]

\* resetStuckProcessingRows: some of the claims have no tries left
GivesUp(base) ==
    \E S \in SUBSET {r \in Claims : base[r] = "pending"} :
        status' = [r \in Rows |-> IF r \in S THEN "failed" ELSE base[r]]

\* steps 3 and 4: a container that is stuck, or has long been idle, is killed;
\* where none runs, its claims are given another try
Inspect(base) ==
    \/ /\ alive
       /\ status' = base
       /\ UNCHANGED <<alive, faults>>
    \/ /\ alive
       /\ \/ Claims = {} /\ UNCHANGED faults
          \/ Fault
       /\ alive' = FALSE
       /\ GivesUp(base)
    \/ /\ ~alive
       /\ GivesUp(base)
       /\ UNCHANGED <<alive, faults>>

\* steps 1 to 4 when no row is due, or a container runs
SweepThrough ==
    /\ pc = "idle"
    /\ Inspect(Synced)
    /\ pc' = "hook"
    /\ UNCHANGED <<recurrence, ack, recurring, msg, newId, histVars>>

\* steps 1 and 2 when a row of the session, a chat message perhaps, is due
SweepWakes ==
    /\ pc = "idle"
    /\ ~alive
    /\ status' = Synced
    /\ pc' = "waking"
    /\ UNCHANGED <<recurrence, ack, alive, recurring, msg, newId, histVars, faults>>

\* the wake has resolved: steps 3 and 4
SweepWoken ==
    /\ pc = "waking"
    /\ Inspect(status)
    /\ pc' = "hook"
    /\ UNCHANGED <<recurrence, ack, recurring, msg, newId, histVars>>

\* the wake was rejected: the session waits for the next sweep
WakeFails ==
    /\ pc = "waking"
    /\ Fault
    /\ pc' = "idle"
    /\ UNCHANGED <<rowVars, ack, alive, recurring, msg, newId, histVars>>

-----------------------------------------------------------------------------
(* handleRecurrence                                                        *)

\* the next row of the loop, or the end of it
Continue(rest) ==
    /\ recurring' = rest
    /\ pc' = IF rest = {} THEN "idle" ELSE "parse"

\* faulty variant: a step of running containers only
CollectAlive ==
    /\ pc = "hook"
    /\ Continue(IF alive THEN CompletedRecurring ELSE {})
    /\ UNCHANGED <<rowVars, ack, alive, msg, newId, histVars, faults>>

\* rows completed with a recurrence left
Collect ==
    /\ pc = "hook"
    /\ Continue(CompletedRecurring)
    /\ UNCHANGED <<rowVars, ack, alive, msg, newId, histVars, faults>>

\* catch: the expression does not parse, or the insert fails; the row is
\* met again by every sweep (bound: so is one whose series is full)
Skip(r) ==
    /\ pc = "parse"
    /\ r \in recurring
    /\ \/ (recurrence[r] = "bad" \/ Full(r[1])) /\ UNCHANGED faults
       \/ Fault
    /\ Continue(recurring \ {r})
    /\ UNCHANGED <<rowVars, ack, alive, msg, newId, histVars>>

\* faulty variant: the next occurrence is inserted without its recurrence
InsertOnce(r, n) ==
    /\ pc = "parse"
    /\ r \in recurring
    /\ recurrence[r] = "cron"
    /\ IsNew(n, r[1])
    /\ status' = [status EXCEPT ![n] = "pending"]
    /\ pc' = "inserted"
    /\ msg' = r
    /\ newId' = n
    /\ UNCHANGED <<recurrence, ack, alive, recurring, histVars, faults>>

\* insertRecurrence
InsertNext(r, n) ==
    /\ pc = "parse"
    /\ r \in recurring
    /\ recurrence[r] = "cron"
    /\ IsNew(n, r[1])
    /\ status' = [status EXCEPT ![n] = "pending"]
    /\ recurrence' = [recurrence EXCEPT ![n] = recurrence[r]]
    /\ pc' = "inserted"
    /\ msg' = r
    /\ newId' = n
    /\ UNCHANGED <<ack, alive, recurring, histVars, faults>>

\* faulty variant: the original keeps its recurrence
ClearNothing ==
    /\ pc = "inserted"
    /\ Continue(recurring \ {msg})
    /\ msg' = None
    /\ newId' = None
    /\ UNCHANGED <<rowVars, ack, alive, histVars, faults>>

\* clearRecurrence
ClearLast ==
    /\ pc = "inserted"
    /\ recurrence' = [recurrence EXCEPT ![msg] = "none"]
    /\ Continue(recurring \ {msg})
    /\ msg' = None
    /\ newId' = None
    /\ UNCHANGED <<status, ack, alive, histVars, faults>>

\* catch: clearRecurrence fails after insertRecurrence has committed
ClearFails ==
    /\ pc = "inserted"
    /\ Fault
    /\ torn' = torn \cup {msg[1]}
    /\ Continue(recurring \ {msg})
    /\ msg' = None
    /\ newId' = None
    /\ UNCHANGED <<rowVars, ack, alive, ended, held>>

\* the host dies, and is started again: the sweep starts over
HostCrash ==
    /\ Fault
    /\ pc' = "idle"
    /\ recurring' = {}
    /\ msg' = None
    /\ newId' = None
    /\ torn' = IF pc = "inserted" THEN torn \cup {msg[1]} ELSE torn
    /\ alive' = FALSE        \* cleanupOrphans
    /\ UNCHANGED <<rowVars, ack, ended, held>>

-----------------------------------------------------------------------------
(* The container                                                           *)

\* clearStaleProcessingAcks of a container somebody woke
Start ==
    /\ ~alive
    /\ alive' = TRUE
    /\ ack' = [r \in Rows |-> IF r \in Claims THEN "none" ELSE ack[r]]
    /\ UNCHANGED <<rowVars, sweepVars, histVars, faults>>

\* the container dies
Crash ==
    /\ alive
    /\ Fault
    /\ alive' = FALSE
    /\ UNCHANGED <<rowVars, ack, sweepVars, histVars>>

\* getPendingMessages and markProcessing
Take(r) ==
    /\ alive
    /\ r \in Takeable
    /\ ack' = [ack EXCEPT ![r] = "processing"]
    /\ UNCHANGED <<rowVars, alive, sweepVars, histVars, faults>>

\* markCompleted
Finish(r) ==
    /\ alive
    /\ r \in Claims
    /\ ack' = [ack EXCEPT ![r] = "completed"]
    /\ UNCHANGED <<rowVars, alive, sweepVars, histVars, faults>>

-----------------------------------------------------------------------------
Command ==
    \/ \E s \in Series : Schedule(s)
    \/ \E id \in Rows : Cancel(id) \/ Pause(id) \/ Resume(id) \/ Update(id)

Sweep ==
    \/ SweepThrough
    \/ SweepWakes
    \/ SweepWoken
    \/ WakeFails
    \/ Collect
    \/ \E r \in Rows : Skip(r)
    \/ \E r, n \in Rows : InsertNext(r, n)
    \/ ClearLast
    \/ ClearFails
    \/ HostCrash

Container ==
    \/ Start
    \/ Crash
    \/ \E r \in Rows : Take(r) \/ Finish(r)

Next == Command \/ Sweep \/ Container

Spec == Init /\ [][Next]_vars

(* The sweep is rearmed by its own timer, an awaited wake or import        *)
(* resolves, the loop reaches its rows in the order of the table.  A       *)
(* pending row is due some day, so that a sweep wakes a container for it;  *)
(* the wake may find the last container just gone, but not each time; a    *)
(* container woken for a row polls before the idle ceiling is reached.     *)
Fairness ==
    /\ WF_vars(SweepThrough \/ SweepWakes)
    /\ SF_vars(SweepWakes /\ \E r \in Rows : status[r] = "pending")
    /\ WF_vars(SweepWoken)
    /\ SF_vars(pc = "waking" /\ Start)
    /\ WF_vars(Collect)
    /\ WF_vars(\E r \in Rows : Skip(r) \/ \E n \in Rows : InsertNext(r, n))
    /\ WF_vars(ClearLast)
    /\ \A r \in Rows : SF_vars(Take(r)) /\ WF_vars(Finish(r))

FairSpec == Spec /\ Fairness

-----------------------------------------------------------------------------
(* Properties                                                              *)

(* A series never forks: unless a crash or an error fell between the       *)
(* insertion of an occurrence and the clearing of the last, at most one of *)
(* its rows can bring about another run, whatever the agent commanded      *)
(* while the sweep was waiting.                                            *)
OneToken ==
    \A s \in Series \ torn : \A q, r \in Tokens(s) :
        q = r \/ (pc = "inserted" /\ {q, r} = {msg, newId})

(* A series is never lost: as long as it was not cancelled or made         *)
(* one-shot, some row still carries its recurrence, wherever a crash, a    *)
(* failing statement or a command fell (insertRecurrence before            *)
(* clearRecurrence).                                                       *)
SeriesSurvives ==
    \A s \in Series : status[SeriesId(s)] # "absent" /\ ended[s] = "no"
                          => \E r \in Tokens(s) : recurrence[r] # "none"

(* cancelTask of a live row is final: no row of the series can run again,  *)
(* though an occurrence that is running is cancelled in the middle and     *)
(* synced as completed afterwards.                                         *)
CancelFinal ==
    \A s \in Series \ torn : ended[s] = "cancelled" => Tokens(s) = {}

(* Two occurrences of a series are never run at once: the next is inserted *)
(* for an acknowledged run only.                                           *)
NoOverlap ==
    \A s \in Series \ torn : \A q, r \in Claims : q[1] = s /\ r[1] = s => q = r

\* nothing stands in the way of the next occurrence
Undisturbed(s) ==
    \E t \in Tokens(s) : /\ recurrence[t] = "cron"
                          /\ status[t] \in {"pending", "completed"}

(* A recurring task goes on, crashes and broken tasks of other series      *)
(* notwithstanding, unless it is paused, cancelled, made one-shot, given a *)
(* bad expression or out of tries.                                         *)
SeriesGoesOn == \A s \in Series : <>[]Undisturbed(s) => <>Full(s)

(* "Pause a scheduled task. It will not run until resumed."                *)
(* (container/agent-runner/src/mcp-tools/scheduling.ts:189)                *)
PausedDoesNotRun ==
    [][\A r \in Rows : r \in Claims' \ Claims => r[1] \notin held]_vars
=============================================================================
