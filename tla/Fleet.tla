-------------------------------- MODULE Fleet --------------------------------
(***************************************************************************)
(* The master's delivery actions: create_worker (fresh, new or resumed     *)
(* from the archive), destroy_worker, switch_backend and cleanup_workers.  *)
(*                                                                         *)
(* Each session of the master is drained by one delivery at a time, so it  *)
(* has one action under way (`job`); the sessions interleave at the awaits:*)
(* the model name asked of the shim, and the calls to Discord.  Discord    *)
(* acts before its answer is back.  After a restart or an exception the row*)
(* of the action is delivered again, which is a command like any other.    *)
(*                                                                         *)
(* The containers of a worker are SessionQueue's (OperatorKill there is    *)
(* killContainer here); archived workers are still woken for due messages. *)
(***************************************************************************)
EXTENDS Integers, FiniteSets

CONSTANTS
    Names,       \* worker folders, UNIQUE in agent_groups
    Groups,      \* ids of agent_groups
    Chans,       \* Discord channels
    Callers,     \* sessions of the master
    Backends,    \* backends whose model name needs no answer of the shim
    Shimmed,     \* backends whose model name is resolved by the shim
    MaxJobs,     \* bound: commands
    MaxRestarts, \* bound: restarts of the host
    None

AllBackends == Backends \cup Shimmed

VARIABLES
    \* central database
    group,     \* agent_groups
    recorded,  \* messaging_groups of the worker channels
    wired,     \* messaging_group_agents
    toWorker,  \* the master's destination of that name
    toMaster,  \* groups with a destination back
    \* files
    config,    \* provider in groups/<folder>/container.json, None without a folder
    \* Discord
    channel,   \* channels named worker-*
    \* the host
    job,       \* the action under way in each session
    \* history
    promised,  \* the group the master was last told works under a name
    issued,    \* ids given to groups: none is given twice
    raced,     \* names that two actions were under way for at once
    left,      \* recorded channels left without a wiring: by a restart, by a purge, or
               \* by a row that could not be deleted
    jobs,
    restarts

tables == <<group, recorded, wired, toWorker, toMaster>>
vars   == <<group, recorded, wired, toWorker, toMaster, config, channel, job, promised,
            issued, raced, left, jobs, restarts>>

GroupRows == [name : Names, status : {"active", "archived"}, backend : AllBackends]

\* `at` is the await an action is in
Jobs == [cmd : {"create", "resume", "destroy", "switch", "cleanup"},
         at : {"resolve", "channel", "deleting", "listing", "listed", "reaping"},
         name : Names \cup {None},
         group : Groups \cup {None},
         backend : AllBackends \cup {None},
         chan : Chans \cup {None},  \* made by Discord for this job, or being deleted
         todo : SUBSET Chans,       \* still to be deleted, or listed by Discord
         young : SUBSET Chans]      \* history: channels other jobs had in the making

TypeOK ==
    /\ group \in [Groups -> GroupRows \cup {None}]
    /\ recorded \subseteq Chans
    /\ wired \in [Groups -> SUBSET Chans]
    /\ toWorker \in [Names -> Groups \cup {None}]
    /\ toMaster \subseteq Groups
    /\ config \in [Names -> AllBackends \cup {None}]
    /\ channel \in [Chans -> {"unused", "live", "gone"}]
    /\ job \in [Callers -> Jobs \cup {None}]
    /\ promised \in [Names -> Groups \cup {None}]
    /\ issued \subseteq Groups
    /\ raced \subseteq Names
    /\ left \subseteq Chans
    /\ jobs \in Nat
    /\ restarts \in Nat

Init ==
    /\ group = [g \in Groups |-> None]
    /\ recorded = {}
    /\ wired = [g \in Groups |-> {}]
    /\ toWorker = [n \in Names |-> None]
    /\ toMaster = {}
    /\ config = [n \in Names |-> None]
    /\ channel = [h \in Chans |-> "unused"]
    /\ job = [s \in Callers |-> None]
    /\ promised = [n \in Names |-> None]
    /\ issued = {}
    /\ raced = {}
    /\ left = {}
    /\ jobs = 0
    /\ restarts = 0

-----------------------------------------------------------------------------
(* Commands                                                                *)

Idle == [cmd |-> "create", at |-> "resolve", name |-> None, group |-> None,
         backend |-> None, chan |-> None, todo |-> {}, young |-> {}]

\* getAgentGroupByFolder
Holds(n, g) == group[g] # None /\ group[g].name = n

Taken(n) == \E g \in Groups : Holds(n, g)

\* the model of other backends is taken as it is, without giving up the thread
Turn(s) ==
    \A t \in {u \in Callers \ {s} : job[u] # None} :
        job[t].at = "resolve" => job[t].backend \in Shimmed

\* other actions on the name, for the history
Meets(s, n) == \E t \in Callers \ {s} : job[t] # None /\ job[t].name = n

Command(s, n) ==
    /\ Turn(s)
    /\ job[s] = None
    /\ jobs < MaxJobs
    /\ jobs' = jobs + 1
    /\ raced' = IF Meets(s, n) THEN raced \cup {n} ELSE raced
    /\ UNCHANGED issued

\* create_worker of a new name, up to the first await
Create(s, n, b) ==
    /\ Command(s, n)
    /\ ~Taken(n)
    /\ toWorker[n] = None
    /\ job' = [job EXCEPT ![s] = [Idle EXCEPT !.name = n, !.backend = b]]
    /\ UNCHANGED <<tables, config, channel, promised, left, restarts>>

\* the same with fresh = true: everything of the archived worker goes first
\* (purgeArchivedWorker); a destination of that name that leads elsewhere stays,
\* and then there is no new worker
CreateFresh(s, n, b, g) ==
    LET gone == {h \in wired[g] : \A o \in Groups \ {g} : h \notin wired[o]} IN
    /\ Command(s, n)
    /\ Holds(n, g)
    /\ group[g].status = "archived"
    /\ group' = [group EXCEPT ![g] = None]
    /\ wired' = [wired EXCEPT ![g] = {}]
    /\ recorded' = recorded \ gone
    /\ toWorker' = [m \in Names |-> IF toWorker[m] = g THEN None ELSE toWorker[m]]
    /\ toMaster' = toMaster \ {g}
    /\ config' = [config EXCEPT ![n] = None]
    /\ job' = IF toWorker'[n] = None
              THEN [job EXCEPT ![s] = [Idle EXCEPT !.name = n, !.backend = b]] ELSE job
    /\ promised' = [promised EXCEPT ![n] = None]
    /\ UNCHANGED <<channel, left, restarts>>

(* The purge throws halfway, at a row that another table refers to (foreign *)
(* keys are on; an open question about a sender of the channel, a member of *)
(* the worker): at the row of a channel, whose wiring is gone, or at the    *)
(* last one, the group's.  What was deleted before stays deleted.           *)
PurgeFails(s, n, g) ==
    LET unshared(S) == {h \in S : \A o \in Groups \ {g} : h \notin wired[o]} IN
    /\ Command(s, n)
    /\ Holds(n, g)
    /\ group[g].status = "archived"
    /\ \/ \E h \in unshared(wired[g]), gone \in SUBSET wired[g] :
             /\ h \notin gone
             /\ wired' = [wired EXCEPT ![g] = @ \ (gone \cup {h})]
             /\ recorded' = recorded \ unshared(gone)
             /\ left' = left \cup {h}
             /\ UNCHANGED <<toWorker, toMaster, config>>
       \/ /\ wired' = [wired EXCEPT ![g] = {}]
          /\ recorded' = recorded \ unshared(wired[g])
          /\ toWorker' = [m \in Names |-> IF toWorker[m] = g THEN None ELSE toWorker[m]]
          /\ toMaster' = toMaster \ {g}
          /\ config' = [config EXCEPT ![n] = None]
          /\ UNCHANGED left
    /\ UNCHANGED <<group, channel, job, promised, restarts>>

CreateResumes(s, n, b, g) ==
    /\ Command(s, n)
    /\ Holds(n, g)
    /\ group[g].status = "archived"
    /\ job' = [job EXCEPT ![s] = [Idle EXCEPT !.cmd = "resume", !.name = n, !.group = g,
                                              !.backend = b]]
    /\ UNCHANGED <<tables, config, channel, promised, left, restarts>>

Switch(s, n, b, g) ==
    /\ Command(s, n)
    /\ Holds(n, g)
    /\ group[g].status = "active"
    /\ job' = [job EXCEPT ![s] = [Idle EXCEPT !.cmd = "switch", !.name = n, !.group = g,
                                              !.backend = b]]
    /\ UNCHANGED <<tables, config, channel, promised, left, restarts>>

\* the shim does not know the model, or does not answer
NoModel(s) ==
    /\ Turn(s)
    /\ job[s] # None
    /\ job[s].at = "resolve"
    /\ job[s].backend \in Shimmed
    /\ job' = [job EXCEPT ![s] = None]
    /\ UNCHANGED <<tables, config, channel, promised, issued, raced, left, jobs,
                   restarts>>

-----------------------------------------------------------------------------
(* create_worker, resume and switch_backend after the model is resolved    *)

\* the folder is taken by now: createAgentGroup throws
MakeFails(s) ==
    /\ Turn(s)
    /\ job[s] # None
    /\ job[s].cmd = "create" /\ job[s].at = "resolve"
    /\ Taken(job[s].name)
    /\ job' = [job EXCEPT ![s] = None]
    /\ UNCHANGED <<tables, config, channel, promised, issued, raced, left, jobs,
                   restarts>>

Make(s, g) ==
    LET n == job[s].name IN
    /\ Turn(s)
    /\ job[s] # None
    /\ job[s].cmd = "create" /\ job[s].at = "resolve"
    /\ ~Taken(n)
    /\ g \notin issued
    /\ issued' = issued \cup {g}
    /\ group' = [group EXCEPT ![g] = [name |-> n, status |-> "active",
                                      backend |-> job[s].backend]]
    /\ config' = [config EXCEPT ![n] = job[s].backend]
    /\ job' = [job EXCEPT ![s].group = g, ![s].at = "channel"]
    /\ UNCHANGED <<recorded, wired, toWorker, toMaster, channel, promised, raced, left,
                   jobs, restarts>>

\* updateAgentGroup by id: no row, no effect
Updated(g, status, b) ==
    group' = IF group[g] = None THEN group
             ELSE [group EXCEPT ![g].status = status, ![g].backend = b]

\* the master's destination and the one back; the latter's insert fails without the group
Destinations(s) ==
    LET n == job[s].name
        g == job[s].group
    IN  /\ toWorker' = [toWorker EXCEPT ![n] = IF @ = None THEN g ELSE @]
        /\ toMaster' = IF group'[g] # None THEN toMaster \cup {g} ELSE toMaster
        /\ promised' = IF group'[g] # None THEN [promised EXCEPT ![n] = g] ELSE promised

\* the worker was purged meanwhile: the update of its row has no effect, and
\* there is no folder to write container.json to, so the action throws
ResumeFails(s) ==
    /\ Turn(s)
    /\ job[s] # None
    /\ job[s].cmd \in {"resume", "switch"} /\ job[s].at = "resolve"
    /\ config[job[s].name] = None
    /\ job' = [job EXCEPT ![s] = None]
    /\ UNCHANGED <<tables, config, channel, promised, issued, raced, left, jobs,
                   restarts>>

\* a worker destroyed without its channel keeps it
ResumeKeeps(s) ==
    LET g == job[s].group IN
    /\ Turn(s)
    /\ job[s] # None
    /\ job[s].cmd = "resume" /\ job[s].at = "resolve"
    /\ config[job[s].name] # None
    /\ wired[g] # {}
    /\ Updated(g, "active", job[s].backend)
    /\ config' = [config EXCEPT ![job[s].name] = job[s].backend]
    /\ Destinations(s)
    /\ job' = [job EXCEPT ![s] = None]
    /\ UNCHANGED <<recorded, wired, channel, issued, raced, left, jobs, restarts>>

\* faulty variant: the channel that is there is not looked for
ResumeProvisionsAnyway(s) ==
    LET g == job[s].group IN
    /\ Turn(s)
    /\ job[s] # None
    /\ job[s].cmd = "resume" /\ job[s].at = "resolve"
    /\ config[job[s].name] # None
    /\ Updated(g, "active", job[s].backend)
    /\ config' = [config EXCEPT ![job[s].name] = job[s].backend]
    /\ job' = [job EXCEPT ![s].at = "channel"]
    /\ UNCHANGED <<recorded, wired, toWorker, toMaster, channel, promised, issued, raced,
                   left, jobs, restarts>>

ResumeProvisions(s) ==
    LET g == job[s].group IN
    /\ Turn(s)
    /\ job[s] # None
    /\ job[s].cmd = "resume" /\ job[s].at = "resolve"
    /\ config[job[s].name] # None
    /\ wired[g] = {}
    /\ Updated(g, "active", job[s].backend)
    /\ config' = [config EXCEPT ![job[s].name] = job[s].backend]
    /\ job' = [job EXCEPT ![s].at = "channel"]
    /\ UNCHANGED <<recorded, wired, toWorker, toMaster, channel, promised, issued, raced,
                   left, jobs, restarts>>

Switched(s) ==
    LET g == job[s].group IN
    /\ Turn(s)
    /\ job[s] # None
    /\ job[s].cmd = "switch" /\ job[s].at = "resolve"
    /\ config[job[s].name] # None
    /\ group' = IF group[g] = None THEN group
                ELSE [group EXCEPT ![g].backend = job[s].backend]
    /\ config' = [config EXCEPT ![job[s].name] = job[s].backend]
    /\ job' = [job EXCEPT ![s] = None]
    /\ UNCHANGED <<recorded, wired, toWorker, toMaster, channel, promised, issued, raced,
                   left, jobs, restarts>>

-----------------------------------------------------------------------------
(* Provisioning                                                            *)

\* Discord makes the channel; its answer is still on the way
DiscordMakes(s, h) ==
    /\ job[s] # None
    /\ job[s].at = "channel" /\ job[s].chan = None
    /\ channel[h] = "unused"
    /\ channel' = [channel EXCEPT ![h] = "live"]
    /\ job' = [job EXCEPT ![s].chan = h]
    /\ UNCHANGED <<tables, config, promised, issued, raced, left, jobs, restarts>>

\* what follows the provisioning, whatever came of it: a new worker's name may
\* be a destination of the master by now, and then its insert throws
Introduce(s) ==
    IF job[s].cmd = "create" /\ toWorker[job[s].name] # None
    THEN UNCHANGED <<toWorker, toMaster, promised>>
    ELSE Destinations(s)

\* the channel and its wiring; the latter's insert fails, and is logged, when the
\* group was purged meanwhile
Provisioned(s) ==
    LET g == job[s].group
        h == job[s].chan
    IN
    /\ Turn(s)
    /\ job[s] # None
    /\ job[s].at = "channel" /\ h # None
    /\ recorded' = recorded \cup {h}
    /\ wired' = IF group[g] # None THEN [wired EXCEPT ![g] = @ \cup {h}] ELSE wired
    /\ left' = IF group[g] # None THEN left ELSE left \cup {h}
    /\ UNCHANGED group
    /\ Introduce(s)
    /\ job' = [job EXCEPT ![s] = None]
    /\ UNCHANGED <<config, channel, issued, raced, jobs, restarts>>

\* Discord is not configured, refuses, or its answer is lost
NotProvisioned(s) ==
    /\ Turn(s)
    /\ job[s] # None
    /\ job[s].at = "channel"
    /\ UNCHANGED group
    /\ Introduce(s)
    /\ job' = [job EXCEPT ![s] = None]
    /\ UNCHANGED <<recorded, wired, config, channel, issued, raced, left, jobs, restarts>>

-----------------------------------------------------------------------------
(* destroy_worker                                                          *)

\* faulty variant: the master keeps its destination
ArchiveAlone(n, g) ==
    /\ toMaster' = toMaster \ {g}
    /\ group' = IF group[g] = None THEN group ELSE [group EXCEPT ![g].status = "archived"]
    /\ promised' = [promised EXCEPT ![n] = None]
    /\ UNCHANGED toWorker

\* destinations are dropped by their target, the group is archived
Archive(n, g) ==
    /\ toWorker' = [m \in Names |-> IF toWorker[m] = g THEN None ELSE toWorker[m]]
    /\ toMaster' = toMaster \ {g}
    /\ group' = IF group[g] = None THEN group ELSE [group EXCEPT ![g].status = "archived"]
    /\ promised' = [promised EXCEPT ![n] = None]

\* delete_channel = false, or no channel
Destroy(s, n, g) ==
    /\ Command(s, n)
    /\ Holds(n, g)
    /\ group[g].status = "active"
    /\ Archive(n, g)
    /\ UNCHANGED <<recorded, wired, config, channel, job, left, restarts>>

\* the wiring goes before Discord is asked to delete the channel
DestroyWith(s, n, g, h) ==
    /\ Command(s, n)
    /\ Holds(n, g)
    /\ group[g].status = "active"
    /\ h \in wired[g]
    /\ wired' = [wired EXCEPT ![g] = @ \ {h}]
    /\ job' = [job EXCEPT ![s] =
                 [Idle EXCEPT !.cmd = "destroy", !.at = "deleting", !.name = n,
                              !.group = g, !.chan = h, !.todo = wired[g] \ {h}]]
    /\ UNCHANGED <<group, recorded, toWorker, toMaster, config, channel, promised, left,
                   restarts>>

DiscordDeletes(s) ==
    /\ job[s] # None
    /\ job[s].at = "deleting"
    /\ channel[job[s].chan] = "live"
    /\ channel' = [channel EXCEPT ![job[s].chan] = "gone"]
    /\ UNCHANGED <<tables, config, job, promised, issued, raced, left, jobs, restarts>>

\* deleted or not, the row of the channel goes, unless DeleteBlocked; then the
\* next channel
DeletedNext(s, h) ==
    LET g == job[s].group IN
    /\ Turn(s)
    /\ job[s] # None
    /\ job[s].at = "deleting"
    /\ h \in job[s].todo
    /\ recorded' = recorded \ {job[s].chan}
    /\ wired' = [wired EXCEPT ![g] = @ \ {h}]
    /\ job' = [job EXCEPT ![s].chan = h, ![s].todo = @ \ {h}]
    /\ UNCHANGED <<group, toWorker, toMaster, config, channel, promised, issued, raced,
                   left, jobs, restarts>>

\* faulty variant: the row of the last channel stays
DeletedButRecorded(s) ==
    /\ Turn(s)
    /\ job[s] # None
    /\ job[s].at = "deleting"
    /\ job[s].todo = {}
    /\ Archive(job[s].name, job[s].group)
    /\ job' = [job EXCEPT ![s] = None]
    /\ UNCHANGED <<recorded, wired, config, channel, issued, raced, left, jobs, restarts>>

DeletedLast(s) ==
    /\ Turn(s)
    /\ job[s] # None
    /\ job[s].at = "deleting"
    /\ job[s].todo = {}
    /\ recorded' = recorded \ {job[s].chan}
    /\ Archive(job[s].name, job[s].group)
    /\ job' = [job EXCEPT ![s] = None]
    /\ UNCHANGED <<wired, config, channel, issued, raced, left, jobs, restarts>>

(* deleteMessagingGroup throws while a pending approval refers to the row: *)
(* during the await a mention in the channel, recorded and not wired, asks *)
(* the owner about it.  Who asks, and whether an answer came first, is the *)
(* front door's; here the row may go or stay.  The action is over, and its *)
(* next delivery no longer finds the channel among the worker's.           *)
DeleteBlocked(s) ==
    /\ Turn(s)
    /\ job[s] # None
    /\ job[s].at = "deleting"
    /\ left' = left \cup {job[s].chan}
    /\ job' = [job EXCEPT ![s] = None]
    /\ UNCHANGED <<tables, config, channel, promised, issued, raced, jobs, restarts>>

-----------------------------------------------------------------------------
(* cleanup_workers                                                         *)

Cleanup(s) ==
    /\ Turn(s)
    /\ job[s] = None
    /\ jobs < MaxJobs
    /\ jobs' = jobs + 1
    /\ job' = [job EXCEPT ![s] = [Idle EXCEPT !.cmd = "cleanup", !.at = "listing"]]
    /\ UNCHANGED <<tables, config, channel, promised, issued, raced, left, restarts>>

DiscordLists(s) ==
    /\ job[s] # None
    /\ job[s].at = "listing"
    /\ job' = [job EXCEPT ![s].at = "listed",
                          ![s].todo = {h \in Chans : channel[h] = "live"}]
    /\ UNCHANGED <<tables, config, channel, promised, issued, raced, left, jobs,
                   restarts>>

InTheMaking == {job[t].chan : t \in {u \in Callers : job[u] # None /\ job[u].at = "channel"}}

\* faulty variant: channels of archived workers count as orphans
ListReadOfActive(s) ==
    LET active == {g \in Groups : group[g] # None /\ group[g].status = "active"} IN
    /\ Turn(s)
    /\ job[s] # None
    /\ job[s].at = "listed"
    /\ job' = [job EXCEPT ![s].at = "reaping",
                          ![s].todo = @ \ UNION {wired[g] : g \in active},
                          ![s].young = InTheMaking \ {None}]
    /\ UNCHANGED <<tables, config, channel, promised, issued, raced, left, jobs,
                   restarts>>

\* the tables are read when the list is there; what no row points at is an orphan
ListRead(s) ==
    /\ Turn(s)
    /\ job[s] # None
    /\ job[s].at = "listed"
    /\ job' = [job EXCEPT ![s].at = "reaping", ![s].todo = @ \ recorded,
                          ![s].young = InTheMaking \ {None}]
    /\ UNCHANGED <<tables, config, channel, promised, issued, raced, left, jobs,
                   restarts>>

\* Discord deletes an orphan, or does not
Reap(s, h) ==
    /\ Turn(s)
    /\ job[s] # None
    /\ job[s].at = "reaping"
    /\ h \in job[s].todo
    /\ channel' \in {channel, [channel EXCEPT ![h] = "gone"]}
    /\ job' = [job EXCEPT ![s].todo = @ \ {h}]
    /\ UNCHANGED <<tables, config, promised, issued, raced, left, jobs, restarts>>

\* the list fails, a dry run only reports, or all is done
CleanupEnds(s) ==
    /\ Turn(s)
    /\ job[s] # None
    /\ job[s].cmd = "cleanup"
    /\ job' = [job EXCEPT ![s] = None]
    /\ UNCHANGED <<tables, config, channel, promised, issued, raced, left, jobs,
                   restarts>>

-----------------------------------------------------------------------------

Restart ==
    /\ restarts < MaxRestarts
    /\ restarts' = restarts + 1
    /\ left' = left \cup {job[s].chan : s \in {t \in Callers : job[t] # None
                                                            /\ job[t].at = "deleting"}}
    /\ job' = [s \in Callers |-> None]
    /\ UNCHANGED <<tables, config, channel, promised, issued, raced, jobs>>

Next ==
    \/ \E s \in Callers, n \in Names :
          \/ \E b \in AllBackends : \/ Create(s, n, b)
                                    \/ \E g \in Groups : \/ CreateFresh(s, n, b, g)
                                                          \/ CreateResumes(s, n, b, g)
                                                          \/ Switch(s, n, b, g)
          \/ \E g \in Groups : \/ Destroy(s, n, g) \/ PurgeFails(s, n, g)
                               \/ \E h \in Chans : DestroyWith(s, n, g, h)
    \/ \E s \in Callers :
          \/ NoModel(s) \/ MakeFails(s) \/ ResumeFails(s) \/ ResumeKeeps(s)
          \/ ResumeProvisions(s) \/ Switched(s) \/ Provisioned(s) \/ NotProvisioned(s)
          \/ DiscordDeletes(s) \/ DeletedLast(s) \/ DeleteBlocked(s)
          \/ Cleanup(s) \/ DiscordLists(s) \/ ListRead(s) \/ CleanupEnds(s)
          \/ \E g \in Groups : Make(s, g)
          \/ \E h \in Chans : DiscordMakes(s, h) \/ DeletedNext(s, h) \/ Reap(s, h)
    \/ Restart

Spec == Init /\ [][Next]_vars

-----------------------------------------------------------------------------
(* Properties                                                              *)

\* cleanup_workers deletes no channel of a worker but one that was being made
\* while it read the tables: Discord is listed before the tables are read, and
\* channels recorded between the two are spared.
CleanupSpares ==
    \A s \in Callers :
        job[s] # None /\ job[s].at = "reaping" =>
            \A g \in Groups : job[s].todo \cap wired[g] \subseteq job[s].young

\* A worker gets no second channel ("we shouldn't create a second",
\* create-worker.ts), as long as no two actions on its name overlap: archived with its
\* channel or without, cut off by a restart, refused by Discord.
OneChannel ==
    \A g \in Groups :
        group[g] # None /\ group[g].name \notin raced => Cardinality(wired[g]) <= 1

\* What the master was told holds: a worker reported as created or resumed is
\* active and each has a destination for the other until it is destroyed, and no
\* destination leads to an archived or purged worker. Overlapping actions on
\* one name are exempt.
PromiseKept ==
    \A n \in Names \ raced :
        LET g == promised[n] IN
        /\ g # None => /\ group[g] # None
                       /\ group[g].status = "active"
                       /\ toWorker[n] = g
                       /\ g \in toMaster
        /\ toWorker[n] # None => /\ group[toWorker[n]] # None
                                  /\ group[toWorker[n]].status = "active"

\* cleanup_workers can find what is left over: a recorded channel without a
\* wiring, which hides from it, is being deleted, or was left so in the middle of
\* an action: by a restart, by a purge of the group, or by a row that another
\* refers to ("so destroy can retry safely", discord-channel.ts, does not hold of
\* that one: the retry no longer finds it).
LeftoversAreFound ==
    \A h \in recorded \ left :
        \/ \E g \in Groups : h \in wired[g]
        \/ \E s \in Callers : job[s] # None /\ job[s].at = "deleting" /\ job[s].chan = h
=============================================================================
