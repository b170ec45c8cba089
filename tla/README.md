# nanoclaw-fleet in TLA+

TLA+ models of the host and the container runner of nanoclaw-fleet, TLC
configurations that check them on small instances, and TLAPS proofs of the
safety properties for every value of the constants. Paths are relative to the
repository; `src/src` is the host and `src/container/agent-runner/src` (short:
`runner`) is the program inside a session's container.

## 1. The system

One host process (Node, one thread, interleaving at awaits) serves many
*sessions*. A session is a conversation of one agent group with one chat (or
thread) and owns a folder with two SQLite files and a heartbeat file:

| file | writer | tables |
|---|---|---|
| `inbound.db` | host only | `messages_in`, `delivered`, `destinations`, `session_routing` |
| `outbound.db` | container only | `messages_out`, `processing_ack`, `session_state`, `container_state` |
| `.heartbeat` | container | only its mtime counts |

A docker container per session runs the agent. The two programs share nothing
but these files: the container claims and completes rows in `processing_ack`,
and the host copies that back into `messages_in`. A central database holds
sessions, groups, wirings, roles and what waits for a user (questions,
approvals).

    user -> channel adapter -> router -> messages_in -> poll loop -> provider
                                 |  wake      ^                        |
                                 v            | sync, retry, fail      v
                        container-runner <- host sweep           messages_out
                                                                       |
    user <- channel adapter  <-  delivery (active poll, sweep poll, wake)
            other agents, system actions <-'

### Inventory

*State* is what the component keeps; *hard* is what a test hardly reaches;
*correct* is what makes it right.

| component | state | operations | hard | correct |
|---|---|---|---|---|
| Inbound session queue (`db/session-db.ts`, `runner/db/messages-in.ts`) | `messages_in`, `processing_ack` | insert, due, claim, complete, sync, retry, fail | two writers, no lock; claims outlive containers | nothing dropped, terminal rows final, backoff respected |
| Host sweep (`host-sweep.ts`) | timer; heartbeat mtime | sync, wake, inspect, kill, reset, recurrence | acts on a claim read before a wake or a kill | stuck containers die, live work survives, every row settles |
| Container lifecycle (`container-runner.ts`, `container-runtime.ts`) | `activeContainers`, `wakePromises`, `lastExitMs` | wake, spawn, close, kill, cleanup of orphans | wakes from five places; exits during spawns; host restarts | one poll loop per session |
| Container poll loop (`runner/poll-loop.ts`) | batch, open query | fetch, claim, commands, scripts, query, follow-ups, results | a provider that wedges; follow-ups during a query | one prompt per row and container |
| Router (`router.ts`, `command-gate.ts`) | wirings, sessions | engage, fan-out, accumulate | session created by an accumulated message counts as engagement; one agent's failure ends the fan-out | each engaged agent gets one row |
| Session manager (`session-manager.ts`, `db/sessions.ts`) | sessions, folders | resolve, write | find-then-create | one session per key |
| Outbound delivery (`delivery.ts`, `outbound-wake.ts`, the bridge in `index.ts`) | `delivered`, in-flight set, attempts | drain, deliver, retry, give up | three callers; crash between send and record | each row takes effect once, in order, and settles |
| Outbound sequence numbers (`runner/db/messages-out.ts`) | `seq` | allocate odd | two processes read MAX, then insert | ids unique over both tables |
| Scheduling (`modules/scheduling`) | task rows, series | insert, update, cancel, pause, resume, recur | crash between insert and clear; ack races cancel | one live occurrence per series |
| Interactive questions (`modules/interactive`, `runner/mcp-tools/interactive.ts`) | `pending_questions` | ask, answer, time out | answer races retry and timeout | shown cards answerable, answered once |
| Approvals (`modules/approvals`) | `pending_approvals`, resolvers, timers | request, approve, deny, expire | click during the handler; click before the row; timer against click | decided once, applied once |
| Permissions (`modules/permissions`) | roles, pending senders and channels | gate, request, approve | in-flight check, await, insert | one card per sender; no silent lockout |
| Fleet (`modules/fleet`) | agent groups, channels, wirings, containers | create, resume, purge, destroy, switch, clean up | multi-step with awaits against three systems | no half-made or wrongly removed worker |
| Agent-to-agent (`modules/agent-to-agent`) | destinations | route, create agent | rejected wake after the write | routed once per row |
| Self modification | approvals, config | install, add server, restart | kill of the container that asked | restart takes the new configuration |
| Status indicators (pin, throbber, typing, startup notice) | timers, message ids, reactions | tick, scan, react, refresh, clear | overlapping ticks; calls nobody awaits | the current pin stays; no reaction is left behind |
| Resource monitor | alert level | poll, alert (which throws: the outbound handle is readonly) | hysteresis | no flapping |
| Channels (`channels/`) | SDK connections, threads | receive, split, send, retry, edit | a piece that is rejected; parallel downloads; a listener that ends | the reported id heads a whole reply |
| Central database, SDK state (`state-sqlite.ts`) | tables; locks, claims and queues of the Chat SDK | accessors; lock, release, claim, queue | a handler that outlives its lock | one holder at a time |
| Container providers (`runner/providers`) | provider process, SDK session | query, push, events | hang, crash, late result; /clear against an open query | a cleared session is not resumed |
| Container MCP tools | – | outbound rows; edits and reactions by number | a process beside the poll loop | a number keeps its meaning |
| Spawning (`container-runner.ts`, `claude-md-compose.ts`, `group-init.ts`, `mount-security`) | group files, allowlist and its cache, credentials | initialise, migrate, compose, validate, start | memory moved at start, composed at every spawn; a cached list | memory kept; nothing mounted that was not allowed |
| Backend shim (`tools/anthropic-shim.ts`) | config and its cache, a stream's blocks | translate both ways | blocks opened and closed by chunks of another protocol | both shapes are kept |
| Setup (`setup/`) | the machine, log, skip list | steps, channel drivers, retries, re-exec | a retry after a step that half worked | "ready" means done |
| Operator scripts | – | run by hand | – | – |

`PROJECT.json` lists the same components with their files, and every hazard at
its line with the property that watches it, or the reason none does.

## 2. The modules

| module | what it is | lines it rests on |
|---|---|---|
| `SessionQueue` | the inbound life of a session: host, docker and poll loop over both tables | `host-sweep.ts`, `container-runner.ts`, `db/session-db.ts`, `runner/poll-loop.ts`, `runner/db/messages-in.ts` |
| `SessionQueueProofs` | type correctness; one poll loop per session, claims, backoff, one prompt per container and charge, final statuses, nothing dropped | |
| `Outbox` | abstract: a message takes effect while nothing is recorded of it, is recorded once, eventually | |
| `Delivery` | the way out: three concurrent callers, attempts, question cards, restarts; implements `Outbox` | `delivery.ts`, `outbound-wake.ts`, `index.ts`, `modules/interactive` |
| `DeliveryProofs` | type correctness, accounting of effects, question cards, order, safety of the refinement | |
| `Scheduling` | series of task occurrences: commands and containers between the awaits of the sweep | `modules/scheduling`, `host-sweep.ts`, `db/session-db.ts` |
| `SchedulingProofs` | type correctness; a series neither forks nor gets lost, a cancelled one is over, runs do not overlap | |
| `FrontDoor` | the way in: router, engagement, strangers, approvals of senders and channels, replays | `router.ts`, `command-gate.ts`, `modules/permissions`, `db/sessions.ts` |
| `FrontDoorProofs` | types; strangers, cards, traces and replays | |
| `Approvals` | what an admin must allow: self-modification, credentials OneCLI holds | `modules/approvals`, `modules/self-mod` |
| `ApprovalsProofs` | credentials in time, agents told | |
| `Fleet` | the master's commands on workers, interleaving at their awaits | `modules/fleet` |
| `Outgoing` | numbers and replies of the two writers in a container | `runner/db/messages-out.ts`, `runner/poll-loop.ts`, `runner/mcp-tools` |
| `Conversation` | which SDK session a query goes back to; /clear | `runner/poll-loop.ts`, `runner/db/session-state.ts`, `runner/providers/claude.ts` |
| `Spawn` | what a container is started with: group files, mounts, credentials | `container-runner.ts`, `claude-md-compose.ts`, `group-init.ts`, `modules/mount-security`, `worker-profile.ts` |
| `Shim` | requests and streams translated between two model APIs | `tools/anthropic-shim.ts` |
| `StatusPin` | one pinned message per channel, ticks overlapping | `modules/status-pin` |
| `Indicators` | reactions and typing of one session | `modules/throbber`, `modules/typing` |
| `SdkState` | locks, claims and queues of the Chat SDK | `state-sqlite.ts` |
| `Bridge` | inbound handlers, split replies, the gateway listener | `channels/chat-sdk-bridge.ts` |
| `SetupSteps` | what each installer step and channel driver does to a machine | `setup/*.ts`, `setup/*.sh`, `setup/channels`, `scripts/init-*-agent.ts` |
| `Setup` | the installer around them: order, failures, retries, re-exec | `setup/auto.ts`, `setup/lib/runner.ts` |
| `Operations` | the twelve components beside the queues, side by side in one specification | |
| `ChannelProofs` | status pin, SDK state, reactions and typing, replies of the bridge | |
| `AgentProofs` | conversations, group files and grants of a spawn, message numbers, both translations of the shim | |
| `FleetProofs` | workers, channels and promises of the fleet; the installer | |
| `MC*` | finite constants for TLC | |

### SessionQueue

Processes and their steps (each action is everything between two awaits, with
every call it makes):

* Host: `Route`, `AnswerQuestion`, `ScheduleTask` insert a row and (but for
  tasks and accumulated messages) call `WakeContainer`, which does nothing for
  a session that runs, is being spawned, or has just exited. `SpawnDone` and
  `SpawnFails` end the await in `spawnContainer`; `Close` is the client's
  `close` event; `OperatorKill` is a fleet command. One sweep pass is
  `SweepStart` (sync, wake), `SweepInspect` (which may reset the claims of a
  session without container), `SweepKill` and `SweepReset`: containers move
  between them, the rest of the host cannot (`HostFree`).
  `HostCrash`/`HostStart` lose the memory, keep the disk and the containers,
  and `cleanupOrphans` stops the latter on start.
* Container: `Boot` (deletes leftover claims), `Fetch`, `Claim`,
  `RunCommands`, `RunScripts`, `FollowUp`, `Progress` (an event touches the
  heartbeat), `Result`, `EndQuery`, `TakeAnswer`, `Crash`, `Hang`.
* Time: `ClaimAges`, `BackoffElapses`, `CoolingOver`, `SecondEnds`.

Data are abstracted to what the code compares. A row is status, tries, "process
after lies ahead", trigger, kind and insertion rank; an ack is its status, "older
than its tolerance", "heartbeat is younger". The claim's time is cut to the
second (`datetime('now')`) and the heartbeat's is not, so a heartbeat of the
second in which the claim is made is younger than it: `fresh` is true from a
heartbeat until `SecondEnds`, and `Claim` takes it over. History variables (`prompts`,
`fate`, `failedStop`, `faults`, the box's `seen`) only record.
Not in the model: recurrence, message text, timestamps (a host in UTC is assumed),
several sessions (`SpawnFails` ends the pass of the only one).

### Delivery

Three kinds of caller drain rows: `active` and `sweep` polls visit a set of
sessions one after the other (`StartPoll`, then `Visit` once per session), and
each session has at most one wake call (`Wake`). `Visit` is
`deliverSessionMessages` up to its first await: it skips a session in flight or
without rows (`Skip`), or takes it and reads its rows once (`Enter`).
`Attempt` is `deliverMessage` up to its await (permission checks that throw,
`createPendingQuestion`, rows that return without being sent); `Accept` and
`Reject` are what the adapter, the agent route or the action handler did;
`Delivered` records it; `Threw` is the catch block with its counter. `Advance`
is part of both. `Answer` is the click on a question card. `HostStops` is a
crash or a shutdown (which awaits no drain): memory is lost and a send under
way may land or not.

An *effect* is what the outside sees: a post in a chat, a row in another
agent's inbox, an executed system action. `unsure` counts, per row, the effects
that the host did not learn of or did not record; it is a history variable, as
are `effects`, `throws`, `answers`, `restarts` and `dbFailed`.
Not in the model: `deliver_after` (no caller in the repository sets it),
attachments, typing indicators, cards without title or options, exceptions of
`markDeliveryFailed`, and statements after `markDelivered` that throw.

### Scheduling

A series is a chain of rows of one `series_id`; row `<<s, n>>` is its n-th
occurrence and a row that is live or still has a recurrence is a *token*: it
can bring about another run. The sweep stops at its awaits (`pc`): `SweepWakes`
ends at the wake and `SweepWoken` goes on after it, `SweepThrough` is the same
without a wake, `Collect` is `getCompletedRecurring`, and for each row
`InsertNext` and `ClearLast` are the two statements of `handleRecurrence`, with
only a crash or an error between them (`HostFree` keeps the commands out).
`Skip` and `ClearFails` are its catch block. `Schedule`, `Cancel`, `Pause`,
`Resume` and `Update` are what the delivery loop applies for the agent, by
series id or by the id of any occurrence it has seen. The container is reduced
to `Start`, `Take`, `Finish` and `Crash`; reading rows and marking them is one
step, since nothing the host does depends on the gap. `ended`, `held` and
`torn` are history: how a series was told to end, that it was paused by its
series id, that its clearing was cut off. Time, tries and the reason of a kill
are left to `SessionQueue`: a claim may be given up whenever the sweep resets
claims. A recurrence is one that parses, one that does not, or none.

### FrontDoor

`routeInbound` waits in `wakeContainer` after each agent it reaches, so several
calls of it are under way at once; they are the table `flow`, and `running` is
the one that has the thread. `Ignored`, `Escalate` and `FanOut` are its ways up
to the loop over the wirings; `Consider` is one turn of that loop (engagement,
access gate, sender scope, then delivery, context or nothing), `Woken` and
`WakeFails` end its await, and `Finish` is what follows the loop. Delivery makes
the session before the command gate speaks, as the code does, so that a refused
command engages a thread. A refused command also ends the call: its answer goes
through `writeOutboundDirect` (`router.ts:430`), which inserts through a handle
that was opened readonly (`session-db.ts:29-30`) and throws. `requestSenderApproval` and `requestChannelApproval`
are the table `asks`: `NoOneReached`, `Picked`, `CardSent`, `CardFails`. A click
is `Deny`, `ApproveSender` or `ApproveChannel`; an approval calls the router
again with the stored event, duplicates included (`UNIQUE` of `messages_in`).
`OperatorWires` is a script beside the host, `Restart` loses `flow` and `asks`.
Not in the model: text, names of users, reactions, and pushes to a session whose
wiring changed during a fan-out.

### Approvals

A request of a module (`Installs`, `Servers`) writes its row before the card is
sent; a credential request of the OneCLI gateway writes it after, with its timer
and promise (`Ask`, `NobodyReached`, `Picked`, `CardAppears`, `Sent`,
`SendFails`). `Press` is the bridge decoding a button by the row's options, then
editing the card; after that `Resolve`, `Unclaimed`, `Rejected`, `AddServer`,
`Install` with `Built` are what the answer finds. `TimerFires` and `Expired` are
the two halves of an expiry, `Sweep` is the start's, and `Restart` keeps rows
and cards. The image build is one await with two ends.

### Fleet

Each session of the master has at most one action under way (`job`). `Create`,
`CreateFresh`, `CreateResumes`, `Switch`, `Destroy`, `DestroyWith` and
`Cleanup` are the actions up to their first await, `at` the await they wait in:
the model name asked of the shim, or a call of Discord. Discord acts (`DiscordMakes`,
`DiscordDeletes`, `DiscordLists`, `Reap`) before its answer is read
(`Provisioned`, `DeletedNext`, `DeletedLast`, `ListRead`). The tables are kept
apart (group, recorded chat, wiring, destinations both ways), since a step that
throws leaves some of them behind: `MakeFails`, `ResumeFails`, and, where another
table refers to a row, `DeleteBlocked` (`destroy-worker.ts:89`: a mention in the
channel, recorded and no longer wired, made a pending approval during the await) and
`PurgeFails`. `promised`, `issued`, `raced` and `left` are
history: what the master was told, groups that were ever made (an id is not given
twice), names with two actions at once, leftovers of a restart, a purge or a blocked row. Containers of workers are those of `SessionQueue`.

### Outgoing

The poll loop and the MCP server each run `writeMessageOut`: `Begin`, `ReadsIn`
(the two reads of the highest number) and `Inserts`, or a collision
(`ToolCollides`, `LoopCollides`). The host inserts into `messages_in` only: its
three inserts into `messages_out` (a refused command, an alert of the resource
monitor, the startup notice) go through the readonly handle of `openOutboundDb`
and throw. A turn is `TurnBegins`, `Tool`, `Notice`,
`Result`, `TurnEnds`, with a counter of deliveries in each process.

### Conversation

`runPollLoop`, the provider's query and `session_state`, reduced to session
ids: `memory` is the loop's copy, `stored` the row. `RunCommands` is the look
through a batch for `/clear`; `OpenQuery`, `Started`, `FollowUp`, `Read`,
`TurnDone`, `Closed` and `Throws` are the life of a query; `Boot` and `Crash`
that of the container. `TranscriptLost` makes a stored id one the SDK refuses.

### Spawn

`HostStart` migrates memory and applies worker profiles, `Crash` stops the host
but not the containers. `Prepare` is `spawnContainer` up to its await: read
`container.json`, complete the group's files, compose `CLAUDE.md`, validate
mounts; `PrepareCut` is a host that dies while it composes. `Start` is the
rest: credentials and `docker run`, which refuses two mounts at one place.
Files are reduced to whose text they hold, paths to sequences of directories, a mount
allowlist to its roots, credentials to their kinds. `owed` and `seen` are history. What the host itself passes on (`env`) is kept
apart from what the user's `container_credentials` set (`own`), which may be any
variable, an API key included.

### Shim

A request is translated (`Asked`), refused, answered at once (`Answered`) or
streamed: `StreamStarts`, `Chunk`, `StreamEnds`, `StreamBreaks`,
`ClientLeaves`. `ConfigWritten` is the file it reads at every request, which may
be read half written. Of a message is kept its role, whether it has text, and
its tool calls; of a stream the block events.

### StatusPin and Indicators

`StatusPin` is one channel: `setInterval` does not wait, so several ticks run
at once, each the sequence of calls it awaits (`Begin`, `DiscordLists`,
`Listed`, `Unpin`, `ScanEnds`, `Edited`, `Missing`, `DiscordPosts`, `Posted`,
`PostFails`, `Pins`). Discord acts before the answer is read. `Indicators` is
one session: calls of the platform are not awaited, so they are a set from
which any one `Lands` or `Fails`.

### SdkState and Bridge

`SdkState` is the store behind the Chat SDK: one thread's lock with its token
and expiry, one claimed key, one queue; a handler keeps a copy of the lock it
was given. `Bridge` is the adapter around the SDK: `Dispatch` and `Downloaded`
are the four inbound handlers, `Deliver`, `Post`, `PostFails` and `Returns` an
attempt at a reply of several pieces, and `ListenerEnds`, `StartGateway` and
`Teardown` the gateway listener.

### SetupSteps and Setup

A machine is the set of things in place on it. `SetupSteps` gives for each step
of the installer, and for each step of the seven channel drivers, the ways it
may end on a given machine (`Way`: what it logs, whether its caller goes on,
what the machine has then). `Setup` runs them: `StepEnds`, `DriverStepEnds`,
`ContainerEnds` and `Reexecs` (under `sg docker`), `ChooseChannel`,
`VerifyWorks`, `VerifyFails`, and around them `fail()`: `GivesUp`, or `Retries`
with a new process and the list of what it may leave out. A command that Claude
suggests after a failure (`claude-assist.ts:428`) is any line of bash; `Suggested` lets it
start docker or the service, do nothing, or take something away (`Undoable`). The
next attempt leaves out a finished step by its name (`runner.ts:385-392`), so what
such a command undid stays undone while the installer says "You're ready":
`ReadyMeansDone` claims nothing of a machine on which that happened, and the
model keeps that as a mark on the machine.

### Operations

The twelve components from `FrontDoor` to `Indicators` share no state in this
code but by what is modelled elsewhere, so `Operations` puts them side by side:
`part` selects the one that runs, and the variables of the others are `None`.
The states add up instead of multiplying, and each property of a part is that
of its module, instantiated under the names the variables have here. The
theorems of the parts are theorems of this specification, the one that
`MCOperations` checks. `CHECK_DEADLOCK` is off, since an installer ends, a chat
may fall silent, and counters have bounds. The specifications of these parts
state no fairness: nothing in them promises an end that does not depend on
Discord, a model or a person.

## 3. Runs

| run | spec | asks |
|---|---|---|
| `session_safety` | `Spec` | one poll loop (`OnlyTrackedRuns`), claims owned, nothing dropped, one prompt per container, backoff |
| `session_live` | `AnsweringSpec` | retries charged, final statuses, `ServedInTime`, `SilentWedgeDies` |
| `session_starved` | `AnsweringSpec` | violated: `Served` |
| `session_lost` | `Spec` | violated: `KilledWorkIsRetried` |
| `session_wedged` | `AnsweringSpec` | violated: `WedgedDies` |
| `delivery_safety` | `Spec` | accounting of effects, question cards, order, `KeepsPromise` |
| `delivery_live` | `FairSpec` | `ImplementsOutbox`, with its liveness |
| `delivery_dropped` | `Spec` | violated: `DeliveredMeansEffect` |
| `scheduling` | `FairSpec` | `OneToken`, `SeriesSurvives`, `CancelFinal`, `NoOverlap`, `SeriesGoesOn` |
| `scheduling_paused` | `FairSpec` | violated: `PausedDoesNotRun` |
| `operations` | `SystemSpec` | the 20 safety properties of the components beside the queues |
| `reply_twice` | `Outgoing!Spec` | violated: `RepliesOnce` |

What the violated ones show:

* `session_starved`. `host-sweep.ts:13-15` says that a crashed turn is reset and
  that the retry machinery does the rest. When a row has used its tries it is
  marked failed but its claim stays in `processing_ack` until a container
  boots. With another due row in the session, the pass that wakes a container
  inspects it before it has booted, finds the old claim past its tolerance,
  kills the container, and so on in every pass.
* `session_lost`. `poll-loop.ts:316-318` says that messages of a killed container
  are reset to pending. Follow-ups are completed when pushed, so they are not.
* `session_wedged`. `host-sweep.ts:62-65` says a wedged container always dies.
  One event after the claim makes the heartbeat younger than the claim for
  good, and with the ceiling at its default of 0 nothing else looks at it. A
  heartbeat just before the claim, in the same second, does the same; hence
  `SilentWedgeDies` speaks of containers whose last heartbeat counts as older
  than their claim.
* `delivery_dropped`. `delivery.ts:313-316` calls marking a message delivered
  that was not "the pre-refactor bug". The bridge (`index.ts:160-164`) returns
  when the channel has no adapter, and the message is recorded as delivered.
* `scheduling_paused`. `mcp-tools/scheduling.ts:189` promises that a paused task
  will not run until resumed. The occurrence that runs is a pending row like any other;
  paused meanwhile, it is completed by the ack of its run, its recurrence is
  intact, and the next one is inserted as pending. A pause between the sync and that insertion
  finds no row to change.
* `reply_twice`. `poll-loop.ts:444-446` drops the trailing text of a turn that has
  already answered by a tool. The count it reads is a variable of a module, and the
  MCP server that raises it is another process (`runner/index.ts:73-80`), so the
  loop's own count stays 0 and the user reads the answer twice.

Limits of the code that the model shows and no run is spent on: context-only
rows that arrive during a query bypass the accumulate gate of the idle loop
(`poll-loop.ts:98-105` against `:329`); the LIMIT of `getPendingMessages` is applied before acknowledged
and context-only rows are filtered (`messages-in.ts:62`); `/clear` waits for an open
query that only its provider can end (`poll-loop.ts:331`); a row that crashes
its container is prompted again without a charged try, because the wake precedes the
reset (`host-sweep.ts:200`); a `docker stop` that fails frees the session while the
container may run on (`container-runner.ts:305`). The last is the fault `stray`:
safety properties of the poll loop are stated for `~failedStop`, except
`NothingSilentlyDropped`, which holds regardless. In `Scheduling`: a cancel that
lands between the sync and the insertion matches no row and is lost like a
pause; a crash between `insertRecurrence` and `clearRecurrence` forks the
series for good (`torn`; the properties of forks speak of the other series); an
occurrence out of tries, or a cron expression that does not parse, ends the
series without notice.

Limits met while modelling the other components. Where a model reaches them it
does what the code does; the properties exempt them by name or do not speak of
them.

* `FrontDoor`. Where strangers' messages are accumulated, the approved replay has the
  id of the accumulated row and is taken for a duplicate (`router.ts:446-450`);
  `DroppedIsReplayed` speaks of chats that drop. A session made by an accumulated
  message engages mention-sticky (`router.ts:311`). A wake that rejects ends the
  fan-out (`router.ts:287`). A card that cannot be sent leaves its row, and with
  it every later message of that sender waits for a card nobody has
  (`sender-approval.ts:142`). A refused admin command is never answered, though
  `router.ts:422-423` says that it gets "a permission-denied response written directly
  to messages_out": the insert throws, and the agents after this one get nothing
  either (`cut`). Messages a strict chat "drops" may still be accumulated. The
  table of dropped messages counts per chat and keeps the last reason only.
* `Approvals`. A click on a credential card that arrives before the row is
  decoded as a bare index and lost. The row of an install stays until the image is
  built, so a second click applies the change again
  (`response-handler.ts:95`).
* `Fleet`. A crash in the middle of a destroy, or a pending approval that refers to the
  channel when its row is to go, leaves a recorded chat without wiring. Neither
  `cleanup_workers` nor another destroy sees it, though `discord-channel.ts:98-99`
  ignores errors "so destroy can retry safely"; the same goes for a purge that a
  reference stops. Hence `left`.
  A crash after `createAgentGroup` leaves half a worker; two resumes of one
  name at once provision two channels; a switch may meet a purge; a cleanup may delete a
  channel that is just being made. Hence `raced` and `InTheMaking`.
* `Spawn`. The mounts of a profile are appended to `container.json` at every
  start of the host and every resume (`worker-profile.ts:102-123`), though
  `profile-sync.ts:13` says that it clobbers; docker refuses a mount point that
  comes twice, so from the second start on the worker does not come up (`Doubled` in `Start`). A
  `CLAUDE.md` from before the cutover is overwritten when `CLAUDE.local.md` is there
  as well. When an agent removes its memory, the next start of the host takes the
  composed file for it. A backend or an image changed while a spawn awaits
  OneCLI is not used, and `killContainer` finds nothing to kill
  (`container-runner.ts:299`). `container.json` is written in place, and one that is
  cut off is read as empty (`container-config.ts:134`). `container_credentials` may put
  an API key beside a token, which the SDK then prefers; `OneCredential` speaks of what
  the host passes on. An
  `ANTHROPIC_BASE_URL` of `.env` goes before a backend's own.
* `Shim`. A second tool call starts its block at the index of the one still open, and
  arguments go to the current index whatever call they are of; `KeepsShape`
  speaks of streams with one call (`Ordinary`). An empty
  stream gives an answer without blocks.
* `Outgoing`. Alerts of the resource monitor and the startup notice never reach
  anyone, since the host cannot write to `outbound.db`; `messages-out.ts:69-74`
  names one writer, and there are two; when they choose the same number, the
  loop's answer is replaced by an error. The salvage path of `dispatchResultText`
  sends `<internal>` text.
* `StatusPin`. Overlapping ticks may post two messages; one of them is unpinned later. A tick
  whose edit finds its message gone clears the id another tick has set. A crash between post
  and record leaves a message nobody edits.
* `Indicators`. A reaction under way when the removals land stays, although the
  comment at `throbber/index.ts:214-217` takes the races for covered; so may the
  last one of an overlapping cycle. The container's exit ends typing, not the throbber. A
  retarget keeps chat and thread of the first message (`:143-157`).
* `Bridge`. Parallel downloads may forward messages in another order than they
  came; the promise of `startGateway` is not caught, so a listener that cannot
  start is gone; a retry posts the pieces before the failed one again; edits are not split.
* `Conversation`. A query that throws leaves the loop with the id of before while
  the new one is stored (`poll-loop.ts:213-229`), until the next start. The
  restart banner is put before a prompt whose session was just cleared.
* `Setup`. `register.ts:176-185` passes `trigger_rules` and `response_scope` where
  the statement binds `@engage_mode`, so a new wiring throws; the table of steps
  names a module that is not there (`./groups.js`). The `add-*.sh` scripts look
  for files only, so a retry after a failed install passes. WhatsApp's keys may be
  saved before the device is linked; the retry skips the sign-in and `verify` counts the
  channel. The time zone is logged before it is saved. `whatsapp.ts:71` and
  `teams.ts:394`, among others, do not await `fail()`, as `runner.ts:355-356` demands, and go on
  beside its prompts. `verify` never counts Signal, wants a Slack token no script writes, looks for
  credentials in `.env` only, and does not look at docker. The service step reports success when the
  start failed. All of these are ways of `SetupSteps`; `ReadyMeansDone`
  asks for the image, the gateway's URL, its secret, the mount rules and a wired agent.


### Bounds

| constant | value | why it is enough |
|---|---|---|
| `Msgs` | 2 | one row can be blocked, overtaken, hidden or starved by another; a follow-up needs a batch before it |
| `Boxes` | 2 | a container and its successor or rival; a slot is reused when its container is gone |
| `PromptCap` | 2 | the number of rows; hiding by the limit is listed above |
| `MaxTries` | 1 | a row can be retried and can be given up |
| `MaxFaults` | 1 | one crash, hang, rejected spawn, host death or operator kill; `stray` and `slow` are not counted and go with it |
| `MaxAttempts` | 2 | an attempt that is retried and one that gives up (the code has 3) |
| `MaxRestarts` | 1 | one loss of memory, with drains before and after it |
| `Series`, `MaxRuns` | 2, 2 | a series beside one that is broken, paused or cancelled; an occurrence and its successor. The safety properties are proved for any number |
| `Scheduling!MaxFaults` | 1 | one crash, kill, rejected wake or failing statement at any point |
| `Msgs`, `Agents`, `Flows` (front door) | 2, 2, 2 | a message beside a duplicate or another one; an agent of each kind of wiring; two calls of the router under way |
| `Names`, `Groups`, `Chans`, `Callers`, `MaxJobs` (fleet) | 1, 2, 2, 2, 4 | two commands race for one name, a group is archived and another made, a channel beside an orphan |
| `Clicks`, `MaxAsked` (approvals) | 2, 2 | a second click during the first; one request beside another |
| `MaxChunks` (shim) | 4 | each kind of block, opened, continued, changed and cut off |
| `MaxSeq`, `MaxTurns` (outgoing) | 5, 1 | both processes choose the same number while the host inserts, twice (`reply_twice`: 7, 2) |
| `Ticks`, `Ids` (status pin) | 2, 2 | two ticks, two messages; proved for any number |
| `MaxNow`, `MaxTokens` (SDK state) | 3, 3 | a lock lapses, is taken by another and lapses again; proved for any number |
| `MaxTries`, `MaxPosts` (bridge) | 2, 6 | a reply of three pieces cut off, tried again, with another between |
| `MaxRows`, `MaxSessions`, `MaxCrashes` (conversation) | 4, 3, 2 | a chat, a /clear, a chat; a crash on either side of it; proved for any number |
| `MaxEdits`, `MaxCrashes` (spawn) | 2, 1 | a file edited before and after it was read; a host that dies between two steps |
| `MaxArrivals`, `MaxBeats`, `NumEmojis` (indicators) | 2, 2, 2 | a second message while the first is answered; a reaction replaced by the next |
| `Undoable` (setup) | the image | what a command proposed by Claude may take away; the property asks only whether one did |
| `MaxRetries` (setup) | 1 | one retry with its list of what is done, besides the run under `sg docker`; every channel can be chosen |
| `Sessions` | 1 | concurrency of callers is per session; the specification takes any set |

`SYMMETRY` is used in safety runs only: for boxes, and in `operations` two calls, presses, jobs, handlers,
ticks or messages may change places, all at once (`MCSymmetry`). Each property is also tested
against a faulty variant of a definition (the operators commented *faulty
variant*, listed in `PROJECT.json`), which TLC must find.

### Fairness

`SessionQueue!Fairness`: the sweep timer and the steps of a pass (weak); the
poll loop's own steps, which a wedged provider does not stop (weak); the clock
(weak); `Close` and `SpawnDone` (strong: they wait for the host's event loop, which
the sweep holds now and then). `AnsweringSpec` adds that a provider which has not hung answers.
Nothing is assumed of users, operators, faults, `Progress` or `EndQuery`.

`Delivery!Fairness`: the 60 s poll fires, a started drain goes on, and the outside
answers each send one way or the other. The code has no timeout around
`adapter.deliver`, so the last is an assumption about adapters: an adapter that
never returns holds its session and its poll. The active poll and the wake endpoint
need no fairness; liveness rests on the sweep poll alone.

`Scheduling!Fairness`: the sweep timer, the awaits and the loop over the
completed rows go on (weak). A pending row is due some day, so that a sweep wakes a container
for it; the wake may meet a container that has just exited, but not
each time; a container polls before the idle ceiling is reached (strong,
as each may be interrupted by kills). Commands and faults need none.

## 4. Proofs

The proofs hold for every value of the constants that meets the named ASSUMEs
(which TLC evaluates on the runs). The first four modules prove theorems of the
`Spec` of their component; the last four of `Operations!SystemSpec`, whose part
of that name is the component.

| module | theorem | states |
|---|---|---|
| `SessionQueueProofs` | `TypeCorrect` | `Spec => []TypeOK` |
| `SessionQueueProofs` | `OneLoop` | `Spec => []OnlyTrackedRuns` |
| `SessionQueueProofs` | `ClaimsOwned` | `Spec => []ClaimsAreOwned` |
| `SessionQueueProofs` | `BackoffHolds` | `Spec => BackoffRespected` |
| `SessionQueueProofs` | `PromptedOnce` | `Spec => OncePerContainer` |
| `SessionQueueProofs` | `TerminalStays` | `Spec => TerminalIsFinal` |
| `SessionQueueProofs` | `NothingDropped` | `Spec => []NothingSilentlyDropped` |
| `SessionQueueProofs` | `RetriesAreCharged` | `Spec => []PromptsAreCharged` |
| `DeliveryProofs` | `TypeCorrect` | `Spec => []TypeOK` |
| `DeliveryProofs` | `EffectsCounted` | `Spec => []EffectsAccounted` |
| `DeliveryProofs` | `CardsCanBeAnswered` | `Spec => []CardsAnswerable` |
| `DeliveryProofs` | `AnswersAreSingle` | `Spec => []AnsweredOnce` |
| `DeliveryProofs` | `SentInOrder` | `Spec => InOrder` |
| `DeliveryProofs` | `PromiseKept` | `Spec => KeepsPromise` |
| `SchedulingProofs` | `TypeCorrect` | `Spec => []TypeOK` |
| `SchedulingProofs` | `NeverForks` | `Spec => []OneToken` |
| `SchedulingProofs` | `NeverLost` | `Spec => []SeriesSurvives` |
| `SchedulingProofs` | `CancelledForGood` | `Spec => []CancelFinal` |
| `SchedulingProofs` | `RunsAlone` | `Spec => []NoOverlap` |
| `FrontDoorProofs` | `TypeCorrect` | `Spec => []TypeOK` |
| `FrontDoorProofs` | `StrangersWait` | `Spec => []NoTurnForStrangers` |
| `FrontDoorProofs` | `CardsCanBeAnswered` | `Spec => []CardsMatchRows` |
| `FrontDoorProofs` | `MessagesLeaveTraces` | `Spec => []NothingVanishes` |
| `FrontDoorProofs` | `ReplayIsHeard` | `Spec => []DroppedIsReplayed` |
| `ApprovalsProofs` | `CredentialsReleasedInTime` | `SystemSpec => []ReleasedInTime` |
| `ApprovalsProofs` | `AgentsAreTold` | `SystemSpec => []AgentIsTold` |
| `FleetProofs` | `WiredChannelsSpared` | `SystemSpec => []CleanupSpares` |
| `FleetProofs` | `NoSecondChannel` | `SystemSpec => []OneChannel` |
| `FleetProofs` | `PromisesKept` | `SystemSpec => []PromiseKept` |
| `FleetProofs` | `NoLeftovers` | `SystemSpec => []LeftoversAreFound` |
| `FleetProofs` | `ReadyIsTrue` | `SystemSpec => []ReadyMeansDone` |
| `ChannelProofs` | `CurrentIsSpared` | `SystemSpec => []CurrentStaysPinned` |
| `ChannelProofs` | `HoldersExclude` | `SystemSpec => []OneHolder` |
| `ChannelProofs` | `NoReactionIsLeft` | `SystemSpec => []NothingLeftBehind` |
| `ChannelProofs` | `ReportedIdsHeadCopies` | `SystemSpec => []IdHeadsTheCopy` |
| `AgentProofs` | `NothingIsRecalled` | `SystemSpec => []ClearForgets` |
| `AgentProofs` | `MemoryIsKept` | `SystemSpec => []GroupFilesHold` |
| `AgentProofs` | `NothingBeyondItsGrants` | `SystemSpec => []GrantsAreAllowed` |
| `AgentProofs` | `NumbersKeepTheirMeaning` | `SystemSpec => []NumbersResolve` |
| `AgentProofs` | `TranslationsKeepShape` | `SystemSpec => []KeepsShape` |

`KeepsPromise` is the safety of `Outbox` under the refinement mapping,
`BackoffRespected`, `OncePerContainer`, `TerminalIsFinal` and `InOrder` are action
properties, the others invariants. Each inductive invariant was checked by TLC on
a small instance before it was proved.

*One loop.* `OnlyTrackedRuns` is not inductive: it says nothing of what the
next spawn may do. `HostInv` adds `Memory` (at most one spawn is in flight, and
none while a container is tracked; memory is empty while the host is down) and
`OneBox` (a live container is the tracked one whose exit has not been seen;
before its first failed stop). `ContainerFrame` reduces every container step to
"one box changes, or dies and reports its exit", so the host's cases remain.

*The loop.* `LoopInv` adds to `HostInv` what a live container's position says of
both tables (`LoopOf`): claims and batch agree, rows between fetch and prompt
are pending and due or already claimed, what it has ever prompted is in the batch or completed; and
`FailedStays`: no failed row has a completed ack, without which a sync would revive it.
`LoopStep` proves each container step preserves `LoopOf`, `ResetKept` and
`LoopKept` do so for the sweep and for hosts that kill. `BackoffHolds`,
`PromptedOnce` and `TerminalStays` are then read off single steps.

*Nothing dropped* needs no `~failedStop`: `Handled` (a completed ack or row has
been prompted or disposed of, and so has every row in a batch past its prompt)
is inductive by itself, with two containers running side by side.

*Charges* (`ChargeInv`). `PromptsAreCharged` counts prompts against tries, but a row is
charged when the sweep resets it and prompted when a container comes to it. `Charged` counts
what is due in between as well (`Dues`): one prompt for a row that is neither completed nor failed nor
acknowledged and that no live container has seen (`Again`), and one for a host that is down. A
prompt then spends what was due, and a container that dies makes its rows due again, which its
fault or the sweep's try pays for. `BatchOf` says that the rows of a batch are pending until they are
acknowledged, so that a row is not made due by a batch that outlived it.

*Delivery.* `EffectsAccounted` says nothing of who may send next. `DeliveryInv`
adds `Exclusive` (a caller in a drain holds the guard of its session, and no
other caller drains that session), `Fresh` (nothing is recorded yet of the rows
on its list; this is where the rows read before the awaits could be stale) and
`Accounted` (a row that is neither recorded as delivered nor accepted and about to be
recorded has had no effect the host did not lose). `CurrentDue` draws from the
first two that no two callers try one row and that the row tried is still
waiting, which also is all that `PromiseKept` needs: each step is a step of
`Outbox` or stutters, a host that dies among several sends included. The
assumptions are that the sets are disjoint and the messages finitely many.
`CardInv` adds to it the card that is being sent: a question shown, or about to be, has its row until the
first answer, and an answered one has a row again only where a drain had lost track of the card.
`InOrder` is a property of steps over a list read earlier: `OrderInv` says that each row a drain is past
is older than none still on its list unless it threw (`Ordered`), and that rows are numbered as written
(`Placed`), so a row that was inserted since comes last.

*Scheduling.* `IInv` adds to the four properties what the sweep relies on
across its awaits: `Loop` (the rows collected are still completed with their
recurrence, and after an insertion the new row is pending), `Acked` (a
recurrence waiting to be used belongs to an acknowledged run), `Rooted` (a
series starts with its first row) and `ClaimsAlone` (a claim and a token of one
series are the same row). `CancelFinal` needs `OneToken`: the row that a cancel hits is the only
token. Commands, sweep and container steps then need one lemma each; most only
show that no token and no claim comes into being (`Shrinks`).

*The way in.* `FrontDoorProofs!IInv` holds what each property needs across the
awaits. `Routed` says what requests and calls under way refer to: a request about a
sender names a wiring that his message engages, and the agents a call has still
to come to are wired. `Admission` says of rows that wake an agent
that their sender may, for which memberships, policies and wirings must only
grow (`Grows`); `NoTurnForStrangers` follows. `CardInv` relates the requests
between their awaits to the rows they have written, so that an unanswered card has one.
`Counting` ties `counted`, which a call carries along, to the row it stands for;
without it `NothingVanishes` is not kept by `Finish`. A call that comes to an agent
goes on or is cut short by a denial (`GoesOn`, `CutShort`). `Replays` follows a message from
the approval of its card to the turn it starts or to what cuts it short.

*From a part to the system.* Each of the last four modules proves an inductive
invariant of its instance (`FleetInv`, `StInv`, ...) and lifts it: `part = "fleet" =>
FleetInv` holds at the start and is kept by `SystemNext`, of which every step of
another part leaves `part` alone. The assumptions stand in `Operations`, where TLC evaluates them:
`None` is none of the values it stands for, the two kinds of approval differ, a
reply has a piece, the throbber an emoji, and mount requests are
finitely many (`SpwGiven`). `ShHistories` assumes what the
Messages API demands of a request: the results of the assistant's calls come with the message after them.

*Approvals* (`ApprovalsInv`). The two theorems follow one call from its row to its end. A promise is held
exactly while its call waits (`Waits`), its card is marked expired only after the call ended
(`MarkedLate`), and a released credential has no row left for a restart to sweep (`Released`). Of a
module's request the row goes away only with a word to the agent (`RowOrWord`), and a change
is being built by some click or was reported (`BuiltOrTold`); requests a restart cut are exempt.

*Fleet* (`FleetInv`). Channels: one is in one place only, in the making by one job (`Making`), wired
to one worker (`WiredOnce`) or being deleted (`Deleting`); what cleanup is about to reap and a worker
is wired to, or a job is making for one, is young, and so spared (`Listing`). Names:
an action that met no other on its name finds the group of that name as it left it (`Alone`, `Raced`), from
which follow one channel per group (`Single`), both destinations (`Leads`) and what the master was
told (`Promised`). Groups are never made under an id that was used (`Identified`): the history variable
`issued` is there to say so.

*Setup* (`StInv`). No step takes away what another was for, except that a restart stops the service
(`StWays`, `StDriverWays`: one lemma per step of `SetupSteps`), and a step that goes on or is logged as completed has
left its part. So every step the process is past has left its part or was left out by the user
(`StPast`), and so has every step on the skip list that the user did not put there (`StDone`); the latter is
what a retry needs, because it starts again at the first step with nothing but that list.

*Pins and locks.* `CurrentStaysPinned` needs that no tick has the id the
table names on its list (`PinSpared`), and therefore that an id that is posted but
not yet recorded is on nobody's list (`PinUnrecorded`) and belongs to one tick
(`PinOwn`). `OneHolder` needs that tokens are drawn once, that a lock whose time is not past is the row's, and the like of
claims (`SdkInv`).

*Reactions* (`IndInv`). A reaction stands on a message the throbber still knows or that a call under way will
clear (`IndAnswered`), and an addition under way is for a message it knows (`IndPending`): when the
reply clears the throbber, nothing is left that no call will take away.

*Replies* (`BrInv`). What an attempt has posted so far is a copy of the pieces before
the next (`BrPosted`). A reply whose id was reported is not posted again, so that later
messages of its thread are others' and change no copy (`BrReported`).

*Sessions* (`CvInv`): what the position of the loop says of its query (`CvStage`), and that no id kept anywhere was
forgotten (`CvKept`).

*Files and grants* (`SpwInv`). A CLAUDE.md that is still the group's own exists only until the first start
of a host, before any container (`SpwCutOver`); from then on the memory is what it was owed (`SpwKept`), and a
container under preparation has every fragment its CLAUDE.md imports (`SpwResolved`). The list in use was
on disk while the host ran (`SpwListSeen`), so the mounts are within it (`SpwAllowed`), and the host passes on
a key or a token, not both, whatever files the user names; that a mount lies under the
*first* root that matches takes a least number, from `WellFoundedInduction`.

*Numbers* (`OgInv`). The host gives even numbers (`OgEven`), and a number given to the agent is in the table it was
given for, odd where that is `messages_out` (`OgKnown`), although a writer computes its number from what it
read two steps earlier: no row of one table hides one of the other.

*Translations* (`ShInv`). As long as the chunks of a stream come in the usual order (`Ordinary`), at most one block is
open, it is the last that was started, and the next piece goes to it (`ShAlong`); of what was sent so
far every start follows a stop and counts up, and there is one lemma for each kind of chunk (`ShReasons`,
`ShTexts`, `ShAnnounces`, `ShArgues`, `ShEnds`). A request is translated by a fold over its history: `FlattenedInSteps`
unfolds it by one message at a time, with a least number instead of an induction
over an operator, and `ShAnswers` shows of every prefix that
each result has its call before it. That holds for the histories of `ShHistories` only.

Type correctness is proved for the four modules with a `Spec` of their own and no run lists
it; the others have the part of it they need in their inductive invariants.

Only model-checked: all liveness (`ServedInTime`, `SilentWedgeDies`, `SeriesGoesOn`, the
liveness half of `ImplementsOutbox`), because neither fairness nor ENABLED is in the
prover's reach. Every invariant and every safety property of steps that a passing run checks is
proved. The violated properties need no proof: a counterexample is one.

## 5. Not modelled

* Operator scripts (`scripts/`, `ncf`): run by hand, each a sequence of
  statements over tables modelled elsewhere. Where one races the host
  (`OperatorWires`, the installer's `init-*-agent`) its effect is an action.
* The terminal channel and the platform adapters around the SDK: I/O of third parties;
  `Bridge` has what the host adds to it.
* Migrations: run once, in order, before anything else.
* The resource monitor: it reads `docker stats`, and the alert it means to write throws on the
  readonly handle. Dashboards, the text of status messages, prompts and
  notices: computed from numbers and formatted; nothing reads them back.
* Image builds per group: an await with two ends (`Install`, `Built`).
* The wait of `ask_user_question` inside the container. That its late answer is a due row
  nobody takes (`interactive.ts:128`) is why `Served` leaves system rows out.
* Several sessions in one sweep: a spawn that rejects ends the pass for those after it
  (`host-sweep.ts:156`); `SessionQueue` has one session, whose next pass tries
  again.
* Clocks: `status_changed` is UTC text read as local time (`host-sweep.ts:128`); the
  models assume a host in UTC. Seconds and sizes are abstracted to what is compared.
* The text interface of the installer, its diagnostics and the installers of
  earlier versions.

In every module, data are reduced to what its properties tell apart; the notes in
section 2 say to what. What is left would be worth a run of its own each: liveness of
`Fleet` and `Approvals` under an adapter that answers, and `FrontDoor` composed with
`SessionQueue` over one `messages_in`.
