------------------------------- MODULE Setup -------------------------------
(* The guided installer, setup/auto.ts: a chain of steps run in order, each   *)
(* in a process of its own, then one messaging channel, then a check of the   *)
(* whole machine.  A step that fails ends in fail() (setup/lib/runner.ts):    *)
(* with a fix the user just ran it starts the installer again as a new        *)
(* process that is told, in NANOCLAW_SKIP, what it may leave out.  After      *)
(* docker is installed the installer also starts itself again under           *)
(* `sg docker`.  The starting process waits for the new one and ends with     *)
(* it, so the variables below are those of the newest process and of the      *)
(* machine.  What each step does to the machine is in SetupSteps.             *)
EXTENDS SetupSteps

CONSTANTS
  Offered,     \* what the user may choose: channels, and "skip" for none
  Machines,    \* what the machine may have before: sets of Things
  AskedFor,    \* the sets of steps the user may leave out (NANOCLAW_SKIP)
  MaxRetries   \* how often a failed step is tried again

Order == <<"environment", "container", "onecli", "auth", "mounts", "service",
           "cli-agent", "timezone", "channel", "verify">>

(* Those that are a process with its ways to end; the container's, the        *)
(* channel's and the check's have actions of their own.                       *)
Steps == {"environment", "onecli", "auth", "mounts", "service", "cli-agent",
          "timezone"}

(* The steps of the channel drivers that can fail, in their order.  Each      *)
(* driver asks the user for what it needs, checks it against the service,     *)
(* runs its install script and, where it can, wires the chat.                 *)
Telegram == <<"telegram-validate", "telegram-install", "pair-telegram",
              "init-first-agent">>

Discord  == <<"discord-validate", "discord-app-info", "discord-install",
              "discord-open-dm", "init-first-agent">>

Whatsapp == <<"whatsapp-install", "whatsapp-auth", "init-first-agent">>

Signal   == <<"signal-install", "signal-auth", "init-first-agent">>

(* Slack and Teams leave the wiring to the user. *)
Slack    == <<"slack-validate", "slack-install">>

Imessage == <<"imessage-install", "init-first-agent">>

Teams    == <<"teams-manifest", "teams-install">>

Flow(channel) ==
  CASE channel = "telegram" -> Telegram
    [] channel = "discord"  -> Discord
    [] channel = "whatsapp" -> Whatsapp
    [] channel = "signal"   -> Signal
    [] channel = "slack"    -> Slack
    [] channel = "imessage" -> Imessage
    [] channel = "teams"    -> Teams
    [] OTHER                -> << >>

VARIABLES
  asked,      \* what the user left out when starting the first process
  skip,       \* NANOCLAW_SKIP of this process
  reexec,     \* NANOCLAW_REEXEC_SG of this process
  completed,  \* logs.ts completedInRun
  at,         \* index in Order; past its end once main() has returned
  sub,        \* what is left of the channel driver, << >> outside it
  channel,    \* the channel chosen by this process
  failing,    \* calls of fail() waiting for the user, by step
  have,       \* what the steps left on the machine
  retries,    \* how often a failed step was tried again
  said,       \* "nothing", "almost there" or "ready": what main() ended with
  ended       \* the process is gone, and with it every process before it

vars == <<asked, skip, reexec, completed, at, sub, channel, failing,
          have, retries, said, ended>>

env     == <<asked, skip, reexec, retries>>
outcome == <<said, ended>>

Init ==
  /\ asked \in AskedFor /\ skip = asked
  /\ have \in Machines
  /\ reexec = FALSE
  /\ completed = {} /\ at = 1 /\ sub = << >> /\ channel = "skip"
  /\ failing = {} /\ retries = 0 /\ said = "nothing" /\ ended = FALSE

Here == Order[at]

(* whatsapp.ts and teams.ts call fail() without waiting for it. *)
Awaited(step) ==
  step \notin {"whatsapp-install", "whatsapp-auth", "teams-install"}
    /\ ~(step = "init-first-agent" /\ channel = "whatsapp")

(* main() may go on: it is not inside an awaited fail(). *)
Going ==
  /\ ~ended /\ at <= Len(Order)
  /\ \A step \in failing : ~Awaited(step)

Turn(step) == Going /\ Here = step /\ step \notin skip /\ sub = << >>

(* The entry a step writes in the log; with a status other than success or    *)
(* skipped the step is not among the completed ones.                          *)
Logs(step, way) ==
  completed' = IF way.logged THEN completed \cup {step} ELSE completed

(* A step that is in NANOCLAW_SKIP is passed over. *)
Skipped ==
  /\ Going /\ Here \in skip /\ sub = << >>
  /\ IF Here = "verify"
       THEN said' = "ready" /\ UNCHANGED ended
       ELSE UNCHANGED outcome
  /\ at' = at + 1
  /\ UNCHANGED <<env, completed, sub, channel, failing, have>>

(* The step's process ends in one of its ways: main() goes on to the next     *)
(* step, or waits in fail().                                                  *)
StepEnds(step, way) ==
  /\ Turn(step)
  /\ Logs(step, way) /\ have' = way.have
  /\ IF way.goes THEN at' = at + 1 /\ UNCHANGED failing
                 ELSE failing' = failing \cup {step} /\ UNCHANGED at
  /\ UNCHANGED <<env, sub, channel, outcome>>

(* The sandbox is built by a process that is not in docker's group yet: it is *)
(* followed by one that is (maybeReexecUnderSg), with the environment it has: *)
(* NANOCLAW_SKIP is not extended.                                             *)
Reexecs(way) ==
  /\ Turn("container") /\ way.goes
  /\ MustReexec(way.have) /\ ~reexec
  /\ reexec' = TRUE
  /\ have' = way.have \cup {"group"}
  /\ completed' = {} /\ at' = 1
  /\ UNCHANGED <<asked, skip, retries, sub, channel, failing, outcome>>

ContainerEnds(way) ==
  /\ ~(way.goes /\ MustReexec(way.have) /\ ~reexec)
  /\ StepEnds("container", way)

(* askChannelChoice.  A driver without steps left is past. *)
ChooseChannel(c) ==
  /\ Turn("channel")
  /\ channel' = c /\ sub' = Flow(c)
  /\ at' = IF sub' = << >> THEN at + 1 ELSE at
  /\ UNCHANGED <<env, completed, failing, have, outcome>>

InDriver == Going /\ sub # << >>

Along ==
  /\ sub' = Tail(sub)
  /\ at' = IF sub' = << >> THEN at + 1 ELSE at

(* A step of the driver ends.  Where fail() is not awaited the driver goes on *)
(* beside its prompts.  A Teams package that cannot be built leaves the       *)
(* driver reading a field of undefined, which ends the process.               *)
DriverStepEnds(way) ==
  /\ InDriver
  /\ LET step == Head(sub) IN
     /\ Logs(step, way) /\ have' = way.have
     /\ failing' = IF way.goes \/ step = "teams-manifest" THEN failing
                                                          ELSE failing \cup {step}
     /\ ended' = (~way.goes /\ step = "teams-manifest")
     /\ IF way.goes \/ ~Awaited(step) THEN Along ELSE UNCHANGED <<sub, at>>
  /\ UNCHANGED <<env, channel, said>>

(* Everything verify.ts looks for is there and the agent answered its ping.   *)
VerifyWorks ==
  /\ Turn("verify") /\ Sound(have)
  /\ Logs("verify", Way(TRUE, TRUE, have))
  /\ said' = "ready" /\ at' = at + 1
  /\ UNCHANGED <<env, sub, channel, failing, have, ended>>

(* Anything missing, or no pong: help is offered, nothing is retried. *)
VerifyFails ==
  /\ Turn("verify")
  /\ said' = "almost there" /\ at' = Len(Order) + 1
  /\ UNCHANGED <<env, completed, sub, channel, failing, have, ended>>

(* fail() without a fix, and any prompt that is cancelled. *)
GivesUp ==
  /\ ~ended
  /\ \/ failing # {}
     \/ at <= Len(Order) /\ Here \in {"container", "onecli", "auth", "cli-agent",
                                      "timezone", "channel"}
  /\ ended' = TRUE
  /\ UNCHANGED <<env, completed, at, sub, channel, failing, have, said>>

(* A faulty variant: the failed step is taken for done. *)
SkipListWithFailed(step) == skip \cup completed \cup {step}

(* What the process that retries a step is told to leave out. *)
SkipList(step) == skip \cup completed

(* The user ran the fix Claude proposed and wants the step again.             *)
Retries(step) ==
  /\ ~ended /\ step \in failing /\ retries < MaxRetries
  /\ skip' = SkipList(step)
  /\ retries' = retries + 1
  /\ completed' = {} /\ at' = 1 /\ sub' = << >> /\ failing' = {}
  /\ channel' = "skip" /\ said' = "nothing"
  /\ have' \in Assisted(have)
  /\ UNCHANGED <<asked, reexec, ended>>

(* main() returned and nothing waits for the user any more. *)
Ends ==
  /\ ~ended /\ at > Len(Order) /\ failing = {}
  /\ ended' = TRUE
  /\ UNCHANGED <<env, completed, at, sub, channel, failing, have, said>>

Over == ended /\ UNCHANGED vars

Next ==
  \/ Skipped \/ VerifyWorks \/ VerifyFails \/ GivesUp \/ Ends \/ Over
  \/ \E way \in Container(have) : Reexecs(way) \/ ContainerEnds(way)
  \/ \E step \in Steps : \E way \in Ways(step, have) : StepEnds(step, way)
  \/ \E c \in Offered : ChooseChannel(c)
  \/ InDriver /\ \E way \in DriverWays(Head(sub), have) : DriverStepEnds(way)
  \/ \E step \in failing : Retries(step)

Spec == Init /\ [][Next]_vars

-----------------------------------------------------------------------------

(* What a step is there for. *)
Purpose(step) ==
  CASE step = "container" -> {"image"}
    [] step = "onecli"    -> {"url"}
    [] step = "auth"      -> {"secret"}
    [] step = "mounts"    -> {"rules"}
    [] step = "cli-agent" -> {"agent"}
    [] OTHER              -> {}

(* What a step the user did not leave out must have put on the machine by     *)
(* the time the installer says so.                                            *)
Due == UNION {Purpose(Order[i]) : i \in {j \in DOMAIN Order : Order[j] \notin asked}}

(* However often the installer failed, was repaired and started again,        *)
(* "You're ready" is said only of a machine on which every step has left      *)
(* what it is there for: a retry leaves out nothing that was not done         *)
(* (runner.ts fail, logs.ts completedStepNames, auto.ts main).  Not so where  *)
(* a command that Claude proposed undid a step: what is done is left out by   *)
(* its name, and nobody looks again (claude-assist.ts runSuggested).          *)
ReadyMeansDone == said = "ready" /\ "undone" \notin have => Due \subseteq have

=============================================================================
