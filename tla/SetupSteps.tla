------------------------------ MODULE SetupSteps ------------------------------
(***************************************************************************)
(* What each step of the installer does to the machine.  A step is a       *)
(* process of its own: it finds the machine as the steps before left it,   *)
(* and ends in one of several ways, for downloads, builds, sign-ins and    *)
(* services may fail.  A machine is the set of things in place on it; an   *)
(* operator below gives, for the machine a step finds, the ways it may     *)
(* end.  Setup runs them.                                                  *)
(***************************************************************************)
EXTENDS Naturals, Sequences, FiniteSets

CONSTANT Undoable  \* what a command that Claude proposes may take away

Channels == {"telegram", "discord", "whatsapp", "signal", "slack", "imessage", "teams"}

Things ==
    {"undone",                         \* a command took something away
     "mac", "systemd", "sg", "signal-cli", "claude", \* what the machine is and has
     "docker", "daemon", "group",       \* docker, running, and open to this session
     "image",
     "gateway", "onecli", "host",       \* OneCLI: gateway, CLI, its api-host
     "url",                             \* ONECLI_URL in .env
     "secret", "rules", "zone",
     "unit", "service",                 \* registered, and running
     "agent", "dm",                     \* a wired CLI chat, a wired chat of the user
     "credential",                      \* of a channel, where verify looks for it
     "keys", "number", "linked"}        \* WhatsApp's creds.json, its number; Signal
    \cup Channels                       \* adapter files and their import

\* whether the log has the step as completed, and whether main() goes on
Way(logged, goes, h) == [logged |-> logged, goes |-> goes, have |-> h]

\* success, and skipped when there was nothing to do
Done(h)   == {Way(TRUE, TRUE, h)}
Failed(h) == {Way(FALSE, FALSE, h)}

\* a program that exits 0, or not
Tried(h, things) == Done(h \cup things) \cup Failed(h)

\* the second part runs where the first worked
Then(ways, Second(_)) == UNION {IF w.goes THEN Second(w.have) ELSE {w} : w \in ways}

DoneIn(machines) == UNION {Done(h) : h \in machines}

-----------------------------------------------------------------------------
(* Help                                                                    *)

\* a command the user let run: it may start what does not run, change nothing, or
\* take something away, for it is any line of bash
Suggested(h) ==
    {h} \cup {h \cup {"daemon"} : d \in h \cap {"docker"}}
        \cup {h \cup {"service"} : u \in h \cap {"unit"}}
        \cup {(h \ {x}) \cup {"undone"} : x \in h \cap Undoable}

\* offerClaudeAssist, when a fix was run; without the CLI there is none
Assisted(h) == IF "claude" \in h THEN Suggested(h) ELSE {}

\* a session with Claude in the middle of a walkthrough, as often as the user likes
HandedOff(h) == IF "claude" \in h THEN Suggested(h) ELSE {h}

-----------------------------------------------------------------------------
(* The sandbox                                                             *)

\* it looks at the machine and reports
CheckEnvironment(h) == Done(h) \cup Failed(h)

InstallDocker(h) ==
    IF "docker" \in h THEN Done(h)
    ELSE Tried(h, {"docker"}) \cup Tried(h, {"docker", "daemon"})

\* open -a Docker, sudo systemctl start docker, and a minute of polling
TryStartDocker(h) == IF "daemon" \in h THEN Done(h) ELSE Tried(h, {"daemon"})

\* the tag is there even if the test of the image fails
BuildImage(h) == Tried(h, {"image"}) \cup Failed(h \cup {"image"})

\* a session outside docker's group runs the step again under `sg docker`
Container(h) ==
    Then(InstallDocker(h), LAMBDA g :
        Then(TryStartDocker(g), LAMBDA i :
            IF {"group", "sg"} \cap i # {} THEN BuildImage(i) ELSE Failed(i)))

\* maybeReexecUnderSg: docker runs but the socket is closed to this session
MustReexec(h) == "group" \notin h /\ "sg" \in h

-----------------------------------------------------------------------------
(* OneCLI and the account                                                  *)

\* with a pinned version when the release cannot be looked up
InstallOnecliCliDirect(h) == Tried(h, {"onecli"})

InstallOnecli(h) ==
    Then(Tried(h, {"gateway"}), LAMBDA g :
        Done(g \cup {"onecli"}) \cup InstallOnecliCliDirect(g))

\* a CLI that is not on the PATH, or output without a URL, fails; an api-host that
\* cannot be set and a gateway that does not answer are only warned of
OnecliFresh(h) ==
    Then(InstallOnecli(h), LAMBDA g :
        Failed(g) \cup DoneIn({g \cup {"url"}, g \cup {"url", "host"}}))

OnecliReuse(h) == IF {"onecli", "host"} \subseteq h THEN Done(h \cup {"url"}) ELSE Failed(h)

DetectExistingOnecli(h) == {"onecli", "host"} \subseteq h

Onecli(h) == OnecliFresh(h) \cup IF DetectExistingOnecli(h) THEN OnecliReuse(h) ELSE {}

\* what `onecli secrets` needs
VaultAnswers(h) == {"gateway", "onecli"} \subseteq h

\* register-claude-token.sh installs the Claude CLI before it asks
SignIn(h) ==
    IF "onecli" \notin h THEN Failed(h)
    ELSE Then(Tried(h, {"claude"}), LAMBDA g :
             IF VaultAnswers(g) THEN Tried(g, {"secret"}) ELSE Failed(g))

\* logged as 'interactive', which does not complete a step
SubscriptionAuth(h) == {[w EXCEPT !.logged = FALSE] : w \in SignIn(h)}

PasteAuth(h) == IF VaultAnswers(h) THEN Tried(h, {"secret"}) ELSE Failed(h)

\* a vault that does not answer holds no secret
Auth(h) ==
    IF "secret" \in h /\ VaultAnswers(h)
    THEN Done(h) \cup SubscriptionAuth(h) \cup PasteAuth(h)
    ELSE SubscriptionAuth(h) \cup PasteAuth(h)

\* rules that are there are kept
Mounts(h) == Tried(h, {"rules"})

-----------------------------------------------------------------------------
(* Time zone                                                               *)

\* from .env or the system; not found is no failure but no success either
DetectZone(h) ==
    Done(h \cup {"zone"}) \cup IF "zone" \in h THEN {} ELSE {Way(FALSE, TRUE, h)}

\* kept as it is, or asked for and saved by a second run, whose entry in the log
\* comes on top of the first
Timezone(h) ==
    LET found == DetectZone(h)
        saved == {Way(TRUE, TRUE, w.have \cup {"zone"}) : w \in found}
        lost  == {[w EXCEPT !.goes = FALSE] : w \in found}
    IN  found \cup saved \cup lost \cup Failed(h)

-----------------------------------------------------------------------------
(* The service                                                             *)

\* a unit that was restarted may not come back; without one nothing is restarted
Restarted(h) == IF "unit" \in h THEN {h \ {"service"}, h \cup {"service"}} ELSE {h}

\* reports success whether or not launchctl has loaded it
Launchd(h) == DoneIn(Restarted(h \cup {"unit"}))

\* writes start-nanoclaw.sh and leaves the start to the user
NohupFallback(h) == Done(h)

\* reports success whether or not the unit is active
Systemd(h) ==
    IF "systemd" \in h THEN DoneIn(Restarted(h \cup {"unit"})) ELSE NohupFallback(h)

\* builds first
Service(h) == Failed(h) \cup IF "mac" \in h THEN Launchd(h) ELSE Systemd(h)

-----------------------------------------------------------------------------
(* The agent of the terminal                                               *)

\* user, group, files, chat and wiring, each unless it is there
InitCliAgent(h) == Tried(h, {"agent"})

\* a chat over the service's socket
PingCliAgent(h) ==
    IF "service" \in h THEN {"ok", "no_reply", "socket_error"} ELSE {"socket_error"}

\* of the ping that follows only the help depends that is offered for no answer
CliAgent(h) ==
    Then(InitCliAgent(h), LAMBDA g :
        DoneIn({g} \cup Assisted(g)))

-----------------------------------------------------------------------------
(* Channels                                                                *)

\* an add-*.sh looks for files and import only: where an install phase failed after
\* them, the next run takes it for done
InstallPhase(h, channel) ==
    IF channel \in h THEN Done(h) ELSE Tried(h, {channel}) \cup Failed(h \cup {channel})

\* credentials into .env, then a restart whose outcome is not looked at
WithCredentials(h, things) == DoneIn(Restarted(h \cup things))

AddTelegram(h) ==
    Then(InstallPhase(h, "telegram"), LAMBDA g : WithCredentials(g, {"credential"}))

AddDiscord(h) ==
    Then(InstallPhase(h, "discord"), LAMBDA g : WithCredentials(g, {"credential"}))

\* verify.ts also wants a SLACK_APP_TOKEN, which nothing writes
AddSlack(h) == Then(InstallPhase(h, "slack"), LAMBDA g : WithCredentials(g, {}))

AddTeams(h) ==
    Then(InstallPhase(h, "teams"), LAMBDA g : WithCredentials(g, {"credential"}))

\* the prompt offers nothing a machine cannot run
AskMode(h) == IF "mac" \in h THEN {"local", "remote"} ELSE {"remote"}

\* remote takes IMESSAGE_ENABLED, which verify.ts looks for, out of .env again
AddImessage(h) ==
    Then(InstallPhase(h, "imessage"), LAMBDA g :
        UNION {WithCredentials(g, IF mode = "local" THEN {"credential"} ELSE {}) :
               mode \in AskMode(g)})

\* no restart before there are keys
AddWhatsapp(h) == InstallPhase(h, "whatsapp")

\* builds even if the files were there; verify.ts knows no Signal
AddSignal(h) == Tried(h, {"signal"}) \cup Failed(h \cup {"signal"})

\* a token or an account looked up at the service
ValidateTelegramToken(h) == Done(h) \cup Failed(h)
ValidateDiscordToken(h)  == Done(h) \cup Failed(h)
FetchApplicationInfo(h)  == Done(h) \cup Failed(h)
OpenDmChannel(h)         == Done(h) \cup Failed(h)
ValidateSlackToken(h)    == Done(h) \cup Failed(h)

\* the adapter in the running service takes the code; five wrong ones, or an answer
\* without a user, fail
PairTelegram(h) ==
    Failed(h) \cup
    IF "service" \in h THEN Done(h) \cup {Way(TRUE, FALSE, h)} ELSE {}

\* creds.json makes the step pass; the library may save it before the device is linked
WhatsappAuth(h) ==
    IF "keys" \in h THEN Done(h)
    ELSE Tried(h, {"keys", "number"}) \cup Failed(h \cup {"keys"})

\* a number that cannot be read is a failure of the same step; the service is
\* restarted after it even so
WhatsappLinked(h) ==
    UNION {{Way(w.logged, w.goes /\ "number" \in w.have, g) : g \in Restarted(w.have)} :
           w \in WhatsappAuth(h)}

EnsureSignalCli(h) == IF "signal-cli" \in h THEN Done(h) ELSE Failed(h)

SignalInstall(h) == Then(EnsureSignalCli(h), AddSignal)

SignalAuth(h) == IF "linked" \in h THEN Done(h) ELSE Tried(h, {"linked"})

\* SIGNAL_ACCOUNT, then the restart
SignalLinked(h) == Then(SignalAuth(h), LAMBDA g : WithCredentials(g, {}))

\* after a walkthrough of the Azure portal, at each step of which Claude may take over
TeamsManifest(h) == UNION {Done(g) \cup Failed(g) : g \in HandedOff(h)}

\* user, group, role, member, chat and wiring, each unless it is there, and at last
\* the welcome, over the service's socket
InitFirstAgent(h) ==
    Failed(h) \cup Failed(h \cup {"dm"})
        \cup IF "service" \in h THEN Done(h \cup {"dm"}) ELSE {}

-----------------------------------------------------------------------------
(* The whole machine                                                       *)

\* some channel it knows has credentials, of whatever channel was set up before
ChannelConfigured(h) == {"credential", "keys"} \cap h # {}

RegisteredGroups(h) == {"agent", "dm"} \cap h # {}

\* verify.ts; the ping is asked for only where the rest is in place
Sound(h) ==
    /\ {"service", "url"} \subseteq h
    /\ ChannelConfigured(h) /\ RegisteredGroups(h)
    /\ "ok" \in PingCliAgent(h)

-----------------------------------------------------------------------------

Ways(step, h) ==
    CASE step = "environment" -> CheckEnvironment(h)
      [] step = "container"   -> Container(h)
      [] step = "onecli"      -> Onecli(h)
      [] step = "auth"        -> Auth(h)
      [] step = "mounts"      -> Mounts(h)
      [] step = "service"     -> Service(h)
      [] step = "cli-agent"   -> CliAgent(h)
      [] step = "timezone"    -> Timezone(h)

DriverWays(step, h) ==
    CASE step = "telegram-validate" -> ValidateTelegramToken(h)
      [] step = "telegram-install"  -> AddTelegram(h)
      [] step = "pair-telegram"     -> PairTelegram(h)
      [] step = "discord-validate"  -> ValidateDiscordToken(h)
      [] step = "discord-app-info"  -> FetchApplicationInfo(h)
      [] step = "discord-install"   -> AddDiscord(h)
      [] step = "discord-open-dm"   -> OpenDmChannel(h)
      [] step = "whatsapp-install"  -> AddWhatsapp(h)
      [] step = "whatsapp-auth"     -> WhatsappLinked(h)
      [] step = "signal-install"    -> SignalInstall(h)
      [] step = "signal-auth"       -> SignalLinked(h)
      [] step = "slack-validate"    -> ValidateSlackToken(h)
      [] step = "slack-install"     -> AddSlack(h)
      [] step = "imessage-install"  -> AddImessage(h)
      [] step = "teams-manifest"    -> TeamsManifest(h)
      [] step = "teams-install"     -> AddTeams(h)
      [] step = "init-first-agent"  -> InitFirstAgent(h)

=============================================================================
