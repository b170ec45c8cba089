-------------------------------- MODULE Spawn ---------------------------------
(***************************************************************************)
(* What a container is started with: the files of its agent group, the    *)
(* mounts and the credentials.                                             *)
(*                                                                         *)
(* spawnContainer reads container.json, completes the group's files,       *)
(* composes CLAUDE.md and checks the mounts without giving up the thread;  *)
(* then it awaits the OneCLI gateway and starts docker.  The start of the  *)
(* host moves memory from before the composed CLAUDE.md into               *)
(* CLAUDE.local.md and applies the worker profile anew.  The agent writes  *)
(* CLAUDE.local.md at any time, and people edit the files around it.       *)
(*                                                                         *)
(* One worker group; who wakes its sessions is SessionQueue's.             *)
(***************************************************************************)
EXTENDS Naturals, Sequences, FiniteSets, SequencesExt

CONSTANTS
    Sessions,    \* sessions of the group
    Skills,      \* skills the host may ship
    Servers,     \* MCP servers that come with instructions
    Personal,    \* personal instructions and included files
    Requests,    \* additional mounts
    Wants,       \* for each of them the host path, the place and readonly = false
    RealPath,    \* what a host path leads to, None if there is nothing
    Files,       \* contents of the mount allowlist, each with its
    Roots,       \* allowed roots, in order
    Keys,        \* credentials the host may have
    Named,       \* credential files of the user's config, and what is in them
    MaxEdits,    \* bound: edits by people
    MaxCrashes,  \* bound: restarts of the host
    None

VARIABLES
    \* groups/<folder> and .claude-shared
    claudeMd,  \* CLAUDE.md: "none", "own" as before the cutover, or "composed"
    imports,   \* what a composed CLAUDE.md imports
    memory,    \* CLAUDE.local.md: whose text it is
    frags,     \* .claude-fragments
    links,     \* skill symlinks
    mounts,    \* additionalMounts of container.json
    servers,   \* MCP servers of container.json
    \* the host's files
    shipped,   \* container/skills
    profile,   \* mounts of the worker profile
    file,      \* the mount allowlist
    keys,      \* .env, the shell and Claude's own token
    \* the host
    up,
    cached,    \* cachedAllowlist and allowlistLoadError
    container, \* the container of each session
    \* history
    owed,      \* whose text CLAUDE.local.md must hold
    seen,      \* allowlists that were on disk while this host ran
    edits,
    crashes

group   == <<claudeMd, imports, memory, frags, links, mounts, servers>>
around  == <<shipped, profile, file, keys>>
history == <<owed, seen, edits, crashes>>
vars    == <<group, around, up, cached, container, history>>

Init ==
    /\ claudeMd \in {"none", "own"}
    /\ memory = "none"
    /\ owed = IF claudeMd = "own" THEN "own" ELSE None
    /\ imports = {} /\ frags = {} /\ links = {} /\ mounts = << >> /\ servers = {}
    /\ shipped = Skills
    /\ profile \in {{r} : r \in Requests}
    /\ file \in {None} \cup Files
    /\ keys \in Keys
    /\ up = FALSE /\ cached = None
    /\ container = [s \in Sessions |-> None]
    /\ seen = {} /\ edits = 0 /\ crashes = 0

-----------------------------------------------------------------------------
(* Mount allowlist                                                         *)

\* loadMountAllowlist: a list or an error stays until the process ends, a file
\* that is not there is looked for again
Loaded == IF cached = None THEN file ELSE cached

\* path.relative neither leads up nor elsewhere
Under(real, root) == IsPrefix(root, real)

\* findAllowedRoot: roots that do not exist are passed over, the first one decides
AllowedRoot(real, list) ==
    LET fits == {i \in DOMAIN Roots[list] :
                    /\ RealPath[Roots[list][i].path] # None
                    /\ Under(real, RealPath[Roots[list][i].path])}
    IN  IF fits = {} THEN None
        ELSE Roots[list][CHOOSE i \in fits : \A j \in fits : i <= j]

\* faulty variant: the root's say is not asked
GrantAsAsked(r, list) ==
    LET real == RealPath[Wants[r].path] IN
    IF list \notin Files \/ real = None THEN {}
    ELSE IF AllowedRoot(real, list) = None THEN {}
    ELSE {[path |-> real, at |-> Wants[r].at, write |-> Wants[r].write]}

\* validateMount: refused without a list, at a bad place, without a file, and outside
\* the roots, where blocked patterns only give the refusal another reason; written to
\* only if the mount asks for it and the root allows it
Grant(r, list) ==
    LET real == RealPath[Wants[r].path] IN
    IF list \notin Files \/ real = None THEN {}
    ELSE LET root == AllowedRoot(real, list) IN
         IF root = None THEN {}
         ELSE {[path |-> real, at |-> Wants[r].at, write |-> Wants[r].write /\ root.write]}

\* isValidContainerPath
GoodPlace(r) == Wants[r].at # "bad"

\* validateAdditionalMounts
Granted(list) == UNION {Grant(r, list) : r \in {q \in Range(mounts) : GoodPlace(q)}}

\* two mounts that were granted one place
Doubled(list) ==
    \E i, j \in DOMAIN mounts :
        /\ i < j /\ mounts[i] = mounts[j]
        /\ GoodPlace(mounts[i]) /\ Grant(mounts[i], list) # {}

-----------------------------------------------------------------------------
(* Credentials                                                             *)

\* pickOauthToken: the long-lived token of .env before Claude's own, unless it expired
Oauth(k) == "oauth" \in k.dotenv \/ k.live

\* what is passed on when the gateway was not applied: with a token no API key, which
\* the SDK would prefer
\* (readEnvFile before the shell's own variables)
Fallback(k) ==
    {n \in {"api key", "auth token", "base url"} :
        /\ n \in k.dotenv \cup k.shell
        /\ n = "api key" => ~Oauth(k)}
    \cup {n \in {"oauth"} : Oauth(k)}

\* readContainerCredentials: whatever the gateway says; a file that is missing or blank
\* sets no variable. Any variable may be named, an API key's too
Injected == {n \in DOMAIN Named : Named[n] = "value"}

-----------------------------------------------------------------------------
(* Files of the group                                                      *)

\* initGroupFilesystem completes what is not there
Completed(text) == IF memory = "none" THEN text ELSE memory

\* syncSkillSymlinks, for a group with all skills
WantedLinks == shipped

\* composeGroupClaudeMd: every skill, every tool module, MCP servers and people's own
Wanted == shipped \cup {"tools"} \cup servers \cup Personal

Imports(text) == Wanted \cup {"shared"} \cup {m \in {"memory"} : text # "empty"}

\* buildMounts: the directory may be written to, the composed files and container.json
\* lie over it read-only
Writable == {"CLAUDE.local.md"}

\* applyProfileToContainerConfig adds to what is there
WithProfile(given) == given \o SetToSeq(profile)

\* faulty variant: memory that is there is not spared
MigratedAlways ==
    /\ claudeMd' = "none"
    /\ memory' = CASE claudeMd = "own"      -> "own"
                   [] claudeMd = "composed" -> "composed"
                   [] OTHER                 -> memory

\* migrateGroupsToClaudeLocal takes any CLAUDE.md for memory when there is no
\* CLAUDE.local.md
Migrated ==
    IF memory = "none" /\ claudeMd # "none"
    THEN claudeMd' = "none" /\ memory' = claudeMd
    ELSE UNCHANGED <<claudeMd, memory>>

-----------------------------------------------------------------------------
(* The host                                                                *)

\* syncWorkerProfiles appends the mounts of the profile, which are there already;
\* containers of the process before are stopped
HostStart ==
    /\ ~up
    /\ up' = TRUE
    /\ Migrated
    /\ mounts' = IF memory = "none" /\ claudeMd = "none" THEN mounts
                 ELSE WithProfile(mounts)
    /\ cached' = None
    /\ seen' = {file}
    /\ container' = [s \in Sessions |-> None]
    /\ UNCHANGED <<imports, frags, links, servers, around, owed, edits, crashes>>

\* shutdown or a crash; containers go on
Crash ==
    /\ up
    /\ crashes < MaxCrashes
    /\ up' = FALSE
    /\ crashes' = crashes + 1
    /\ container' = [s \in Sessions |->
           IF container[s] # None /\ container[s].at = "running" THEN container[s] ELSE None]
    /\ UNCHANGED <<group, around, cached, owed, seen, edits>>

\* create_worker: the instructions seed the memory, the profile the mounts
CreateGroup(text) ==
    /\ up
    /\ memory = "none" /\ claudeMd = "none"
    /\ memory' = Completed(text)
    /\ owed' = memory'
    /\ mounts' = WithProfile(<< >>)
    /\ UNCHANGED <<claudeMd, imports, frags, links, servers, around, up, cached, container,
                   seen, edits, crashes>>

Exists == memory # "none" \/ claudeMd # "none"

\* spawnContainer up to its await
Prepare(s) ==
    /\ up /\ Exists
    /\ container[s] = None
    /\ memory' = Completed("empty")
    /\ links' = WantedLinks
    /\ frags' = Wanted
    /\ claudeMd' = "composed"
    /\ imports' = Imports(memory')
    /\ cached' = IF mounts = << >> THEN cached ELSE Loaded
    /\ container' = [container EXCEPT ![s] =
           [at |-> "preparing", mounts |-> Granted(Loaded), twice |-> Doubled(Loaded),
            env |-> {}, own |-> {}]]
    /\ UNCHANGED <<mounts, servers, around, up, history>>

\* the host dies while it composes: fragments come and go one by one, CLAUDE.md is
\* replaced as a whole at the end
PrepareCut(s) ==
    /\ up /\ Exists
    /\ container[s] = None
    /\ crashes < MaxCrashes
    /\ memory' = Completed("empty")
    /\ links' = WantedLinks
    /\ frags' \in {frags \cap Wanted} \cup {(frags \cap Wanted) \cup {w} : w \in Wanted}
    /\ up' = FALSE
    /\ crashes' = crashes + 1
    /\ container' = [t \in Sessions |->
           IF container[t] # None /\ container[t].at = "running" THEN container[t] ELSE None]
    /\ UNCHANGED <<claudeMd, imports, mounts, servers, around, cached, owed, seen, edits>>

\* the gateway answers, or not, and docker starts the container unless two mounts have
\* one place
Start(s, applied) ==
    /\ up
    /\ container[s] # None /\ container[s].at = "preparing"
    /\ container' = [container EXCEPT ![s] =
           IF @.twice THEN None
           ELSE [@ EXCEPT !.at = "running",
                          !.own = Injected,
                          !.env = IF applied THEN {} ELSE Fallback(keys)]]
    /\ UNCHANGED <<group, around, up, cached, history>>

Exit(s) ==
    /\ container[s] # None /\ container[s].at = "running"
    /\ container' = [container EXCEPT ![s] = None]
    /\ UNCHANGED <<group, around, up, cached, history>>

-----------------------------------------------------------------------------
(* The agent and people                                                    *)

\* it writes or removes its memory
AgentRemembers(text) ==
    /\ "CLAUDE.local.md" \in Writable
    /\ \E s \in Sessions : container[s] # None /\ container[s].at = "running"
    /\ memory' = text
    /\ owed' = IF text = "none" THEN None ELSE text
    /\ UNCHANGED <<claudeMd, imports, frags, links, mounts, servers, around, up, cached,
                   container, seen, edits, crashes>>

Edit ==
    /\ edits < MaxEdits
    /\ edits' = edits + 1
    /\ UNCHANGED <<claudeMd, imports, memory, frags, links, mounts, keys, up, cached,
                   container, owed, crashes>>

EditAllowlist ==
    /\ Edit
    /\ file' \in (Files \cup {None, "broken"}) \ {file}
    /\ seen' = seen \cup {file'}
    /\ UNCHANGED <<servers, shipped, profile>>

EditSkills ==
    /\ Edit
    /\ shipped' \in {shipped \ {k} : k \in Skills} \ {shipped}
    /\ UNCHANGED <<servers, profile, file, seen>>

EditServers ==
    /\ Edit
    /\ servers' \in {servers \cup {v} : v \in Servers} \ {servers}
    /\ UNCHANGED <<shipped, profile, file, seen>>

EditProfile ==
    /\ Edit
    /\ profile' \in SUBSET Requests \ {profile}
    /\ UNCHANGED <<servers, shipped, file, seen>>

Next ==
    \/ HostStart \/ Crash
    \/ \E text \in {"empty", "seed"} : CreateGroup(text)
    \/ \E s \in Sessions : \/ Prepare(s) \/ PrepareCut(s) \/ Exit(s)
                           \/ \E applied \in BOOLEAN : Start(s, applied)
    \/ \E text \in {"agent", "none"} : AgentRemembers(text)
    \/ EditAllowlist \/ EditSkills \/ EditServers \/ EditProfile

Spec == Init /\ [][Next]_vars

-----------------------------------------------------------------------------
(* Properties                                                              *)

\* in CLAUDE.local.md, or still in the CLAUDE.md of before the cutover
MemoryKept ==
    \/ owed = None
    \/ memory = owed
    \/ owed = "own" /\ claudeMd = "own" /\ memory = "none"

\* what CLAUDE.md imports is there for a container that is about to start
ImportsResolve ==
    (\E s \in Sessions : container[s] # None /\ container[s].at = "preparing")
        => imports \subseteq frags \cup {"shared", "memory"}

\* What an agent group remembers is neither lost nor replaced by a composed file, and
\* a container starts with a CLAUDE.md that is whole, whatever restarts cut short. Only
\* an agent that removes its memory gives it up (claude-md-compose.ts, group-init.ts).
GroupFilesHold == MemoryKept /\ ImportsResolve

\* A mount lies under an existing root of an allowlist that was on disk while this host
\* ran, and is written to only where such a root and the mount both say so.
MountsWithin(given) ==
    \A m \in given : \E list \in seen \cap Files : \E i \in DOMAIN Roots[list] :
        LET root == Roots[list][i] IN
        /\ RealPath[root.path] # None
        /\ Under(m.path, RealPath[root.path])
        /\ m.write => root.write /\ \E r \in Requests : Wants[r].write /\ Wants[r].at = m.at

\* The host passes no API key on beside a subscription's token, over which the SDK would
\* take it; what the user's own credential files set is not looked at.
OneCredential(given) == ~({"api key", "oauth"} \subseteq given)

\* Whatever was edited, cached or restarted in between, a container is given no mount
\* and no credential beyond what it was allowed (mount-security, container-runner.ts).
GrantsAreAllowed ==
    \A s \in Sessions : container[s] # None =>
        MountsWithin(container[s].mounts) /\ OneCredential(container[s].env)
=============================================================================
