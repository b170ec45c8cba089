SPECIFICATION SystemSpec

CONSTANTS
    None = None
    MaxRestarts = 1

    c1 = c1
    a1 = a1
    a2 = a2
    u1 = u1
    boss = boss
    t1 = t1
    m1 = m1
    m2 = m2
    f1 = f1
    f2 = f2
    Chats = {c1}
    Agents = {a1, a2}
    Users = {u1, boss}
    Threads = {t1}
    Msgs = {m1, m2}
    Flows = {f1, f2}
    Threaded = {c1}
    Groups = {c1}
    Policies = {"strict", "request_approval", "public"}
    Target = a1
    MaxArrivals <- MCArrivals
    Event <- MCEvent
    Priority <- MCPriority
    Privileged <- MCPrivileged
    Setups <- MCSetups

    Names = {w}
    Folders = {g1, g2}
    Chans = {h1, h2}
    Callers = {s1, s2}
    Backends = {claude}
    Shimmed = {neuralwatt}
    MaxJobs = 4

    Installs = {i1}
    Servers = {mcp1}
    Credentials = {cred1}
    Clicks = {p1, p2}
    MaxAsked = 2

    Prompts = {r1}
    k1 = k1
    k2 = k2
    ToolCalls = {k1, k2}
    Histories <- MCHistories
    MaxChunks = 4

    MaxSeq = 5
    MaxTurns = 1

    Ticks = {tick1, tick2}
    Ids = {n1, n2}

    Offered = {"telegram", "discord", "whatsapp", "signal", "slack", "imessage", "teams", "skip"}
    MaxRetries = 1
    Undoable = {"image"}
    MachinesFound <- MCMachines
    LeftOut <- MCLeftOut

    Handlers = {d1, d2}
    Entries = {e1}
    Ttl = 1
    MaxNow = 3
    MaxTokens = 3
    MaxSize = 2

    x1 = x1
    x2 = x2
    Incoming <- MCIncoming
    Replies = {x1, x2}
    Pieces <- MCPieces
    MaxTries = 2
    MaxPosts = 6

    MaxRows = 4
    MaxSessions = 3
    MaxCrashes = 2

    Skills = {k}
    Personal = {personal}
    q1 = q1
    q2 = q2
    GroupSessions = {session}
    MountRequests = {q1, q2}
    MountWants <- MCMountWants
    PathsFound <- MCPaths
    Lists = {"open", "tight"}
    AllowedRoots <- MCRoots
    KeysFound <- MCKeys
    KeyFiles <- MCKeyFiles
    MaxHostCrashes = 1
    MaxEdits = 2

    Shown = {y1, y2}
    MaxWakes = 2
    NumEmojis = 2
    MaxBeats = 2

SYMMETRY MCSymmetry

INVARIANTS
    NoTurnForStrangers
    CardsMatchRows
    NothingVanishes
    DroppedIsReplayed
    ReleasedInTime
    AgentIsTold
    CleanupSpares
    OneChannel
    PromiseKept
    LeftoversAreFound
    KeepsShape
    NumbersResolve
    CurrentStaysPinned
    ReadyMeansDone
    OneHolder
    IdHeadsTheCopy
    ClearForgets
    GroupFilesHold
    GrantsAreAllowed
    NothingLeftBehind

CHECK_DEADLOCK FALSE
