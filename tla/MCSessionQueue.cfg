SPECIFICATION Spec

CONSTANTS
    m1 = m1
    m2 = m2
    b1 = b1
    b2 = b2
    None = None
    Msgs = {m1, m2}
    Boxes = {b1, b2}
    Kinds = {"chat", "clear", "system", "task"}
    PromptCap = 2
    MaxTries = 1
    Faults = {"crash", "hang", "spawn", "host", "kill", "ceiling", "stray"}
    MaxFaults = 1

SYMMETRY BoxSymmetry

INVARIANTS
    OnlyTrackedRuns
    ClaimsAreOwned
    NothingSilentlyDropped
PROPERTIES
    OncePerContainer
    BackoffRespected
