SPECIFICATION FairSpec

CONSTANTS
    m1 = m1
    m2 = m2
    m3 = m3
    s1 = s1
    s2 = s2
    None = None
    Msgs = {m1, m2}
    Sessions = {s1}
    SessionOf <- SessionOfMC
    Kinds = {"chat", "unrouted"}
    MaxAttempts = 2
    MaxRestarts = 1
    Faults = {"reject", "ambiguous", "denied", "db"}

PROPERTIES
    ImplementsOutbox
