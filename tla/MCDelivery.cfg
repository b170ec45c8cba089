SPECIFICATION Spec

CONSTANTS
    m1 = m1
    m2 = m2
    m3 = m3
    s1 = s1
    s2 = s2
    None = None
    Msgs = {m1, m2}
    Sessions = {s1}
    SessionOf <- SessionOfMC
    Kinds = {"chat", "question", "unrouted"}
    MaxAttempts = 2
    MaxRestarts = 1
    Faults = {"reject", "ambiguous", "denied", "noadapter", "db"}

INVARIANTS
    EffectsAccounted
    CardsAnswerable
    AnsweredOnce

PROPERTIES
    InOrder
    KeepsPromise
