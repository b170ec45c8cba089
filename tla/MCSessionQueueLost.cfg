SPECIFICATION Spec

CONSTANTS
    m1 = m1
    m2 = m2
    b1 = b1
    b2 = b2
    None = None
    Msgs = {m1, m2}
    Boxes = {b1, b2}
    Kinds = {"chat"}
    PromptCap = 2
    MaxTries = 1
    Faults = {"crash"}
    MaxFaults = 1

SYMMETRY BoxSymmetry

PROPERTIES
    KilledWorkIsRetried
