SPECIFICATION FairSpec

CONSTANTS
    s1 = s1
    s2 = s2
    None = None
    Series = {s1}
    MaxRuns = 2
    MaxFaults = 0
    Commands = {"pause", "resume"}

PROPERTIES
    PausedDoesNotRun
