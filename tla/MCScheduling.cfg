SPECIFICATION FairSpec

CONSTANTS
    s1 = s1
    s2 = s2
    None = None
    Series = {s1, s2}
    MaxRuns = 2
    MaxFaults = 1
    Commands = {"oneshot", "cancel", "pause", "resume", "update"}

INVARIANTS
    OneToken
    SeriesSurvives
    CancelFinal
    NoOverlap
PROPERTIES
    SeriesGoesOn
