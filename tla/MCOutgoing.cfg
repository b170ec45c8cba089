SPECIFICATION Spec
CONSTANTS
    MaxSeq=7
    MaxTurns=2
    None=None
INVARIANTS RepliesOnce
CHECK_DEADLOCK FALSE
