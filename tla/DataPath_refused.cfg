SPECIFICATION Spec
CONSTANTS
    SQs = {q1, q2}
    Depth = 3
    Lbas = {0, 1}
    Extents <- MCExtents
    MaxCmds = 2
    MaxDeletes = 1
    MaxRefused = 1
    PromptCopy = TRUE
INVARIANT RefusedLeavesData
CHECK_DEADLOCK FALSE
