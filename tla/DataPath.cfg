SPECIFICATION Spec
CONSTANTS
    SQs = {q1, q2}
    Depth = 3
    Lbas = {0, 1}
    Extents <- MCExtents
    MaxCmds = 4
    MaxDeletes = 1
    MaxRefused = 1
    PromptCopy = TRUE
SYMMETRY Interchangeable
PROPERTY ReadsCurrent
CHECK_DEADLOCK FALSE
