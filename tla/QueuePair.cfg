SPECIFICATION FairSpec
CONSTANTS
    SQs = {q1, q2}
    Owner = q1
    Size = 3
    MaxCmds = 3
INVARIANTS UnreadWindow EachInOnePlace
PROPERTY EveryCommandRead
CHECK_DEADLOCK FALSE
