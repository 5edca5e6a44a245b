SPECIFICATION FairSpec
CONSTANTS
    IOQs = {1}
    Depth = 3
    MaxBoots = 2
    MaxCmds = 4
    MaxIo = 1
    Ops = {"features", "create_cq", "create_sq", "delete_sq", "delete_cq", "abort"}
    AdjacentReads = TRUE
INVARIANTS ReadyMeansConfigured AdminAccounted QueuesUsable
PROPERTIES StartSucceeds EveryAdminAnswered
CHECK_DEADLOCK FALSE
