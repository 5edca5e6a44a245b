CONSTANTS
  NR_MAX_PARALLEL_IO = 4
  MaxReqs = 5
  MaxTime = 1
  PromptWorker = TRUE
CHECK_DEADLOCK FALSE
SPECIFICATION FairSpec
INVARIANTS
  ChainsIntact
  CompletedOnce
PROPERTY
  AcceptedCompletes
