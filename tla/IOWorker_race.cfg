CONSTANTS
  NR_MAX_PARALLEL_IO = 3
  MaxReqs = 5
  MaxTime = 0
  PromptWorker = FALSE
CHECK_DEADLOCK FALSE
SPECIFICATION Spec
INVARIANTS
  UpdatedAtOnce
