SPECIFICATION MCSpec
CONSTANTS
  NrParts = 2
  LunsPerPart = 1
  SecsPerPg = 2
  PgsPerOneshot = 2
  PgsPerFlashpg = 2
  BufSize = 7
  MaxNr = 3
  MaxRead = 3
  RdLat = 1
  WrLat = 1
  ErLat = 2
  MaxDelay = 1
  MaxAhead = 1
  MaxLate = 1
  MaxGained = 1
  MaxLost = 4
  Lines <- MCLines
  InitialFree <- MCFree
  PgsPerLine = 2
  LPNs = {p1, p2}
  Blocks <- MCBlocks
  BlockOf <- MCBlockOf
  GCOrder <- MCGCOrder
  GcThresLinesHigh = 2
  CreditMod = 64
  UNMAPPED_PPA = UNMAPPED_PPA
  INVALID_LPN = INVALID_LPN
  NULL = NULL
  NrWorkers = 3
INVARIANTS
  WriteBufferBalance
  AcksCoverPrograms
  ReadWhole
  ObjectsOutliveUsers
PROPERTIES
  SpaceReturns
  WriteEnds
  UnloadEnds
CHECK_DEADLOCK FALSE
