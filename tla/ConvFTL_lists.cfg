SPECIFICATION Spec
CONSTANTS
  l1 = l1
  l2 = l2
  l3 = l3
  l4 = l4
  l5 = l5
  l6 = l6
  Lines <- SixLines
  InitialFree <- SixFree
  PgsPerLine = 2
  LPNs = {p1,p2,p3}
  Blocks <- TwoPagesBlocks
  BlockOf <- TwoPagesBlockOf
  GCOrder <- TwoPagesGCOrder
  GcThresLinesHigh = 2
  CreditMod = 64
  UNMAPPED_PPA = UNMAPPED_PPA
  INVALID_LPN = INVALID_LPN
  NULL = NULL
SYMMETRY Symmetric
INVARIANTS
  MappingExact
  LineLists
  ErasedPagesInPlace
  CountersExact
  NeverOutOfLines
PROPERTY FlashDiscipline
