SPECIFICATION MCSpec
CONSTANTS
  Geometries <- MCGeometries
  Lines = {l1,l2,l3,l4,l5}
  PgsPerLine = 3
  NULL = NULL
  NR_CREDIT_ENTRIES = 4
  MaxCredits = 2
  MaxUnits = 5
  Wrap = 8
  MaxPause = 7
  nr_io_units = 3
  Latencies <- MCLatencies
  MaxLen = 4
  MaxBusy = 5
  PAGE_SIZE = 4
  MaxLength = 12
  NrFrames = 4
SYMMETRY Interchangeable
INVARIANTS
  WriteOrderExact
  CleanedThenErased
  FlushCovers
  BufferExact
PROPERTIES
  ImplementsVictimSet
  ImplementsCalendar
CHECK_DEADLOCK FALSE
