\* Two callers that contend for one heap, and free some blocks twice.
CONSTANTS
  t1 = t1
  t2 = t2
  Threads = {t1, t2}
  Requests <- Thirds
  MaxBlocks = 2
  Careless = TRUE
  Products = {21760}
  Sites <- TwoSites
  MajorHeader = 40
  MinorHeader = 40
  ALIGNMENT = 16
  ALIGN_INFO = 16
  l_pageSize = 4096
  l_pageCount = 16
SPECIFICATION Spec
SYMMETRY Symmetry
INVARIANTS
  OwnersHaveTheirBlocks
  CopyStaysInside
  CountersAreExact
PROPERTY ImplementsHeapRegions
\* After a fault nothing runs.
CHECK_DEADLOCK FALSE
