\* One caller that fragments up to three majors and gives them back.
CONSTANTS
  t1 = t1
  t2 = t2
  Threads = {t1}
  Requests <- Fractions
  MaxBlocks = 3
  Careless = FALSE
  Products = {21800}
  Sites <- ThreeSites
  MajorHeader = 40
  MinorHeader = 40
  ALIGNMENT = 16
  ALIGN_INFO = 16
  l_pageSize = 4096
  l_pageCount = 16
SPECIFICATION FairSpec
INVARIANTS
  TypeOK
  MajorsFormAList
  BlocksAreInOrder
PROPERTIES
  GrowsOnlyWhenFull
  LockIsReleased
\* After a fault nothing runs.
CHECK_DEADLOCK FALSE
