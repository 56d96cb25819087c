\* The test at the end of olive_entry: kmalloc(1), then kfree.
CONSTANTS
  t1 = t1
  Threads = {t1}
  Requests = {1}
  MaxBlocks = 1
  Careless = FALSE
  MajorHeader = 40
  MinorHeader = 40
  ALIGNMENT = 16
  ALIGN_INFO = 16
  l_pageSize = 4096
  l_pageCount = 16
  MemMaps <- MCMaps
  EntriesPerPage = 512
  _hhdm_offset = 409600
SPECIFICATION OliveSpec
INVARIANT FreedPagesArePhysical
CHECK_DEADLOCK FALSE
