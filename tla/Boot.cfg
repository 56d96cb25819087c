\* The boot, with enough memory and with too little.
CONSTANTS
  MemMaps <- MCMaps
  EntriesPerPage = 8
  Unaligned <- MCUnaligned
  Fanout = 8
  l_pageCount = 2
  _hhdm_offset = 512
  kernel_virt = 1024
  kernel_phys = 17
  text <- MCText
  rodata <- MCRodata
  data <- MCData
SPECIFICATION FairSpec
INVARIANTS
  TypeOK
  EntriesKeepTheirFlags
  TablesArePaidFor
  BootsExactlyWhenItCan
  LostOnlyOnOwnMap
PROPERTY BootEnds
\* The boot comes to an end.
CHECK_DEADLOCK FALSE
