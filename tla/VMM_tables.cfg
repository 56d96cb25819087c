\* Two threads that map, unmap and look up while memory runs out.
CONSTANTS
  t1 = t1
  t2 = t2
  Threads <- MCThreads
  Index <- MCIndex
  Virts <- MCVirts
  Own <- MCOwn
  MemMaps <- MCMaps
  EntriesPerPage = 8
SPECIFICATION FairSpec
VIEW LiveView
INVARIANTS
  TypeOK
  TablesFormATree
  WalksStayOnTables
  NoPageLost
  MappingsAreOwned
PROPERTIES
  TablesOnlyGrow
  ImplementsAddressSpace
  LockIsReleased
