\* Single-page requests, as vmm.c makes them, over every memory map.
CONSTANTS
  c1 = c1
  c2 = c2
  c3 = c3
  Clients <- MCClients
  Runs = {0, 1}
  MemMaps <- MCMaps
  EntriesPerPage = 4
SPECIFICATION Spec
INVARIANTS
  TypeOK
  Partition
  ArrayIsReserved
  BootFailsOnlyOnFragments
  Accounting
  AssertsHold
PROPERTY ImplementsPageAllocator
\* A faulted boot stops, and a kernel without clients' requests left is at rest.
CHECK_DEADLOCK FALSE
