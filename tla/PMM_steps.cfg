\* Requests of none to three pages mixed, two callers under one lock.
CONSTANTS
  c1 = c1
  c2 = c2
  lock = lock
  Nobody = Nobody
  Clients = {c1, c2}
  Locks = {lock}
  LockOf <- MCLockOf
  Runs = {0, 1, 2, 3}
  MemMaps <- MCMaps
  EntriesPerPage = 4
SPECIFICATION Spec
CONSTRAINT PagesBounded
INVARIANTS
  CountersAtRest
PROPERTY ImplementsPMMClients
