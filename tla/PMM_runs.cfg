\* Requests of one and two pages mixed, as vmm.c and liballoc make them.
CONSTANTS
  c1 = c1
  c2 = c2
  c3 = c3
  Clients <- MCClients
  Runs = {1, 2}
  MemMaps <- TwoRegions
  EntriesPerPage = 4
SPECIFICATION Spec
INVARIANT GrantsAreRuns
