\* Two CPUs print, one of them calls puts, and one interrupt comes on each.
CONSTANTS
  c1 = c1
  c2 = c2
  Cpus = {c1, c2}
  Programs <- TwoCpus
  Report = 1
  Interrupts = 1
  BufferSize = 3
SPECIFICATION FairSpec
INVARIANTS
  TypeOK
  SinksAgree
  OutputIsComplete
PROPERTY CallsReturn
\* The programs end.
CHECK_DEADLOCK FALSE
