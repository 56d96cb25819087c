\* Does an interrupted printf go on?
CONSTANTS
  c1 = c1
  c2 = c2
  Cpus = {c1}
  Programs <- OneCpu
  Report = 1
  Interrupts = 1
  BufferSize = 3
SPECIFICATION FairSpec
PROPERTY InterruptsAreIgnored
\* The programs end.
CHECK_DEADLOCK FALSE
