\* Exceptions of every kind, two IRQs and a vector without a gate, three deep.
CONSTANTS
  Vectors = {3, 14, 17, 32, 33, 128}
  Handlers = {"h"}
  Chains <- MCChains
  MaxLevel = 3
SPECIFICATION FairSpec
INVARIANTS
  FrameIsTrue
  NoWildCall
PROPERTIES
  ContextIsRestored
  FatalHalts
\* A fatal exception stops the CPU.
CHECK_DEADLOCK FALSE
