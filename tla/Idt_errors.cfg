\* The two exceptions whose error code the stubs do not expect.
CONSTANTS
  Vectors = {21, 29}
  Handlers = {"h"}
  Chains <- MCChains
  MaxLevel = 1
SPECIFICATION Spec
INVARIANT ErrorCodeIsInFrame
\* A fatal exception stops the CPU.
CHECK_DEADLOCK FALSE
