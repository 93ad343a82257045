SPECIFICATION Spec
CONSTANTS
  Functions <- MCFunctions
  Fuel = 30
INVARIANTS
  SameOutputs
  StaysValid
  LiveIsKept
CHECK_DEADLOCK FALSE
