SPECIFICATION Spec
CHECK_DEADLOCK FALSE
CONSTANTS
  Cases <- Unsafe
  Junks <- MCJunks
  Fuel = 1500
INVARIANT CompiledFaithfully
