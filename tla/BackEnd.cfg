SPECIFICATION Spec
CHECK_DEADLOCK FALSE
CONSTANTS
  Cases <- MCCases
  Junks <- MCJunks
  Fuel = 1500
INVARIANTS ImmediatesFit SlotsApart CompiledFaithfully
