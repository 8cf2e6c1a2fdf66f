\* An if, a while and an if in a while, with phis that read each other.
SPECIFICATION Spec
CONSTANTS
  Block <- MCBlock
  Data <- MCData
  Functions <- MCFunctions
CHECK_DEADLOCK FALSE
INVARIANTS
  UseListsExact
PROPERTIES
  Implements
